---------------------------- MODULE OfficeTable ----------------------------
(***************************************************************************)
(* The table office_app of the office application (officeapp/models/       *)
(* office_models.go) and the single statements the program runs against    *)
(* it.  A statement is atomic (MySQL, autocommit: the program opens no     *)
(* transaction); what is made of several statements, InsertOrUpdateOffice, *)
(* is therefore made of several steps in the modules that use this one.    *)
(*                                                                         *)
(* Of a row the model keeps the primary key, the unique column domain, the *)
(* status, and of access_token whose tenant it was issued for.  The column *)
(* tenant always belongs to the same office as domain and is identified    *)
(* with it.                                                                *)
(***************************************************************************)
EXTENDS Naturals

CONSTANTS Domain,   \* the domains of the offices
          NoDomain  \* the empty string: the domain of a zero OfficeApp

ASSUME NoDomainAssumption == NoDomain \notin Domain

Key == Domain \cup {NoDomain}

(* The status constants, and 0: the status of an OfficeApp nobody set.     *)
UNSET   == 0
CREATED == 1
DELETED == 3
Status  == {UNSET, CREATED, DELETED}

OfficeApp == [id : Nat, domain : Key, token : Key, status : Status]

(* The zero value of the struct, what a failed QueryRow leaves behind.     *)
ZeroOffice == [id |-> 0, domain |-> NoDomain, token |-> NoDomain, status |-> UNSET]

(* select * from office_app where domain = d                               *)
RowsOf(table, d) == {row \in table : row.domain = d}

(* o.Delete(&last): by primary key                                         *)
WithoutRow(table, id) == {row \in table : row.id # id}

(* Mutant: an update by primary key, which finds no row that was deleted.  *)
UpdatedById(table, office, newId) ==
  {IF row.id = office.id THEN office ELSE row : row \in table}

(* Mutant: a row that is not there any more comes back under its old id.   *)
UpsertedKeepingId(table, office, newId) ==
  IF RowsOf(table, office.domain) = {}
  THEN table \cup {IF office.id = 0 THEN [office EXCEPT !.id = newId] ELSE office}
  ELSE {IF row.domain = office.domain THEN [office EXCEPT !.id = row.id] ELSE row
          : row \in table}

(* o.InsertOrUpdate: INSERT ... ON DUPLICATE KEY UPDATE.  The automatic key *)
(* is never among the columns, so that a row which is not there any more    *)
(* comes back under a new id, whatever id the struct carries.               *)
Upserted(table, office, newId) ==
  IF RowsOf(table, office.domain) = {}
  THEN table \cup {[office EXCEPT !.id = newId]}
  ELSE {IF row.domain = office.domain THEN [office EXCEPT !.id = row.id] ELSE row
          : row \in table}
=============================================================================
