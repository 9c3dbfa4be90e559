------------------------------ MODULE Session ------------------------------
(***************************************************************************)
(* The session manager of the SNS service (sns/controllers/snscommon/      *)
(* sessionmanager.go) and the pages that use it (web/usercheck.go,         *)
(* usermanager.go, pageController.go).                                     *)
(*                                                                         *)
(* The session store keeps, per browser session, the account it belongs    *)
(* to.  A cache keeps, per account, the one session id that logged in as   *)
(* it; before every page the two are compared.  The server handles         *)
(* requests concurrently, also those of one browser session, and every     *)
(* call into either store is atomic by itself and nothing more: a request  *)
(* is therefore a sequence of steps, one per call.                         *)
(***************************************************************************)
EXTENDS Naturals, FiniteSets

CONSTANTS Visit,   \* the requests, each handled once
          Sid,     \* the browser sessions
          Account, \* the e-mail accounts
          Nobody   \* no account, no session, no entry

ASSUME NobodyAssumption == Nobody \notin Account \cup Sid

VARIABLES
  emailAccount, \* the session store: [Sid -> Account or Nobody]
  bm,           \* the cache: [Account -> Sid or Nobody]
  pc,           \* per request: see VisitState
  kind,         \* what it asks for: "page", "logout", "login"; or "register",
                \* "activate", which are the business of Registration
  sid,          \* the session it belongs to
  acct,         \* its local emailAccount, or the account to log in as
  logins        \* per account, the sessions a login as it has saved

sessionVars == <<emailAccount, bm, pc, kind, sid, acct, logins>>

VisitState ==
  {"idle",
   "read", "exist", "get", "put", "drop",  \* SessionNoUser
   "name", "clear", "delete",              \* the logout page
   "save",                                 \* a login, the session set
   "ok", "refused", "panic",
   "other"}                                \* in Registration

SessionInit ==
  /\ emailAccount = [s \in Sid |-> Nobody] /\ bm = [a \in Account |-> Nobody]
  /\ pc = [r \in Visit |-> "idle"] /\ kind = [r \in Visit |-> "page"]
  /\ sid \in [Visit -> Sid]
  /\ acct = [r \in Visit |-> Nobody]
  /\ logins = [a \in Account |-> {}]

Goto(r, label) == pc' = [pc EXCEPT ![r] = label]

-----------------------------------------------------------------------------
(* Any page but /user/login starts with SessionNoUser (Prepare, and Login  *)
(* of snsepauth.go); when it says no the page is not run.                  *)
Open(r) ==
  /\ pc[r] = "idle"
  /\ \E k \in {"page", "logout"} : kind' = [kind EXCEPT ![r] = k]
  /\ Goto(r, "read")
  /\ UNCHANGED <<emailAccount, bm, sid, acct, logins>>

Pass(r) == IF kind[r] = "logout" THEN "name" ELSE "ok"

ReadAccount(r) ==
  /\ pc[r] = "read"
  /\ acct' = [acct EXCEPT ![r] = emailAccount[sid[r]]]
  /\ Goto(r, IF emailAccount[sid[r]] = Nobody THEN "refused" ELSE "exist")
  /\ UNCHANGED <<emailAccount, bm, kind, sid, logins>>

IsExist(r) ==
  /\ pc[r] = "exist"
  /\ Goto(r, IF bm[acct[r]] = Nobody THEN Pass(r) ELSE "get")
  /\ UNCHANGED <<emailAccount, bm, kind, sid, acct, logins>>

(* Mutants: an entry that has gone is taken for a different one; the ids   *)
(* are not compared.                                                       *)
GetLenient(r) ==
  /\ pc[r] = "get"
  /\ Goto(r, IF bm[acct[r]] = sid[r] THEN "put" ELSE "drop")
  /\ UNCHANGED <<emailAccount, bm, kind, sid, acct, logins>>

GetTrusting(r) ==
  /\ pc[r] = "get"
  /\ Goto(r, IF bm[acct[r]] = Nobody THEN "panic" ELSE "put")
  /\ UNCHANGED <<emailAccount, bm, kind, sid, acct, logins>>

(* The entry may be gone by now: its type assertion then panics.           *)
Get(r) ==
  /\ pc[r] = "get"
  /\ Goto(r, IF bm[acct[r]] = Nobody THEN "panic"
             ELSE IF bm[acct[r]] = sid[r] THEN "put" ELSE "drop")
  /\ UNCHANGED <<emailAccount, bm, kind, sid, acct, logins>>

Put(r) ==
  /\ pc[r] = "put"
  /\ bm' = [bm EXCEPT ![acct[r]] = sid[r]]
  /\ Goto(r, Pass(r))
  /\ UNCHANGED <<emailAccount, kind, sid, acct, logins>>

Drop(r) ==
  /\ pc[r] = "drop"
  /\ emailAccount' = [emailAccount EXCEPT ![sid[r]] = Nobody]
  /\ Goto(r, "refused")
  /\ UNCHANGED <<bm, kind, sid, acct, logins>>

-----------------------------------------------------------------------------
(* UserLogout reads the account again, for the name of the entry.          *)
ReadName(r) ==
  /\ pc[r] = "name"
  /\ acct' = [acct EXCEPT ![r] = emailAccount[sid[r]]]
  /\ Goto(r, "clear")
  /\ UNCHANGED <<emailAccount, bm, kind, sid, logins>>

DelSession(r) ==
  /\ pc[r] = "clear"
  /\ emailAccount' = [emailAccount EXCEPT ![sid[r]] = Nobody]
  /\ Goto(r, "delete")
  /\ UNCHANGED <<bm, kind, sid, acct, logins>>

Delete(r) ==
  /\ pc[r] = "delete"
  /\ bm' = [a \in Account |-> IF a = acct[r] THEN Nobody ELSE bm[a]]
  /\ Goto(r, "ok")
  /\ UNCHANGED <<emailAccount, kind, sid, acct, logins>>

-----------------------------------------------------------------------------
(* A login that found its account: the session is set, then the entry.     *)
Login(r, a) ==
  /\ pc[r] = "idle"
  /\ kind' = [kind EXCEPT ![r] = "login"] /\ acct' = [acct EXCEPT ![r] = a]
  /\ emailAccount' = [emailAccount EXCEPT ![sid[r]] = a]
  /\ Goto(r, "save")
  /\ UNCHANGED <<bm, sid, logins>>

(* The id is that of the request's cookie: without one nothing is saved.   *)
Save(r) ==
  /\ pc[r] = "save"
  /\ \/ /\ bm' = [bm EXCEPT ![acct[r]] = sid[r]]
        /\ logins' = [logins EXCEPT ![acct[r]] = @ \cup {sid[r]}]
     \/ UNCHANGED <<bm, logins>>
  /\ Goto(r, "ok")
  /\ UNCHANGED <<emailAccount, kind, sid, acct>>

-----------------------------------------------------------------------------
(* An entry expires three hours after it was last put.                     *)
Expire(a) ==
  /\ bm[a] # Nobody
  /\ bm' = [bm EXCEPT ![a] = Nobody]
  /\ UNCHANGED <<emailAccount, pc, kind, sid, acct, logins>>

Check(r) == Open(r) \/ ReadAccount(r) \/ IsExist(r) \/ Get(r) \/ Put(r) \/ Drop(r)
Logout(r) == ReadName(r) \/ DelSession(r) \/ Delete(r)

SessionNext ==
  \/ \E r \in Visit : Check(r) \/ Logout(r) \/ Save(r) \/ \E a \in Account : Login(r, a)
  \/ \E a \in Account : Expire(a)

-----------------------------------------------------------------------------
(* Properties                                                              *)

SessionTypeOK ==
  /\ emailAccount \in [Sid -> Account \cup {Nobody}]
  /\ bm \in [Account -> Sid \cup {Nobody}]
  /\ pc \in [Visit -> VisitState]
  /\ kind \in [Visit -> {"page", "logout", "login", "register", "activate"}]
  /\ sid \in [Visit -> Sid]
  /\ acct \in [Visit -> Account \cup {Nobody}]
  /\ logins \in [Account -> SUBSET Sid]
  /\ \A r \in Visit : pc[r] \in {"exist", "get", "put", "drop", "save"} => acct[r] # Nobody

(* The entry of an account is a session that logged in as that account,    *)
(* whatever logs in, out and is checked at the same time: the checks,      *)
(* which put entries too (sessionmanager.go:89), never promote a session   *)
(* that has gone over to another account since they read it.               *)
EntryLoggedIn == \A a \in Account : bm[a] # Nobody => bm[a] \in logins[a]

(* A session is thrown out (sessionmanager.go:91) only when another one    *)
(* logged in as its account: neither its own logins and logouts in         *)
(* parallel requests nor an entry that expires does that.                  *)
RefusedOnlyIfReplaced ==
  \A r \in Visit : pc[r] = "drop" => \E s \in logins[acct[r]] : s # sid[r]

(* "save session id ;update time" (sessionmanager.go:29): the id a login   *)
(* saved stays the one of the account until another login saves its own,   *)
(* a logout deletes it or it expires; a check only renews the time.        *)
LoginStays ==
  [][\A a \in Account : bm[a] # Nobody /\ bm'[a] \notin {bm[a], Nobody} =>
       \E r \in Visit : pc[r] = "save" /\ acct[r] = a /\ bm'[a] = sid[r]]_sessionVars
=============================================================================
