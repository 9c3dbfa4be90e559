------------------------------- MODULE MCPages -------------------------------
(* Instances for TLC of what the SNS service does beside its messages:     *)
(* FileStore, Conf and Registration with the pages of Session.  They share *)
(* nothing: there are uploads, or a configuration file that is read, or    *)
(* other visits.                                                           *)
(*                                                                         *)
(* Forms of one and of two fields, with a name that occurs twice in one    *)
(* field and in two, names with the separator and with a character the     *)
(* route does not admit, and a part that cannot be read.  Files of five    *)
(* lines, as the shortest that sets the run mode and a key in both         *)
(* sections has.                                                           *)
EXTENDS FileStore, Conf, Registration

CONSTANTS a, blank, x, y, z, test, k, s1

Sent(name, content) == [name |-> name, content |-> content, opens |-> TRUE]
Unreadable(name) == [Sent(name, <<z>>) EXCEPT !.opens = FALSE]

MCForms ==
  {<< <<Sent(<<a>>, <<x>>)>> >>,
   << <<Sent(<<a>>, <<y, y>>), Sent(<<a>>, <<x>>)>>, <<Sent(<<a, Sep, a>>, <<z>>)>> >>,
   << <<Unreadable(<<a>>), Sent(<<blank>>, <<x>>)>>, <<Sent(<<a>>, <<y, y>>)>> >>,
   << <<Sent(<<a>>, <<z>>)>>, <<Sent(<<a>>, <<x, y>>), Sent(<<Sep, a>>, <<x>>)>> >>}

Header(s) == [hash |-> FALSE, name |-> s, key |-> NoName, value |-> <<>>]
Entry(key, value) == [hash |-> FALSE, name |-> NoHeader, key |-> key, value |-> value]

MCLines ==
  {Header(Default), Header(test), Header(NoName),
   Entry(RunMode, <<test>>), Entry(RunMode, <<test, " #", x>>),
   Entry(k, <<x, " //", test, "\t#">>), Entry(k, <<test, x>>), Entry(k, <<>>),
   [Entry(k, <<x>>) EXCEPT !.name = test],
   [Entry(k, <<test>>) EXCEPT !.hash = TRUE]}

NoUploads == [u \in Request |-> <<>>]

MCForm == MCForms \cup {<<>>}
MCConfFiles == [1 .. 5 -> MCLines] \cup {<<>>}

(* What there is: "uploads", "conf" or "visits".                           *)
Part == IF form # NoUploads THEN "uploads" ELSE IF file # <<>> THEN "conf" ELSE "visits"

MCInit ==
  /\ Init /\ ConfInit /\ PagesInit
  /\ file # <<>> => form = NoUploads
  /\ Part # "visits" => sid = [r \in Visit |-> s1]
MCNext == \/ Part = "uploads" /\ Next /\ UNCHANGED <<confVars, pageVars>>
          \/ Part = "conf" /\ ReadLine /\ UNCHANGED <<vars, pageVars>>
          \/ Part = "visits" /\ PagesNext /\ UNCHANGED <<vars, confVars>>
MCSpec == MCInit /\ [][MCNext]_<<vars, confVars, pageVars>>
=============================================================================
