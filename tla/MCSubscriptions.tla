-------------------------- MODULE MCSubscriptions --------------------------
(* Instances of Subscriptions for TLC: one office with a row; s1 has a     *)
(* resource id that leads back to it, s2 one that contains no "." and no   *)
(* "@", as the ids of the calendar service do.                             *)
EXTENDS Subscriptions

CONSTANTS d1, guid, s1, s2

MCDomain == {d1, guid}
MCTable == {[id |-> 1, domain |-> d1, token |-> d1, status |-> CREATED]}
MCOfficeId == [s \in Sub |-> 1]
MCResourceId ==
  [s \in Sub |->
     IF s = s1 THEN [dotted |-> TRUE, sub |-> {s1}, rest |-> guid]
     ELSE [dotted |-> FALSE, sub |-> {s2}, rest |-> guid]]
=============================================================================
