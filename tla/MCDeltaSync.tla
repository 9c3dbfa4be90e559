---------------------------- MODULE MCDeltaSync ----------------------------
(* Instances of Notification for TLC: all resources of up to five          *)
(* characters, one of them three bytes wide and two of them "/Events", as  *)
(* the first of a body and, some of them, before a second; bodies without  *)
(* a change and some with a token.  The user u has any calendar of up to   *)
(* three pages of up to two changes, whose lists hold none to three; an    *)
(* array is made for two at least, where Go makes one for four.            *)
EXTENDS Notification, TLC

CONSTANTS u, w, s, e, one, other, e1, e2, s1, g1, g2

MCWidth == [c \in Char |-> IF c = w THEN 3 ELSE 1]
MCEvents == <<s, e>>

MCRoom == <<2, 2, 3>>

Sent(id, list) == [id |-> id, subject |-> s1, attendees |-> list]
MCChange ==
  {Sent(e1, <<g1>>), Sent(e2, <<g2, g1>>), Sent(e1, <<g2, g2, g1>>), Sent(e2, <<>>),
   [Sent(e2, Absent) EXCEPT !.subject = Absent]}

MCPage == UNION {[1 .. n -> MCChange] : n \in 0 .. 2}
MCCalendars == <<u>> :> UNION {[1 .. n -> MCPage] : n \in 1 .. 3}

ValueOf(id, resource) == [subscriptionId |-> id, resource |-> resource]
Resources(min, max) == UNION {[1 .. n -> Char] : n \in min .. max}
MCRequests ==
  [validationToken : {FALSE},
   value : {<<>>} \cup {<<ValueOf(one, r)>> : r \in Resources(0, 5)}
           \cup {<<ValueOf(one, r), ValueOf(other, <<w>> \o MCEvents)>> : r \in Resources(2, 3)}]
  \cup [validationToken : {TRUE}, value : {<<>>, <<ValueOf(one, <<w>> \o MCEvents)>>}]
=============================================================================
