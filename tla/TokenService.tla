---------------------------- MODULE TokenService ----------------------------
(***************************************************************************)
(* What the token task promises its callers, without lists, goroutines or  *)
(* channels: a result for a domain answers, in one step, exactly the calls *)
(* that were asking for that domain at that moment.  Nobody who was asking *)
(* is left out, nobody is answered twice, and a call that asks later is not *)
(* answered by an earlier result.                                          *)
(***************************************************************************)
EXTENDS OfficeTable

CONSTANTS Call, Faults

VARIABLES asking, \* the pairs <<call, domain>> of the calls not answered yet
          answer  \* the pairs <<call, office>> of the calls answered

serviceVars == <<asking, answer>>

Init == asking = {} /\ answer = {}

Ask(c, k) ==
  /\ c \notin {p[1] : p \in asking} \cup {p[1] : p \in answer}
  /\ asking' = asking \cup {<<c, k>>}
  /\ UNCHANGED answer

Answer(k) ==
  LET served == {p \in asking : p[2] = k} IN
  /\ served # {}
  /\ asking' = asking \ served
  /\ \E office \in {p[2] : p \in answer'} :
       /\ office.domain = k
       /\ answer' = answer \cup {<<p[1], office>> : p \in served}

(* The process ends: who is asking is forgotten, and an answer that was    *)
(* not picked up may be.                                                   *)
Forget ==
  /\ "crash" \in Faults
  /\ asking' = {}
  /\ answer' \subseteq answer

Next ==
  \/ \E c \in Call, k \in Key : Ask(c, k)
  \/ \E k \in Key : Answer(k)
  \/ Forget

Spec == Init /\ [][Next]_serviceVars
=============================================================================
