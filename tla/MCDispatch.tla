----------------------------- MODULE MCDispatch -----------------------------
(* Instances of Dispatch for TLC: two plugins, the id of one of them is    *)
(* that of the other, "_" and more; e-mails of two users, one of them      *)
(* bound to an account of a type the bean factory does not know.           *)
EXTENDS Dispatch, TLC

CONSTANTS e1, e2, u1, u2, t1, t2, t3

P == <<"p">>
Q == <<"p", "x">>
MCPlugin == {P, Q}
MCInitialToken == P :> t1 @@ Q :> t2
MCSubscribed == {<<e1, P>>}
MCBound == [k \in Email \X Type |->
              IF k = <<e1, "line">> \/ k = <<e2, "slack">> THEN u1 ELSE None]

Msg(bearer, claimed, callback) ==
  [NoMessage EXCEPT !.json = TRUE, !.bearer = bearer, !.claimed = claimed, !.callback = callback]

(* For e-mails on LINE; for e-mails anywhere and an account; for nobody.   *)
MCNamed ==
  {[Msg(t1, P, <<"x">>) EXCEPT !.emails = {e1, e2}, !.platforms = {"line"}],
   [Msg(t1, P, <<"x">>) EXCEPT !.emails = {e2}, !.platforms = {"slack"},
                               !.users = {[type |-> "line", id |-> u2]}],
   Msg(t1, P, <<"x">>)}

(* To all: with the plugin's first token, one it may be given later, and   *)
(* none; with the id of the sender, of the other plugin, and none; with    *)
(* callback ids that contain "_" or are empty, and without attachments.    *)
MCToAll ==
  {[m EXCEPT !.toAll = TRUE] :
     m \in {Msg(t1, Q, <<"x">>), Msg(t3, Q, <<"x">>), Msg(NoToken, Q, <<"x">>),
           Msg(t1, P, <<"x", "y">>), Msg(t1, <<"">>, <<"">>), Msg(t1, P, None)}}

(* What cannot be parsed, and what comes without the header.               *)
MCMalformed == {NoMessage, [Msg(NoHeader, P, <<"x">>) EXCEPT !.toAll = TRUE]}

MCMessages == MCNamed \cup MCToAll \cup MCMalformed

(* Bounds: one answer of a user is looked at, and nothing behind a new     *)
(* follower.  No action reads either.                                      *)
Bounds == followed = {} /\ Cardinality(posted) <= 1
=============================================================================
