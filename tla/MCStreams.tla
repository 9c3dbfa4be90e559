----------------------------- MODULE MCStreams -----------------------------
(* Instances of RowIterator and Receive for TLC, one or the other.         *)
(* RowIterator: two rows of two columns with strings, numbers and lists in *)
(* lists, a value of either row whole or cut in two wherever it can be,    *)
(* that of the first also in three, and together with that of the second   *)
(* in one way; no rows; and a number in two.  Receive: two messages, one   *)
(* of them larger than all that may be outstanding.                        *)
EXTENDS RowIterator, Receive

LOCAL INSTANCE ValueMerge

MCMerge(x, y) == merge(x, y)

CONSTANTS a, b, c, m1, m2

Str(s) == [kind |-> "string", of |-> s]
Num == [kind |-> "number", of |-> a]
List(l) == [kind |-> "list", of |-> l]

(* The ways to cut a value in two: in a string anywhere, in a list next to *)
(* what cannot be cut, and in every element that can.                      *)
RECURSIVE Cuts(_)
Cuts(v) ==
  LET n == Len(v.of)
      Cut(l, r) == <<[v EXCEPT !.of = l], [v EXCEPT !.of = r]>>
  IN IF v.kind = "number" THEN {}
     ELSE {Cut(SubSeq(v.of, 1, i), SubSeq(v.of, i + 1, n)) :
             i \in {j \in 0 .. n : v.kind = "string" \/ j = 0 \/ v.of[j].kind = "number"}}
          \cup UNION {{Cut(SubSeq(v.of, 1, i - 1) \o <<d[1]>>, <<d[2]>> \o SubSeq(v.of, i + 1, n)) :
                         d \in Cuts(v.of[i])} : i \in IF v.kind = "list" THEN 1 .. n ELSE {}}

Whole(v) == <<[value |-> v, ends |-> TRUE]>>
Halves(d) == <<[value |-> d[1], ends |-> FALSE], [value |-> d[2], ends |-> TRUE]>>
Thirds(v) == UNION {{<<Halves(d)[1]>> \o Halves(e) : e \in Cuts(d[2])} : d \in Cuts(v)}
Parts(v) == {Whole(v)} \cup {Halves(d) : d \in Cuts(v)}

v1 == Str(<<a, b>>)
v2 == List(<<Num, List(<<Str(<<a>>), Str(<<b, c>>)>>), Num>>)
d2 == CHOOSE d \in Cuts(v2) : d[1].of # <<>> /\ d[2].of # <<>>

MCResults ==
  {[rows |-> << <<v1, Num>>, <<v2, v1>> >>, pieces |-> p \o Whole(Num) \o r \o Whole(v1), faulty |-> FALSE] :
     <<p, r>> \in {<<Whole(v1), r>> : r \in Parts(v2)} \cup (Parts(v1) \cup Thirds(v1)) \X {Halves(d2), Whole(v2)}}
  \cup {[rows |-> <<>>, pieces |-> <<>>, faulty |-> FALSE],
        [rows |-> << <<v1, v2>> >>, faulty |-> TRUE,
         pieces |-> Whole(v1) \o Whole(v2) \o Whole(v1) \o Halves(<<Num, Num>>)]}

MCSize == [m \in Message |-> IF m = m1 THEN 3 ELSE 1]

VARIABLE client

(* Nobody has called Receive: as after its end.                            *)
NoReceive ==
  /\ canceled = FALSE /\ recv = "returned" /\ msg = NoMessage /\ buf = {}
  /\ count = 0 /\ size = 0 /\ calls = {} /\ given = {}
  /\ answer = [m \in Message |-> "none"] /\ stop = "stopped"
  /\ items = {} /\ draining = TRUE /\ drained = TRUE
  /\ keeper = "exited" /\ overdue = {} /\ extending = 0
  /\ pending = {} /\ send = TRUE /\ dirty = 0
  /\ acker = "exited" /\ batch = {} /\ tried = {} /\ expired = {}

(* Nobody has a query: one without rows, whose iterator nobody asks.       *)
NoQuery == Init /\ result.pieces = <<>>

MCInit ==
  \/ client = "query" /\ Init /\ NoReceive
  \/ client = "messages" /\ NoQuery /\ ReceiveInit

MCNext ==
  /\ UNCHANGED client
  /\ \/ client = "query" /\ Next /\ UNCHANGED receiveVars
     \/ client = "messages" /\ ReceiveNext /\ UNCHANGED vars

MCSpec ==
  /\ MCInit /\ [][MCNext]_<<client, vars, receiveVars>>
  /\ QueryFairness /\ ReceiveFairness
=============================================================================
