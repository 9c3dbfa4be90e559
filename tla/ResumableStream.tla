-------------------------- MODULE ResumableStream --------------------------
(***************************************************************************)
(* The stream a query of Spanner is read from (spanner/read.go,            *)
(* resumableStreamDecoder).  The server sends the result in partial result *)
(* sets, with a resume token after some of them.  next holds sets back     *)
(* until a token comes, so that it can ask for the rest again from the     *)
(* last token when the stream breaks, or until too much has been held      *)
(* back.                                                                   *)
(*                                                                         *)
(* The result is a sequence of pieces.  A set stands for the pieces after  *)
(* from up to to, its token for the position to.  Its size is the number   *)
(* of its pieces; what is waited for between two attempts is not modelled, *)
(* nor is how the queue keeps its elements in a ring.                      *)
(***************************************************************************)
EXTENDS Naturals, Sequences, SequencesExt

CONSTANTS MaxBytes, \* maxBytesBetweenResumeTokens
          Faults    \* "retryable", "fatal": what the server fails with;
                    \* "truncate": it ends the stream before its end

ASSUME StreamAssumption ==
  MaxBytes \in Nat /\ Faults \subseteq {"retryable", "fatal", "truncate"}

VARIABLES
  length,      \* constant: the number of pieces of the result
  state, q, np, resumeToken, err, \* fields of the decoder, resumeToken 0 for nil
  bytes,       \* bytesBetweenResumeTokens
  sent,        \* the pieces the server has sent, on the stream it is read from
  done,        \* whether the context is
  at, ok       \* where the call of next is; what the last one returned

streamVars == <<length, state, q, np, resumeToken, err, bytes, sent, done, at, ok>>

States == {"unConnected", "queueingRetryable", "queueingUnretryable", "aborted", "finished"}

Set == [from : Nat, to : Nat, token : BOOLEAN]

StreamInit ==
  /\ length \in Nat
  /\ state = "unConnected" /\ q = <<>> /\ np = [from |-> 0, to |-> 0, token |-> FALSE]
  /\ resumeToken = 0 /\ err = "nil" /\ bytes = 0 /\ sent = 0 /\ done = FALSE
  /\ at = "out" /\ ok = FALSE

-----------------------------------------------------------------------------
isNewResumeToken(set) == set.token /\ set.to # resumeToken

(* The queue has a set in it and ends with a new token.                    *)
NewToken == q # <<>> /\ isNewResumeToken(Last(q))

(* Mutant: what is counted are the sets.                                   *)
FullOfSets == Len(q) >= MaxBytes

(* Already at the limit: the comments have it beyond, see BufferBounded.   *)
Full == bytes >= MaxBytes

changeState(target) ==
  /\ state' = target
  /\ bytes' = IF state = "queueingRetryable" /\ state # target THEN 0 ELSE bytes

Return(value) == at' = "out" /\ ok' = value

(* A round of the loop of next that has found the context not done; the    *)
(* call of the server in it may last.                                      *)
Round == at = "loop" /\ ~done

Queueing == Round /\ state \in {"queueingRetryable", "queueingUnretryable"}

Call ==
  /\ at = "out" /\ at' = "loop"
  /\ UNCHANGED <<length, state, q, np, resumeToken, err, bytes, sent, done, ok>>

Cancel ==
  /\ ~done /\ done' = TRUE
  /\ UNCHANGED <<length, state, q, np, resumeToken, err, bytes, sent, at, ok>>

(* Mutant: only a round that would connect looks at the context.           *)
CanceledUnconnected ==
  /\ at = "loop" /\ done /\ state = "unConnected"
  /\ changeState("aborted") /\ err' = "canceled" /\ q' = <<>> /\ Return(FALSE)
  /\ UNCHANGED <<length, np, resumeToken, sent, done>>

(* A round that finds it done, or whose call of the server fails for it.   *)
Canceled ==
  /\ at = "loop" /\ done
  /\ changeState("aborted") /\ err' = "canceled" /\ q' = <<>> /\ Return(FALSE)
  /\ UNCHANGED <<length, np, resumeToken, sent, done>>

(* doBackOff ends with its timer or with the context.                      *)
BackOff ==
  /\ at = "backoff" /\ at' = "loop"
  /\ UNCHANGED <<length, state, q, np, resumeToken, err, bytes, sent, done, ok>>

Connect ==
  /\ Round /\ state = "unConnected"
  /\ changeState("queueingRetryable") /\ err' = "nil" /\ sent' = resumeToken
  /\ UNCHANGED <<length, q, np, resumeToken, done, at, ok>>

ConnectFails ==
  /\ Round /\ state = "unConnected"
  /\ \/ "retryable" \in Faults /\ err' = "retryable" /\ at' = "backoff" /\ changeState("unConnected")
     \/ "fatal" \in Faults /\ err' = "fatal" /\ changeState("aborted") /\ UNCHANGED at
  /\ UNCHANGED <<length, q, np, resumeToken, sent, done, ok>>

Aborted ==
  /\ Round /\ state = "aborted" /\ q' = <<>> /\ Return(FALSE)
  /\ UNCHANGED <<length, state, np, resumeToken, err, bytes, sent, done>>

Finished ==
  /\ Round /\ state = "finished"
  /\ \/ q = <<>> /\ Return(FALSE) /\ UNCHANGED <<q, np>>
     \/ q # <<>> /\ np' = Head(q) /\ q' = Tail(q) /\ Return(TRUE)
  /\ UNCHANGED <<length, state, resumeToken, err, bytes, sent, done>>

-----------------------------------------------------------------------------
(* The sets up to a new token are given out; the token is taken over with  *)
(* the last of them.                                                       *)
PopToToken ==
  /\ Queueing /\ NewToken
  /\ np' = Head(q) /\ q' = Tail(q) /\ Return(TRUE)
  /\ IF Tail(q) = <<>>
     THEN state' = "queueingRetryable" /\ bytes' = 0 /\ resumeToken' = Head(q).to
     ELSE UNCHANGED <<state, bytes, resumeToken>>
  /\ UNCHANGED <<length, err, sent, done>>

Overfull ==
  /\ Queueing /\ state = "queueingRetryable" /\ q # <<>> /\ ~NewToken
  /\ Full /\ changeState("queueingUnretryable")
  /\ UNCHANGED <<length, q, np, resumeToken, err, sent, done, at, ok>>

PopUnretryable ==
  /\ Queueing /\ state = "queueingUnretryable" /\ q # <<>> /\ ~NewToken
  /\ np' = Head(q) /\ q' = Tail(q) /\ Return(TRUE)
  /\ UNCHANGED <<length, state, resumeToken, err, bytes, sent, done>>

tryRecv ==
  /\ Queueing
  /\ q # <<>> => state = "queueingRetryable" /\ ~NewToken /\ ~Full

(* A set has pieces, but for the first of a stream, and a token only then. *)
Receives(set) ==
  /\ tryRecv
  /\ set \in Set /\ set.from = sent /\ set.to \in sent .. length
  /\ set.to = sent => ~set.token /\ q = <<>> /\ sent = resumeToken
  /\ q' = Append(q, set) /\ sent' = set.to /\ err' = "nil"
  /\ bytes' = IF state = "queueingRetryable" /\ ~isNewResumeToken(set)
              THEN bytes + (set.to - set.from) ELSE bytes
  /\ UNCHANGED <<length, state, np, resumeToken, done, at, ok>>

ReceivesEOF ==
  /\ tryRecv /\ (sent = length \/ "truncate" \in Faults)
  /\ changeState("finished") /\ err' = "nil"
  /\ UNCHANGED <<length, q, np, resumeToken, sent, done, at, ok>>

(* Mutant: the queue is kept when the rest is asked for again.             *)
BreaksKeepsQueue ==
  /\ tryRecv /\ state = "queueingRetryable" /\ "retryable" \in Faults
  /\ changeState("unConnected") /\ err' = "nil" /\ at' = "backoff"
  /\ UNCHANGED <<length, q, np, resumeToken, sent, done, ok>>

(* The stream breaks while it can be resumed.                              *)
Breaks ==
  /\ tryRecv /\ state = "queueingRetryable" /\ "retryable" \in Faults
  /\ q' = <<>> /\ changeState("unConnected") /\ err' = "nil" /\ at' = "backoff"
  /\ UNCHANGED <<length, np, resumeToken, sent, done, ok>>

(* It breaks when it cannot, or for good.                                  *)
Fails ==
  /\ tryRecv
  /\ \/ "retryable" \in Faults /\ state = "queueingUnretryable" /\ err' = "retryable"
     \/ "fatal" \in Faults /\ err' = "fatal"
  /\ changeState("aborted")
  /\ UNCHANGED <<length, q, np, resumeToken, sent, done, at, ok>>

-----------------------------------------------------------------------------
(* What next does without the server, and what the server does.            *)
Own == Canceled \/ BackOff \/ Aborted \/ Finished \/ PopToToken \/ Overfull \/ PopUnretryable
Server == Connect \/ ConnectFails \/ ReceivesEOF \/ Breaks \/ Fails

StreamNext == Call \/ Cancel \/ Own \/ Server \/ \E set \in Set : Receives(set)

StreamSpec == StreamInit /\ [][StreamNext]_streamVars

-----------------------------------------------------------------------------
(* Properties                                                              *)

StreamTypeOK ==
  /\ length \in Nat /\ state \in States /\ q \in Seq(Set) /\ np \in Set
  /\ resumeToken \in Nat /\ err \in {"nil", "retryable", "fatal", "canceled"}
  /\ bytes \in Nat /\ sent \in 0 .. length /\ done \in BOOLEAN
  /\ at \in {"out", "loop", "backoff"} /\ ok \in BOOLEAN

(* However often the stream breaks and is resumed, what next gives out     *)
(* begins where what it gave out before ended: no piece is given twice and *)
(* none is left out (read.go:396-406 and :453-461, which only together     *)
(* make it so).                                                            *)
NothingTwice == [][np' # np => np'.from = np.to]_streamVars

(* No more is held back than the limit, "the max number of bytes that can  *)
(* be buffered" (read.go:247), but for the set that came last: also after  *)
(* the stream broke, whatever the sizes of the sets.  The comments on      *)
(* bytesBetweenResumeTokens (read.go:244: "is greater than") and in the    *)
(* diagram (:327: "exceeds") let the limit be reached, the code (:407)     *)
(* goes on only below it; this is what all of them promise.                *)
BufferBounded == Len(q) > 1 => Last(q).from - q[1].from <= MaxBytes

(* "none have resume tokens", says read.go:455 of the sets it discards     *)
(* when the stream breaks: they would have to be given out first.          *)
NoTokenDiscarded ==
  [][state = "queueingRetryable" /\ state' = "unConnected" =>
       \A i \in DOMAIN q : ~isNewResumeToken(q[i])]_streamVars
=============================================================================
