---------------------------- MODULE StreamsProofs ----------------------------
(***************************************************************************)
(* Theorems about ResumableStream, for a result of any length, sets of any *)
(* sizes and any limit: whatever the server sends and however often the    *)
(* stream breaks, what next gives out is the result from its beginning,    *)
(* without a gap and without a repetition.  About RowIterator, for any     *)
(* results, any number of columns and whatever merging is: the rows come   *)
(* out whole and in order, and the end is told as it is.  And about        *)
(* Receive, for any number of messages, any limits and any number of       *)
(* requests at a time: what it promises of its messages until it returns.  *)
(***************************************************************************)
EXTENDS RowIterator, Receive, SequenceTheorems, FiniteSetTheorems, WellFoundedInduction, Integers, TLAPS

-----------------------------------------------------------------------------
(* The inductive invariant, in parts.                                      *)

(* The sets in the queue follow what has been given out and each other.    *)
Contiguous ==
  /\ q # <<>> => q[1].from = np.to
  /\ \A i \in 1 .. Len(q) - 1 : q[i + 1].from = q[i].to
  /\ \A i \in 1 .. Len(q) : q[i].from <= q[i].to /\ q[i].to <= length
  /\ np.to <= length /\ resumeToken <= length

Connected == state \in {"queueingRetryable", "queueingUnretryable", "finished"}

(* The stream goes on where the queue ends.                                *)
UpTo ==
  Connected =>
    /\ q = <<>> => sent = np.to
    /\ q # <<>> => sent = q[Len(q)].to

(* The queue is in order, also of sets that do not meet.                   *)
Ordered ==
  /\ \A i, j \in 1 .. Len(q) : i < j => q[i].to <= q[j].from
  /\ \A i \in 1 .. Len(q) : np.to <= q[i].from

(* The stream can be resumed where what was given out ends, unless a token *)
(* is on its way out.                                                      *)
Resumable ==
  /\ state = "unConnected" => q = <<>> /\ resumeToken = np.to
  /\ state = "queueingRetryable" /\ ~NewToken => resumeToken = np.to

(* A new token is in the last set only.                                    *)
OnlyLast == \A i \in 1 .. Len(q) - 1 : ~isNewResumeToken(q[i])

(* The bytes are those of the queue.                                       *)
Counted ==
  /\ state # "queueingRetryable" => bytes = 0
  /\ state = "queueingRetryable" /\ ~NewToken => bytes = sent - np.to

(* Before the set that came last, less than the limit is held back.        *)
BelowLimit == Len(q) > 1 => Last(q).from - q[1].from < MaxBytes

StreamInv ==
  StreamTypeOK /\ Contiguous /\ UpTo /\ Ordered /\ Resumable /\ OnlyLast /\ Counted /\ BelowLimit

-----------------------------------------------------------------------------
(* What is left of a sequence without its first element.                   *)
LEMMA TailFacts ==
  ASSUME NEW S, NEW s \in Seq(S), s # <<>>
  PROVE  /\ Len(s) \in Nat \ {0} /\ Head(s) = s[1] /\ s[1] \in S
         /\ Tail(s) \in Seq(S) /\ Len(Tail(s)) = Len(s) - 1
         /\ \A i \in 1 .. Len(s) - 1 : Tail(s)[i] = s[i + 1]
         /\ Tail(s) = <<>> <=> Len(s) = 1
<1>1. Len(s) \in Nat \ {0} /\ Head(s) = s[1] /\ s[1] \in S
  OBVIOUS
<1>2. Tail(s) \in Seq(S) /\ Len(Tail(s)) = Len(s) - 1
  BY <1>1
<1>3. \A i \in 1 .. Len(s) - 1 : Tail(s)[i] = s[i + 1]
  BY <1>1
<1>4. Tail(s) = <<>> <=> Len(Tail(s)) = 0
  BY <1>2, EmptySeq
<1>5. QED BY <1>1, <1>2, <1>3, <1>4

(* What a sequence with one more element is.                               *)
LEMMA AppendFacts ==
  ASSUME NEW S, NEW s \in Seq(S), NEW e \in S
  PROVE  /\ Append(s, e) \in Seq(S) /\ Append(s, e) # <<>>
         /\ Len(s) \in Nat /\ Len(Append(s, e)) = Len(s) + 1
         /\ \A i \in 1 .. Len(s) : Append(s, e)[i] = s[i]
         /\ Append(s, e)[Len(s) + 1] = e
         /\ s = <<>> <=> Len(s) = 0
OBVIOUS

(* When the first set of the queue has been given out, the queue is still  *)
(* as it should be behind it, and nothing else has been.                   *)
LEMMA Popped ==
  ASSUME StreamInv, q # <<>>, np' = Head(q), q' = Tail(q), UNCHANGED <<length, sent>>
  PROVE  /\ np' \in Set /\ q' \in Seq(Set) /\ np'.from = np.to
         /\ q' # <<>> => q'[1].from = np'.to
         /\ \A i \in 1 .. Len(q') - 1 : q'[i + 1].from = q'[i].to
         /\ \A i \in 1 .. Len(q') : q'[i].from <= q'[i].to /\ q'[i].to <= length'
         /\ np'.to <= length'
         /\ Connected => (q' = <<>> => sent' = np'.to) /\ (q' # <<>> => sent' = q'[Len(q')].to)
         /\ Ordered' /\ BelowLimit'
         /\ q' # <<>> => Len(q) > 1 /\ Last(q') = Last(q)
         /\ q' = <<>> => Last(q) = np'
         /\ \A i \in 1 .. Len(q') - 1 : i + 1 \in 1 .. Len(q) - 1 /\ q'[i] = q[i + 1]
<1> USE DEF StreamInv, StreamTypeOK
<1>1. /\ Len(q) \in Nat \ {0} /\ np' = q[1] /\ np' \in Set
      /\ q' \in Seq(Set) /\ Len(q') = Len(q) - 1
      /\ \A i \in 1 .. Len(q) - 1 : q'[i] = q[i + 1]
      /\ q' = <<>> <=> Len(q) = 1
  BY TailFacts
<1>2. np'.from = np.to /\ (q' # <<>> => q'[1].from = np'.to)
  BY <1>1 DEF Contiguous
<1>3. /\ \A i \in 1 .. Len(q') - 1 : q'[i + 1].from = q'[i].to
      /\ \A i \in 1 .. Len(q') : q'[i].from <= q'[i].to /\ q'[i].to <= length'
      /\ np'.to <= length'
  BY <1>1 DEF Contiguous
<1>4. q' # <<>> => Len(q) > 1 /\ Last(q') = Last(q) /\ q'[Len(q')] = q[Len(q)]
  BY <1>1 DEF Last
<1>5. Connected => (q' = <<>> => sent' = np'.to) /\ (q' # <<>> => sent' = q'[Len(q')].to)
  BY <1>1, <1>4 DEF UpTo
<1>6. Ordered'
  BY <1>1 DEF Ordered
<1>7. BelowLimit'
  <2>1. SUFFICES ASSUME Len(q') > 1 PROVE q'[Len(q')].from - q'[1].from < MaxBytes
    BY DEF BelowLimit, Last
  <2>2. q'[1] = q[2] /\ q'[Len(q')] = q[Len(q)] /\ q[1] \in Set /\ q[2] \in Set /\ q[Len(q)] \in Set
    BY <1>1, <2>1
  <2>3. q[1].from <= q[1].to /\ q[1].to = q[2].from
    BY <1>1, <2>1 DEF Contiguous
  <2>4. q[Len(q)].from - q[1].from < MaxBytes
    BY <1>1, <2>1 DEF BelowLimit, Last
  <2>5. /\ q[1].from \in Nat /\ q[1].to \in Nat /\ q[2].from \in Nat /\ q[Len(q)].from \in Nat
        /\ MaxBytes \in Nat
    BY <2>2, StreamAssumption DEF Set
  <2>6. q'[Len(q')].from = q[Len(q)].from /\ q'[1].from = q[2].from
    BY <2>2
  <2>7. q[Len(q)].from - q[2].from < MaxBytes
    BY <2>3, <2>4, <2>5
  <2>8. QED BY <2>6, <2>7
<1>8. q' = <<>> => Last(q) = np'
  BY <1>1 DEF Last
<1>9. QED BY <1>1, <1>2, <1>3, <1>4, <1>5, <1>6, <1>7, <1>8

(* A new set in the queue.                                                 *)
LEMMA Pushed ==
  ASSUME StreamInv, NEW set \in Set, Receives(set)
  PROVE  /\ q' \in Seq(Set) /\ q' # <<>> /\ Last(q') = set
         /\ Contiguous' /\ UpTo' /\ Ordered' /\ BelowLimit'
         /\ \A i \in 1 .. Len(q') - 1 : i \in 1 .. Len(q) /\ q'[i] = q[i]
         /\ state \in {"queueingRetryable", "queueingUnretryable"}
         /\ ~NewToken /\ (q # <<>> => state = "queueingRetryable")
         /\ np.to <= sent /\ sent <= set.to
<1> USE DEF StreamInv, StreamTypeOK
<1>1. /\ q' \in Seq(Set) /\ q' # <<>> /\ Len(q) \in Nat /\ Len(q') = Len(q) + 1
      /\ \A i \in 1 .. Len(q) : q'[i] = q[i]
      /\ q'[Len(q) + 1] = set /\ (q = <<>> <=> Len(q) = 0)
  BY AppendFacts DEF Receives
<1>2. /\ state \in {"queueingRetryable", "queueingUnretryable"}
      /\ ~NewToken
      /\ q # <<>> => state = "queueingRetryable" /\ ~Full
      /\ set.from = sent /\ sent <= set.to /\ set.to <= length /\ sent' = set.to
      /\ UNCHANGED <<length, state, np, resumeToken>>
  BY DEF Receives, tryRecv, Queueing, Round, NewToken
<1>3. (q = <<>> => sent = np.to) /\ (q # <<>> => sent = q[Len(q)].to)
  BY <1>2 DEF UpTo, Connected
<1>4. /\ \A i \in 1 .. Len(q) : q[i].to <= sent
      /\ np.to <= sent
  <2>1. CASE q = <<>>
    BY <1>1, <1>3, <2>1 DEF Set
  <2>2. CASE q # <<>>
    <3>1. \A i \in 1 .. Len(q) : q[i] \in Set /\ q[i].from \in Nat /\ q[i].to \in Nat /\ q[i].from <= q[i].to
      <4>1. \A i \in 1 .. Len(q) : q[i] \in Set
        BY <1>1
      <4>2. \A e \in Set : e.from \in Nat /\ e.to \in Nat
        BY DEF Set
      <4>3. QED BY <4>1, <4>2 DEF Contiguous
    <3>2. \A i \in 1 .. Len(q) : q[i].to <= sent
      <4>1. SUFFICES ASSUME NEW i \in 1 .. Len(q), i < Len(q) PROVE q[i].to <= q[Len(q)].to
        BY <1>1, <1>3, <2>2, <3>1
      <4>2. q[i].to <= q[Len(q)].from /\ q[Len(q)].from <= q[Len(q)].to
        BY <1>1, <3>1, <4>1 DEF Ordered
      <4>3. QED BY <1>1, <3>1, <4>1, <4>2
    <3>3. Len(q) \in 1 .. Len(q) /\ np.to \in Nat /\ np.to <= q[Len(q)].from
      BY <1>1, <2>2 DEF Ordered, Set
    <3>4. QED BY <1>3, <2>2, <3>1, <3>2, <3>3
  <2>3. QED BY <2>1, <2>2
<1>5. Contiguous'
  <2>1. q' # <<>> => q'[1].from = np.to
    BY <1>1, <1>2, <1>3 DEF Contiguous
  <2>2. \A i \in 1 .. Len(q') - 1 : q'[i + 1].from = q'[i].to
    <3>1. SUFFICES ASSUME NEW i \in 1 .. Len(q) PROVE q'[i + 1].from = q[i].to
      BY <1>1
    <3>2. CASE i = Len(q)
      BY <1>1, <1>2, <1>3, <3>2
    <3>3. CASE i < Len(q)
      BY <1>1, <3>3 DEF Contiguous
    <3>4. QED BY <1>1, <3>2, <3>3
  <2>3. \A i \in 1 .. Len(q') : q'[i].from <= q'[i].to /\ q'[i].to <= length
    BY <1>1, <1>2 DEF Contiguous
  <2>4. QED BY <1>2, <2>1, <2>2, <2>3 DEF Contiguous
<1>6. UpTo'
  BY <1>1, <1>2 DEF UpTo, Connected
<1>7. Ordered'
  <2>1. \A i, j \in 1 .. Len(q') : i < j => q'[i].to <= q'[j].from
    <3>1. SUFFICES ASSUME NEW i \in 1 .. Len(q'), NEW j \in 1 .. Len(q'), i < j
                   PROVE  q'[i].to <= q'[j].from
      OBVIOUS
    <3>2. i \in 1 .. Len(q) /\ q'[i] = q[i]
      BY <1>1, <3>1
    <3>3. CASE j = Len(q) + 1
      BY <1>1, <1>2, <1>4, <3>2, <3>3
    <3>4. CASE j \in 1 .. Len(q)
      BY <1>1, <3>1, <3>2, <3>4 DEF Ordered
    <3>5. QED BY <1>1, <3>3, <3>4
  <2>2. \A i \in 1 .. Len(q') : np.to <= q'[i].from
    BY <1>1, <1>2, <1>4 DEF Ordered
  <2>3. QED BY <1>2, <2>1, <2>2 DEF Ordered
<1>8. BelowLimit'
  <2>1. SUFFICES ASSUME Len(q') > 1 PROVE q'[Len(q')].from - q'[1].from < MaxBytes
    BY DEF BelowLimit, Last
  <2>2. q # <<>> /\ q'[1] = q[1] /\ q[1].from = np.to /\ q'[Len(q')].from = sent
    BY <1>1, <1>2, <2>1 DEF Contiguous
  <2>3. sent - np.to < MaxBytes
    BY <1>2, <2>2, StreamAssumption DEF Counted, Full
  <2>4. QED BY <2>2, <2>3
<1>9. QED BY <1>1, <1>2, <1>4, <1>5, <1>6, <1>7, <1>8 DEF Last

(* What a token in the queue is does not depend on the rest of the state.  *)
LEMMA SameTokens ==
  ASSUME UNCHANGED <<q, resumeToken>>
  PROVE  (NewToken <=> NewToken') /\ (OnlyLast <=> OnlyLast')
BY DEF NewToken, OnlyLast, isNewResumeToken

LEMMA StreamStep ==
  ASSUME StreamInv, [StreamNext]_streamVars
  PROVE  StreamInv'
<1> USE DEF StreamInv
<1>0. CASE UNCHANGED <<length, state, q, np, resumeToken, bytes, sent>> /\ StreamTypeOK'
  <2>1. Contiguous' /\ UpTo' /\ Ordered' /\ BelowLimit'
    BY <1>0 DEF Contiguous, UpTo, Ordered, BelowLimit, Connected
  <2>2. Resumable' /\ OnlyLast' /\ Counted'
    BY <1>0, SameTokens DEF Resumable, Counted
  <2>3. QED BY <1>0, <2>1, <2>2
<1>1. ASSUME q' = <<>>, UNCHANGED <<length, np, resumeToken, sent>>, StreamTypeOK',
             state' \in {"aborted", "unConnected"}, bytes' = 0,
             state' = "unConnected" => resumeToken = np.to
      PROVE  StreamInv'
  <2>1. Contiguous' /\ Ordered' /\ OnlyLast' /\ BelowLimit'
    BY <1>1 DEF Contiguous, Ordered, OnlyLast, BelowLimit
  <2>2. UpTo' /\ Resumable' /\ Counted'
    BY <1>1 DEF UpTo, Connected, Resumable, Counted
  <2>3. QED BY <1>1, <2>1, <2>2
<1>2. ASSUME UNCHANGED <<length, q, np, resumeToken, sent>>, StreamTypeOK',
             state' \in {"aborted", "finished", "queueingUnretryable"}, bytes' = 0, Connected
      PROVE  StreamInv'
  <2>1. Contiguous' /\ Ordered' /\ OnlyLast' /\ BelowLimit' /\ UpTo'
    BY <1>2, SameTokens DEF Contiguous, Ordered, BelowLimit, UpTo, Connected
  <2>2. Resumable' /\ Counted'
    BY <1>2 DEF Resumable, Counted
  <2>3. QED BY <1>2, <2>1, <2>2
<1>3. ASSUME NEW target \in States \ {"queueingRetryable"}, changeState(target)
      PROVE  state' = target /\ bytes' = 0
  BY <1>3 DEF changeState, Counted
<1>4. CASE Call \/ Cancel \/ BackOff \/ UNCHANGED streamVars
  <2>1. StreamTypeOK' /\ UNCHANGED <<length, state, q, np, resumeToken, bytes, sent>>
    BY <1>4 DEF Call, Cancel, BackOff, streamVars, StreamTypeOK
  <2>2. QED BY <1>0, <2>1
<1>5. CASE Canceled
  <2>1. state' = "aborted" /\ bytes' = 0
    BY <1>3, <1>5 DEF Canceled, States
  <2>2. StreamTypeOK'
    BY <1>5, <2>1, EmptySeq DEF Canceled, Return, StreamTypeOK, States
  <2>3. QED BY <1>1, <1>5, <2>1, <2>2 DEF Canceled
<1>6. CASE Aborted
  <2>1. state' = "aborted" /\ bytes' = 0
    BY <1>6 DEF Aborted, Counted
  <2>2. StreamTypeOK'
    BY <1>6, EmptySeq DEF Aborted, Return, StreamTypeOK
  <2>3. QED BY <1>1, <1>6, <2>1, <2>2 DEF Aborted
<1>7. CASE Connect
  <2>1. /\ state' = "queueingRetryable" /\ bytes' = 0 /\ q = <<>> /\ resumeToken = np.to
        /\ sent' = np.to /\ UNCHANGED <<length, q, np, resumeToken>>
    BY <1>7 DEF Connect, changeState, Resumable, Counted
  <2>2. StreamTypeOK'
    BY <1>7, <2>1 DEF Connect, StreamTypeOK, States, Contiguous, Set
  <2>3. Contiguous' /\ Ordered' /\ OnlyLast' /\ BelowLimit'
    BY <2>1 DEF Contiguous, Ordered, OnlyLast, BelowLimit
  <2>4. UpTo' /\ Resumable'
    BY <2>1 DEF UpTo, Resumable
  <2>5. Counted'
    BY <2>1, <2>2 DEF Counted, StreamTypeOK
  <2>6. QED BY <2>2, <2>3, <2>4, <2>5
<1>8. CASE ConnectFails
  <2>1. q = <<>> /\ resumeToken = np.to /\ UNCHANGED <<length, q, np, resumeToken, sent>>
    BY <1>8 DEF ConnectFails, Resumable
  <2>2. state' \in {"aborted", "unConnected"} /\ bytes' = 0
    BY <1>8, <1>3 DEF ConnectFails, States
  <2>3. StreamTypeOK'
    BY <1>8, <2>2 DEF ConnectFails, StreamTypeOK, States
  <2>4. QED BY <1>1, <2>1, <2>2, <2>3
<1>9. CASE Finished
  <2>1. CASE q = <<>>
    <3>1. StreamTypeOK' /\ UNCHANGED <<length, state, q, np, resumeToken, bytes, sent>>
      BY <1>9, <2>1 DEF Finished, Return, StreamTypeOK
    <3>2. QED BY <1>0, <3>1
  <2>2. CASE q # <<>>
    <3>1. /\ np' = Head(q) /\ q' = Tail(q) /\ state = "finished"
          /\ UNCHANGED <<length, state, resumeToken, err, bytes, sent, done>> /\ at' = "out" /\ ok' = TRUE
      BY <1>9, <2>2 DEF Finished, Return
    <3>2. QED BY <2>2, <3>1, Popped
            DEF Contiguous, UpTo, Resumable, OnlyLast, Counted, StreamTypeOK, Connected, isNewResumeToken
  <2>3. QED BY <2>1, <2>2
<1>10. CASE PopToToken
  <2>1. /\ np' = Head(q) /\ q' = Tail(q) /\ q # <<>> /\ isNewResumeToken(Last(q))
        /\ state \in {"queueingRetryable", "queueingUnretryable"}
        /\ UNCHANGED <<length, err, sent, done>> /\ at' = "out" /\ ok' = TRUE
    BY <1>10 DEF PopToToken, Queueing, Round, NewToken, Return
  <2>2. /\ np' \in Set /\ np'.to \in Nat /\ np'.to <= length
        /\ Ordered' /\ BelowLimit' /\ q' \in Seq(Set)
        /\ q' # <<>> => Len(q) > 1 /\ Last(q') = Last(q)
        /\ q' = <<>> => sent = np'.to
        /\ Len(q') \in Nat /\ \A i \in 1 .. Len(q') - 1 : i + 1 \in 1 .. Len(q) - 1 /\ q'[i] = q[i + 1]
    <3>1. Connected
      BY <2>1 DEF Connected
    <3>2. np' \in Set /\ np'.to \in Nat
      BY <2>1, Popped DEF Set
    <3>3. QED BY <2>1, <3>1, <3>2, Popped
  <2>3. CASE q' = <<>>
    <3>1. state' = "queueingRetryable" /\ bytes' = 0 /\ resumeToken' = np'.to
      BY <1>10, <2>1, <2>3 DEF PopToToken
    <3>2. StreamTypeOK'
      BY <2>1, <2>2, <3>1 DEF StreamTypeOK, States
    <3>3. Contiguous' /\ OnlyLast'
      <4>1. Len(q') = 0
        BY <2>3, EmptySeq
      <4>2. OnlyLast'
        BY <4>1 DEF OnlyLast
      <4>3. Contiguous'
        BY <2>1, <2>2, <2>3, <3>1, <4>1 DEF Contiguous
      <4>4. QED BY <4>2, <4>3
    <3>4. UpTo' /\ Resumable' /\ Counted'
      BY <2>1, <2>2, <2>3, <3>1 DEF UpTo, Resumable, Counted
    <3>5. QED BY <2>2, <3>2, <3>3, <3>4
  <2>4. CASE q' # <<>>
    <3>1. UNCHANGED <<state, bytes, resumeToken>>
      BY <1>10, <2>1, <2>4 DEF PopToToken
    <3>2. NewToken'
      BY <2>1, <2>2, <2>4, <3>1 DEF NewToken, isNewResumeToken
    <3>3. StreamTypeOK'
      BY <2>1, <2>2, <3>1 DEF StreamTypeOK
    <3>4. Contiguous'
      BY <2>1, <3>1, Popped DEF Contiguous
    <3>5. UpTo'
      BY <2>1, <3>1, Popped DEF UpTo, Connected
    <3>6. OnlyLast'
      BY <2>2, <3>1 DEF OnlyLast, isNewResumeToken
    <3>7. Resumable' /\ Counted'
      BY <2>1, <3>1, <3>2 DEF Resumable, Counted
    <3>8. QED BY <2>2, <3>3, <3>4, <3>5, <3>6, <3>7
  <2>5. QED BY <2>3, <2>4
<1>11. CASE Overfull
  <2>1. state' = "queueingUnretryable" /\ bytes' = 0 /\ Connected
    BY <1>11, <1>3 DEF Overfull, States, Connected
  <2>2. StreamTypeOK'
    BY <1>11, <2>1 DEF Overfull, StreamTypeOK, States
  <2>3. QED BY <1>2, <1>11, <2>1, <2>2 DEF Overfull
<1>12. CASE PopUnretryable
  <2>1. /\ np' = Head(q) /\ q' = Tail(q) /\ q # <<>> /\ state = "queueingUnretryable"
        /\ UNCHANGED <<length, state, resumeToken, err, bytes, sent, done>> /\ at' = "out" /\ ok' = TRUE
    BY <1>12 DEF PopUnretryable, Return
  <2>2. QED BY <2>1, Popped
          DEF Contiguous, UpTo, Resumable, OnlyLast, Counted, StreamTypeOK, Connected, isNewResumeToken
<1>13. CASE ReceivesEOF
  <2>1. state' = "finished" /\ bytes' = 0 /\ Connected
    BY <1>13, <1>3 DEF ReceivesEOF, tryRecv, Queueing, States, Connected
  <2>2. StreamTypeOK'
    BY <1>13, <2>1 DEF ReceivesEOF, StreamTypeOK, States
  <2>3. QED BY <1>2, <1>13, <2>1, <2>2 DEF ReceivesEOF
<1>14. CASE Breaks
  <2>1. /\ state' = "unConnected" /\ bytes' = 0 /\ q' = <<>> /\ resumeToken = np.to
    BY <1>14, <1>3 DEF Breaks, tryRecv, States, Resumable, NewToken
  <2>2. StreamTypeOK'
    BY <1>14, <2>1 DEF Breaks, StreamTypeOK, States
  <2>3. QED BY <1>1, <1>14, <2>1, <2>2 DEF Breaks
<1>15. CASE Fails
  <2>1. state' = "aborted" /\ bytes' = 0 /\ Connected
    BY <1>15, <1>3 DEF Fails, tryRecv, Queueing, States, Connected
  <2>2. StreamTypeOK'
    BY <1>15, <2>1 DEF Fails, StreamTypeOK, States
  <2>3. QED BY <1>2, <1>15, <2>1, <2>2 DEF Fails
<1>16. ASSUME NEW set \in Set, Receives(set)
       PROVE  StreamInv'
  <2>1. /\ UNCHANGED <<length, state, np, resumeToken, done, at, ok>> /\ err' = "nil"
        /\ set.from = sent /\ sent' = set.to /\ set.to \in 0 .. length
        /\ sent \in Nat /\ set.to \in Nat /\ np.to \in Nat /\ sent <= set.to /\ bytes \in Nat
        /\ bytes' = IF state = "queueingRetryable" /\ ~isNewResumeToken(set)
                    THEN bytes + (set.to - set.from) ELSE bytes
    BY <1>16 DEF Receives, StreamTypeOK, Set
  <2>2. /\ q' \in Seq(Set) /\ Contiguous' /\ UpTo' /\ Ordered' /\ BelowLimit'
        /\ state \in {"queueingRetryable", "queueingUnretryable"} /\ ~NewToken
        /\ NewToken' <=> isNewResumeToken(set)
    BY <1>16, <2>1, Pushed DEF NewToken, isNewResumeToken
  <2>3. StreamTypeOK'
    BY <2>1, <2>2 DEF StreamTypeOK
  <2>4. Resumable'
    BY <2>1, <2>2 DEF Resumable
  <2>5. Counted'
    BY <2>1, <2>2 DEF Counted
  <2>6. OnlyLast'
    <3>1. SUFFICES ASSUME NEW i \in 1 .. Len(q') - 1 PROVE (~isNewResumeToken(q[i]))'
      BY DEF OnlyLast
    <3>2. i \in 1 .. Len(q) /\ q'[i] = q[i] /\ Len(q) \in Nat
      BY <1>16, <3>1, Pushed DEF StreamTypeOK
    <3>3. ~isNewResumeToken(q[i])
      BY <2>2, <3>2 DEF OnlyLast, NewToken, Last
    <3>4. QED BY <2>1, <3>2, <3>3 DEF isNewResumeToken
  <2>7. QED BY <2>2, <2>3, <2>4, <2>5, <2>6
<1>17. QED
  BY <1>4, <1>5, <1>6, <1>7, <1>8, <1>9, <1>10, <1>11, <1>12, <1>13, <1>14, <1>15, <1>16
  DEF StreamNext, Own, Server

LEMMA StreamStart ==
  ASSUME StreamInit
  PROVE  StreamInv
<1>1. StreamTypeOK
  <2>1. np \in Set /\ q \in Seq(Set) /\ state \in States
    BY EmptySeq DEF StreamInit, Set, States
  <2>2. length \in Nat /\ sent \in 0 .. length
    BY DEF StreamInit
  <2> QED BY <2>1, <2>2 DEF StreamInit, StreamTypeOK
<1>2. Contiguous /\ Ordered /\ OnlyLast /\ BelowLimit
  BY EmptySeq DEF StreamInit, Contiguous, Ordered, OnlyLast, BelowLimit
<1>3. UpTo /\ Resumable /\ Counted
  BY DEF StreamInit, UpTo, Connected, Resumable, Counted
<1> QED BY <1>1, <1>2, <1>3 DEF StreamInv

(* The invariant holds in every behaviour.                                 *)
THEOREM StreamInvariant == StreamSpec => []StreamInv
<1>1. StreamInv /\ [StreamNext]_streamVars => StreamInv'
  BY StreamStep
<1> QED BY <1>1, StreamStart, PTL DEF StreamSpec

-----------------------------------------------------------------------------
(* Whatever the sizes of the sets, no more than the limit is held back     *)
(* before the one that came last.                                          *)
THEOREM BoundKept == StreamSpec => []BufferBounded
<1>1. StreamInv => BufferBounded
  <2>1. SUFFICES ASSUME StreamInv, Len(q) > 1 PROVE Last(q).from - q[1].from <= MaxBytes
    BY DEF BufferBounded
  <2>2. q[Len(q)].from - q[1].from < MaxBytes
    BY <2>1 DEF StreamInv, BelowLimit, Last
  <2>3. Len(q) \in Nat /\ \A i \in 1 .. Len(q) : q[i] \in Set
    BY <2>1 DEF StreamInv, StreamTypeOK
  <2>4. q[Len(q)].from \in Nat /\ q[1].from \in Nat
    BY <2>1, <2>3 DEF Set
  <2>5. QED BY <2>2, <2>4, StreamAssumption DEF Last
<1>2. QED BY <1>1, StreamInvariant, PTL

(* What next gives out begins where what it gave out before ended, however *)
(* long the result is and however often the stream breaks.                 *)
THEOREM NothingGivenTwice == StreamSpec => NothingTwice
<1>1. StreamInv /\ [StreamNext]_streamVars => [np' # np => np'.from = np.to]_streamVars
  <2>1. SUFFICES ASSUME StreamInv, StreamNext, np' # np PROVE np'.from = np.to
    OBVIOUS
  <2>2. Finished \/ PopToToken \/ PopUnretryable
    BY <2>1 DEF StreamNext, Call, Cancel, Own, Canceled, BackOff, Aborted, Overfull,
                Server, Connect, ConnectFails, ReceivesEOF, Breaks, Fails, Receives
  <2>3. q # <<>> /\ np' = Head(q)
    BY <2>1, <2>2 DEF Finished, PopToToken, PopUnretryable, NewToken
  <2>4. QED BY <2>1, <2>3 DEF StreamInv, StreamTypeOK, Contiguous
<1>2. QED BY <1>1, StreamInvariant, PTL DEF StreamSpec, NothingTwice

(* What is discarded when the stream breaks has no new token, as the       *)
(* comment there says.                                                     *)
THEOREM NoneHaveTokens == StreamSpec => NoTokenDiscarded
<1>1. StreamInv /\ [StreamNext]_streamVars =>
        [state = "queueingRetryable" /\ state' = "unConnected" =>
           \A i \in DOMAIN q : ~isNewResumeToken(q[i])]_streamVars
  <2>1. SUFFICES ASSUME StreamInv, StreamNext, state = "queueingRetryable", state' = "unConnected",
                        NEW i \in DOMAIN q
                 PROVE  ~isNewResumeToken(q[i])
    OBVIOUS
  <2>2. Breaks
    BY <2>1 DEF StreamNext, Call, Cancel, Own, Canceled, BackOff, Aborted, Finished, PopToToken, Overfull,
                PopUnretryable, Server, Connect, ConnectFails, ReceivesEOF, Fails, Receives, changeState
  <2>3. ~NewToken /\ q # <<>>
    BY <2>1, <2>2 DEF Breaks, tryRecv, NewToken, StreamInv, StreamTypeOK
  <2>4. QED BY <2>1, <2>3 DEF StreamInv, StreamTypeOK, OnlyLast, NewToken, Last
<1>2. QED BY <1>1, StreamInvariant, PTL DEF StreamSpec, NoTokenDiscarded

-----------------------------------------------------------------------------
(* Rows of values: how many are in so many rows.                           *)
LEMMA Times ==
  ASSUME NEW a \in Nat, NEW b \in Nat, NEW c \in Nat, a < b
  PROVE  a * c \in Nat /\ b * c \in Nat /\ a * c + c <= b * c /\ (a + 1) * c = a * c + c
<1>1. PICK d \in Nat : b = (a + 1) + d
  <2>1. b - (a + 1) \in Nat /\ b = (a + 1) + (b - (a + 1))
    OBVIOUS
  <2> QED BY <2>1
<1>2. a * c \in Nat /\ d * c \in Nat /\ b * c \in Nat
  OBVIOUS
<1>3. (a + 1) * c = a * c + c
  OBVIOUS
<1>4. b * c = (a + 1) * c + d * c
  BY <1>1
<1> QED BY <1>2, <1>3, <1>4

LEMMA Quotient ==
  ASSUME NEW c \in Nat \ {0}, NEW n \in Nat, NEW k \in 0 .. c - 1
  PROVE  (n * c + k) \div c = n /\ (n * c + k) % c = k
OBVIOUS

(* So many values of a row, of so many columns: R are rows and vs the      *)
(* values after them of all the values c, the last of which is whole or    *)
(* not.                                                                    *)
Puts(R, vs, c, whole, S) ==
  /\ R \in Seq(Seq(S)) /\ vs \in Seq(S) /\ c \in Seq(S)
  /\ Len(R) * Columns + Len(vs) = Len(c)
  /\ Len(vs) <= Columns /\ (Len(vs) = Columns => ~whole) /\ (vs = <<>> => whole)
  /\ \A i \in 1 .. Len(R) : /\ Len(R[i]) = Columns
                            /\ \A j \in 1 .. Columns : R[i][j] = c[(i - 1) * Columns + j]
  /\ \A j \in 1 .. Len(vs) : vs[j] = c[Len(R) * Columns + j]

LEMMA FrontFacts ==
  ASSUME NEW S, NEW s \in Seq(S), s # <<>>
  PROVE  /\ Len(s) \in Nat \ {0} /\ Front(s) \in Seq(S) /\ Len(Front(s)) = Len(s) - 1
         /\ \A k \in 1 .. Len(s) - 1 : Front(s)[k] = s[k]
<1>1. Len(s) \in Nat \ {0}
  BY EmptySeq
<1>2. \A k \in 1 .. Len(s) - 1 : s[k] \in S
  BY <1>1, ElementOfSeq
<1>3. Front(s) = SubSeq(s, 1, Len(s) - 1) /\ 1 \in Int /\ Len(s) - 1 \in Int
  BY <1>1 DEF Front
<1>4. /\ SubSeq(s, 1, Len(s) - 1) \in Seq(S)
      /\ Len(SubSeq(s, 1, Len(s) - 1)) = IF 1 <= Len(s) - 1 THEN (Len(s) - 1) - 1 + 1 ELSE 0
      /\ \A k \in 1 .. (Len(s) - 1) - 1 + 1 : SubSeq(s, 1, Len(s) - 1)[k] = s[1 + k - 1]
  BY <1>2, <1>3, SubSeqProperties
<1>5. (Len(s) - 1) - 1 + 1 = Len(s) - 1 /\ \A k \in 1 .. Len(s) - 1 : 1 + k - 1 = k
  BY <1>1
<1>6. (IF 1 <= Len(s) - 1 THEN (Len(s) - 1) - 1 + 1 ELSE 0) = Len(s) - 1
  <2>1. ASSUME NEW n \in Nat \ {0} PROVE (IF 1 <= n - 1 THEN (n - 1) - 1 + 1 ELSE 0) = n - 1
    OBVIOUS
  <2> QED BY <1>1, <2>1
<1> QED BY <1>1, <1>3, <1>4, <1>5, <1>6

LEMMA PutsNone ==
  ASSUME NEW S
  PROVE  Puts(<<>>, <<>>, <<>>, TRUE, S)
<1>1. Len(<<>>) = 0 /\ 0 * Columns = 0 /\ 0 + 0 = 0
  BY RowAssumption
<1> QED BY <1>1, EmptySeq, RowAssumption DEF Puts

(* What may have to be merged.                                             *)
LEMMA PutsLast ==
  ASSUME NEW S, NEW R, NEW vs, NEW c, Puts(R, vs, c, FALSE, S)
  PROVE  vs # <<>> /\ c # <<>> /\ Last(vs) = Last(c) /\ Len(vs) \in Nat \ {0}
<1>1. vs # <<>> /\ vs \in Seq(S) /\ c \in Seq(S) /\ Len(R) * Columns + Len(vs) = Len(c)
  BY DEF Puts
<1>2. Len(vs) \in Nat \ {0}
  BY <1>1, EmptySeq
<1>3. vs[Len(vs)] = c[Len(R) * Columns + Len(vs)]
  <2>1. Len(vs) \in 1 .. Len(vs)
    BY <1>2
  <2> QED BY <2>1 DEF Puts
<1>4. Len(c) # 0
  <2>1. R \in Seq(Seq(S)) /\ Len(R) * Columns \in Nat
    <3>1. R \in Seq(Seq(S)) /\ Len(R) \in Nat
      BY DEF Puts
    <3> QED BY <3>1, RowAssumption
  <2> QED BY <1>1, <1>2, <2>1
<1> QED BY <1>1, <1>2, <1>3, <1>4, EmptySeq DEF Last

(* One value more, or one more part of the last.                           *)
LEMMA PutOn ==
  ASSUME NEW S, NEW R, NEW vs, NEW c, NEW v \in S, NEW joined \in S, NEW d, NEW new,
         \/ Puts(R, vs, c, TRUE, S) /\ d = Append(c, v) /\ new = Append(vs, v)
         \/ Puts(R, vs, c, FALSE, S) /\ d = Append(Front(c), joined) /\ new = [vs EXCEPT ![Len(vs)] = joined]
  PROVE  /\ Len(new) = Columns => Puts(Append(R, new), <<>>, d, TRUE, S)
         /\ Len(new) # Columns => Puts(R, new, d, TRUE, S)
         /\ Puts(R, new, d, FALSE, S)
<1> DEFINE K == Len(R) * Columns
<1>1. /\ R \in Seq(Seq(S)) /\ vs \in Seq(S) /\ c \in Seq(S) /\ Len(c) = K + Len(vs)
      /\ Len(vs) <= Columns
      /\ \A i \in 1 .. Len(R) : /\ Len(R[i]) = Columns
                                /\ \A j \in 1 .. Columns : R[i][j] = c[(i - 1) * Columns + j]
      /\ \A j \in 1 .. Len(vs) : vs[j] = c[K + j]
  BY DEF Puts
<1>2. Len(R) \in Nat /\ Columns \in Nat \ {0} /\ K \in Nat /\ Len(vs) \in Nat
  <2>1. Len(R) \in Nat /\ Len(vs) \in Nat /\ Columns \in Nat \ {0}
    BY <1>1, RowAssumption
  <2> QED BY <2>1
<1>3. \A i \in 1 .. Len(R) : \A j \in 1 .. Columns : (i - 1) * Columns + j \in 1 .. K
  <2> SUFFICES ASSUME NEW i \in 1 .. Len(R), NEW j \in 1 .. Columns
               PROVE  (i - 1) * Columns + j \in 1 .. K
    OBVIOUS
  <2>1. i - 1 \in Nat /\ i - 1 < Len(R)
    BY <1>2
  <2>2. (i - 1) * Columns \in Nat /\ (i - 1) * Columns + Columns <= K
    BY <1>2, <2>1, Times
  <2> HIDE DEF K
  <2> QED BY <1>2, <2>2
<1>4. K + Columns = Len(Append(R, new)) * Columns
  <2>1. Len(Append(R, new)) = Len(R) + 1
    BY <1>1
  <2> QED BY <1>2, <2>1
<1> HIDE DEF K
(* How d and new go on.                                                    *)
<1>5. /\ d \in Seq(S) /\ new \in Seq(S) /\ Len(d) = K + Len(new) /\ Len(new) \in 1 .. Columns
      /\ \A k \in 1 .. K : d[k] = c[k]
      /\ \A j \in 1 .. Len(new) : new[j] = d[K + j]
  <2>1. CASE Puts(R, vs, c, TRUE, S) /\ d = Append(c, v) /\ new = Append(vs, v)
    <3>1. d = Append(c, v) /\ new = Append(vs, v) /\ Len(vs) # Columns
      BY <2>1 DEF Puts
    <3>2. /\ d \in Seq(S) /\ Len(d) = Len(c) + 1 /\ d[Len(c) + 1] = v /\ \A k \in 1 .. Len(c) : d[k] = c[k]
      BY <1>1, <3>1, AppendProperties
    <3>3. /\ new \in Seq(S) /\ Len(new) = Len(vs) + 1 /\ new[Len(vs) + 1] = v
          /\ \A k \in 1 .. Len(vs) : new[k] = vs[k]
      BY <1>1, <3>1, AppendProperties
    <3>4. Len(d) = K + Len(new) /\ Len(new) \in 1 .. Columns
      BY <1>1, <1>2, <3>1, <3>2, <3>3
    <3>5. \A k \in 1 .. K : d[k] = c[k]
      BY <1>1, <1>2, <3>2
    <3>6. ASSUME NEW j \in 1 .. Len(new) PROVE new[j] = d[K + j]
      <4>1. CASE j = Len(new)
        <5>1. j = Len(vs) + 1 /\ K + j = Len(c) + 1
          BY <1>1, <1>2, <3>3, <4>1
        <5> QED BY <3>2, <3>3, <5>1
      <4>2. CASE j # Len(new)
        <5>1. j \in 1 .. Len(vs) /\ K + j \in 1 .. Len(c)
          BY <1>1, <1>2, <3>3, <4>2
        <5>2. vs[j] = c[K + j]
          BY <1>1, <5>1
        <5> QED BY <3>2, <3>3, <5>1, <5>2
      <4> QED BY <4>1, <4>2
    <3> QED BY <3>2, <3>3, <3>4, <3>5, <3>6
  <2>2. CASE Puts(R, vs, c, FALSE, S) /\ d = Append(Front(c), joined) /\ new = [vs EXCEPT ![Len(vs)] = joined]
    <3>1. d = Append(Front(c), joined) /\ new = [vs EXCEPT ![Len(vs)] = joined] /\ vs # <<>>
      BY <2>2 DEF Puts
    <3>2. Len(vs) \in 1 .. Columns /\ Len(vs) \in 1 .. Len(vs) /\ Len(c) \in Nat \ {0} /\ K < Len(c)
      <4>1. Len(vs) # 0
        BY <1>1, <3>1, EmptySeq
      <4> QED BY <1>1, <1>2, <4>1
    <3>3. /\ Front(c) \in Seq(S) /\ Len(Front(c)) = Len(c) - 1
          /\ \A k \in 1 .. Len(c) - 1 : Front(c)[k] = c[k]
      <4>1. c # <<>>
        BY <3>2, EmptySeq
      <4> QED BY <1>1, <4>1, FrontFacts
    <3>4. /\ d \in Seq(S) /\ Len(d) = Len(Front(c)) + 1 /\ d[Len(Front(c)) + 1] = joined
          /\ \A k \in 1 .. Len(Front(c)) : d[k] = Front(c)[k]
      BY <3>1, <3>3, AppendProperties
    <3>5. /\ Len(d) = Len(c) /\ d[Len(c)] = joined /\ \A k \in 1 .. Len(c) - 1 : d[k] = c[k]
      BY <3>2, <3>3, <3>4
    <3>6. /\ new \in Seq(S) /\ Len(new) = Len(vs)
          /\ \A j \in 1 .. Len(vs) : new[j] = IF j = Len(vs) THEN joined ELSE vs[j]
      BY <1>1, <3>1, <3>2, ExceptSeq
    <3>7. \A k \in 1 .. K : d[k] = c[k]
      BY <1>2, <3>2, <3>5
    <3>8. ASSUME NEW j \in 1 .. Len(new) PROVE new[j] = d[K + j]
      <4>1. CASE j = Len(vs)
        BY <1>1, <3>5, <3>6, <4>1
      <4>2. CASE j # Len(vs)
        <5>1. j \in 1 .. Len(vs) /\ K + j \in 1 .. Len(c) - 1
          BY <1>1, <1>2, <3>2, <3>6, <4>2
        <5>2. vs[j] = c[K + j]
          BY <1>1, <5>1
        <5> QED BY <3>5, <3>6, <4>2, <5>1, <5>2
      <4> QED BY <4>1, <4>2
    <3> QED BY <1>1, <3>2, <3>4, <3>5, <3>6, <3>7, <3>8
  <2> QED BY <2>1, <2>2
<1>6. \A i \in 1 .. Len(R) : /\ Len(R[i]) = Columns
                             /\ \A j \in 1 .. Columns : R[i][j] = d[(i - 1) * Columns + j]
  BY <1>1, <1>3, <1>5
<1>7. ASSUME Len(new) = Columns PROVE Puts(Append(R, new), <<>>, d, TRUE, S)
  <2> DEFINE more == Append(R, new)
  <2>1. /\ more \in Seq(Seq(S)) /\ Len(more) = Len(R) + 1 /\ more[Len(R) + 1] = new
        /\ \A i \in 1 .. Len(R) : more[i] = R[i]
    BY <1>1, <1>5, AppendProperties
  <2>2. Len(more) * Columns + 0 = Len(d)
    <3>1. K + Columns = Len(more) * Columns
      BY <1>4
    <3> HIDE DEF more
    <3>2. Len(d) = K + Columns /\ K + Columns \in Nat
      BY <1>2, <1>5, <1>7
    <3> QED BY <3>1, <3>2
  <2>3. ASSUME NEW i \in 1 .. Len(more)
        PROVE  Len(more[i]) = Columns /\ \A j \in 1 .. Columns : more[i][j] = d[(i - 1) * Columns + j]
    <3>1. CASE i = Len(R) + 1
      <4>1. more[i] = new /\ i - 1 = Len(R)
        BY <1>2, <2>1, <3>1
      <4>2. (i - 1) * Columns = K
        BY <4>1 DEF K
      <4>3. \A j \in 1 .. Columns : new[j] = d[K + j]
        BY <1>5, <1>7
      <4> HIDE DEF more
      <4> QED BY <1>7, <4>1, <4>2, <4>3
    <3>2. CASE i # Len(R) + 1
      <4>1. i \in 1 .. Len(R) /\ more[i] = R[i]
        BY <1>2, <2>1, <3>2
      <4> QED BY <1>6, <4>1
    <3> QED BY <3>1, <3>2
  <2> HIDE DEF more
  <2>4. <<>> \in Seq(S) /\ Len(<<>>) = 0 /\ 0 <= Columns /\ 0 # Columns
    BY <1>2, EmptySeq
  <2>5. \A j \in 1 .. Len(<<>>) : <<>>[j] = d[Len(more) * Columns + j]
    BY <2>4
  <2>6. Len(more) * Columns + Len(<<>>) = Len(d) /\ Len(<<>>) <= Columns /\ Len(<<>>) # Columns
    BY <2>2, <2>4
  <2>7. Puts(more, <<>>, d, TRUE, S)
    BY <1>5, <2>1, <2>3, <2>4, <2>5, <2>6 DEF Puts
  <2> QED BY <2>7 DEF more
<1>8. /\ new # <<>> /\ Len(new) <= Columns /\ Len(R) * Columns + Len(new) = Len(d)
      /\ \A j \in 1 .. Len(new) : new[j] = d[Len(R) * Columns + j]
  <2>1. Len(R) * Columns + Len(new) = Len(d) /\ \A j \in 1 .. Len(new) : new[j] = d[Len(R) * Columns + j]
    BY <1>5 DEF K
  <2>2. Len(new) <= Columns /\ Len(new) # 0
    BY <1>2, <1>5
  <2> QED BY <1>5, <2>1, <2>2, EmptySeq
<1>9. Puts(R, new, d, FALSE, S) /\ (Len(new) # Columns => Puts(R, new, d, TRUE, S))
  BY <1>1, <1>5, <1>6, <1>8 DEF Puts
<1> QED BY <1>7, <1>9

-----------------------------------------------------------------------------
(* The values that the pieces of a result make.                            *)
LEMMA Least ==
  ASSUME NEW T \in SUBSET Nat, T # {}
  PROVE  \E x \in T : \A y \in T : x <= y
<1>1. PICK x \in T : \A y \in T : ~(<<y, x>> \in OpToRel(<, Nat))
  BY WFMin, NatLessThanWellFounded
<1>2. ASSUME NEW y \in T PROVE x <= y
  <2>1. <<y, x>> \in Nat \X Nat /\ y \in Nat /\ x \in Nat
    OBVIOUS
  <2>2. ~(y < x)
    <3>1. SUFFICES ASSUME y < x PROVE <<y, x>> \in OpToRel(<, Nat)
      BY <1>1
    <3> QED BY <2>1, <3>1 DEF OpToRel
  <2> QED BY <2>1, <2>2
<1> QED BY <1>2

(* Step by step, up to any number.                                         *)
LEMMA UpToAny ==
  ASSUME NEW N \in Nat, NEW T, 0 \in T, \A n \in 0 .. N - 1 : n \in T => n + 1 \in T
  PROVE  \A n \in 0 .. N : n \in T
<1> DEFINE R == {n \in 0 .. N : n \notin T}
<1> SUFFICES ASSUME R # {} PROVE FALSE
  OBVIOUS
<1>1. R \in SUBSET Nat
  OBVIOUS
<1>2. PICK n \in R : \A k \in R : n <= k
  <2> HIDE DEF R
  <2> QED BY <1>1, Least
<1>3. n \in 0 .. N /\ n # 0
  BY <1>2
<1>4. n - 1 \in 0 .. N - 1 /\ n - 1 \in 0 .. N /\ (n - 1) + 1 = n
  BY <1>3
<1>5. n - 1 \notin R
  <2> HIDE DEF R
  <2> QED BY <1>2, <1>3
<1> QED BY <1>4, <1>5

(* What Cells is by its definition, and that there is such a function.     *)
NextCells(r, f, n) ==
  IF n = 0 THEN <<>>
  ELSE IF Starts(r, n) THEN Append(f[n - 1], r.pieces[n].value)
  ELSE Append(Front(f[n - 1]), Merge(Last(f[n - 1]), r.pieces[n].value))

AreCells(f, r, n) == f = [k \in 0 .. n |-> NextCells(r, f, k)]

LEMMA CellsExist ==
  ASSUME NEW r, NEW N \in Nat
  PROVE  \E f : AreCells(f, r, N)
<1> DEFINE T == {n \in 0 .. N : \E f : AreCells(f, r, n)}
<1>1. 0 \in T
  <2>1. ASSUME NEW k \in 0 .. 0 PROVE NextCells(r, [i \in 0 .. 0 |-> <<>>], k) = <<>>
    BY DEF NextCells
  <2>2. AreCells([i \in 0 .. 0 |-> <<>>], r, 0)
    BY <2>1 DEF AreCells
  <2> QED BY <2>2
<1>2. ASSUME NEW n \in 0 .. N - 1, n \in T PROVE n + 1 \in T
  <2>1. PICK f : AreCells(f, r, n)
    BY <1>2
  <2> DEFINE g == [k \in 0 .. n + 1 |-> IF k = n + 1 THEN NextCells(r, f, k) ELSE f[k]]
  <2>2. ASSUME NEW k \in 0 .. n + 1 PROVE g[k] = NextCells(r, g, k)
    <3>1. k # 0 => k - 1 \in 0 .. n /\ k - 1 \in 0 .. n + 1 /\ k - 1 # n + 1
      OBVIOUS
    <3>2. k # 0 => g[k - 1] = f[k - 1]
      BY <3>1
    <3>3. NextCells(r, g, k) = NextCells(r, f, k)
      <4> HIDE DEF g
      <4> QED BY <3>2 DEF NextCells
    <3>4. k # n + 1 => f[k] = NextCells(r, f, k)
      <4>1. k # n + 1 => k \in 0 .. n
        OBVIOUS
      <4> QED BY <2>1, <4>1 DEF AreCells
    <3> QED BY <3>3, <3>4
  <2>3. AreCells(g, r, n + 1)
    <3>1. g = [k \in 0 .. n + 1 |-> g[k]]
      OBVIOUS
    <3> HIDE DEF g
    <3> QED BY <2>2, <3>1 DEF AreCells
  <2>4. n + 1 \in 0 .. N
    OBVIOUS
  <2> QED BY <2>3, <2>4
<1> HIDE DEF T
<1>3. N \in T
  BY <1>1, <1>2, UpToAny
<1> QED BY <1>3 DEF T

LEMMA CellsAt ==
  ASSUME NEW r, Len(r.pieces) \in Nat, NEW n \in 0 .. Len(r.pieces)
  PROVE  Cells(r)[n] = NextCells(r, Cells(r), n)
<1>1. Cells(r) = CHOOSE f : AreCells(f, r, Len(r.pieces))
  BY DEF Cells, AreCells, NextCells
<1>2. AreCells(Cells(r), r, Len(r.pieces))
  BY <1>1, CellsExist
<1> QED BY <1>2 DEF AreCells

(* The values a result can have in its rows.                               *)
CellValues(r) ==
  {r.pieces[k].value : k \in 1 .. Len(r.pieces)}
  \cup {Merge(Last(Cells(r)[k - 1]), r.pieces[k].value) : k \in 1 .. Len(r.pieces)}

LEMMA ResultTypes ==
  ASSUME NEW r \in Results
  PROVE  /\ Len(r.pieces) \in Nat /\ \A k \in 1 .. Len(r.pieces) : r.pieces[k].ends \in BOOLEAN
         /\ Len(r.rows) \in Nat /\ r.rows \in Seq(ToSet(r.rows))
<1>1. /\ r.rows \in Seq(ToSet(r.rows)) /\ r.pieces \in Seq(ToSet(r.pieces))
      /\ \A p \in ToSet(r.pieces) : p.ends \in BOOLEAN
  BY RowAssumption
<1>2. Len(r.pieces) \in Nat /\ Len(r.rows) \in Nat /\ \A k \in 1 .. Len(r.pieces) : r.pieces[k] \in ToSet(r.pieces)
  BY <1>1, ElementOfSeq
<1> QED BY <1>1, <1>2

LEMMA CellsType ==
  ASSUME NEW r \in Results, NEW m \in 0 .. Len(r.pieces)
  PROVE  Cells(r)[m] \in Seq(CellValues(r)) /\ (m # 0 => Cells(r)[m] # <<>>)
<1> DEFINE S == CellValues(r)
           T == {n \in 0 .. Len(r.pieces) : Cells(r)[n] \in Seq(S) /\ (n # 0 => Cells(r)[n] # <<>>)}
<1>1. Len(r.pieces) \in Nat
  BY ResultTypes
<1>2. 0 \in T
  <2>1. Cells(r)[0] = <<>>
    BY <1>1, CellsAt DEF NextCells
  <2>2. <<>> \in Seq(S) /\ 0 \in 0 .. Len(r.pieces)
    BY <1>1, EmptySeq
  <2> QED BY <2>1, <2>2
<1>3. ASSUME NEW n \in 0 .. Len(r.pieces) - 1, n \in T PROVE n + 1 \in T
  <2> DEFINE c == Cells(r)[n]
             d == Cells(r)[n + 1]
  <2>1. n + 1 \in 1 .. Len(r.pieces) /\ n + 1 \in 0 .. Len(r.pieces) /\ (n + 1) - 1 = n /\ n + 1 # 0
    BY <1>1
  <2>2. d = IF Starts(r, n + 1) THEN Append(c, r.pieces[n + 1].value)
            ELSE Append(Front(c), Merge(Last(c), r.pieces[n + 1].value))
    BY <1>1, <2>1, CellsAt DEF NextCells
  <2>3. r.pieces[n + 1].value \in S /\ Merge(Last(c), r.pieces[n + 1].value) \in S
    BY <2>1 DEF CellValues
  <2>4. c \in Seq(S) /\ (~Starts(r, n + 1) => c # <<>>)
    BY <1>3, <2>1 DEF Starts
  <2> HIDE DEF c, d, S
  <2>5. ~Starts(r, n + 1) => Front(c) \in Seq(S)
    <3> SUFFICES ASSUME c # <<>> PROVE Front(c) \in Seq(S)
      BY <2>4
    <3> QED BY <2>4, FrontFacts
  <2>6. d \in Seq(S) /\ d # <<>>
    BY <2>2, <2>3, <2>4, <2>5, AppendProperties
  <2> QED BY <2>1, <2>6 DEF d
<1> HIDE DEF T
<1>4. m \in T
  BY <1>1, <1>2, <1>3, UpToAny
<1> QED BY <1>4 DEF T

(* One piece more.                                                         *)
LEMMA CellsNext ==
  ASSUME NEW r \in Results, NEW n \in 0 .. Len(r.pieces) - 1
  PROVE  /\ r.pieces[n + 1].value \in CellValues(r)
         /\ Merge(Last(Cells(r)[n]), r.pieces[n + 1].value) \in CellValues(r)
         /\ Cells(r)[n + 1] = IF Starts(r, n + 1) THEN Append(Cells(r)[n], r.pieces[n + 1].value)
                              ELSE Append(Front(Cells(r)[n]), Merge(Last(Cells(r)[n]), r.pieces[n + 1].value))
<1>1. Len(r.pieces) \in Nat
  BY ResultTypes
<1>2. n + 1 \in 1 .. Len(r.pieces) /\ n + 1 \in 0 .. Len(r.pieces) /\ (n + 1) - 1 = n /\ n + 1 # 0
  BY <1>1
<1>3. Cells(r)[n + 1] = IF Starts(r, n + 1) THEN Append(Cells(r)[n], r.pieces[n + 1].value)
                        ELSE Append(Front(Cells(r)[n]), Merge(Last(Cells(r)[n]), r.pieces[n + 1].value))
  BY <1>1, <1>2, CellsAt DEF NextCells
<1>4. r.pieces[n + 1].value \in CellValues(r)
  BY <1>2 DEF CellValues
<1>5. Merge(Last(Cells(r)[n]), r.pieces[n + 1].value) \in CellValues(r)
  BY <1>2 DEF CellValues
<1> QED BY <1>3, <1>4, <1>5

(* The last of n pieces is the last of its value.                          *)
Whole(r, n) == n = 0 \/ r.pieces[n].ends

(* So many values are whole.                                               *)
LEMMA EndedCounted ==
  ASSUME NEW r \in Results, NEW m \in 0 .. Len(r.pieces)
  PROVE  /\ Cardinality(Ended(r, m)) \in Nat
         /\ Len(Cells(r)[m]) = Cardinality(Ended(r, m)) + (IF Whole(r, m) THEN 0 ELSE 1)
<1> DEFINE Right(n) == /\ IsFiniteSet(Ended(r, n)) /\ Cardinality(Ended(r, n)) \in Nat
                       /\ Len(Cells(r)[n]) = Cardinality(Ended(r, n)) + (IF Whole(r, n) THEN 0 ELSE 1)
           T == {n \in 0 .. Len(r.pieces) : Right(n)}
<1>1. Len(r.pieces) \in Nat /\ \A k \in 1 .. Len(r.pieces) : r.pieces[k].ends \in BOOLEAN
  BY ResultTypes
<1>2. 0 \in T
  <2>1. Cells(r)[0] = <<>> /\ Ended(r, 0) = {} /\ Whole(r, 0)
    BY <1>1, CellsAt DEF NextCells, Ended, Whole
  <2>2. IsFiniteSet({}) /\ Cardinality({}) = 0 /\ Len(<<>>) = 0
    BY FS_EmptySet, EmptySeq
  <2>3. Right(0)
    <3>1. IsFiniteSet(Ended(r, 0)) /\ Cardinality(Ended(r, 0)) = 0
      BY <2>1, <2>2
    <3>2. Len(Cells(r)[0]) = 0
      BY <2>1, <2>2
    <3> QED BY <2>1, <3>1, <3>2
  <2> QED BY <1>1, <2>3
<1>3. ASSUME NEW n \in 0 .. Len(r.pieces) - 1, n \in T PROVE n + 1 \in T
  <2>1. n \in Nat /\ n \in 0 .. Len(r.pieces) /\ n + 1 \in 0 .. Len(r.pieces) /\ n + 1 \in 1 .. Len(r.pieces)
    BY <1>1
  <2>2. /\ Whole(r, n) <=> Starts(r, n + 1)
        /\ Whole(r, n + 1) <=> r.pieces[n + 1].ends
    BY <2>1 DEF Whole, Starts
  <2>3. Ended(r, n + 1) = IF r.pieces[n + 1].ends THEN Ended(r, n) \cup {n + 1} ELSE Ended(r, n)
    BY <2>1 DEF Ended
  <2>4. n + 1 \notin Ended(r, n)
    BY <2>1 DEF Ended
  <2>5. /\ Cells(r)[n] \in Seq(CellValues(r)) /\ Cells(r)[n + 1] \in Seq(CellValues(r))
        /\ n # 0 => Cells(r)[n] # <<>>
    BY <2>1, CellsType
  <2>6. Len(Cells(r)[n + 1]) = Len(Cells(r)[n]) + (IF Whole(r, n) THEN 1 ELSE 0)
    <3> DEFINE c == Cells(r)[n]
               v == r.pieces[n + 1].value
    <3>1. CASE Whole(r, n)
      <4>1. Cells(r)[n + 1] = Append(c, v) /\ v \in CellValues(r)
        BY <2>2, <3>1, CellsNext
      <4> HIDE DEF c, v
      <4>2. Len(Append(c, v)) = Len(c) + 1
        BY <2>5, <4>1, AppendProperties DEF c
      <4> QED BY <3>1, <4>1, <4>2 DEF c
    <3>2. CASE ~Whole(r, n)
      <4>1. Cells(r)[n + 1] = Append(Front(c), Merge(Last(c), v)) /\ Merge(Last(c), v) \in CellValues(r)
        BY <2>2, <3>2, CellsNext
      <4>2. c # <<>> /\ c \in Seq(CellValues(r))
        BY <2>5, <3>2 DEF Whole
      <4> HIDE DEF c, v
      <4>3. Len(c) \in Nat \ {0}
        BY <4>2, EmptySeq
      <4>4. Front(c) \in Seq(CellValues(r)) /\ Len(Front(c)) = Len(c) - 1
        BY <4>2, FrontFacts
      <4>5. Len(Append(Front(c), Merge(Last(c), v))) = Len(Front(c)) + 1
        BY <4>1, <4>4, AppendProperties
      <4> QED BY <3>2, <4>1, <4>3, <4>4, <4>5 DEF c
    <3> QED BY <3>1, <3>2
  <2>7. IsFiniteSet(Ended(r, n + 1)) /\ Cardinality(Ended(r, n + 1)) =
          Cardinality(Ended(r, n)) + (IF r.pieces[n + 1].ends THEN 1 ELSE 0)
    <3>1. IsFiniteSet(Ended(r, n)) /\ Cardinality(Ended(r, n)) \in Nat
      BY <1>3
    <3>2. CASE r.pieces[n + 1].ends
      <4>1. Ended(r, n + 1) = Ended(r, n) \cup {n + 1}
        BY <2>3, <3>2
      <4>2. /\ IsFiniteSet(Ended(r, n) \cup {n + 1})
            /\ Cardinality(Ended(r, n) \cup {n + 1}) = Cardinality(Ended(r, n)) + 1
        BY <2>4, <3>1, FS_AddElement
      <4> QED BY <3>2, <4>1, <4>2
    <3>3. CASE ~r.pieces[n + 1].ends
      BY <2>3, <3>1, <3>3
    <3> QED BY <3>2, <3>3
  <2>8. /\ Cardinality(Ended(r, n)) \in Nat
        /\ Len(Cells(r)[n]) = Cardinality(Ended(r, n)) + (IF Whole(r, n) THEN 0 ELSE 1)
    BY <1>3
  <2>9. r.pieces[n + 1].ends \in BOOLEAN
    BY <1>1, <2>1
  <2>10. Right(n + 1)
    BY <2>2, <2>6, <2>7, <2>8, <2>9
  <2> QED BY <2>1, <2>10
<1> HIDE DEF T
<1>4. m \in T
  BY <1>1, <1>2, <1>3, UpToAny
<1> QED BY <1>4 DEF T

(* Rows that have been put together of all n pieces there have been are    *)
(* the first rows of the result, as many as there have been values for.    *)
LEMMA RowsMeant ==
  ASSUME NEW r \in Results, NEW m \in 0 .. Len(r.pieces), \A k \in 1 .. m : Fits(r, k),
         NEW R, NEW vs, Puts(R, vs, Cells(r)[m], Whole(r, m), CellValues(r))
  PROVE  /\ IsPrefix(R, r.rows) /\ R = SubSeq(r.rows, 1, Cardinality(Ended(r, m)) \div Columns)
         /\ vs = <<>> => Cardinality(Ended(r, m)) % Columns = 0
         /\ m = Len(r.pieces) => vs = <<>> /\ Whole(r, m)
<1> DEFINE S == CellValues(r)
           c == Cells(r)[m]
           E == Cardinality(Ended(r, m))
           k == Len(vs) - (IF Whole(r, m) THEN 0 ELSE 1)
<1>1. /\ R \in Seq(Seq(S)) /\ vs \in Seq(S) /\ c \in Seq(S)
      /\ Len(R) * Columns + Len(vs) = Len(c)
      /\ Len(vs) <= Columns /\ (Len(vs) = Columns => ~Whole(r, m)) /\ (vs = <<>> => Whole(r, m))
  BY DEF Puts
<1>2. /\ E \in Nat /\ Len(c) = E + (IF Whole(r, m) THEN 0 ELSE 1)
      /\ Len(r.pieces) \in Nat /\ Len(r.rows) \in Nat /\ r.rows \in Seq(ToSet(r.rows))
      /\ Whole(r, m) \in BOOLEAN
  BY EndedCounted, ResultTypes DEF Whole
<1>3. Columns \in Nat \ {0} /\ Len(R) \in Nat /\ Len(vs) \in Nat /\ Len(R) * Columns \in Nat
  <2>1. Columns \in Nat \ {0} /\ Len(R) \in Nat /\ Len(vs) \in Nat
    BY <1>1, RowAssumption
  <2> QED BY <2>1
<1> HIDE DEF c, S, E
<1>4. /\ k \in 0 .. Columns - 1 /\ E = Len(R) * Columns + k
      /\ k = 0 /\ Whole(r, m) => vs = <<>>
      /\ vs = <<>> => k = 0
  <2>1. CASE Whole(r, m)
    <3>1. k = Len(vs) /\ Len(vs) < Columns
      BY <1>1, <1>3, <2>1
    <3>2. E = Len(c)
      BY <1>2, <2>1
    <3>3. vs = <<>> <=> Len(vs) = 0
      BY <1>1, EmptySeq
    <3> HIDE DEF k
    <3> QED BY <1>1, <1>3, <3>1, <3>2, <3>3
  <2>2. CASE ~Whole(r, m)
    <3>1. vs # <<>> /\ Len(vs) # 0
      BY <1>1, <2>2, EmptySeq
    <3>2. k = Len(vs) - 1 /\ Len(c) = E + 1
      BY <1>2, <2>2
    <3> HIDE DEF k
    <3> QED BY <1>1, <1>2, <1>3, <2>2, <3>1, <3>2
  <2> QED BY <2>1, <2>2
<1> HIDE DEF k
<1>5. E \div Columns = Len(R) /\ E % Columns = k
  BY <1>3, <1>4, Quotient
<1>6. ASSUME NEW i \in 1 .. Len(R) PROVE i <= Len(r.rows) /\ r.rows[i] = R[i]
  <2>1. i <= Len(r.rows) /\ r.rows[i] = SubSeq(c, (i - 1) * Columns + 1, i * Columns)
    <3>1. i \in 1 .. E \div Columns
      BY <1>5
    <3> QED BY <3>1, RowAssumption DEF c, E
  <2>2. /\ i - 1 \in Nat /\ (i - 1) * Columns \in Nat /\ i * Columns = (i - 1) * Columns + Columns
        /\ i * Columns <= Len(R) * Columns
    <3>1. i - 1 \in Nat /\ i - 1 < Len(R) /\ (i - 1) + 1 = i
      BY <1>3
    <3>2. /\ (i - 1) * Columns \in Nat /\ (i - 1) * Columns + Columns <= Len(R) * Columns
          /\ ((i - 1) + 1) * Columns = (i - 1) * Columns + Columns
      BY <1>3, <3>1, Times
    <3> QED BY <3>1, <3>2
  <2> DEFINE p == (i - 1) * Columns
             part == SubSeq(c, p + 1, p + Columns)
  <2>3. p \in Nat /\ p + Columns <= Len(c)
    BY <1>1, <1>3, <2>2
  <2>4. r.rows[i] = part
    BY <2>1, <2>2
  <2>5. \A j \in 1 .. Columns : R[i][j] = c[p + j]
    BY DEF Puts, c
  <2>6. R[i] \in Seq(S) /\ Len(R[i]) = Columns
    BY <1>1 DEF Puts
  <2> HIDE DEF p
  <2>7. part \in Seq(S) /\ Len(part) = Columns /\ \A j \in 1 .. Columns : part[j] = c[p + j]
    <3>1. p + 1 \in Int /\ p + Columns \in Int /\ (p + Columns) - (p + 1) + 1 = Columns /\ p + 1 <= p + Columns
      BY <1>3, <2>3
    <3>2. Len(c) \in Nat /\ \A j \in p + 1 .. p + Columns : j \in 1 .. Len(c)
      BY <1>1, <1>3, <2>3
    <3>3. \A j \in p + 1 .. p + Columns : c[j] \in S
      BY <1>1, <3>2, ElementOfSeq
    <3>4. /\ part \in Seq(S)
          /\ Len(part) = IF p + 1 <= p + Columns THEN (p + Columns) - (p + 1) + 1 ELSE 0
          /\ \A j \in 1 .. (p + Columns) - (p + 1) + 1 : part[j] = c[(p + 1) + j - 1]
      BY <3>1, <3>3, SubSeqProperties
    <3>5. \A j \in 1 .. Columns : (p + 1) + j - 1 = p + j
      BY <1>3, <2>3
    <3> HIDE DEF part
    <3> QED BY <3>1, <3>4, <3>5
  <2> HIDE DEF part
  <2>8. part = R[i]
    BY <2>5, <2>6, <2>7, SeqEqual
  <2> QED BY <2>1, <2>4, <2>8
<1>7. Len(R) <= Len(r.rows)
  <2>1. CASE Len(R) = 0
    BY <1>2, <2>1
  <2>2. CASE Len(R) # 0
    <3>1. Len(R) \in 1 .. Len(R)
      BY <1>3, <2>2
    <3> QED BY <1>6, <3>1
  <2> QED BY <2>1, <2>2
<1>8. SubSeq(r.rows, 1, Len(R)) = R
  <2> DEFINE part == SubSeq(r.rows, 1, Len(R))
  <2>1. \A i \in 1 .. Len(R) : r.rows[i] \in Seq(S)
    BY <1>1, <1>6, ElementOfSeq
  <2>2. 1 \in Int /\ Len(R) \in Int /\ Len(R) - 1 + 1 = Len(R) /\ \A i \in 1 .. Len(R) : 1 + i - 1 = i
    BY <1>3
  <2>3. /\ part \in Seq(Seq(S)) /\ Len(part) = IF 1 <= Len(R) THEN Len(R) - 1 + 1 ELSE 0
        /\ \A i \in 1 .. Len(R) - 1 + 1 : part[i] = r.rows[1 + i - 1]
    BY <2>1, <2>2, SubSeqProperties
  <2> HIDE DEF part
  <2>4. Len(part) = Len(R)
    BY <1>3, <2>2, <2>3
  <2>5. \A i \in 1 .. Len(part) : part[i] = R[i]
    BY <1>6, <2>2, <2>3, <2>4
  <2>6. part = R
    BY <1>1, <2>3, <2>4, <2>5, SeqEqual
  <2> QED BY <2>6 DEF part
<1>9. IsPrefix(R, r.rows)
  <2>1. SubSeq(R, 1, Len(R)) = R
    BY <1>1, SubSeqFull
  <2> QED BY <1>7, <1>8, <2>1 DEF IsPrefix
<1>10. ASSUME m = Len(r.pieces) PROVE vs = <<>> /\ Whole(r, m)
  <2>1. E = Len(r.rows) * Columns /\ Whole(r, m)
    BY <1>10, RowAssumption DEF E, Whole
  <2>2. E = Len(r.rows) * Columns + 0 /\ 0 \in 0 .. Columns - 1
    <3>1. Len(r.rows) * Columns \in Nat
      BY <1>2, <1>3
    <3> QED BY <1>3, <2>1, <3>1
  <2>3. E % Columns = 0
    BY <1>2, <1>3, <2>2, Quotient
  <2> QED BY <1>4, <1>5, <2>1, <2>3
<1>11. vs = <<>> => E % Columns = 0
  BY <1>4, <1>5
<1> QED BY <1>5, <1>8, <1>9, <1>10, <1>11 DEF E

(* A set has the whole values it was sent with, but for the last.          *)
Packed(set) == \A k \in set.from + 1 .. set.to - 1 : result.pieces[k].ends

AreValues(R) == R \in Seq(Seq(CellValues(result)))

(* Sequences one after the other.                                          *)
LEMMA AppendedTo ==
  ASSUME NEW S, NEW s \in Seq(S), NEW t \in Seq(S), NEW e \in S
  PROVE  s \o Append(t, e) = Append(s \o t, e)
<1>1. <<e>> \in Seq(S) /\ s \o t \in Seq(S)
  OBVIOUS
<1>2. Append(t, e) = t \o <<e>> /\ Append(s \o t, e) = (s \o t) \o <<e>>
  BY <1>1, AppendIsConcat
<1>3. (s \o t) \o <<e>> = s \o (t \o <<e>>)
  BY <1>1, ConcatAssociative
<1> QED BY <1>2, <1>3

LEMMA HeadOver ==
  ASSUME NEW S, NEW s \in Seq(S), NEW t \in Seq(S), t # <<>>
  PROVE  Append(s, Head(t)) \o Tail(t) = s \o t
<1> DEFINE h == Head(t)
           u == Tail(t)
<1>1. h \in S /\ u \in Seq(S) /\ Len(u) = Len(t) - 1 /\ h = t[1] /\ Len(t) \in Nat \ {0}
      /\ \A i \in 1 .. Len(t) - 1 : u[i] = t[i + 1]
  BY TailFacts
<1> HIDE DEF h, u
<1>2. /\ <<h>> \in Seq(S) /\ Append(s, h) = s \o <<h>>
      /\ (s \o <<h>>) \o u = s \o (<<h>> \o u)
  <2>1. <<h>> \in Seq(S)
    BY <1>1
  <2>2. Append(s, h) = s \o <<h>>
    BY <1>1, AppendIsConcat
  <2> DEFINE l == <<h>>
  <2> HIDE DEF l
  <2>3. l \in Seq(S)
    BY <2>1 DEF l
  <2>4. (s \o l) \o u = s \o (l \o u)
    <3>1. u \in Seq(S)
      BY <1>1
    <3> QED BY <2>3, <3>1, ConcatAssociative
  <2> QED BY <2>1, <2>2, <2>4 DEF l
<1>3. <<h>> \o u = t
  <2>1. <<h>> \o u \in Seq(S) /\ Len(<<h>> \o u) = Len(t)
        /\ \A i \in 1 .. Len(t) : (<<h>> \o u)[i] = IF i <= 1 THEN h ELSE u[i - 1]
    <3>1. Len(<<h>>) = 1 /\ <<h>>[1] = h
      OBVIOUS
    <3>2. 1 + Len(u) = Len(t)
      BY <1>1
    <3> QED BY <1>1, <1>2, <3>1, <3>2, ConcatProperties
  <2>2. ASSUME NEW i \in 1 .. Len(t) PROVE (<<h>> \o u)[i] = t[i]
    <3>1. CASE i = 1
      BY <1>1, <2>1, <3>1
    <3>2. CASE i # 1
      <4>1. i - 1 \in 1 .. Len(t) - 1 /\ (i - 1) + 1 = i /\ ~(i <= 1)
        BY <1>1, <3>2
      <4> QED BY <1>1, <2>1, <4>1
    <3> QED BY <3>1, <3>2
  <2> QED BY <2>1, <2>2, SeqEqual
<1> QED BY <1>2, <1>3 DEF h, u

(* One more value of a set.                                                *)
LEMMA PlacePuts ==
  ASSUME result \in Results, NEW set, set.from \in Nat, set.to \in Nat, set.to <= Len(result.pieces),
         Packed(set), fields', chunked <=> ~Whole(result, set.from),
         NEW i \in 1 .. set.to - set.from, NEW n \in Nat, n = set.from + i - 1,
         NEW acc, AreValues(out), AreValues(acc.rows),
         Puts(out \o acc.rows, acc.vals, Cells(result)[n], Whole(result, n), CellValues(result))
  PROVE  /\ AreValues(Place(set, acc, i).rows)
         /\ Puts(out \o Place(set, acc, i).rows, Place(set, acc, i).vals, Cells(result)[n + 1],
                 Whole(result, n + 1), CellValues(result))
<1> DEFINE S == CellValues(result)
           c == Cells(result)[n]
           v == result.pieces[n + 1].value
           whole == Whole(result, n)
           ends == result.pieces[n + 1].ends
           joined == Merge(Last(c), v)
           new == IF whole THEN Append(acc.vals, v) ELSE [acc.vals EXCEPT ![Len(acc.vals)] = joined]
<1>1. /\ Len(result.pieces) \in Nat /\ n \in 0 .. Len(result.pieces) - 1 /\ n + 1 \in 1 .. Len(result.pieces)
      /\ n + 1 = set.from + i /\ n + 1 # 0 /\ set.to - set.from \in Nat
      /\ (n + 1) - 1 = n /\ (n + 1 = 1 <=> n = 0)
      /\ i # 1 => n \in set.from + 1 .. set.to - 1
      /\ i = 1 => n = set.from
      /\ i = set.to - set.from => n + 1 = set.to
      /\ i # set.to - set.from => n + 1 \in set.from + 1 .. set.to - 1
      /\ set.to # set.from
  <2>1. Len(result.pieces) \in Nat
    BY ResultTypes
  <2>3. set.to <= Len(result.pieces) /\ set.from \in Nat /\ set.to \in Nat
    OBVIOUS
  <2> DEFINE a == set.from
             b == set.to
             l == Len(result.pieces)
  <2>4. i \in 1 .. b - a /\ n = a + i - 1 /\ a \in Nat /\ b \in Nat /\ l \in Nat /\ b <= l
    BY <2>1
  <2> HIDE DEF a, b, l
  <2>5. /\ n \in 0 .. l - 1 /\ n + 1 \in 1 .. l /\ n + 1 = a + i /\ n + 1 # 0 /\ b - a \in Nat
        /\ (n + 1) - 1 = n /\ (n + 1 = 1 <=> n = 0)
        /\ i # 1 => n \in a + 1 .. b - 1
        /\ i = 1 => n = a
        /\ i = b - a => n + 1 = b
        /\ i # b - a => n + 1 \in a + 1 .. b - 1
        /\ b # a
    <3>1. PICK m \in Nat : m = i - 1 /\ i = m + 1 /\ n = a + m
      <4>1. i - 1 \in Nat /\ i = (i - 1) + 1 /\ n = a + (i - 1)
        BY <2>4
      <4> QED BY <4>1
    <3>2. a + m < b
      BY <2>4, <3>1
    <3>3. n \in Nat /\ n < b /\ n <= l - 1
      BY <2>4, <3>1, <3>2
    <3>4. n + 1 = a + i /\ n + 1 # 0 /\ b - a \in Nat /\ (n + 1) - 1 = n /\ (n + 1 = 1 <=> n = 0) /\ b # a
      BY <2>4, <3>1, <3>2, <3>3
    <3>5. n \in 0 .. l - 1 /\ n + 1 \in 1 .. l
      BY <2>4, <3>3
    <3>6. (i # 1 => n \in a + 1 .. b - 1) /\ (i = 1 => n = a)
      BY <2>4, <3>1, <3>3
    <3>7. (i = b - a => n + 1 = b) /\ (i # b - a => n + 1 \in a + 1 .. b - 1)
      BY <2>4, <3>1, <3>3
    <3> QED BY <3>4, <3>5, <3>6, <3>7
  <2> QED BY <2>1, <2>5 DEF a, b, l
<1>2. ends \in BOOLEAN /\ whole \in BOOLEAN /\ (Whole(result, n + 1) <=> ends)
  BY <1>1, ResultTypes DEF Whole
<1>3. (i = 1 /\ chunked) <=> ~whole
  BY <1>1 DEF Packed, Whole
<1>4. Complete(Len(new), ChunkedValue(set), i = set.to - set.from) <=> Len(new) = Columns /\ ends
  <2>1. ChunkedValue(set) /\ i = set.to - set.from <=> ~ends
    <3>1. CASE i = set.to - set.from
      BY <1>1, <3>1 DEF ChunkedValue
    <3>2. CASE i # set.to - set.from
      BY <1>1, <3>2 DEF Packed
    <3> QED BY <3>1, <3>2
  <2> HIDE DEF new, ends
  <2> QED BY <2>1 DEF Complete
<1>5. Values(set)[i] = v
  BY <1>1 DEF Values
<1>6. v \in S /\ joined \in S
      /\ Cells(result)[n + 1] = IF whole THEN Append(c, v) ELSE Append(Front(c), joined)
  <2>1. Starts(result, n + 1) <=> whole
    BY <1>1 DEF Starts, Whole
  <2> QED BY <1>1, <2>1, CellsNext
<1>7. new = IF i = 1 /\ chunked THEN [acc.vals EXCEPT ![Len(acc.vals)] = Merge(@, v)]
            ELSE Append(acc.vals, v)
  <2>1. CASE whole
    BY <1>3, <2>1
  <2>2. CASE ~whole
    <3>1. acc.vals[Len(acc.vals)] = Last(c)
      <4>1. Puts(out \o acc.rows, acc.vals, c, FALSE, S)
        BY <1>2, <2>2
      <4>2. Last(acc.vals) = Last(c)
        <5> HIDE DEF c, S
        <5> QED BY <4>1, PutsLast
      <4> QED BY <4>2 DEF Last
    <3> HIDE DEF c, v
    <3> QED BY <1>3, <2>2, <3>1
  <2> QED BY <2>1, <2>2
<1>8. Place(set, acc, i) = IF Len(new) = Columns /\ ends
                           THEN [vals |-> <<>>, rows |-> Append(acc.rows, new)]
                           ELSE [vals |-> new, rows |-> acc.rows]
  <2> HIDE DEF ends, v
  <2> QED BY <1>4, <1>5, <1>7 DEF Place
<1>9. /\ Len(new) = Columns /\ ends =>
           Puts(Append(out \o acc.rows, new), <<>>, Cells(result)[n + 1], TRUE, S)
      /\ ~(Len(new) = Columns /\ ends) => Puts(out \o acc.rows, new, Cells(result)[n + 1], ends, S)
  <2> DEFINE d == Cells(result)[n + 1]
             R == out \o acc.rows
             vs == acc.vals
  <2>1. d = IF whole THEN Append(c, v) ELSE Append(Front(c), joined)
    BY <1>6
  <2>2. Puts(R, vs, c, whole, S) /\ v \in S /\ joined \in S /\ ends \in BOOLEAN /\ whole \in BOOLEAN
    BY <1>2, <1>6
  <2>3. new = IF whole THEN Append(vs, v) ELSE [vs EXCEPT ![Len(vs)] = joined]
    OBVIOUS
  <2> HIDE DEF d, R, vs, c, v, whole, ends, joined, new, S
  <2>4. /\ Len(new) = Columns /\ ends => Puts(Append(R, new), <<>>, d, TRUE, S)
        /\ ~(Len(new) = Columns /\ ends) => Puts(R, new, d, ends, S)
    <3>1. \/ Puts(R, vs, c, TRUE, S) /\ d = Append(c, v) /\ new = Append(vs, v)
          \/ Puts(R, vs, c, FALSE, S) /\ d = Append(Front(c), joined) /\ new = [vs EXCEPT ![Len(vs)] = joined]
      BY <2>1, <2>2, <2>3
    <3>2. /\ Len(new) = Columns => Puts(Append(R, new), <<>>, d, TRUE, S)
          /\ Len(new) # Columns => Puts(R, new, d, TRUE, S)
          /\ Puts(R, new, d, FALSE, S)
      BY <2>2, <3>1, PutOn
    <3> QED BY <2>2, <3>2
  <2> QED BY <2>4 DEF d, R
<1>10. new \in Seq(S) \/ ~(Len(new) = Columns /\ ends)
  <2> SUFFICES ASSUME Len(new) = Columns, ends PROVE new \in Seq(S)
    OBVIOUS
  <2> HIDE DEF new, ends
  <2>1. Append(out \o acc.rows, new) \in Seq(Seq(S))
    BY <1>9 DEF Puts
  <2>2. out \o acc.rows \in Seq(Seq(S)) /\ Len(out \o acc.rows) \in Nat
    BY DEF Puts
  <2>3. PICK k \in Nat : k = Len(out \o acc.rows) + 1 /\ Append(out \o acc.rows, new)[k] = new
        /\ k \in 1 .. Len(Append(out \o acc.rows, new))
    <3> DEFINE R == out \o acc.rows
    <3>1. R \in Seq(Seq(S)) /\ Len(R) \in Nat
      BY <2>2
    <3> HIDE DEF R
    <3>2. Append(R, new)[Len(R) + 1] = new /\ Len(Append(R, new)) = Len(R) + 1
      BY <3>1
    <3>3. \E k \in Nat : k = Len(R) + 1 /\ Append(R, new)[k] = new /\ k \in 1 .. Len(Append(R, new))
      BY <3>1, <3>2
    <3> QED BY <3>3 DEF R
  <2> QED BY <2>1, <2>3, ElementOfSeq
<1>11. CASE Len(new) = Columns /\ ends
  <2> HIDE DEF new, ends
  <2>1. new \in Seq(S) /\ AreValues(acc.rows)
    BY <1>10, <1>11
  <2>2. Append(acc.rows, new) \in Seq(Seq(S)) /\ out \o Append(acc.rows, new) = Append(out \o acc.rows, new)
    <3> DEFINE more == acc.rows
               U == Seq(S)
    <3>1. out \in Seq(U) /\ more \in Seq(U) /\ new \in U
      BY <2>1 DEF AreValues
    <3> HIDE DEF more, U, S
    <3>2. Append(more, new) \in Seq(U) /\ out \o Append(more, new) = Append(out \o more, new)
      <4>1. Append(more, new) \in Seq(U)
        BY <3>1, AppendProperties
      <4>2. out \o Append(more, new) = Append(out \o more, new)
        BY <3>1, AppendedTo
      <4> QED BY <4>1, <4>2
    <3> QED BY <3>2 DEF more, U
  <2>3. Place(set, acc, i).rows = Append(acc.rows, new) /\ Place(set, acc, i).vals = <<>>
    BY <1>8, <1>11
  <2> QED BY <1>2, <1>9, <1>11, <2>2, <2>3 DEF AreValues
<1>12. CASE ~(Len(new) = Columns /\ ends)
  <2> HIDE DEF new, ends
  <2>1. Place(set, acc, i).rows = acc.rows /\ Place(set, acc, i).vals = new
    BY <1>8, <1>12
  <2>2. Whole(result, n + 1) = ends
    BY <1>2 DEF Whole, ends
  <2> QED BY <1>9, <1>12, <2>1, <2>2
<1> QED BY <1>11, <1>12

(* What Added makes step by step, and that there is such a function.       *)
NextAdded(f, set, i) == IF i = 0 THEN [vals |-> vals, rows |-> <<>>] ELSE Place(set, f[i - 1], i)

AreAdded(f, set, n) == f = [i \in 0 .. n |-> NextAdded(f, set, i)]

LEMMA AddedExist ==
  ASSUME NEW set, NEW N \in Nat
  PROVE  \E f : AreAdded(f, set, N)
<1> DEFINE T == {n \in 0 .. N : \E f : AreAdded(f, set, n)}
<1>1. 0 \in T
  <2> DEFINE g == [i \in 0 .. 0 |-> [vals |-> vals, rows |-> <<>>]]
  <2>1. ASSUME NEW i \in 0 .. 0 PROVE NextAdded(g, set, i) = [vals |-> vals, rows |-> <<>>]
    BY DEF NextAdded
  <2>2. AreAdded(g, set, 0)
    BY <2>1 DEF AreAdded
  <2> QED BY <2>2
<1>2. ASSUME NEW n \in 0 .. N - 1, n \in T PROVE n + 1 \in T
  <2>1. PICK f : AreAdded(f, set, n)
    BY <1>2
  <2> DEFINE g == [i \in 0 .. n + 1 |-> IF i = n + 1 THEN NextAdded(f, set, i) ELSE f[i]]
  <2>2. ASSUME NEW i \in 0 .. n + 1 PROVE g[i] = NextAdded(g, set, i)
    <3>1. i # 0 => i - 1 \in 0 .. n /\ i - 1 \in 0 .. n + 1 /\ i - 1 # n + 1
      OBVIOUS
    <3>2. i # 0 => g[i - 1] = f[i - 1]
      BY <3>1
    <3>3. NextAdded(g, set, i) = NextAdded(f, set, i)
      <4> HIDE DEF g
      <4> QED BY <3>2 DEF NextAdded
    <3>4. i # n + 1 => f[i] = NextAdded(f, set, i)
      <4>1. i # n + 1 => i \in 0 .. n
        OBVIOUS
      <4> QED BY <2>1, <4>1 DEF AreAdded
    <3> QED BY <3>3, <3>4
  <2>3. AreAdded(g, set, n + 1)
    <3>1. g = [i \in 0 .. n + 1 |-> g[i]]
      OBVIOUS
    <3> HIDE DEF g
    <3> QED BY <2>2, <3>1 DEF AreAdded
  <2>4. n + 1 \in 0 .. N
    OBVIOUS
  <2> QED BY <2>3, <2>4
<1> HIDE DEF T
<1>3. N \in T
  BY <1>1, <1>2, UpToAny
<1> QED BY <1>3 DEF T

LEMMA AddedIs ==
  ASSUME NEW set, set.to - set.from \in Nat
  PROVE  \E f : AreAdded(f, set, set.to - set.from) /\ Added(set) = f[set.to - set.from]
<1> DEFINE f == CHOOSE g : AreAdded(g, set, set.to - set.from)
<1>1. Added(set) = f[set.to - set.from]
  BY DEF Added, AreAdded, NextAdded
<1>2. AreAdded(f, set, set.to - set.from)
  BY AddedExist
<1> QED BY <1>1, <1>2

(* A set added to what has been put to the row.                            *)
LEMMA AddedPuts ==
  ASSUME result \in Results, NEW set, set.from \in Nat, set.to \in Nat, set.from <= set.to,
         set.to <= Len(result.pieces), Packed(set), fields', chunked <=> ~Whole(result, set.from),
         AreValues(out), rows = <<>>,
         Puts(out \o rows, vals, Cells(result)[set.from], Whole(result, set.from), CellValues(result))
  PROVE  /\ AreValues(Added(set).rows)
         /\ Puts(out \o Added(set).rows, Added(set).vals, Cells(result)[set.to],
                 Whole(result, set.to), CellValues(result))
<1> DEFINE N == set.to - set.from
<1>1. N \in Nat /\ set.from + N = set.to
  OBVIOUS
<1>2. PICK f : AreAdded(f, set, N) /\ Added(set) = f[N]
  BY <1>1, AddedIs
<1> DEFINE Right(i) == /\ AreValues(f[i].rows)
                       /\ Puts(out \o f[i].rows, f[i].vals, Cells(result)[set.from + i],
                               Whole(result, set.from + i), CellValues(result))
           T == {i \in 0 .. N : Right(i)}
<1>3. 0 \in T
  <2>1. f[0] = [vals |-> vals, rows |-> <<>>] /\ 0 \in 0 .. N
    BY <1>1, <1>2 DEF AreAdded, NextAdded
  <2>2. f[0].vals = vals /\ f[0].rows = rows /\ set.from + 0 = set.from
    BY <2>1
  <2>3. AreValues(f[0].rows)
    BY <2>2, EmptySeq DEF AreValues
  <2> QED BY <2>1, <2>2, <2>3
<1>4. ASSUME NEW k \in 0 .. N - 1, k \in T PROVE k + 1 \in T
  <2> DEFINE i == k + 1
             n == set.from + k
  <2>0. N \in Nat
    BY <1>1
  <2> HIDE DEF N
  <2>1. /\ i \in 1 .. N /\ i \in 0 .. N /\ i # 0 /\ i - 1 = k /\ n \in Nat /\ n = set.from + i - 1
        /\ n + 1 = set.from + i
    BY <2>0
  <2>2. f[i] = Place(set, f[k], i)
    BY <1>2, <2>1 DEF AreAdded, NextAdded
  <2>3. Right(k)
    BY <1>4
  <2> HIDE DEF i, n
  <2>4. /\ AreValues(Place(set, f[k], i).rows)
        /\ Puts(out \o Place(set, f[k], i).rows, Place(set, f[k], i).vals, Cells(result)[n + 1],
                Whole(result, n + 1), CellValues(result))
    <3> DEFINE acc == f[k]
    <3>1. /\ AreValues(acc.rows)
          /\ Puts(out \o acc.rows, acc.vals, Cells(result)[n], Whole(result, n), CellValues(result))
      BY <2>3 DEF n
    <3>2. i \in 1 .. set.to - set.from /\ n \in Nat /\ n = set.from + i - 1
      BY <2>1 DEF N
    <3> HIDE DEF acc
    <3>3. /\ AreValues(Place(set, acc, i).rows)
          /\ Puts(out \o Place(set, acc, i).rows, Place(set, acc, i).vals, Cells(result)[n + 1],
                  Whole(result, n + 1), CellValues(result))
      BY <3>1, <3>2, PlacePuts
    <3> QED BY <3>3 DEF acc
  <2>5. Right(i)
    BY <2>1, <2>2, <2>4
  <2> QED BY <2>1, <2>5 DEF i
<1> HIDE DEF T, N
<1>5. N \in T
  <2>1. N \in Nat /\ N \in 0 .. N
    BY <1>1
  <2>2. \A k \in 0 .. N - 1 : k \in T => k + 1 \in T
    BY <1>4
  <2>3. \A i \in 0 .. N : i \in T
    BY <1>3, <2>1, <2>2, UpToAny
  <2> QED BY <2>1, <2>3
<1>6. Right(N)
  BY <1>5 DEF T
<1> QED BY <1>1, <1>2, <1>6

(* Its values fit, all but the first by themselves.                        *)
LEMMA AddedFits ==
  ASSUME result \in Results, NEW set, set.from \in Nat, set.to \in Nat, set.from < set.to,
         set.to <= Len(result.pieces), Packed(set), chunked <=> ~Whole(result, set.from),
         NEW R, Puts(R, vals, Cells(result)[set.from], Whole(result, set.from), CellValues(result))
  PROVE  /\ chunked => vals # <<>>
         /\ chunked => (Fits(result, set.from + 1) <=> Merge(Last(vals), Values(set)[1]) # None)
         /\ ~chunked => Fits(result, set.from + 1)
         /\ \A k \in set.from + 2 .. set.to : Fits(result, k)
<1>1. /\ Len(result.pieces) \in Nat /\ (set.from + 1) - 1 = set.from /\ 1 \in 1 .. set.to - set.from
      /\ (set.from + 1 = 1 <=> set.from = 0)
  BY ResultTypes
<1>2. Values(set)[1] = result.pieces[set.from + 1].value
  BY <1>1 DEF Values
<1>3. Starts(result, set.from + 1) <=> ~chunked
  BY <1>1 DEF Starts, Whole
<1>4. ASSUME chunked
      PROVE  vals # <<>> /\ (Fits(result, set.from + 1) <=> Merge(Last(vals), Values(set)[1]) # None)
  <2>1. Puts(R, vals, Cells(result)[set.from], FALSE, CellValues(result))
    <3>1. Whole(result, set.from) \in BOOLEAN /\ ~Whole(result, set.from)
      BY <1>4 DEF Whole
    <3> QED BY <3>1
  <2>2. vals # <<>> /\ Last(vals) = Last(Cells(result)[set.from])
    <3> DEFINE c == Cells(result)[set.from]
               S == CellValues(result)
    <3>1. Puts(R, vals, c, FALSE, S)
      BY <2>1
    <3> HIDE DEF c, S
    <3>2. vals # <<>> /\ Last(vals) = Last(c)
      BY <3>1, PutsLast
    <3> QED BY <3>2 DEF c
  <2>3. Fits(result, set.from + 1) <=> Merge(Last(vals), Values(set)[1]) # None
    <3>1. Fits(result, set.from + 1) <=> Merge(Last(Cells(result)[(set.from + 1) - 1]), Values(set)[1]) # None
      BY <1>2, <1>3, <1>4 DEF Fits
    <3>2. Cells(result)[(set.from + 1) - 1] = Cells(result)[set.from]
      BY <1>1
    <3> QED BY <2>2, <3>1, <3>2
  <2> QED BY <2>2, <2>3
<1>5. ASSUME NEW k \in set.from + 2 .. set.to PROVE Fits(result, k)
  <2>1. k - 1 \in set.from + 1 .. set.to - 1
    OBVIOUS
  <2> QED BY <2>1 DEF Packed, Fits, Starts
<1>6. ~chunked => Fits(result, set.from + 1)
  BY <1>3 DEF Fits
<1> QED BY <1>4, <1>5, <1>6

-----------------------------------------------------------------------------
(* The inductive invariant of the rows, in parts.                          *)

(* The pieces that have been put to the row: a set that next has returned  *)
(* has not yet, and one that does not fit never is.                        *)
Consumed == IF (asked /\ at = "out" /\ ok) \/ iterErr = "merge" THEN np.from ELSE np.to

(* How the iterator and the stream take turns, and how a stream ends.      *)
ControlInv ==
  /\ result \in Results /\ length = Len(result.pieces) /\ np.from <= np.to
  /\ asked \in BOOLEAN /\ chunked \in BOOLEAN
  /\ ~asked => at = "out"
  /\ asked => rows = <<>> /\ iterErr = "nil"
  /\ state = "aborted" => err # "nil"
  /\ state = "finished" => sent = length \/ "truncate" \in Faults
  /\ asked /\ at = "out" /\ ~ok => q = <<>> /\ state \in {"aborted", "finished"}

PackedInv == Packed(np) /\ \A i \in 1 .. Len(q) : Packed(q[i])

(* What has been returned, what is in store and what the row has are all   *)
(* there was in these pieces.                                              *)
CellInv ==
  /\ \A k \in 1 .. Consumed : Fits(result, k)
  /\ Consumed # 0 => fields
  /\ iterErr # "merge" => (chunked <=> ~Whole(result, Consumed))
  /\ AreValues(out) /\ AreValues(rows)
  /\ Puts(out \o rows, vals, Cells(result)[Consumed], Whole(result, Consumed), CellValues(result))

EndInv ==
  /\ iterErr = "done" =>
       vals = <<>> /\ rows = <<>> /\ np.to = sent /\ (sent = length \/ "truncate" \in Faults)
  /\ iterErr = "early" => (vals # <<>> \/ chunked) /\ rows = <<>> /\ np.to = sent
  /\ iterErr = "merge" => result.faulty
  /\ iterErr # "emptyRow"

RowInv == StreamInv /\ ControlInv /\ PackedInv /\ CellInv /\ EndInv

-----------------------------------------------------------------------------
(* Whatever the iterator does, the stream does a step of its own, or none. *)
LEMMA StreamDoes ==
  ASSUME StreamInv, [Next]_vars
  PROVE  [StreamNext]_streamVars
<1> USE DEF streamVars
<1>1. CASE NextInStore \/ End \/ UNCHANGED vars
  BY <1>1 DEF NextInStore, End, vars
<1>2. CASE NextAsks
  BY <1>2 DEF NextAsks, StreamNext
<1>3. CASE Add
  <2>1. Call \/ UNCHANGED streamVars
    BY <1>3 DEF Add
  <2> QED BY <2>1 DEF StreamNext
<1>4. CASE Stop
  <2>1. done \in BOOLEAN
    BY DEF StreamInv, StreamTypeOK
  <2>2. Cancel \/ UNCHANGED streamVars
    BY <1>4, <2>1 DEF Stop, Cancel
  <2> QED BY <2>2 DEF StreamNext
<1>5. CASE Stream
  <2>1. ASSUME NEW to \in sent .. length, NEW token \in BOOLEAN,
               Receives([from |-> sent, to |-> to, token |-> token])
        PROVE  \E set \in Set : Receives(set)
    BY <2>1 DEF Receives
  <2> QED BY <1>5, <2>1 DEF Stream, Sends, StreamNext
<1> QED BY <1>1, <1>2, <1>3, <1>4, <1>5 DEF Next, Iterator

(* What becomes of the set next has returned, and of the queue.            *)
PopsSet == np' = Head(q) /\ q' = Tail(q) /\ q # <<>> /\ at' = "out" /\ ok' = TRUE

KeepsSet ==
  /\ np' = np /\ (at' = "out" => ok' = FALSE)
  /\ \/ q' \in {q, <<>>}
     \/ \E set \in Set : q' = Append(q, set) /\ Packed(set)

LEMMA StreamMoves ==
  ASSUME StreamInv, Stream
  PROVE  /\ UNCHANGED <<length, result, fields, vals, chunked, rows, iterErr, asked, out>>
         /\ \/ Cancel
            \/ at # "out" /\ (PopsSet \/ KeepsSet)
<1>1. UNCHANGED <<result, fields, vals, chunked, rows, iterErr, asked, out>>
  BY DEF Stream, iterVars
<1>2. CASE Cancel
  <2>1. length' = length
    BY <1>2 DEF Cancel
  <2>2. UNCHANGED <<length, result, fields, vals, chunked, rows, iterErr, asked, out>>
    BY <1>1, <2>1
  <2> QED BY <1>2, <2>2, Zenon
<1>3. CASE Own
  <2>1. CASE Canceled \/ Aborted
    BY <1>1, <2>1 DEF Canceled, Aborted, Round, Return, KeepsSet
  <2>2. CASE BackOff \/ Overfull
    BY <1>1, <2>2 DEF BackOff, Overfull, Queueing, Round, KeepsSet
  <2>3. CASE Finished
    BY <1>1, <2>3 DEF Finished, Round, Return, KeepsSet, PopsSet
  <2>4. CASE PopToToken \/ PopUnretryable
    BY <1>1, <2>4 DEF PopToToken, PopUnretryable, NewToken, Queueing, Round, Return, PopsSet
  <2> QED BY <1>3, <2>1, <2>2, <2>3, <2>4 DEF Own
<1>4. CASE Server
  <2>1. CASE Connect \/ ConnectFails
    BY <1>1, <2>1 DEF Connect, ConnectFails, Round, KeepsSet
  <2>2. CASE ReceivesEOF \/ Breaks \/ Fails
    BY <1>1, <2>2 DEF ReceivesEOF, Breaks, Fails, tryRecv, Queueing, Round, KeepsSet
  <2> QED BY <1>4, <2>1, <2>2 DEF Server
<1>5. CASE Sends
  <2>1. PICK to \in sent .. length, token \in BOOLEAN :
          /\ \A k \in sent + 1 .. to - 1 : result.pieces[k].ends
          /\ Receives([from |-> sent, to |-> to, token |-> token])
    BY <1>5 DEF Sends
  <2> DEFINE set == [from |-> sent, to |-> to, token |-> token]
  <2>2. Packed(set) /\ Receives(set)
    BY <2>1 DEF Packed
  <2> HIDE DEF set
  <2>3. /\ set \in Set /\ q' = Append(q, set) /\ np' = np /\ at = "loop" /\ at' = at
        /\ length' = length
    BY <2>2 DEF Receives, tryRecv, Queueing, Round
  <2> QED BY <1>1, <2>2, <2>3 DEF KeepsSet
<1> QED BY <1>2, <1>3, <1>4, <1>5 DEF Stream

-----------------------------------------------------------------------------
(* A step of the stream.                                                   *)
LEMMA StreamControl ==
  ASSUME StreamInv, ControlInv, Stream
  PROVE  ControlInv'
<1>1. UNCHANGED <<length, result, fields, vals, chunked, rows, iterErr, asked, out>>
  BY StreamMoves
<1>2. Connected <=> state \in {"queueingRetryable", "queueingUnretryable", "finished"}
  BY DEF Connected
<1>3. np'.from <= np'.to
  <2>1. CASE np' = np
    BY <2>1 DEF ControlInv
  <2>2. CASE PopsSet
    <3>1. np' = q[1] /\ 1 \in 1 .. Len(q)
      BY <2>2, TailFacts DEF PopsSet, StreamInv, StreamTypeOK
    <3> QED BY <3>1 DEF StreamInv, Contiguous
  <2>3. Cancel => np' = np
    BY DEF Cancel
  <2> QED BY <2>1, <2>2, <2>3, StreamMoves DEF KeepsSet
<1> DEFINE Ending == /\ ~asked' => at' = "out"
                     /\ state' = "aborted" => err' # "nil"
                     /\ state' = "finished" => sent' = length' \/ "truncate" \in Faults
                     /\ asked' /\ at' = "out" /\ ~ok' => q' = <<>> /\ state' \in {"aborted", "finished"}
<1>4. Ending
  <2> USE DEF ControlInv
  <2>1. CASE Cancel
    BY <1>1, <2>1 DEF Cancel
  <2>2. CASE Canceled
    BY <1>1, <2>2 DEF Canceled, changeState, Return
  <2>3. CASE BackOff
    BY <1>1, <2>3 DEF BackOff
  <2>4. CASE Aborted
    BY <1>1, <2>4 DEF Aborted, Round, Return
  <2>5. CASE Finished
    BY <1>1, <2>5 DEF Finished, Round, Return
  <2>6. CASE PopToToken
    BY <1>1, <2>6 DEF PopToToken, Queueing, Round, Return
  <2>7. CASE Overfull
    BY <1>1, <2>7 DEF Overfull, Queueing, Round, changeState
  <2>8. CASE PopUnretryable
    BY <1>1, <2>8 DEF PopUnretryable, Queueing, Round, Return
  <2>9. CASE Connect
    BY <1>1, <2>9 DEF Connect, Round, changeState
  <2>10. CASE ConnectFails
    BY <1>1, <2>10 DEF ConnectFails, Round, changeState
  <2>11. CASE ReceivesEOF
    BY <1>1, <2>11 DEF ReceivesEOF, tryRecv, Queueing, Round, changeState
  <2>12. CASE Breaks
    BY <1>1, <2>12 DEF Breaks, tryRecv, Queueing, Round, changeState
  <2>13. CASE Fails
    BY <1>1, <2>13 DEF Fails, tryRecv, Queueing, Round, changeState
  <2>14. ASSUME NEW set, Receives(set) PROVE Ending
    BY <1>1, <2>14 DEF Receives, tryRecv, Queueing, Round
  <2> QED BY <2>1, <2>2, <2>3, <2>4, <2>5, <2>6, <2>7, <2>8, <2>9, <2>10, <2>11, <2>12, <2>13, <2>14
          DEF Stream, Own, Server, Sends
<1> QED BY <1>1, <1>3, <1>4 DEF ControlInv

LEMMA StreamPacked ==
  ASSUME StreamInv, PackedInv, Stream
  PROVE  PackedInv'
<1>1. result' = result /\ q \in Seq(Set) /\ Len(q) \in Nat
  BY StreamMoves DEF StreamInv, StreamTypeOK
<1>2. \A set : Packed(set) => Packed(set)'
  BY <1>1 DEF Packed
<1>3. CASE Cancel
  <2>1. np' = np /\ q' = q
    BY <1>3 DEF Cancel
  <2> QED BY <1>1, <2>1 DEF PackedInv, Packed
<1>4. CASE PopsSet
  <2>1. /\ np' = q[1] /\ 1 \in 1 .. Len(q) /\ Len(q') = Len(q) - 1
        /\ \A i \in 1 .. Len(q) - 1 : q'[i] = q[i + 1]
    BY <1>1, <1>4, TailFacts DEF PopsSet
  <2>2. ASSUME NEW i \in 1 .. Len(q') PROVE q'[i] = q[i + 1] /\ i + 1 \in 1 .. Len(q)
    BY <1>1, <2>1
  <2> QED BY <1>1, <2>1, <2>2 DEF PackedInv, Packed
<1>5. CASE KeepsSet
  <2>1. CASE q' \in {q, <<>>}
    <3>1. Len(<<>>) = 0
      OBVIOUS
    <3> QED BY <1>1, <1>5, <2>1, <3>1 DEF KeepsSet, PackedInv, Packed
  <2>2. ASSUME NEW set \in Set, q' = Append(q, set), Packed(set) PROVE PackedInv'
    <3>1. /\ Len(q') = Len(q) + 1 /\ q'[Len(q) + 1] = set
          /\ \A i \in 1 .. Len(q) : q'[i] = q[i]
      BY <1>1, <2>2, AppendFacts
    <3>2. ASSUME NEW i \in 1 .. Len(q') PROVE q'[i] = set \/ (i \in 1 .. Len(q) /\ q'[i] = q[i])
      <4>1. i = Len(q) + 1 \/ i \in 1 .. Len(q)
        BY <1>1, <3>1
      <4> QED BY <3>1, <4>1
    <3> QED BY <1>1, <1>5, <2>2, <3>2 DEF KeepsSet, PackedInv, Packed
  <2> QED BY <1>5, <2>1, <2>2 DEF KeepsSet
<1> QED BY <1>3, <1>4, <1>5, StreamMoves

(* What next returns goes on where it has come to.                         *)
LEMMA StreamConsumes ==
  ASSUME StreamInv, ControlInv, Stream
  PROVE  Consumed' = Consumed
<1>1. UNCHANGED <<iterErr, asked>>
  BY StreamMoves
<1>2. CASE Cancel
  BY <1>1, <1>2 DEF Cancel, Consumed
<1>3. CASE at # "out"
  <2>1. Consumed = np.to /\ iterErr # "merge" /\ asked
    BY <1>3 DEF Consumed, ControlInv
  <2>2. CASE PopsSet
    <3>1. np'.from = np.to
      BY <2>2, TailFacts DEF PopsSet, StreamInv, StreamTypeOK, Contiguous
    <3> QED BY <1>1, <2>1, <2>2, <3>1 DEF PopsSet, Consumed
  <2>3. CASE KeepsSet
    BY <1>1, <2>1, <2>3 DEF KeepsSet, Consumed
  <2>4. CASE Cancel
    BY <1>2, <2>4
  <2> QED BY <2>2, <2>3, <2>4, StreamMoves
<1> QED BY <1>2, <1>3, StreamMoves

LEMMA StreamRows ==
  ASSUME RowInv, Stream
  PROVE  CellInv' /\ EndInv'
<1>1. UNCHANGED <<length, result, fields, vals, chunked, rows, iterErr, asked, out>> /\ Consumed' = Consumed
  BY StreamMoves, StreamConsumes DEF RowInv
<1>2. CellInv'
  BY <1>1 DEF RowInv, CellInv, AreValues
<1>3. CASE at = "out"
  <2>1. UNCHANGED <<np, sent>>
    <3>1. Cancel
      BY <1>3, StreamMoves DEF RowInv
    <3> QED BY <3>1 DEF Cancel
  <2> QED BY <1>1, <1>2, <2>1 DEF RowInv, EndInv
<1>4. CASE at # "out"
  <2>1. iterErr = "nil"
    BY <1>4 DEF RowInv, ControlInv
  <2> QED BY <1>1, <1>2, <2>1 DEF EndInv
<1> QED BY <1>3, <1>4

LEMMA RowsStart ==
  ASSUME Init
  PROVE  RowInv
<1>1. /\ result \in Results /\ length = Len(result.pieces) /\ Len(result.pieces) \in Nat
      /\ np = [from |-> 0, to |-> 0, token |-> FALSE] /\ q = <<>> /\ state = "unConnected"
      /\ at = "out" /\ ok = FALSE /\ vals = <<>> /\ chunked = FALSE /\ rows = <<>> /\ iterErr = "nil"
      /\ asked = FALSE /\ out = <<>>
  BY ResultTypes DEF Init, StreamInit
<1>2. StreamInv
  BY StreamStart DEF Init
<1>3. ControlInv
  <2>1. np.from <= np.to
    BY <1>1
  <2> QED BY <1>1, <2>1 DEF ControlInv
<1>4. PackedInv
  <2>1. Len(<<>>) = 0
    OBVIOUS
  <2> QED BY <1>1, <2>1 DEF PackedInv, Packed
<1>5. CellInv
  <2>1. Consumed = 0 /\ Whole(result, 0) = TRUE
    BY <1>1 DEF Consumed, Whole
  <2>2. AreValues(<<>>)
    BY EmptySeq DEF AreValues
  <2>3. out \o rows = <<>>
    BY <1>1
  <2>4. Cells(result)[0] = <<>>
    BY <1>1, CellsAt DEF NextCells
  <2>5. Puts(out \o rows, vals, Cells(result)[0], Whole(result, 0), CellValues(result))
    BY <1>1, <2>1, <2>3, <2>4, PutsNone
  <2> QED BY <1>1, <2>1, <2>2, <2>5 DEF CellInv
<1>6. EndInv
  BY <1>1 DEF EndInv
<1> QED BY <1>2, <1>3, <1>4, <1>5, <1>6 DEF RowInv

LEMMA IteratorKeeps ==
  ASSUME RowInv, Iterator
  PROVE  ControlInv' /\ PackedInv'
<1> USE DEF ControlInv
<1>0. ControlInv
  BY DEF RowInv
<1>1. UNCHANGED <<result, length, np, q, state, err, sent, ok>>
  BY DEF Iterator, NextInStore, NextAsks, Add, End, Stop, Call, streamVars
<1>2. PackedInv'
  BY <1>1 DEF RowInv, PackedInv, Packed
<1>3. CASE NextInStore
  BY <1>0, <1>1, <1>2, <1>3 DEF NextInStore, streamVars
<1>4. CASE NextAsks
  BY <1>0, <1>1, <1>2, <1>4 DEF NextAsks, Call
<1>5. CASE Add
  <2>1. chunked' \in BOOLEAN
    BY <1>0, <1>5 DEF Add, ChunkedValue
  <2>2. /\ asked' \in BOOLEAN
        /\ asked' => at' = "loop" /\ rows' = <<>> /\ iterErr' = "nil"
        /\ ~asked' => at' = "out"
    BY <1>0, <1>5 DEF Add, Call, streamVars
  <2>3. /\ result' \in Results /\ length' = Len(result'.pieces) /\ np'.from <= np'.to
        /\ state' = "aborted" => err' # "nil"
        /\ state' = "finished" => sent' = length' \/ "truncate" \in Faults
    BY <1>0, <1>1
  <2>4. asked' /\ at' = "out" => FALSE
    BY <2>2
  <2>5. ControlInv'
    BY <2>1, <2>2, <2>3, <2>4
  <2> QED BY <1>2, <2>5
<1>6. CASE End
  BY <1>0, <1>1, <1>2, <1>6 DEF End, streamVars
<1>7. CASE Stop
  BY <1>0, <1>1, <1>2, <1>7 DEF Stop
<1> QED BY <1>2, <1>3, <1>4, <1>5, <1>6, <1>7 DEF Iterator

LEMMA InStoreRows ==
  ASSUME RowInv, NextInStore
  PROVE  CellInv' /\ EndInv'
<1>1. /\ UNCHANGED <<result, fields, vals, chunked, iterErr, asked, np, at, ok, sent>>
      /\ iterErr = "nil" /\ rows # <<>> /\ out' = Append(out, Head(rows)) /\ rows' = Tail(rows)
  BY DEF NextInStore, streamVars
<1>2. Consumed' = Consumed
  BY <1>1 DEF Consumed
<1>3. out' \o rows' = out \o rows /\ AreValues(out)' /\ AreValues(rows)'
  <2> DEFINE U == Seq(CellValues(result))
  <2>1. out \in Seq(U) /\ rows \in Seq(U)
    BY DEF RowInv, CellInv, AreValues
  <2> HIDE DEF U
  <2>2. Append(out, Head(rows)) \o Tail(rows) = out \o rows
    BY <1>1, <2>1, HeadOver
  <2>3. Append(out, Head(rows)) \in Seq(U) /\ Tail(rows) \in Seq(U)
    BY <1>1, <2>1, TailFacts, AppendFacts
  <2> QED BY <1>1, <2>2, <2>3 DEF AreValues, U
<1>4. CellInv'
  BY <1>1, <1>2, <1>3 DEF RowInv, CellInv
<1> QED BY <1>1, <1>4 DEF EndInv

(* Steps that leave the row as it is.                                      *)
LEMMA RestRows ==
  ASSUME RowInv, NextAsks \/ End \/ Stop
  PROVE  CellInv' /\ EndInv'
<1>0. ControlInv /\ EndInv /\ CellInv
  BY DEF RowInv
<1>1. UNCHANGED <<result, length, fields, vals, chunked, rows, out, np, sent, ok>>
  BY DEF NextAsks, End, Stop, Call, streamVars
<1>2. Consumed' = Consumed /\ (iterErr' = "merge" => iterErr = "merge")
  <2>1. CASE NextAsks
    BY <1>1, <2>1 DEF NextAsks, Call, Consumed
  <2>2. CASE End
    BY <1>0, <1>1, <2>2 DEF End, Consumed, ControlInv, RowInv, StreamInv, StreamTypeOK
  <2>3. CASE Stop
    BY <1>1, <2>3 DEF Stop, Consumed
  <2> QED BY <2>1, <2>2, <2>3
<1>3. CellInv'
  <2>1. iterErr = "merge" => iterErr' = "merge"
    BY <1>0 DEF NextAsks, End, Stop, ControlInv
  <2> QED BY <1>0, <1>1, <1>2, <2>1 DEF CellInv, AreValues
<1>4. EndInv'
  <2>1. CASE NextAsks
    BY <1>1, <2>1 DEF NextAsks, EndInv
  <2>2. CASE Stop
    BY <1>0, <1>1, <2>2 DEF Stop, EndInv
  <2>3. CASE End
    <3>1. CASE err # "nil"
      <4>1. iterErr' = err /\ err \in {"retryable", "fatal", "canceled"}
        BY <2>3, <3>1 DEF End, RowInv, StreamInv, StreamTypeOK
      <4> QED BY <4>1 DEF EndInv
    <3>2. CASE err = "nil"
      <4>1. /\ asked /\ at = "out" /\ ~ok /\ rows = <<>>
            /\ iterErr' = IF vals # <<>> \/ chunked THEN "early" ELSE "done"
        BY <1>0, <2>3, <3>2 DEF End, ControlInv
      <4>2. q = <<>> /\ state = "finished" /\ (sent = length \/ "truncate" \in Faults)
        BY <1>0, <3>2, <4>1 DEF ControlInv
      <4>3. np.to = sent
        BY <4>2 DEF RowInv, StreamInv, UpTo, Connected
      <4> QED BY <1>1, <4>1, <4>2, <4>3 DEF EndInv
    <3> QED BY <3>1, <3>2
  <2> QED BY <2>1, <2>2, <2>3
<1> QED BY <1>3, <1>4

(* Where Add is when it begins.                                            *)
LEMMA AddBegins ==
  ASSUME RowInv, Add
  PROVE  /\ Consumed = np.from /\ iterErr = "nil" /\ rows = <<>> /\ fields' = TRUE
         /\ UNCHANGED <<result, length, np, q, sent>>
         /\ result \in Results /\ np.from \in Nat /\ np.to \in Nat /\ np.from <= np.to
         /\ np.to <= Len(result.pieces) /\ Packed(np)
         /\ chunked <=> ~Whole(result, np.from)
<1>1. ControlInv /\ CellInv /\ asked /\ at = "out" /\ ok
  BY DEF RowInv, Add
<1>2. Consumed = np.from /\ iterErr = "nil" /\ rows = <<>>
  BY <1>1 DEF Consumed, ControlInv
<1>3. fields' = TRUE
  <2>1. fields' = (fields \/ np.from = 0)
    BY DEF Add
  <2> QED BY <1>1, <1>2, <2>1 DEF CellInv
<1>4. UNCHANGED <<result, length, np, q, sent>>
  BY DEF Add, Call, streamVars
<1>5. np.from \in Nat /\ np.to \in Nat /\ np.to <= length
  BY DEF RowInv, StreamInv, StreamTypeOK, Contiguous, Set
<1>6. Packed(np) /\ result \in Results /\ length = Len(result.pieces) /\ np.from <= np.to
  BY DEF RowInv, PackedInv, ControlInv
<1> QED BY <1>1, <1>2, <1>3, <1>4, <1>5, <1>6 DEF CellInv

LEMMA AddRows ==
  ASSUME RowInv, Add
  PROVE  CellInv' /\ EndInv'
<1> DEFINE S == CellValues(result)
<1>1. /\ Consumed = np.from /\ iterErr = "nil" /\ rows = <<>> /\ fields' = TRUE
      /\ UNCHANGED <<result, length, np, q, sent>>
      /\ result \in Results /\ np.from \in Nat /\ np.to \in Nat /\ np.from <= np.to
      /\ np.to <= Len(result.pieces) /\ Packed(np)
      /\ chunked <=> ~Whole(result, np.from)
  BY AddBegins
<1>2. /\ AreValues(out) /\ AreValues(rows) /\ \A k \in 1 .. np.from : Fits(result, k)
      /\ Puts(out \o rows, vals, Cells(result)[np.from], Whole(result, np.from), S)
  BY <1>1 DEF RowInv, CellInv
<1>3. CASE np.to = np.from /\ Call /\ UNCHANGED <<vals, chunked, rows, iterErr, asked, out>>
  <2>1. Consumed' = np.from
    BY <1>1, <1>3 DEF Call, Consumed
  <2>2. CellInv'
    BY <1>1, <1>2, <1>3, <2>1 DEF CellInv, AreValues
  <2> QED BY <1>1, <1>3, <2>2 DEF EndInv
<1>4. ASSUME np.to # np.from
      PROVE  /\ chunked => vals # <<>>
             /\ chunked => (Fits(result, np.from + 1) <=> Merge(Last(vals), Values(np)[1]) # None)
             /\ ~chunked => Fits(result, np.from + 1)
             /\ \A k \in np.from + 2 .. np.to : Fits(result, k)
  <2>1. np.from < np.to
    BY <1>1, <1>4
  <2> QED BY <1>1, <1>2, <2>1, AddedFits
<1>5. ASSUME np.to # np.from, chunked => vals # <<>> /\ Merge(Last(vals), Values(np)[1]) # None,
             chunked' = ChunkedValue(np), vals' = Added(np).vals, iterErr' = iterErr,
             \/ Added(np).rows = <<>> /\ Call /\ UNCHANGED <<rows, asked, out>>
             \/ /\ Added(np).rows # <<>> /\ out' = Append(out, Added(np).rows[1])
                /\ rows' = Tail(Added(np).rows) /\ asked' = FALSE
      PROVE  CellInv' /\ EndInv'
  <2>1. Consumed' = np.to
    BY <1>1, <1>5 DEF Call, Consumed
  <2>2. /\ AreValues(Added(np).rows)
        /\ Puts(out \o Added(np).rows, Added(np).vals, Cells(result)[np.to], Whole(result, np.to), S)
    BY <1>1, <1>2, AddedPuts
  <2>3. out' \o rows' = out \o Added(np).rows /\ out' \in Seq(Seq(S)) /\ rows' \in Seq(Seq(S))
    <3> DEFINE new == Added(np).rows
               U == Seq(S)
    <3>1. new \in Seq(U) /\ out \in Seq(U)
      BY <1>2, <2>2 DEF AreValues
    <3>2. CASE new = <<>>
      <4>1. out' = out /\ rows' = <<>>
        BY <1>1, <1>5, <3>2
      <4> QED BY <3>1, <3>2, <4>1, EmptySeq
    <3>3. CASE new # <<>>
      <4>1. out' = Append(out, new[1]) /\ rows' = Tail(new)
        BY <1>5, <3>3
      <4> HIDE DEF new, U
      <4>2. Head(new) = new[1] /\ new[1] \in U /\ Tail(new) \in Seq(U)
        BY <3>1, <3>3, TailFacts
      <4>3. Append(out, Head(new)) \o Tail(new) = out \o new
        BY <3>1, <3>3, HeadOver
      <4>4. Append(out, new[1]) \in Seq(U)
        BY <3>1, <4>2, AppendFacts
      <4> QED BY <4>1, <4>2, <4>3, <4>4 DEF new, U
    <3> QED BY <3>2, <3>3
  <2>4. chunked' <=> ~Whole(result, np.to)
    <3>1. np.to # 0
      BY <1>1, <1>5
    <3> QED BY <1>5, <3>1 DEF ChunkedValue, Whole
  <2>5. \A k \in 1 .. np.to : Fits(result, k)
    <3> SUFFICES ASSUME NEW k \in 1 .. np.to PROVE Fits(result, k)
      OBVIOUS
    <3>1. k \in 1 .. np.from \/ k = np.from + 1 \/ k \in np.from + 2 .. np.to
      BY <1>1
    <3>2. Fits(result, np.from + 1)
      BY <1>4, <1>5
    <3> QED BY <1>2, <1>4, <1>5, <3>1, <3>2
  <2>6. Puts(out' \o rows', vals', Cells(result)[np.to], Whole(result, np.to), S)
    BY <1>5, <2>2, <2>3
  <2>7. CellInv'
    BY <1>1, <2>1, <2>3, <2>4, <2>5, <2>6 DEF CellInv, AreValues
  <2> QED BY <1>1, <1>5, <2>7 DEF EndInv
<1>6. ASSUME np.to # np.from, chunked, vals = <<>> \/ Merge(Last(vals), Values(np)[1]) = None,
             iterErr' = (IF vals = <<>> THEN "emptyRow" ELSE "merge"),
             UNCHANGED <<vals, rows, out>>
      PROVE  CellInv' /\ EndInv'
  <2>1. iterErr' = "merge" /\ ~Fits(result, np.from + 1)
    BY <1>4, <1>6
  <2>2. result.faulty
    <3>1. np.from + 1 \in 1 .. Len(result.pieces)
      <4>1. Len(result.pieces) \in Nat
        BY <1>1, ResultTypes
      <4> QED BY <1>1, <1>6, <4>1
    <3> QED BY <1>1, <2>1, <3>1, RowAssumption
  <2>3. Consumed' = np.from
    BY <1>1, <2>1 DEF Consumed
  <2>4. CellInv'
    BY <1>1, <1>2, <1>6, <2>1, <2>3 DEF CellInv, AreValues
  <2> QED BY <1>1, <2>1, <2>2, <2>4 DEF EndInv
<1> QED BY <1>3, <1>5, <1>6 DEF Add

-----------------------------------------------------------------------------
(* The invariant of the rows holds in every behaviour.                     *)
THEOREM RowInvariant == Spec => []RowInv
<1>1. ASSUME RowInv, [Next]_vars PROVE RowInv'
  <2>1. StreamInv'
    BY <1>1, StreamDoes, StreamStep DEF RowInv
  <2>2. CASE Iterator
    <3>1. CellInv' /\ EndInv'
      BY <1>1, <2>2, InStoreRows, RestRows, AddRows DEF Iterator
    <3> QED BY <1>1, <2>1, <2>2, <3>1, IteratorKeeps DEF RowInv
  <2>3. CASE Stream
    BY <1>1, <2>1, <2>3, StreamControl, StreamPacked, StreamRows DEF RowInv
  <2>4. CASE UNCHANGED vars
    <3>1. UNCHANGED <<result, length, fields, vals, chunked, rows, iterErr, asked, out>>
          /\ UNCHANGED <<state, q, np, resumeToken, err, bytes, sent, done, at, ok>>
      BY <2>4 DEF vars, iterVars, streamVars
    <3>2. Consumed' = Consumed
      BY <3>1 DEF Consumed
    <3>3. ControlInv' /\ PackedInv'
      BY <1>1, <3>1 DEF RowInv, ControlInv, PackedInv, Packed
    <3>4. CellInv' /\ EndInv'
      BY <1>1, <3>1, <3>2 DEF RowInv, CellInv, EndInv, AreValues
    <3> QED BY <2>1, <3>3, <3>4 DEF RowInv
  <2> QED BY <1>1, <2>2, <2>3, <2>4 DEF Next
<1> QED BY <1>1, RowsStart, PTL DEF Spec

(* Reading the rows of a query is reading its stream: whatever is promised *)
(* of the stream holds for the iterator (read.go:75).                      *)
THEOREM RowsOfStream == Spec => StreamSpec
<1>1. Init => StreamInit
  BY DEF Init
<1>2. RowInv /\ [Next]_vars => [StreamNext]_streamVars
  BY StreamDoes DEF RowInv
<1> QED BY <1>1, <1>2, RowInvariant, PTL DEF Spec, StreamSpec

(* The rows are all there was of the pieces that have been put to them.    *)
LEMMA ConsumedRows ==
  ASSUME RowInv
  PROVE  /\ Consumed \in 0 .. Len(result.pieces) /\ IsPrefix(out \o rows, result.rows)
         /\ out \o rows = RowsIn(Consumed)
         /\ vals = <<>> => Cardinality(Ended(result, Consumed)) % Columns = 0 /\ Whole(result, Consumed)
         /\ Consumed = Len(result.pieces) => vals = <<>> /\ Whole(result, Consumed)
<1>1. result \in Results /\ Consumed \in 0 .. Len(result.pieces)
  <2>1. result \in Results /\ length = Len(result.pieces) /\ np.from <= np.to /\ np.to <= length
    BY DEF RowInv, ControlInv, StreamInv, Contiguous
  <2>2. np.from \in Nat /\ np.to \in Nat /\ length \in Nat
    BY DEF RowInv, StreamInv, StreamTypeOK, Set
  <2>3. np.from \in 0 .. length /\ np.to \in 0 .. length
    BY <2>1, <2>2
  <2> QED BY <2>1, <2>3 DEF Consumed
<1> DEFINE n == Consumed
           R == out \o rows
<1>2. /\ \A k \in 1 .. n : Fits(result, k)
      /\ Puts(R, vals, Cells(result)[n], Whole(result, n), CellValues(result))
  BY DEF RowInv, CellInv
<1>3. result \in Results /\ n \in 0 .. Len(result.pieces)
  BY <1>1
<1> HIDE DEF n, R
<1>4. /\ IsPrefix(R, result.rows) /\ R = SubSeq(result.rows, 1, Cardinality(Ended(result, n)) \div Columns)
      /\ vals = <<>> => Cardinality(Ended(result, n)) % Columns = 0
      /\ n = Len(result.pieces) => vals = <<>> /\ Whole(result, n)
  BY <1>2, <1>3, RowsMeant
<1>5. vals = <<>> => Whole(result, n)
  BY <1>2 DEF Puts
<1> QED BY <1>1, <1>4, <1>5 DEF n, R, RowsIn

(* The rows are those of the query from the first, one after the other and *)
(* whole, whatever the server packs into a set, wherever it cuts a value   *)
(* and however often the stream breaks (read.go:611).                      *)
THEOREM RowsWhole == Spec => []RowsAsSent
<1>1. RowInv => RowsAsSent
  BY ConsumedRows DEF RowsAsSent
<1> QED BY <1>1, RowInvariant, PTL

(* What the iterator says at its end is so: it is done when all rows that  *)
(* were sent have been returned, it is early only when there are more, and *)
(* it cannot be merged only when the parts do not fit (read.go:192-232).   *)
THEOREM EndTold == Spec => []EndsAsSent
<1>1. ASSUME RowInv PROVE EndsAsSent
  <2>1. ControlInv /\ CellInv /\ EndInv
    BY <1>1 DEF RowInv
  <2>2. ASSUME iterErr \in {"done", "early"}
        PROVE  Consumed = sent /\ out = RowsIn(sent) /\ length = Len(result.pieces)
    <3>1. Consumed = np.to /\ np.to = sent /\ rows = <<>>
      BY <2>1, <2>2 DEF Consumed, ControlInv, EndInv
    <3>2. out \o rows = out
      <4>1. out \in Seq(Seq(CellValues(result)))
        BY <2>1 DEF CellInv, AreValues
      <4> QED BY <3>1, <4>1, ConcatEmptySeq
    <3> QED BY <1>1, <2>1, <3>1, <3>2, ConsumedRows DEF ControlInv
  <2>3. ASSUME iterErr = "done"
        PROVE  /\ out = RowsIn(sent) /\ Cardinality(Ended(result, sent)) % Columns = 0
               /\ sent # 0 => result.pieces[sent].ends
               /\ sent = length \/ "truncate" \in Faults
    <3>1. vals = <<>> /\ (sent = length \/ "truncate" \in Faults)
      BY <2>1, <2>3 DEF EndInv
    <3> QED BY <1>1, <2>2, <2>3, <3>1, ConsumedRows DEF Whole
  <2>4. ASSUME iterErr = "early" PROVE sent # length /\ out = RowsIn(sent)
    <3>1. vals # <<>> \/ ~Whole(result, Consumed)
      BY <2>1, <2>4 DEF EndInv, CellInv
    <3> QED BY <1>1, <2>2, <2>4, <3>1, ConsumedRows
  <2> QED BY <2>1, <2>3, <2>4 DEF EndsAsSent, EndInv
<1> QED BY <1>1, RowInvariant, PTL

-----------------------------------------------------------------------------
(* What has been fetched and f has not been called with is nobody's yet.   *)
Fresh ==
  /\ \A m \in buf : answer[m] = "none" /\ m \notin given
  /\ recv \in {"count", "size", "orphan"} => msg \notin buf \cup given
  /\ recv \in {"count", "size"} => answer[msg] = "none"
  /\ recv = "fetch" => buf = {}

(* On their way to the service are acknowledged messages only.             *)
Acked ==
  /\ \A m \in pending \cup batch \cup tried : answer[m] = "ack"
  /\ acker = "notify" => batch \subseteq tried

(* How far stopping has come, and what has ended by then.                  *)
InOrder ==
  /\ stop \in {"abandoned", "fast", "draining", "closing", "stopped"} => recv # "fetch" /\ buf = {}
  /\ draining <=> stop \in {"draining", "closing", "stopped"}
  /\ drained => draining /\ items = {}
  /\ keeper = "exited" => drained /\ overdue = {}
  /\ stop \in {"closing", "stopped"} => keeper = "exited" /\ extending = 0
  /\ stop = "stopped" => acker = "exited"
  /\ recv = "returned" => stop = "stopped" /\ calls = {}

(* A call of f, or one that waits for its size, has a count.               *)
CallsCounted ==
  /\ IsFiniteSet(calls) /\ count <= MaxCount
  /\ count = Cardinality(calls) + (IF recv = "size" THEN 1 ELSE 0)

ReceiveInv == ReceiveTypeOK /\ Fresh /\ Acked /\ InOrder /\ CallsCounted /\ KeptAlive

-----------------------------------------------------------------------------
LEMMA InitInv == ReceiveInit => ReceiveInv
<1> SUFFICES ASSUME ReceiveInit PROVE ReceiveInv
  OBVIOUS
<1>1. ReceiveTypeOK
  BY ReceiveAssumption DEF ReceiveInit, ReceiveTypeOK, Places, Stops
<1>2. Fresh /\ Acked /\ InOrder
  BY DEF ReceiveInit, Fresh, Acked, InOrder
<1>3. CallsCounted
  BY ReceiveAssumption, FS_EmptySet DEF ReceiveInit, CallsCounted
<1>4. KeptAlive
  BY DEF ReceiveInit, KeptAlive, Unsettled
<1> QED BY <1>1, <1>2, <1>3, <1>4 DEF ReceiveInv

(* The types.                                                              *)
LEMMA ReceiveTypeOKStep ==
  ASSUME ReceiveInv, [ReceiveNext]_receiveVars
  PROVE  ReceiveTypeOK'
<1> USE DEF receiveVars, pullVars, iteratorVars, keepVars, loopVars, ackVars, sendVars
<1>0. ReceiveTypeOK
  BY DEF ReceiveInv
<1>1. CASE CancelReceive
  BY <1>0, <1>1 DEF CancelReceive, ReceiveTypeOK, Places, Stops
<1>2. CASE NextCanceled
  BY <1>0, <1>2 DEF NextCanceled, pullerCanceled, ReceiveTypeOK, Places, Stops
<1>3. CASE NextBuffered
  BY <1>0, <1>3, ReceiveAssumption DEF NextBuffered, pullerCanceled,
     ReceiveTypeOK, Places, Stops
<1>4. CASE NextFetches
  BY <1>0, <1>4 DEF NextFetches, pullerCanceled, ReceiveTypeOK, Places, Stops
<1>5. CASE AcquireCount
  BY <1>0, <1>5 DEF AcquireCount, ReceiveTypeOK, Places, Stops
<1>6. CASE AcquireSize
  BY <1>0, <1>6, ReceiveAssumption DEF AcquireSize, ReceiveTypeOK, Places,
     Stops
<1>7. CASE AcquireFails
  BY <1>0, <1>7 DEF AcquireFails, ReceiveTypeOK, Places, Stops
<1>8. CASE LoopReturns
  BY <1>0, <1>8, ReceiveAssumption DEF LoopReturns, ReceiveTypeOK, Places,
     Stops
<1>9. CASE WaitAll
  BY <1>0, <1>9 DEF WaitAll, ReceiveTypeOK, Places, Stops
<1>10. CASE Fetched
  BY <1>0, <1>10, ReceiveAssumption DEF Fetched, Undelivered, ReceiveTypeOK,
     Places, Stops
<1>11. CASE FetchFails
  BY <1>0, <1>11 DEF FetchFails, ReceiveTypeOK, Places, Stops
<1>12. CASE StopCloses
  BY <1>0, <1>12 DEF StopCloses, StopTo, ReceiveTypeOK, Places, Stops
<1>13. CASE StopCancels
  BY <1>0, <1>13 DEF StopCancels, StopTo, ReceiveTypeOK, Places, Stops
<1>14. CASE StopAbandons
  BY <1>0, <1>14 DEF StopAbandons, StopTo, ReceiveTypeOK, Places, Stops
<1>15. CASE FastMode
  BY <1>0, <1>15 DEF FastMode, StopTo, notify, ReceiveTypeOK, Places, Stops
<1>16. CASE Drain
  BY <1>0, <1>16 DEF Drain, StopTo, ReceiveTypeOK, Places, Stops
<1>17. CASE KeepAliveStopped
  BY <1>0, <1>17 DEF KeepAliveStopped, StopTo, ReceiveTypeOK, Places, Stops
<1>18. CASE AckerStopped
  BY <1>0, <1>18 DEF AckerStopped, StopTo, ReceiveTypeOK, Places, Stops
<1>19. CASE ExtensionTick
  BY <1>0, <1>19 DEF ExtensionTick, keeperSelects, ReceiveTypeOK, Places,
     Stops
<1>20. CASE ExtendEnds
  BY <1>0, <1>20 DEF ExtendEnds, ReceiveTypeOK, Places, Stops
<1>21. CASE KeeperExits
  BY <1>0, <1>21 DEF KeeperExits, keeperSelects, ReceiveTypeOK, Places, Stops
<1>22. CASE AckTick
  BY <1>0, <1>22 DEF AckTick, RemoveAll, ReceiveTypeOK, Places, Stops
<1>23. CASE AckDirty
  BY <1>0, <1>23 DEF AckDirty, RemoveAll, ReceiveTypeOK, Places, Stops
<1>24. CASE Acknowledge
  BY <1>0, <1>24 DEF Acknowledge, ReceiveTypeOK, Places, Stops
<1>25. CASE AckerExits
  BY <1>0, <1>25 DEF AckerExits, ReceiveTypeOK, Places, Stops
<1>26. ASSUME NEW m \in Message, RemoveOverdue(m) PROVE ReceiveTypeOK'
  BY <1>0, <1>26 DEF RemoveOverdue, RemoveItem, ReceiveTypeOK, Places, Stops
<1>27. ASSUME NEW m \in Message, Notify(m) PROVE ReceiveTypeOK'
  BY <1>0, <1>27 DEF Notify, RemoveItem, ReceiveTypeOK, Places, Stops
<1>28. ASSUME NEW m \in Message, NackAdded(m) PROVE ReceiveTypeOK'
  BY <1>0, <1>28 DEF NackAdded, ReceiveTypeOK, Places, Stops
<1>29. CASE UNCHANGED receiveVars
  BY <1>0, <1>29 DEF ReceiveTypeOK, Places, Stops
<1>30. ASSUME NEW m \in Message, Ack(m) \/ Nack(m) \/ CallReturns(m)
     PROVE  ReceiveTypeOK'
  BY <1>0, <1>30 DEF Ack, Nack, CallReturns, notify, RemoveItem,
     ReceiveTypeOK, Places, Stops
<1> QED BY <1>1, <1>2, <1>3, <1>4, <1>5, <1>6, <1>7, <1>8, <1>9, <1>10, <1>11,
     <1>12, <1>13, <1>14, <1>15, <1>16, <1>17, <1>18, <1>19, <1>20, <1>21,
     <1>22, <1>23, <1>24, <1>25, <1>26, <1>27, <1>28, <1>29, <1>30 DEF
     ReceiveNext, Loop, Service, Stopping, Keeping, Acking, Answers

(* Only the loop has what was fetched, until f is called.                  *)
LEMMA FreshStep ==
  ASSUME ReceiveInv, [ReceiveNext]_receiveVars
  PROVE  Fresh'
<1> USE DEF receiveVars, pullVars, iteratorVars, keepVars, loopVars, ackVars, sendVars
<1>0. Fresh /\ ReceiveTypeOK
  BY DEF ReceiveInv
<1>1. CASE NextBuffered
  BY <1>0, <1>1 DEF NextBuffered, pullerCanceled, Fresh, ReceiveTypeOK
<1>2. CASE NextFetches
  BY <1>0, <1>2 DEF NextFetches, pullerCanceled, Fresh, ReceiveTypeOK
<1>3. CASE AcquireCount
  BY <1>0, <1>3 DEF AcquireCount, Fresh, ReceiveTypeOK
<1>4. CASE AcquireSize
  BY <1>0, <1>4 DEF AcquireSize, Fresh, ReceiveTypeOK
<1>5. CASE AcquireFails
  BY <1>0, <1>5 DEF AcquireFails, Fresh, ReceiveTypeOK
<1>6. CASE LoopReturns
  BY <1>0, <1>6 DEF LoopReturns, Fresh, ReceiveTypeOK
<1>7. CASE Fetched
  BY <1>0, <1>7 DEF Fetched, Undelivered, Fresh, ReceiveTypeOK
<1>8. CASE StopAbandons
  BY <1>0, <1>8 DEF StopAbandons, StopTo, Fresh, ReceiveTypeOK
<1>9. ASSUME NEW m \in Message, Ack(m) PROVE Fresh'
  BY <1>0, <1>9 DEF Ack, notify, Fresh, ReceiveTypeOK
<1>10. ASSUME NEW m \in Message, Nack(m) PROVE Fresh'
  BY <1>0, <1>10 DEF Nack, RemoveItem, Fresh, ReceiveTypeOK
<1>11. ASSUME NEW m \in Message, NackAdded(m) PROVE Fresh'
  BY <1>0, <1>11 DEF NackAdded, Fresh, ReceiveTypeOK
<1>12. CASE CancelReceive \/ NextCanceled \/ WaitAll \/ FetchFails
          \/ UNCHANGED receiveVars
  BY <1>0, <1>12 DEF CancelReceive, NextCanceled, WaitAll, FetchFails,
     pullerCanceled, Fresh, ReceiveTypeOK
<1>13. CASE StopCloses \/ StopCancels \/ FastMode \/ Drain \/ KeepAliveStopped
          \/ AckerStopped
  BY <1>0, <1>13 DEF StopCloses, StopCancels, FastMode, Drain,
     KeepAliveStopped, AckerStopped, StopTo, notify, Fresh, ReceiveTypeOK
<1>14. CASE ExtensionTick \/ ExtendEnds \/ KeeperExits \/ AckTick \/ AckDirty
          \/ Acknowledge \/ AckerExits
  BY <1>0, <1>14 DEF ExtensionTick, ExtendEnds, KeeperExits, AckTick,
     AckDirty, Acknowledge, AckerExits, keeperSelects, RemoveAll, Fresh,
     ReceiveTypeOK
<1>15. ASSUME NEW m \in Message, RemoveOverdue(m) \/ Notify(m)
       \/ CallReturns(m)
     PROVE  Fresh'
  BY <1>0, <1>15 DEF RemoveOverdue, Notify, CallReturns, RemoveItem, Fresh,
     ReceiveTypeOK
<1> QED BY <1>1, <1>2, <1>3, <1>4, <1>5, <1>6, <1>7, <1>8, <1>9, <1>10, <1>11,
     <1>12, <1>13, <1>14, <1>15 DEF ReceiveNext, Loop, Service, Stopping,
     Keeping, Acking, Answers

(* Only Ack puts a message on its way.                                     *)
LEMMA AckedStep ==
  ASSUME ReceiveInv, [ReceiveNext]_receiveVars
  PROVE  Acked'
<1> USE DEF receiveVars, pullVars, iteratorVars, keepVars, loopVars, ackVars, sendVars
<1>0. Acked /\ ReceiveTypeOK
  BY DEF ReceiveInv
<1>1. CASE AckTick
  BY <1>0, <1>1 DEF AckTick, RemoveAll, Acked, ReceiveTypeOK
<1>2. CASE AckDirty
  BY <1>0, <1>2 DEF AckDirty, RemoveAll, Acked, ReceiveTypeOK
<1>3. CASE Acknowledge
  BY <1>0, <1>3 DEF Acknowledge, Acked, ReceiveTypeOK
<1>4. ASSUME NEW m \in Message, Notify(m) PROVE Acked'
  BY <1>0, <1>4 DEF Notify, RemoveItem, Acked, ReceiveTypeOK
<1>5. ASSUME NEW m \in Message, Ack(m) PROVE Acked'
  BY <1>0, <1>5 DEF Ack, notify, Acked, ReceiveTypeOK
<1>6. ASSUME NEW m \in Message, Nack(m) PROVE Acked'
  BY <1>0, <1>6 DEF Nack, RemoveItem, Acked, ReceiveTypeOK
<1>7. ASSUME NEW m \in Message, NackAdded(m) PROVE Acked'
  BY <1>0, <1>7 DEF NackAdded, Acked, ReceiveTypeOK
<1>8. CASE CancelReceive \/ NextCanceled \/ NextBuffered \/ NextFetches
          \/ AcquireCount \/ AcquireSize \/ AcquireFails \/ LoopReturns
          \/ WaitAll \/ Fetched \/ FetchFails \/ UNCHANGED receiveVars
  BY <1>0, <1>8 DEF CancelReceive, NextCanceled, NextBuffered, NextFetches,
     AcquireCount, AcquireSize, AcquireFails, LoopReturns, WaitAll, Fetched,
     FetchFails, pullerCanceled, Undelivered, Acked, ReceiveTypeOK
<1>9. CASE StopCloses \/ StopCancels \/ StopAbandons \/ FastMode \/ Drain
          \/ KeepAliveStopped \/ AckerStopped
  BY <1>0, <1>9 DEF StopCloses, StopCancels, StopAbandons, FastMode, Drain,
     KeepAliveStopped, AckerStopped, StopTo, notify, Acked, ReceiveTypeOK
<1>10. CASE ExtensionTick \/ ExtendEnds \/ KeeperExits \/ AckerExits
  BY <1>0, <1>10 DEF ExtensionTick, ExtendEnds, KeeperExits, AckerExits,
     keeperSelects, Acked, ReceiveTypeOK
<1>11. ASSUME NEW m \in Message, RemoveOverdue(m) \/ CallReturns(m)
     PROVE  Acked'
  BY <1>0, <1>11 DEF RemoveOverdue, CallReturns, RemoveItem, Acked,
     ReceiveTypeOK
<1> QED BY <1>1, <1>2, <1>3, <1>4, <1>5, <1>6, <1>7, <1>8, <1>9, <1>10, <1>11
     DEF ReceiveNext, Loop, Service, Stopping, Keeping, Acking, Answers

(* Each step of stopping rests on the ones before.                         *)
LEMMA InOrderStep ==
  ASSUME ReceiveInv, [ReceiveNext]_receiveVars
  PROVE  InOrder'
<1> USE DEF receiveVars, pullVars, iteratorVars, keepVars, loopVars, ackVars, sendVars
<1>0. InOrder /\ ReceiveTypeOK
  BY DEF ReceiveInv
<1>1. CASE NextBuffered
  BY <1>0, <1>1 DEF NextBuffered, pullerCanceled, InOrder, ReceiveTypeOK
<1>2. CASE NextFetches
  BY <1>0, <1>2 DEF NextFetches, pullerCanceled, InOrder, ReceiveTypeOK
<1>3. CASE AcquireSize
  BY <1>0, <1>3 DEF AcquireSize, InOrder, ReceiveTypeOK
<1>4. CASE LoopReturns
  BY <1>0, <1>4 DEF LoopReturns, InOrder, ReceiveTypeOK
<1>5. CASE WaitAll
  BY <1>0, <1>5 DEF WaitAll, InOrder, ReceiveTypeOK
<1>6. CASE Fetched
  BY <1>0, <1>6 DEF Fetched, Undelivered, InOrder, ReceiveTypeOK
<1>7. CASE StopAbandons
  BY <1>0, <1>7 DEF StopAbandons, StopTo, InOrder, ReceiveTypeOK
<1>8. CASE Drain
  BY <1>0, <1>8 DEF Drain, StopTo, InOrder, ReceiveTypeOK
<1>9. CASE KeepAliveStopped
  BY <1>0, <1>9 DEF KeepAliveStopped, StopTo, InOrder, ReceiveTypeOK
<1>10. CASE AckerStopped
  BY <1>0, <1>10 DEF AckerStopped, StopTo, InOrder, ReceiveTypeOK
<1>11. CASE KeeperExits
  BY <1>0, <1>11 DEF KeeperExits, keeperSelects, InOrder, ReceiveTypeOK
<1>12. CASE AckerExits
  BY <1>0, <1>12 DEF AckerExits, InOrder, ReceiveTypeOK
<1>13. ASSUME NEW m \in Message, RemoveOverdue(m) PROVE InOrder'
  BY <1>0, <1>13 DEF RemoveOverdue, RemoveItem, InOrder, ReceiveTypeOK
<1>14. ASSUME NEW m \in Message, Notify(m) PROVE InOrder'
  BY <1>0, <1>14 DEF Notify, RemoveItem, InOrder, ReceiveTypeOK
<1>15. ASSUME NEW m \in Message, Nack(m) PROVE InOrder'
  BY <1>0, <1>15 DEF Nack, RemoveItem, InOrder, ReceiveTypeOK
<1>16. CASE CancelReceive \/ NextCanceled \/ AcquireCount \/ AcquireFails
          \/ FetchFails \/ UNCHANGED receiveVars
  BY <1>0, <1>16 DEF CancelReceive, NextCanceled, AcquireCount, AcquireFails,
     FetchFails, pullerCanceled, InOrder, ReceiveTypeOK
<1>17. CASE StopCloses \/ StopCancels \/ FastMode
  BY <1>0, <1>17 DEF StopCloses, StopCancels, FastMode, StopTo, notify,
     InOrder, ReceiveTypeOK
<1>18. CASE ExtensionTick \/ ExtendEnds \/ AckTick \/ AckDirty \/ Acknowledge
  BY <1>0, <1>18 DEF ExtensionTick, ExtendEnds, AckTick, AckDirty,
     Acknowledge, keeperSelects, RemoveAll, InOrder, ReceiveTypeOK
<1>19. ASSUME NEW m \in Message, Ack(m) \/ NackAdded(m) \/ CallReturns(m)
     PROVE  InOrder'
  BY <1>0, <1>19 DEF Ack, NackAdded, CallReturns, notify, InOrder,
     ReceiveTypeOK
<1> QED BY <1>1, <1>2, <1>3, <1>4, <1>5, <1>6, <1>7, <1>8, <1>9, <1>10, <1>11,
     <1>12, <1>13, <1>14, <1>15, <1>16, <1>17, <1>18, <1>19 DEF ReceiveNext,
     Loop, Service, Stopping, Keeping, Acking, Answers

(* What is added to the items is unsettled, and what is settled leaves.    *)
LEMMA KeptAliveStep ==
  ASSUME ReceiveInv, [ReceiveNext]_receiveVars
  PROVE  KeptAlive'
<1> USE DEF receiveVars, pullVars, iteratorVars, keepVars, loopVars, ackVars, sendVars
<1>0. KeptAlive /\ Fresh /\ Acked /\ ReceiveTypeOK
  BY DEF ReceiveInv
<1>1. CASE NextBuffered
  BY <1>0, <1>1 DEF NextBuffered, pullerCanceled, KeptAlive, Unsettled, Fresh,
     Acked, ReceiveTypeOK
<1>2. CASE AcquireSize
  BY <1>0, <1>2 DEF AcquireSize, KeptAlive, Unsettled, Fresh, Acked,
     ReceiveTypeOK
<1>3. CASE AcquireFails
  BY <1>0, <1>3 DEF AcquireFails, KeptAlive, Unsettled, Fresh, Acked,
     ReceiveTypeOK
<1>4. CASE LoopReturns
  BY <1>0, <1>4 DEF LoopReturns, KeptAlive, Unsettled, Fresh, Acked,
     ReceiveTypeOK
<1>5. CASE Fetched
  BY <1>0, <1>5 DEF Fetched, Undelivered, KeptAlive, Unsettled, Fresh, Acked,
     ReceiveTypeOK
<1>6. CASE StopAbandons
  BY <1>0, <1>6 DEF StopAbandons, StopTo, KeptAlive, Unsettled, Fresh, Acked,
     ReceiveTypeOK
<1>7. CASE AckTick
  BY <1>0, <1>7 DEF AckTick, RemoveAll, KeptAlive, Unsettled, Fresh, Acked,
     ReceiveTypeOK
<1>8. CASE AckDirty
  BY <1>0, <1>8 DEF AckDirty, RemoveAll, KeptAlive, Unsettled, Fresh, Acked,
     ReceiveTypeOK
<1>9. CASE Acknowledge
  BY <1>0, <1>9 DEF Acknowledge, KeptAlive, Unsettled, Fresh, Acked,
     ReceiveTypeOK
<1>10. ASSUME NEW m \in Message, RemoveOverdue(m) PROVE KeptAlive'
  BY <1>0, <1>10 DEF RemoveOverdue, RemoveItem, KeptAlive, Unsettled, Fresh,
     Acked, ReceiveTypeOK
<1>11. ASSUME NEW m \in Message, Notify(m) PROVE KeptAlive'
  BY <1>0, <1>11 DEF Notify, RemoveItem, KeptAlive, Unsettled, Fresh, Acked,
     ReceiveTypeOK
<1>12. ASSUME NEW m \in Message, Ack(m) PROVE KeptAlive'
  BY <1>0, <1>12 DEF Ack, notify, KeptAlive, Unsettled, Fresh, Acked,
     ReceiveTypeOK
<1>13. ASSUME NEW m \in Message, Nack(m) PROVE KeptAlive'
  BY <1>0, <1>13 DEF Nack, RemoveItem, KeptAlive, Unsettled, Fresh, Acked,
     ReceiveTypeOK
<1>14. ASSUME NEW m \in Message, NackAdded(m) PROVE KeptAlive'
  BY <1>0, <1>14 DEF NackAdded, KeptAlive, Unsettled, Fresh, Acked,
     ReceiveTypeOK
<1>15. CASE CancelReceive \/ NextCanceled \/ NextFetches \/ AcquireCount
          \/ WaitAll \/ FetchFails \/ UNCHANGED receiveVars
  BY <1>0, <1>15 DEF CancelReceive, NextCanceled, NextFetches, AcquireCount,
     WaitAll, FetchFails, pullerCanceled, KeptAlive, Unsettled, Fresh, Acked,
     ReceiveTypeOK
<1>16. CASE StopCloses \/ StopCancels \/ FastMode \/ Drain \/ KeepAliveStopped
          \/ AckerStopped
  BY <1>0, <1>16 DEF StopCloses, StopCancels, FastMode, Drain,
     KeepAliveStopped, AckerStopped, StopTo, notify, KeptAlive, Unsettled,
     Fresh, Acked, ReceiveTypeOK
<1>17. CASE ExtensionTick \/ ExtendEnds \/ KeeperExits \/ AckerExits
  BY <1>0, <1>17 DEF ExtensionTick, ExtendEnds, KeeperExits, AckerExits,
     keeperSelects, KeptAlive, Unsettled, Fresh, Acked, ReceiveTypeOK
<1>18. ASSUME NEW m \in Message, CallReturns(m)
     PROVE  KeptAlive'
  BY <1>0, <1>18 DEF CallReturns, KeptAlive, Unsettled, Fresh, Acked,
     ReceiveTypeOK
<1> QED BY <1>1, <1>2, <1>3, <1>4, <1>5, <1>6, <1>7, <1>8, <1>9, <1>10, <1>11,
     <1>12, <1>13, <1>14, <1>15, <1>16, <1>17, <1>18 DEF ReceiveNext, Loop,
     Service, Stopping, Keeping, Acking, Answers

(* The count goes with the calls.                                          *)
LEMMA CallsCountedStep ==
  ASSUME ReceiveInv, [ReceiveNext]_receiveVars
  PROVE  CallsCounted'
<1> USE DEF receiveVars, pullVars, iteratorVars, keepVars, loopVars, ackVars, sendVars
<1>0. CallsCounted /\ Fresh /\ ReceiveTypeOK /\ MaxCount \in Nat /\ Cardinality(calls) \in Nat
  BY FS_CardinalityType, ReceiveAssumption DEF ReceiveInv, CallsCounted
<1>1. CASE AcquireSize
  <2>1. calls' = calls \cup {msg} /\ msg \notin calls /\ recv = "size" /\ recv' = "next" /\ count' = count
    BY <1>0, <1>1 DEF AcquireSize, Fresh, ReceiveTypeOK
  <2>2. IsFiniteSet(calls') /\ Cardinality(calls') = Cardinality(calls) + 1
    BY <1>0, <2>1, FS_AddElement DEF CallsCounted
  <2> QED BY <1>0, <2>1, <2>2 DEF CallsCounted
<1>2. ASSUME NEW m \in Message, CallReturns(m) PROVE CallsCounted'
  <2>1. calls' = calls \ {m} /\ m \in calls /\ recv' = recv /\ count' = count - 1
    BY <1>2 DEF CallReturns
  <2>2. IsFiniteSet(calls') /\ Cardinality(calls') = Cardinality(calls) - 1
    BY <1>0, <2>1, FS_RemoveElement DEF CallsCounted
  <2> QED BY <1>0, <2>1, <2>2 DEF CallsCounted
<1>3. CASE AcquireCount
  BY <1>0, <1>3 DEF AcquireCount, CallsCounted
<1>4. CASE AcquireFails
  BY <1>0, <1>4 DEF AcquireFails, CallsCounted
<1>5. CASE CancelReceive \/ NextCanceled \/ NextBuffered \/ NextFetches \/ LoopReturns \/ WaitAll
        \/ Service \/ UNCHANGED receiveVars
  BY <1>0, <1>5 DEF CancelReceive, NextCanceled, NextBuffered, NextFetches, LoopReturns, WaitAll,
     Service, Fetched, FetchFails, CallsCounted
<1>6. CASE Stopping \/ ExtensionTick \/ ExtendEnds \/ KeeperExits \/ AckTick \/ AckDirty \/ Acknowledge
        \/ AckerExits
  <2>1. UNCHANGED <<recv, count, calls>>
    BY <1>6 DEF Stopping, StopCloses, StopCancels, StopAbandons, FastMode, Drain, KeepAliveStopped,
       AckerStopped, ExtensionTick, ExtendEnds, KeeperExits, AckTick, AckDirty, Acknowledge, AckerExits
  <2> QED BY <1>0, <2>1 DEF CallsCounted
<1>7. ASSUME NEW m \in Message,
             RemoveOverdue(m) \/ Notify(m) \/ Ack(m) \/ Nack(m) \/ NackAdded(m)
      PROVE  CallsCounted'
  <2>1. UNCHANGED <<recv, count, calls>>
    BY <1>7 DEF RemoveOverdue, Notify, Ack, Nack, NackAdded
  <2> QED BY <1>0, <2>1 DEF CallsCounted
<1> QED BY <1>1, <1>2, <1>3, <1>4, <1>5, <1>6, <1>7 DEF ReceiveNext, Loop, Keeping, Acking, Answers

-----------------------------------------------------------------------------
(* The invariant, and the types with it, in every state.                   *)
THEOREM ReceiveInvHolds == ReceiveSpec => []ReceiveInv
<1>1. ReceiveInv /\ [ReceiveNext]_receiveVars => ReceiveInv'
  BY ReceiveTypeOKStep, FreshStep, AckedStep, InOrderStep, CallsCountedStep, KeptAliveStep DEF ReceiveInv
<1> QED BY <1>1, InitInv, PTL DEF ReceiveSpec

(* The deadlines of the unsettled messages, and of no others, are extended,*)
(* however many there are and whatever they do (puller.go:28).             *)
THEOREM AllKeptAlive == ReceiveSpec => []KeptAlive
<1>1. ReceiveInv => KeptAlive
  BY DEF ReceiveInv
<1> QED BY <1>1, ReceiveInvHolds, PTL

(* When Receive returns all calls have, and nothing is left unsettled or   *)
(* running (subscription.go:231).                                          *)
THEOREM AllSettledAtReturn == ReceiveSpec => []SettledAtReturn
<1>1. ReceiveInv => SettledAtReturn
  <2> SUFFICES ASSUME ReceiveInv, recv = "returned" PROVE SettledAtReturn
    BY DEF SettledAtReturn
  <2>1. calls = {} /\ buf = {} /\ items = {} /\ extending = 0 /\ keeper = "exited" /\ acker = "exited"
    BY DEF ReceiveInv, InOrder
  <2>2. ASSUME NEW m \in given PROVE m \in tried \cup expired \/ answer[m] \in {"nacking", "nack"}
    <3>1. ~Unsettled(m) \/ m \in expired
      BY <2>1 DEF ReceiveInv, KeptAlive, ReceiveTypeOK
    <3>2. m \in given /\ answer[m] \in {"none", "ack", "nacking", "nack"}
      BY DEF ReceiveInv, ReceiveTypeOK
    <3> QED BY <3>1, <3>2 DEF Unsettled
  <2> QED BY <2>1, <2>2 DEF SettledAtReturn
<1> QED BY <1>1, ReceiveInvHolds, PTL

(* f runs for no more messages at a time than MaxOutstandingMessages       *)
(* (subscription.go:238), whatever becomes of those it was called with.    *)
THEOREM CallsLimited == ReceiveSpec => [](IsFiniteSet(calls) /\ Cardinality(calls) <= MaxCount)
<1>1. ReceiveInv => IsFiniteSet(calls) /\ Cardinality(calls) <= MaxCount
  BY FS_CardinalityType, ReceiveAssumption DEF ReceiveInv, CallsCounted
<1> QED BY <1>1, ReceiveInvHolds, PTL
=============================================================================
