------------------------- MODULE TransactionsProofs -------------------------
(***************************************************************************)
(* Proofs about SessionPool and Transactions, for any goroutines, workers, *)
(* sessions, limits and faults.                                            *)
(***************************************************************************)
EXTENDS Transactions, SequenceTheorems, FiniteSetTheorems, TLAPS

(* The types these proofs need.  The holder T of a transaction's session   *)
(* never takes one itself.                                                 *)
ControlOK ==
  /\ pc \in [Client -> ClientState] /\ at \in [Worker -> WorkerState] /\ do \in [Reader -> ReaderState]
  /\ pc[T] \in {"idle", "use", "reject", "done"}

LEMMA Holders == T \in Client /\ T \notin Reader /\ T \notin Writer /\ Reader \subseteq Client /\ Writer \subseteq Client
BY ClientAssumption

LEMMA Woken ==
  ASSUME NEW next \in [Client -> ClientState], Broadcast(next)
  PROVE  /\ pc' \in [Client -> ClientState]
         /\ \A c \in Client : pc'[c] # "wait"
         /\ \A c \in Client : pc'[c] = next[c] \/ (next[c] = "wait" /\ pc'[c] = "take")
BY DEF Broadcast, ClientState

LEMMA Moved ==
  ASSUME pc \in [Client -> ClientState], NEW c \in Client, NEW label \in ClientState
  PROVE  /\ Goto(c, label) \in [Client -> ClientState]
         /\ Goto(c, label)[c] = label
         /\ \A d \in Client : d # c => Goto(c, label)[d] = pc[d]
BY DEF Goto

LEMMA Removed ==
  ASSUME NEW s, NEW next \in [Client -> ClientState], remove(s, next)
  PROVE  /\ pc' \in [Client -> ClientState]
         /\ \A c \in Client : pc'[c] = next[c] \/ (next[c] = "wait" /\ pc'[c] = "take")
         /\ pc' = next \/ \A c \in Client : pc'[c] # "wait"
BY Woken DEF remove

(* What a step does to the goroutines: one of them moves, or none, and     *)
(* those that wait may be woken.                                           *)
Steps(c, from, to) ==
  /\ pc[c] \in from /\ pc'[c] \in to
  /\ \A d \in Client \ {c} : pc'[d] = pc[d] \/ (pc[d] = "wait" /\ pc'[d] = "take")
NoneSteps == \A d \in Client : pc'[d] = pc[d] \/ (pc[d] = "wait" /\ pc'[d] = "take")

LEMMA TakingSteps ==
  ASSUME ControlOK, NEW c \in Client, Taking(c) \/ TimeOut(c)
  PROVE  /\ pc' \in [Client -> ClientState]
         /\ c # T
         /\ \/ Steps(c, {"take", "wait", "check", "created", "prepare"}, ClientState \ {"idle", "create", "created"})
            \/ Steps(c, {"take"}, {"create"}) \/ Steps(c, {"create"}, {"created"}) \/ Steps(c, {"create"}, {"done"})
<1> USE DEF ControlOK, ClientState, Steps
<1>1. c # T
  BY DEF Taking, TimeOut, TakeRefused, TakeIdle, Wait, TakeBudget, Healthy, Unhealthy, Destroy, Create, DoneCreate,
     CreateFails, Prepare, PrepareFails
<1>2. CASE TakeRefused(c) \/ TakeIdle(c) \/ Wait(c) \/ TakeBudget(c) \/ Healthy(c) \/ Create(c) \/ Prepare(c) \/ PrepareFails(c) \/ TimeOut(c)
  BY <1>1, <1>2 DEF TakeRefused, TakeIdle, Wait, TakeBudget, Healthy, Create, Prepare, PrepareFails, TimeOut, Goto, Ready
<1>3. CASE Unhealthy(c)
  BY <1>1, <1>3, Moved, Removed DEF Unhealthy, Destroy
<1>4. CASE DoneCreate(c) \/ CreateFails(c)
  BY <1>1, <1>4, Moved, Woken DEF DoneCreate, CreateFails, Ready
<1> QED BY <1>2, <1>3, <1>4, <1>1 DEF Taking

LEMMA HolderSteps ==
  ASSUME ControlOK, NEW c \in Client, Ask(c) \/ Recycle(c) \/ \E from, to \in ClientState : Destroy(c, from, to)
  PROVE  pc' \in [Client -> ClientState]
<1>1. CASE Ask(c) \/ Recycle(c)
  BY <1>1, Moved, Woken DEF Ask, Recycle, PutBack, ControlOK, ClientState
<1>2. ASSUME NEW from \in ClientState, NEW to \in ClientState, Destroy(c, from, to)
      PROVE  pc' \in [Client -> ClientState]
  BY <1>2, Moved, Removed DEF Destroy, ControlOK
<1> QED BY <1>1, <1>2

LEMMA AskSteps ==
  ASSUME ControlOK, NEW c \in Client, Ask(c)
  PROVE  Steps(c, {"idle"}, {"take"})
BY Moved DEF Ask, Steps, ControlOK, ClientState

LEMMA RecycleSteps ==
  ASSUME ControlOK, NEW c \in Client, Recycle(c)
  PROVE  Steps(c, {"use"}, {"done", "reject"})
<1> "done" \in ClientState /\ "reject" \in ClientState /\ "wait" # "done"
  BY DEF ClientState
<1>1. CASE pc' = Goto(c, "reject")
  BY <1>1, Moved DEF Recycle, Steps, ControlOK
<1>2. CASE Broadcast(Goto(c, "done"))
  <2>1. Goto(c, "done") \in [Client -> ClientState] /\ Goto(c, "done")[c] = "done"
        /\ \A d \in Client : d # c => Goto(c, "done")[d] = pc[d]
    BY Moved DEF ControlOK
  <2> QED BY <1>2, <2>1, Woken DEF Recycle, Steps
<1> QED BY <1>1, <1>2 DEF Recycle, PutBack

LEMMA DestroySteps ==
  ASSUME ControlOK, NEW c \in Client, NEW from \in ClientState, NEW to \in ClientState \ {"wait"}, Destroy(c, from, to)
  PROVE  Steps(c, {from}, {to})
<1>1. Goto(c, to) \in [Client -> ClientState] /\ Goto(c, to)[c] = to
      /\ \A d \in Client : d # c => Goto(c, to)[d] = pc[d]
  BY Moved DEF ControlOK
<1> QED BY <1>1, Removed DEF Destroy, Steps

(* Workers and the closing of the pool move no goroutine.                  *)
LEMMA OthersSteps ==
  ASSUME ControlOK,
         (\E w \in Worker : Working(w)) \/ (\E s \in Session : Age(s)) \/ Closing
  PROVE  pc' \in [Client -> ClientState] /\ NoneSteps
<1> USE DEF ControlOK, NoneSteps
<1>1. ASSUME NEW w \in Worker, Working(w)
      PROVE  pc' \in [Client -> ClientState] /\ NoneSteps
  <2>1. CASE UNCHANGED pc
    BY <2>1
  <2>2. ASSUME NEW list, PutBack(ws[w], list, pc)
        PROVE  pc' \in [Client -> ClientState] /\ NoneSteps
    BY <2>2, Woken DEF PutBack
  <2>3. CASE remove(ws[w], pc)
    BY <2>3, Removed
  <2> QED BY <1>1, <2>1, <2>2, <2>3 DEF Working, Exit, getNextForTx, NoneForTx, prepareForWrite, GiveBack, Prepared,
          getNextForPing, NoneForPing, DropClosed, Expire, Keep, refreshIdle, EndCheck, Lost, Dropped, clientVars
<1>2. ASSUME NEW s \in Session, Age(s) PROVE pc' \in [Client -> ClientState] /\ NoneSteps
  BY <1>2 DEF Age, clientVars
<1>3. CASE Close
  BY <1>3 DEF Close, clientVars
<1>4. ASSUME NEW s \in Session, CloseDestroys(s) PROVE pc' \in [Client -> ClientState] /\ NoneSteps
  BY <1>4, Removed DEF CloseDestroys
<1> QED BY <1>1, <1>2, <1>3, <1>4 DEF Closing

LEMMA WorkerTypes ==
  ASSUME ControlOK, [Next]_vars
  PROVE  at' \in [Worker -> WorkerState]
<1> USE DEF ControlOK, WorkerState
<1>1. ASSUME NEW w \in Worker, Working(w)
      PROVE  at' \in [Worker -> WorkerState]
  BY <1>1 DEF Working, Exit, getNextForTx, NoneForTx, prepareForWrite, GiveBack, Prepared,
     getNextForPing, NoneForPing, DropClosed, Expire, Keep, refreshIdle, EndCheck, Lost, Move
<1>2. ASSUME NEW c \in Client, Taking(c) \/ TimeOut(c) \/ Ask(c) \/ Recycle(c) \/ (\E from, to : Destroy(c, from, to))
      PROVE  UNCHANGED at
  BY <1>2 DEF Taking, TimeOut, TakeRefused, TakeIdle, Wait, TakeBudget, Healthy, Unhealthy, Destroy, Create, DoneCreate,
     CreateFails, Prepare, PrepareFails, Ask, Recycle, workerVars
<1>3. CASE (\E s \in Session : Age(s)) \/ Closing
  BY <1>3 DEF Age, Closing, Close, CloseDestroys, workerVars
<1>4. ASSUME NEW c \in Writer, Write(c) PROVE UNCHANGED at
  BY <1>2, <1>4, Holders DEF Write
<1>5. ASSUME NEW r \in Reader, ReaderStep(r) PROVE UNCHANGED at
  BY <1>2, <1>5, Holders DEF ReaderStep, Acquire, TimeOutReader, TakeFails, BeginOk, BeginFails, GivesBack, Read,
     allPoolVars, workerVars
<1>6. CASE CloseTransaction \/ CloseRecycles
  BY <1>2, <1>6, Holders DEF CloseTransaction, CloseRecycles, allPoolVars, workerVars
<1>7. CASE UNCHANGED vars
  BY <1>7 DEF vars, allPoolVars, workerVars
<1> QED BY <1>1, <1>2, <1>3, <1>4, <1>5, <1>6, <1>7 DEF Next, PoolStep

-----------------------------------------------------------------------------
(* Where the steps of the transactions move a goroutine: none of them asks *)
(* for a budget or gives one back, and who is done stays so, but for the   *)
(* holder of the transaction's session, which gets one.                    *)
Settled == {"idle", "take", "wait", "check", "prepare", "use", "reject", "done"}

HolderMoves ==
  \A c \in Client :
    /\ pc'[c] = pc[c] \/ (pc[c] \in Settled /\ pc'[c] \in Settled)
    /\ c # T /\ pc[c] = "done" => pc'[c] = "done"
    /\ pc'[c] = "wait" => pc[c] = "wait"

LEMMA StepsMove ==
  ASSUME ControlOK, NEW c \in Client, NEW from \in Settled \ {"done"}, NEW to \in Settled \ {"wait"}, Steps(c, {from}, {to})
  PROVE  HolderMoves /\ (c # T => pc'[T] = pc[T]) /\ pc'[c] = to
<1>1. pc[c] = from /\ pc'[c] = to
  BY DEF Steps
<1>2. ASSUME NEW d \in Client, d # c
      PROVE  pc'[d] = pc[d] \/ (pc[d] = "wait" /\ pc'[d] = "take")
  BY <1>2 DEF Steps
<1>3. HolderMoves
  BY <1>1, <1>2 DEF HolderMoves, Settled
<1>4. c # T => pc'[T] = pc[T]
  BY <1>2, Holders DEF ControlOK
<1> QED BY <1>1, <1>3, <1>4

LEMMA WriterSteps ==
  ASSUME ControlOK, NEW c \in Writer, Write(c)
  PROVE  pc' \in [Client -> ClientState] /\ HolderMoves /\ pc'[T] = pc[T]
<1>1. c \in Client /\ c # T /\ T \in Client
  BY Holders
<1>2. pc' \in [Client -> ClientState]
  BY <1>1, HolderSteps DEF Write, ClientState
<1>3. \E from \in {"idle", "use", "reject"}, to \in {"take", "done", "reject"} : Steps(c, {from}, {to})
  <2>1. CASE Ask(c)
    BY <1>1, <2>1, AskSteps
  <2>2. CASE Recycle(c)
    BY <1>1, <2>2, RecycleSteps DEF Steps
  <2>3. CASE Destroy(c, "reject", "done") \/ \E to \in {"take", "done"} : Destroy(c, "use", to)
    BY <1>1, <2>3, DestroySteps DEF ClientState
  <2> QED BY <2>1, <2>2, <2>3 DEF Write
<1> QED BY <1>1, <1>2, <1>3, StepsMove DEF Settled

LEMMA TSteps ==
  ASSUME ControlOK, Recycle(T) \/ \E from \in {"use", "reject"} : Destroy(T, from, "done")
  PROVE  pc' \in [Client -> ClientState] /\ HolderMoves /\ pc'[T] \in {"reject", "done"}
<1>1. T \in Client
  BY Holders
<1>2. pc' \in [Client -> ClientState]
  BY <1>1, HolderSteps DEF ClientState
<1>3. \E from \in {"use", "reject"}, to \in {"done", "reject"} : Steps(T, {from}, {to})
  BY <1>1, RecycleSteps, DestroySteps DEF Steps, ClientState
<1> QED BY <1>1, <1>2, <1>3, StepsMove DEF Settled

LEMMA ReaderSteps ==
  ASSUME ControlOK, NEW r \in Reader, ReaderStep(r)
  PROVE  /\ pc' \in [Client -> ClientState] /\ HolderMoves
         /\ pc'[T] \in {"idle", "use", "reject", "done"}
         /\ do' \in [Reader -> ReaderState]
<1>1. r \in Client /\ r # T /\ T \in Client
  BY Holders
<1>2. do' \in [Reader -> ReaderState]
  BY DEF ControlOK, ReaderState, ReaderStep, Acquire, TimeOutReader, TakeFails, BeginOk, BeginFails, GivesBack, Read,
     Turn, Signal, txVars
<1> SUFFICES /\ pc' \in [Client -> ClientState] /\ HolderMoves
             /\ pc'[T] \in {"idle", "use", "reject", "done"}
  BY <1>2
<1>3. CASE UNCHANGED pc
  BY <1>3 DEF HolderMoves, ControlOK
<1>4. CASE Ask(r)
  <2>1. pc' \in [Client -> ClientState] /\ Steps(r, {"idle"}, {"take"})
    BY <1>1, <1>4, AskSteps, HolderSteps
  <2> QED BY <1>1, <2>1, StepsMove DEF Settled, ControlOK
<1>5. CASE BeginOk(r)
  BY <1>1, <1>5 DEF BeginOk, Goto, HolderMoves, Settled, ControlOK, ClientState
<1>6. CASE GivesBack(r)
  <2>1. pc' \in [Client -> ClientState]
    BY <1>1, <1>6, HolderSteps DEF GivesBack, ClientState
  <2>2. \E from \in {"use", "reject"}, to \in {"done", "reject"} : Steps(r, {from}, {to})
    BY <1>1, <1>6, RecycleSteps, DestroySteps DEF GivesBack, Steps, ClientState
  <2> QED BY <1>1, <2>1, <2>2, StepsMove DEF Settled, ControlOK
<1>7. CASE Read(r)
  BY <1>7, TSteps DEF Read
<1> QED BY <1>3, <1>4, <1>5, <1>6, <1>7 DEF ReaderStep, Acquire, TimeOutReader, TakeFails, BeginFails,
     allPoolVars, clientVars

(* All steps that are not the pool's.                                      *)
TransactionStep ==
  \/ \E c \in Writer : Write(c)
  \/ \E r \in Reader : ReaderStep(r)
  \/ CloseTransaction \/ CloseRecycles

LEMMA TransactionSteps ==
  ASSUME ControlOK, TransactionStep
  PROVE  /\ pc' \in [Client -> ClientState] /\ HolderMoves
         /\ pc'[T] \in {"idle", "use", "reject", "done"}
         /\ do' \in [Reader -> ReaderState]
<1>1. ASSUME NEW c \in Writer, Write(c)
      PROVE  /\ pc' \in [Client -> ClientState] /\ HolderMoves /\ pc'[T] = pc[T] /\ do' = do
  BY <1>1, WriterSteps DEF Write, txVars
<1>2. CASE CloseTransaction
  BY <1>2 DEF CloseTransaction, allPoolVars, clientVars, Signal, HolderMoves, ControlOK, ReaderState
<1>3. CASE CloseRecycles
  BY <1>3, TSteps DEF CloseRecycles, txVars, ControlOK
<1> QED BY <1>1, <1>2, <1>3, ReaderSteps DEF TransactionStep, ControlOK

LEMMA PoolSteps ==
  ASSUME ControlOK, PoolStep
  PROVE  /\ pc' \in [Client -> ClientState]
         /\ pc'[T] = pc[T] /\ UNCHANGED txVars
         /\ \A c \in Client : pc[c] = "done" => pc'[c] = "done"
<1>1. ASSUME NEW c \in Client, Taking(c) \/ TimeOut(c)
      PROVE  /\ pc' \in [Client -> ClientState]
             /\ pc'[T] = pc[T]
             /\ \A d \in Client : pc[d] = "done" => pc'[d] = "done"
  <2>1. pc' \in [Client -> ClientState] /\ c # T
        /\ pc[c] # "done" /\ \A d \in Client \ {c} : pc'[d] = pc[d] \/ (pc[d] = "wait" /\ pc'[d] = "take")
    BY <1>1, TakingSteps DEF Steps
  <2> QED BY <2>1, Holders DEF ControlOK
<1>2. CASE (\E w \in Worker : Working(w)) \/ (\E s \in Session : Age(s)) \/ Closing
  BY <1>2, OthersSteps, Holders DEF NoneSteps, ControlOK, PoolStep
<1> QED BY <1>1, <1>2 DEF PoolStep

LEMMA ControlInit == ASSUME Init PROVE ControlOK
BY Holders DEF Init, PoolInit, ControlOK, ClientState, WorkerState, ReaderState

LEMMA ControlStep ==
  ASSUME ControlOK, [Next]_vars
  PROVE  ControlOK'
<1>1. at' \in [Worker -> WorkerState]
  BY WorkerTypes
<1>2. CASE PoolStep
  BY <1>1, <1>2, PoolSteps DEF ControlOK, txVars
<1>3. CASE TransactionStep
  BY <1>1, <1>3, TransactionSteps DEF ControlOK
<1>4. CASE UNCHANGED vars
  BY <1>4 DEF vars, allPoolVars, clientVars, workerVars, txVars, ControlOK
<1> QED BY <1>2, <1>3, <1>4 DEF Next, TransactionStep

-----------------------------------------------------------------------------
(* Who begins the transaction.  While it is not closed, the marker has an  *)
(* owner or one that got no session; readers wait only for a marker.       *)
BeginInv ==
  /\ state \in {"new", "init"} => id \in {"nil", "pending"}
  /\ Hangs # {} => state = "init" /\ id = "pending"
  /\ id = "pending" /\ state # "closed" =>
       \E r \in Reader : do[r] = "begin" \/ (do[r] = "error" /\ pc[r] = "done")

LEMMA BeginStep ==
  ASSUME ControlOK, BeginInv, [Next]_vars
  PROVE  BeginInv'
<1> USE DEF BeginInv, Hangs
<1>1. CASE UNCHANGED txVars /\ \A r \in Reader : pc[r] = "done" => pc'[r] = "done"
  BY <1>1 DEF txVars
<1>2. CASE PoolStep
  BY <1>1, <1>2, PoolSteps, Holders
<1>3. \A r \in Reader : TransactionStep /\ pc[r] = "done" => pc'[r] = "done"
  BY TransactionSteps, Holders DEF HolderMoves
<1>4. ASSUME NEW c \in Writer, Write(c) PROVE BeginInv'
  BY <1>1, <1>3, <1>4 DEF TransactionStep, Write
<1>5. ASSUME NEW r \in Reader, ReaderStep(r) PROVE BeginInv'
  <2> TransactionStep
    BY <1>5 DEF TransactionStep
  <2>1. CASE Acquire(r)
    <3>1. \A q \in Reader : pc[q] = "done" => pc'[q] = "done"
      BY <1>3
    <3>2. \A q \in Reader : do'[q] = do[q] \/ (q = r /\ do[q] = "acquire")
      BY <2>1 DEF Acquire, Turn, ControlOK
    <3>3. CASE state = "init" /\ id = "nil"
      BY <2>1, <3>2, <3>3 DEF Acquire, Turn, ControlOK
    <3>4. CASE ~(state = "init" /\ id = "nil")
      BY <2>1, <3>1, <3>2, <3>4 DEF Acquire, Turn, ControlOK
    <3> QED BY <3>3, <3>4
  <2>2. CASE TimeOutReader(r)
    BY <2>2, <1>3 DEF TimeOutReader, Turn, ControlOK
  <2>3. CASE TakeFails(r)
    BY <2>3, <1>3 DEF TakeFails, Turn, Signal, ControlOK
  <2>4. CASE BeginOk(r)
    BY <2>4, <1>3 DEF BeginOk, Turn, Signal, ControlOK
  <2>5. CASE BeginFails(r)
    BY <2>5, <1>3 DEF BeginFails, Turn, Signal, ControlOK
  <2>6. CASE GivesBack(r) \/ Read(r)
    BY <2>6, <1>1, <1>3 DEF GivesBack, Read
  <2> QED BY <1>5, <2>1, <2>2, <2>3, <2>4, <2>5, <2>6 DEF ReaderStep
<1>6. CASE CloseTransaction
  BY <1>6 DEF CloseTransaction, Signal
<1>7. CASE CloseRecycles
  BY <1>1, <1>3, <1>7 DEF CloseRecycles, TransactionStep
<1>8. CASE UNCHANGED vars
  BY <1>1, <1>8 DEF vars, allPoolVars, clientVars, txVars
<1> QED BY <1>2, <1>4, <1>5, <1>6, <1>7, <1>8 DEF Next

(* However many readers share a transaction, one of them is about to begin *)
(* it while others wait, or did not get a session (transaction.go:297).    *)
THEOREM SomebodyBegins == Spec => []WaitsForBegin
<1>1. Init => ControlOK /\ BeginInv
  BY ControlInit DEF Init, PoolInit, BeginInv, Hangs
<1>2. (ControlOK /\ BeginInv) /\ [Next]_vars => (ControlOK /\ BeginInv)'
  BY ControlStep, BeginStep
<1>3. BeginInv => WaitsForBegin
  BY DEF BeginInv, WaitsForBegin, Hangs
<1> QED BY <1>1, <1>2, <1>3, PTL DEF Spec

-----------------------------------------------------------------------------
(* The counters.  What they count is finite at any time, as it starts      *)
(* empty and a step adds or removes one at most.                           *)
Creating  == {c \in Client : pc[c] = "create"}
Asking    == {c \in Client : pc[c] \in {"create", "created"}}
Preparers == {w \in Worker : at[w] \in {"prepare", "back", "prepared"}}

CountInv ==
  /\ IsFiniteSet(open) /\ IsFiniteSet(Creating) /\ IsFiniteSet(Asking) /\ IsFiniteSet(Preparers)
  /\ Accounted

LEMMA Counts ==
  ASSUME CountInv
  PROVE  /\ Cardinality(open) \in Nat /\ Cardinality(Creating) \in Nat
         /\ numOpened = Cardinality(open) + Cardinality(Creating)
         /\ createReqs = Cardinality(Asking) /\ createReqs \in Nat
         /\ prepareReqs = Cardinality(Preparers) /\ prepareReqs \in Nat
         /\ numOpened \in Nat /\ MaxOpened \in Nat /\ MaxBurst \in Nat
         /\ MaxOpened > 0 => numOpened <= MaxOpened
         /\ MaxBurst > 0 => createReqs <= MaxBurst
BY FS_CardinalityType, PoolAssumption DEF CountInv, Accounted, Creating, Asking, Preparers

LEMMA CountsNext ==
  ASSUME IsFiniteSet(open'), IsFiniteSet(Creating'), IsFiniteSet(Asking'), IsFiniteSet(Preparers'),
         numOpened' = Cardinality(open') + Cardinality(Creating'), createReqs' = Cardinality(Asking'),
         prepareReqs' = Cardinality(Preparers'),
         MaxOpened > 0 => numOpened' <= MaxOpened, MaxBurst > 0 => createReqs' <= MaxBurst
  PROVE  CountInv'
BY DEF CountInv, Accounted, Creating, Asking, Preparers

(* A session that is destroyed is uncounted, once.                         *)
Uncounted(s) ==
  /\ open' = open \ {s}
  /\ numOpened' = IF s \in open THEN numOpened - 1 ELSE numOpened

LEMMA Uncounts ==
  ASSUME CountInv, NEW s, Uncounted(s) \/ UNCHANGED <<open, numOpened>>,
         Creating' = Creating, Asking' = Asking, Preparers' = Preparers, UNCHANGED <<createReqs, prepareReqs>>
  PROVE  CountInv'
<1> USE Counts, CountsNext DEF CountInv
<1>1. CASE UNCHANGED <<open, numOpened>>
  BY <1>1
<1>2. CASE Uncounted(s) /\ s \in open
  <2>1. IsFiniteSet(open') /\ Cardinality(open') = Cardinality(open) - 1
    BY <1>2, FS_RemoveElement DEF Uncounted
  <2>2. numOpened' = numOpened - 1
    BY <1>2 DEF Uncounted
  <2> QED BY <2>1, <2>2
<1>3. CASE Uncounted(s) /\ s \notin open
  <2>1. open' = open /\ numOpened' = numOpened
    BY <1>3 DEF Uncounted
  <2> QED BY <2>1
<1> QED BY <1>1, <1>2, <1>3

LEMMA RemoveUncounts ==
  ASSUME NEW s, NEW next, remove(s, next)
  PROVE  Uncounted(s)
BY DEF remove, Uncounted

(* Steps that ask for no budget and give none back.                        *)
LEMMA Unbudgeted ==
  ASSUME \A c \in Client : pc'[c] = pc[c] \/ (pc[c] \notin {"create", "created"} /\ pc'[c] \notin {"create", "created"})
  PROVE  Creating' = Creating /\ Asking' = Asking
BY DEF Creating, Asking

LEMMA TakingCounts ==
  ASSUME ControlOK, CountInv, NEW c \in Client, Taking(c) \/ TimeOut(c)
  PROVE  CountInv'
<1> USE DEF ControlOK
<1>1. Preparers' = Preparers /\ prepareReqs' = prepareReqs
  BY DEF Preparers, Taking, TimeOut, TakeRefused, TakeIdle, Wait, TakeBudget, Healthy, Unhealthy, Destroy, Create, DoneCreate,
     CreateFails, Prepare, PrepareFails, poolVars, workerVars
<1>2. CASE TakeBudget(c)
  <2>1. Creating' = Creating \cup {c} /\ c \notin Creating
    BY <1>2 DEF TakeBudget, Creating, Goto
  <2>2. Asking' = Asking \cup {c} /\ c \notin Asking
    BY <1>2 DEF TakeBudget, Asking, Goto
  <2>3. /\ IsFiniteSet(Creating') /\ Cardinality(Creating') = Cardinality(Creating) + 1
        /\ IsFiniteSet(Asking') /\ Cardinality(Asking') = Cardinality(Asking) + 1
    BY <2>1, <2>2, FS_AddElement DEF CountInv
  <2>4. open' = open /\ numOpened' = numOpened + 1 /\ createReqs' = createReqs + 1 /\ ~Full
    BY <1>2 DEF TakeBudget, sessVars
  <2> QED BY <1>1, <2>3, <2>4, Counts, CountsNext DEF CountInv, Full
<1>3. CASE Create(c)
  <2>1. Creating' = Creating \ {c} /\ c \in Creating /\ Asking' = Asking
    BY <1>3 DEF Create, Creating, Asking, Goto
  <2>2. PICK s \in Session : s \notin open /\ open' = open \cup {s}
    BY <1>3 DEF Create, Unused
  <2>3. /\ IsFiniteSet(Creating') /\ Cardinality(Creating') = Cardinality(Creating) - 1
        /\ IsFiniteSet(open') /\ Cardinality(open') = Cardinality(open) + 1
    BY <2>1, <2>2, FS_AddElement, FS_RemoveElement DEF CountInv
  <2>4. numOpened' = numOpened /\ createReqs' = createReqs
    BY <1>3 DEF Create, poolVars
  <2> QED BY <1>1, <2>1, <2>3, <2>4, Counts, CountsNext DEF CountInv
<1>4. CASE DoneCreate(c)
  <2>1. Creating' = Creating /\ Asking' = Asking \ {c} /\ c \in Asking
    <3>1. Goto(c, Ready(c)) \in [Client -> ClientState] /\ Goto(c, Ready(c))[c] \in {"use", "prepare"}
          /\ \A d \in Client : d # c => Goto(c, Ready(c))[d] = pc[d]
      BY Moved DEF Ready, ClientState
    <3>2. \A d \in Client : pc'[d] = Goto(c, Ready(c))[d] \/ (Goto(c, Ready(c))[d] = "wait" /\ pc'[d] = "take")
      BY <1>4, <3>1, Woken DEF DoneCreate
    <3> QED BY <1>4, <3>1, <3>2 DEF DoneCreate, Creating, Asking
  <2>2. IsFiniteSet(Asking') /\ Cardinality(Asking') = Cardinality(Asking) - 1
    BY <2>1, FS_RemoveElement DEF CountInv
  <2>3. open' = open /\ numOpened' = numOpened /\ createReqs' = createReqs - 1
    BY <1>4 DEF DoneCreate, sessVars
  <2> QED BY <1>1, <2>1, <2>2, <2>3, Counts, CountsNext DEF CountInv
<1>5. CASE CreateFails(c)
  <2>1. Creating' = Creating \ {c} /\ c \in Creating /\ Asking' = Asking \ {c} /\ c \in Asking
    <3>1. Goto(c, "done") \in [Client -> ClientState] /\ Goto(c, "done")[c] = "done"
          /\ \A d \in Client : d # c => Goto(c, "done")[d] = pc[d]
      BY Moved DEF ClientState
    <3>2. \A d \in Client : pc'[d] = Goto(c, "done")[d] \/ (Goto(c, "done")[d] = "wait" /\ pc'[d] = "take")
      BY <1>5, <3>1, Woken DEF CreateFails
    <3> QED BY <1>5, <3>1, <3>2 DEF CreateFails, Creating, Asking
  <2>2. /\ IsFiniteSet(Asking') /\ Cardinality(Asking') = Cardinality(Asking) - 1
        /\ IsFiniteSet(Creating') /\ Cardinality(Creating') = Cardinality(Creating) - 1
    BY <2>1, FS_RemoveElement DEF CountInv
  <2>3. open' = open /\ numOpened' = numOpened - 1 /\ createReqs' = createReqs - 1
    BY <1>5 DEF CreateFails, sessVars
  <2> QED BY <1>1, <2>1, <2>2, <2>3, Counts, CountsNext DEF CountInv
<1>6. CASE Unhealthy(c)
  <2>1. Creating' = Creating /\ Asking' = Asking
    BY <1>6, Unbudgeted, DestroySteps DEF Unhealthy, Steps, ClientState
  <2>2. Uncounted(handle[c]) /\ createReqs' = createReqs
    BY <1>6, RemoveUncounts DEF Unhealthy, Destroy
  <2> QED BY <1>1, <2>1, <2>2, Uncounts
<1>7. CASE TakeRefused(c) \/ TakeIdle(c) \/ Wait(c) \/ Healthy(c) \/ Prepare(c) \/ PrepareFails(c) \/ TimeOut(c)
  <2>1. Creating' = Creating /\ Asking' = Asking
    BY <1>7 DEF TakeRefused, TakeIdle, Wait, Healthy, Prepare, PrepareFails, TimeOut, Goto, Ready, Creating, Asking
  <2>2. UNCHANGED <<open, numOpened, createReqs>>
    BY <1>7 DEF TakeRefused, TakeIdle, Wait, Healthy, Prepare, PrepareFails, TimeOut, poolVars, sessVars
  <2> QED BY <1>1, <2>1, <2>2, Uncounts
<1> QED BY <1>2, <1>3, <1>4, <1>5, <1>6, <1>7 DEF Taking

LEMMA WorkingCounts ==
  ASSUME ControlOK, CountInv, NEW w \in Worker, Working(w)
  PROVE  CountInv'
<1> USE DEF ControlOK
<1>1. Creating' = Creating /\ Asking' = Asking
  BY OthersSteps, Unbudgeted DEF NoneSteps
<1>2. createReqs' = createReqs
  BY DEF Working, Exit, getNextForTx, NoneForTx, prepareForWrite, GiveBack, Prepared,
     getNextForPing, NoneForPing, DropClosed, Expire, Keep, refreshIdle, EndCheck, Lost, Dropped, poolVars
<1>3. CASE getNextForTx(w)
  <2>1. Preparers' = Preparers \cup {w} /\ w \notin Preparers
    BY <1>3 DEF getNextForTx, Move, Preparers
  <2>2. IsFiniteSet(Preparers') /\ Cardinality(Preparers') = Cardinality(Preparers) + 1
    BY <2>1, FS_AddElement DEF CountInv
  <2>3. UNCHANGED <<open, numOpened>> /\ prepareReqs' = prepareReqs + 1
    BY <1>3 DEF getNextForTx
  <2> QED BY <1>1, <1>2, <2>2, <2>3, Counts, CountsNext DEF CountInv
<1>4. CASE Prepared(w)
  <2>1. Preparers' = Preparers \ {w} /\ w \in Preparers
    BY <1>4 DEF Prepared, Move, Preparers
  <2>2. IsFiniteSet(Preparers') /\ Cardinality(Preparers') = Cardinality(Preparers) - 1
    BY <2>1, FS_RemoveElement DEF CountInv
  <2>3. UNCHANGED <<open, numOpened>> /\ prepareReqs' = prepareReqs - 1
    BY <1>4 DEF Prepared
  <2> QED BY <1>1, <1>2, <2>2, <2>3, Counts, CountsNext DEF CountInv
<1>5. CASE DropClosed(w) \/ Expire(w) \/ Lost(w)
  <2>1. Preparers' = Preparers
    BY <1>5 DEF DropClosed, Expire, Lost, Move, Preparers
  <2>2. Uncounted(ws[w]) /\ prepareReqs' = prepareReqs
    BY <1>5, RemoveUncounts DEF DropClosed, Expire, Lost, Dropped
  <2> QED BY <1>1, <1>2, <2>1, <2>2, Uncounts
<1>6. CASE \/ Exit(w) \/ NoneForTx(w) \/ prepareForWrite(w) \/ GiveBack(w, "back", "prepared") \/ GiveBack(w, "back2", "pinging")
           \/ (\E s \in Session : getNextForPing(w, s)) \/ NoneForPing(w) \/ Keep(w) \/ refreshIdle(w) \/ EndCheck(w)
  <2>1. Preparers' = Preparers
    BY <1>6 DEF Exit, NoneForTx, prepareForWrite, GiveBack, getNextForPing, NoneForPing, Keep, refreshIdle, EndCheck, Move, Preparers
  <2>2. UNCHANGED <<open, numOpened, prepareReqs>>
    BY <1>6 DEF Exit, NoneForTx, prepareForWrite, GiveBack, getNextForPing, NoneForPing, Keep, refreshIdle, EndCheck, poolVars, sessVars
  <2> QED BY <1>1, <1>2, <2>1, <2>2, Uncounts
<1> QED BY <1>3, <1>4, <1>5, <1>6 DEF Working

LEMMA ClosingCounts ==
  ASSUME ControlOK, CountInv, (\E s \in Session : Age(s)) \/ Closing
  PROVE  CountInv'
<1>1. Creating' = Creating /\ Asking' = Asking
  BY OthersSteps, Unbudgeted DEF NoneSteps
<1>2. Preparers' = Preparers /\ UNCHANGED <<createReqs, prepareReqs>>
  BY DEF Age, Closing, Close, CloseDestroys, Preparers, poolVars, workerVars
<1>3. \E s : Uncounted(s) \/ UNCHANGED <<open, numOpened>>
  BY RemoveUncounts DEF Age, Closing, Close, CloseDestroys, poolVars, sessVars
<1> QED BY <1>1, <1>2, <1>3, Uncounts

(* A goroutine of the transactions uncounts a session at most.             *)
LEMMA HolderCounts ==
  ASSUME NEW c \in Client, Ask(c) \/ Recycle(c) \/ \E from, to \in ClientState : Destroy(c, from, to)
  PROVE  /\ \E s : Uncounted(s) \/ UNCHANGED <<open, numOpened>>
         /\ UNCHANGED <<createReqs, prepareReqs, at>>
BY RemoveUncounts DEF Ask, Recycle, Destroy, PutBack, poolVars, sessVars, workerVars

LEMMA TransactionCounts ==
  ASSUME ControlOK, CountInv, TransactionStep
  PROVE  CountInv'
<1>1. Creating' = Creating /\ Asking' = Asking
  BY TransactionSteps, Unbudgeted DEF HolderMoves, Settled
<1>2. /\ \E s : Uncounted(s) \/ UNCHANGED <<open, numOpened>>
      /\ UNCHANGED <<createReqs, prepareReqs, at>>
  <2> USE Holders DEF ClientState
  <2>1. ASSUME NEW c \in Writer, Write(c)
        PROVE  \E from, to \in ClientState : Ask(c) \/ Recycle(c) \/ Destroy(c, from, to)
    BY <2>1 DEF Write
  <2>2. ASSUME NEW r \in Reader, GivesBack(r) \/ Read(r)
        PROVE  \E c \in Client : \E from, to \in ClientState : Recycle(c) \/ Destroy(c, from, to)
    BY <2>2 DEF GivesBack, Read
  <2>3. CASE CloseRecycles
    BY <2>3, HolderCounts DEF CloseRecycles
  <2>4. ASSUME NEW r \in Reader, Acquire(r), Ask(r)
        PROVE  UNCHANGED <<open, numOpened, createReqs, prepareReqs, at>>
    BY <2>4 DEF Ask, poolVars, sessVars, workerVars
  <2>5. ASSUME NEW r \in Reader,
               (Acquire(r) /\ UNCHANGED allPoolVars) \/ TimeOutReader(r) \/ TakeFails(r) \/ BeginOk(r) \/ BeginFails(r)
        PROVE  UNCHANGED <<open, numOpened, createReqs, prepareReqs, at>>
    BY <2>5 DEF TimeOutReader, TakeFails, BeginOk, BeginFails, allPoolVars, poolVars, sessVars, workerVars
  <2>6. CASE CloseTransaction
    BY <2>6 DEF CloseTransaction, allPoolVars, poolVars, sessVars, workerVars
  <2> QED BY <2>1, <2>2, <2>3, <2>4, <2>5, <2>6, HolderCounts DEF TransactionStep, ReaderStep, Acquire
<1> QED BY <1>1, <1>2, Uncounts DEF Preparers

LEMMA CountStep ==
  ASSUME ControlOK, CountInv, [Next]_vars
  PROVE  CountInv'
<1>1. CASE PoolStep
  BY <1>1, TakingCounts, WorkingCounts, ClosingCounts DEF PoolStep
<1>2. CASE UNCHANGED vars
  BY <1>2, Uncounts DEF vars, allPoolVars, poolVars, sessVars, clientVars, workerVars, Creating, Asking, Preparers
<1> QED BY <1>1, <1>2, TransactionCounts DEF Next, TransactionStep

LEMMA CountInit == ASSUME Init PROVE CountInv
<1>1. open = {} /\ Creating = {} /\ Asking = {} /\ Preparers = {} /\ numOpened = 0 /\ createReqs = 0 /\ prepareReqs = 0
  BY DEF Init, PoolInit, Creating, Asking, Preparers
<1> QED BY <1>1, FS_EmptySet, PoolAssumption DEF CountInv, Accounted, Creating, Asking, Preparers

(* The counters count (session.go:400), and the limits hold, whatever the  *)
(* number of goroutines, workers and sessions.                             *)
THEOREM CountersRight == Spec => []Accounted
<1>1. Init => ControlOK /\ CountInv
  BY ControlInit, CountInit
<1>2. (ControlOK /\ CountInv) /\ [Next]_vars => (ControlOK /\ CountInv)'
  BY ControlStep, CountStep
<1>3. CountInv => Accounted
  BY DEF CountInv
<1> QED BY <1>1, <1>2, <1>3, PTL DEF Spec

-----------------------------------------------------------------------------
(* Waiting.  A step wakes all who wait, or leaves the reason of their wait *)
(* as it is.                                                               *)
WaitInv == WaitsForReason /\ DOMAIN idle = {"read", "write"}

Reason == NoneIdle /\ Full

Kept ==
  /\ DOMAIN idle' = DOMAIN idle
  /\ \/ \A c \in Client : pc'[c] # "wait"
     \/ (\A c \in Client : pc'[c] = "wait" => pc[c] = "wait") /\ (Reason => Reason')

LEMMA KeptWaits ==
  ASSUME WaitInv, Kept
  PROVE  WaitInv'
BY DEF WaitInv, Kept, WaitsForReason, Reason

LEMMA EmptyStays == ASSUME NEW s PROVE RemoveFirst(<<>>, s) = <<>>
BY DEF RemoveFirst

LEMMA KeptUnchanged ==
  ASSUME UNCHANGED <<idle, numOpened, createReqs>>,
         \A c \in Client : pc'[c] = "wait" => pc[c] = "wait"
  PROVE  Kept
BY DEF Kept, Reason, NoneIdle, Full

(* A session that is destroyed was counted, and all who wait are woken, or *)
(* was not, and at most leaves its list.                                   *)
LEMMA RemoveKeeps ==
  ASSUME NEW s, NEW next \in [Client -> ClientState], remove(s, next), createReqs' = createReqs,
         \A c \in Client : next[c] = "wait" => pc[c] = "wait"
  PROVE  Kept
<1>1. DOMAIN idle' = DOMAIN idle /\ (NoneIdle => NoneIdle')
  BY EmptyStays DEF remove, NoneIdle
<1>2. CASE s \in open
  BY <1>1, <1>2, Woken DEF remove, Kept
<1>3. CASE s \notin open
  BY <1>1, <1>3 DEF remove, Kept, Reason, Full
<1> QED BY <1>2, <1>3

LEMMA PutBackKeeps ==
  ASSUME NEW s, NEW list, NEW next \in [Client -> ClientState], PutBack(s, list, next)
  PROVE  Kept
BY Woken DEF PutBack, Kept

LEMMA TakingWaits ==
  ASSUME ControlOK, CountInv, WaitInv, NEW c \in Client, Taking(c) \/ TimeOut(c)
  PROVE  WaitInv'
<1> USE DEF ControlOK
<1>1. CASE Wait(c)
  BY <1>1 DEF Wait, Goto, poolVars, WaitInv, WaitsForReason, NoneIdle, Full
<1>2. CASE TakeIdle(c)
  BY <1>2, KeptWaits DEF TakeIdle, Goto, Kept, Reason
<1>3. CASE TakeBudget(c)
  BY <1>3, Counts, KeptWaits DEF TakeBudget, Goto, Kept, Reason
<1>4. CASE Unhealthy(c)
  <2>1. Goto(c, "take") \in [Client -> ClientState] /\ \A d \in Client : Goto(c, "take")[d] = "wait" => pc[d] = "wait"
    BY DEF Goto, ClientState
  <2> QED BY <1>4, <2>1, RemoveKeeps, KeptWaits DEF Unhealthy, Destroy
<1>5. CASE DoneCreate(c) \/ CreateFails(c)
  <2>1. Goto(c, Ready(c)) \in [Client -> ClientState] /\ Goto(c, "done") \in [Client -> ClientState]
    BY Moved DEF Ready, ClientState
  <2> QED BY <1>5, <2>1, Woken, KeptWaits DEF DoneCreate, CreateFails, Kept
<1>6. CASE TakeRefused(c) \/ Healthy(c) \/ Create(c) \/ Prepare(c) \/ PrepareFails(c) \/ TimeOut(c)
  <2>1. UNCHANGED <<idle, numOpened, createReqs>>
    BY <1>6 DEF TakeRefused, Healthy, Create, Prepare, PrepareFails, TimeOut, poolVars
  <2>2. \A d \in Client : pc'[d] = "wait" => pc[d] = "wait"
    BY <1>6 DEF TakeRefused, Healthy, Create, Prepare, PrepareFails, TimeOut, Goto, Ready
  <2> QED BY <2>1, <2>2, KeptUnchanged, KeptWaits
<1> QED BY <1>1, <1>2, <1>3, <1>4, <1>5, <1>6 DEF Taking

LEMMA WorkingWaits ==
  ASSUME ControlOK, CountInv, WaitInv,
         (\E w \in Worker : Working(w)) \/ (\E s \in Session : Age(s)) \/ Closing
  PROVE  WaitInv'
<1>1. \A c \in Client : pc'[c] = "wait" => pc[c] = "wait"
  BY OthersSteps DEF NoneSteps
<1>2. pc \in [Client -> ClientState]
  BY DEF ControlOK
<1>3. ASSUME NEW w \in Worker, Working(w) PROVE Kept
  <2>1. createReqs' = createReqs
    BY <1>3 DEF Working, Exit, getNextForTx, NoneForTx, prepareForWrite, GiveBack, Prepared,
       getNextForPing, NoneForPing, DropClosed, Expire, Keep, refreshIdle, EndCheck, Lost, Dropped, poolVars
  <2>2. CASE getNextForTx(w)
    BY <1>1, <2>2 DEF getNextForTx, MayPrepare, Kept, Reason, NoneIdle, WaitInv
  <2>3. CASE refreshIdle(w)
    <3>1. DOMAIN idle' = DOMAIN idle /\ (NoneIdle => NoneIdle')
      BY <2>3, EmptyStays DEF refreshIdle, NoneIdle
    <3>2. UNCHANGED <<numOpened, createReqs>>
      BY <2>3 DEF refreshIdle
    <3> QED BY <1>1, <3>1, <3>2 DEF Kept, Reason, Full
  <2>4. CASE DropClosed(w) \/ Expire(w) \/ Lost(w)
    BY <1>2, <2>1, <2>4, RemoveKeeps DEF DropClosed, Expire, Lost, Dropped
  <2>5. CASE GiveBack(w, "back", "prepared") \/ GiveBack(w, "back2", "pinging")
    BY <1>1, <1>2, <2>5, PutBackKeeps, KeptUnchanged DEF GiveBack
  <2>6. CASE UNCHANGED <<idle, numOpened, createReqs>>
    BY <1>1, <2>6, KeptUnchanged
  <2> QED BY <1>3, <2>2, <2>3, <2>4, <2>5, <2>6 DEF Working, Exit, NoneForTx, prepareForWrite, Prepared,
          getNextForPing, NoneForPing, Keep, EndCheck, poolVars
<1>4. ASSUME NEW s \in Session, CloseDestroys(s) PROVE Kept
  BY <1>2, <1>4, RemoveKeeps DEF CloseDestroys
<1>5. CASE (\E s \in Session : Age(s)) \/ Close
  BY <1>1, <1>5, KeptUnchanged, KeptWaits DEF Age, Close, poolVars
<1> QED BY <1>3, <1>4, <1>5, KeptWaits DEF Closing

(* A holder that lets go of its session.                                   *)
LEMMA HolderKeeps ==
  ASSUME ControlOK, NEW c \in Client,
         Ask(c) \/ Recycle(c) \/ \E from \in ClientState, to \in ClientState \ {"wait"} : Destroy(c, from, to)
  PROVE  Kept
<1> USE DEF ControlOK
<1>1. ASSUME NEW to \in ClientState \ {"wait"}
      PROVE  Goto(c, to) \in [Client -> ClientState] /\ \A d \in Client : Goto(c, to)[d] = "wait" => pc[d] = "wait"
  BY DEF Goto
<1>2. CASE Ask(c)
  BY <1>2, KeptUnchanged DEF Ask, Goto, poolVars
<1>3. CASE Recycle(c)
  <2>1. {"done", "reject"} \subseteq ClientState \ {"wait"}
    BY DEF ClientState
  <2>2. CASE PutBack(handle[c], "read", Goto(c, "done"))
    BY <1>1, <2>1, <2>2, PutBackKeeps
  <2>3. CASE pc' = Goto(c, "reject") /\ UNCHANGED idle
    BY <1>1, <1>3, <2>1, <2>3, KeptUnchanged DEF Recycle
  <2> QED BY <1>3, <2>2, <2>3 DEF Recycle
<1>4. ASSUME NEW from \in ClientState, NEW to \in ClientState \ {"wait"}, Destroy(c, from, to)
      PROVE  Kept
  BY <1>1, <1>4, RemoveKeeps DEF Destroy
<1> QED BY <1>2, <1>3, <1>4

LEMMA WaitStep ==
  ASSUME ControlOK, CountInv, WaitInv, [Next]_vars
  PROVE  WaitInv'
<1>1. CASE PoolStep
  BY <1>1, TakingWaits, WorkingWaits DEF PoolStep
<1>2. CASE TransactionStep
  <2> USE Holders DEF ClientState
  <2>1. ASSUME NEW c \in Writer, Write(c) PROVE WaitInv'
    BY <2>1, HolderKeeps, KeptWaits DEF Write
  <2>2. ASSUME NEW r \in Reader, GivesBack(r) \/ Read(r) \/ Ask(r) PROVE WaitInv'
    BY <2>2, HolderKeeps, KeptWaits DEF GivesBack, Read
  <2>3. CASE CloseRecycles
    BY <2>3, HolderKeeps, KeptWaits DEF CloseRecycles
  <2>4. CASE UNCHANGED poolVars
    <3>1. \A c \in Client : pc'[c] = "wait" => pc[c] = "wait"
      BY <1>2, TransactionSteps DEF HolderMoves
    <3> QED BY <2>4, <3>1, KeptUnchanged, KeptWaits DEF poolVars
  <2> QED BY <1>2, <2>1, <2>2, <2>3, <2>4 DEF TransactionStep, ReaderStep, Acquire, TimeOutReader, TakeFails,
          BeginOk, BeginFails, CloseTransaction, allPoolVars
<1>3. CASE UNCHANGED vars
  BY <1>3, KeptUnchanged, KeptWaits DEF vars, allPoolVars, poolVars, clientVars
<1> QED BY <1>1, <1>2, <1>3 DEF Next, TransactionStep

(* Whoever waits for a session has a reason (session.go:676): no idle one, *)
(* and no budget for another.                                              *)
THEOREM WaitsAreJustified == Spec => []WaitsForReason
<1>1. Init => (ControlOK /\ CountInv) /\ WaitInv
  BY ControlInit, CountInit DEF Init, PoolInit, WaitInv, WaitsForReason
<1>2. ((ControlOK /\ CountInv) /\ WaitInv) /\ [Next]_vars => ((ControlOK /\ CountInv) /\ WaitInv)'
  BY ControlStep, CountStep, WaitStep
<1>3. WaitInv => WaitsForReason
  BY DEF WaitInv
<1> QED BY <1>1, <1>2, <1>3, PTL DEF Spec

-----------------------------------------------------------------------------
(* The lists of the pool: taking off the head or an element somewhere, and *)
(* putting one in front, of a list that holds nothing twice.               *)
Distinct(q) == \A i, j \in 1 .. Len(q) : q[i] = q[j] => i = j
Chain(q) == q \in Seq(Session) /\ Distinct(q)

LEMMA InChain ==
  ASSUME NEW q, Chain(q)
  PROVE  /\ ToSet(q) = {q[i] : i \in 1 .. Len(q)}
         /\ ToSet(q) \subseteq Session
         /\ q = <<>> <=> ToSet(q) = {}
<1>1. q \in Seq(Session) /\ DOMAIN q = 1 .. Len(q) /\ Len(q) \in Nat
  BY DEF Chain
<1>2. ToSet(q) = {q[i] : i \in 1 .. Len(q)}
  BY <1>1 DEF ToSet
<1>3. ToSet(q) \subseteq Session
  BY <1>1, <1>2
<1>4. q # <<>> => 1 \in 1 .. Len(q)
  BY <1>1
<1>5. q = <<>> => Len(q) = 0
  OBVIOUS
<1> QED BY <1>1, <1>2, <1>3, <1>4, <1>5

LEMMA HeadOff ==
  ASSUME NEW q, Chain(q), q # <<>>
  PROVE  /\ Chain(Tail(q)) /\ Head(q) \in ToSet(q)
         /\ ToSet(Tail(q)) = ToSet(q) \ {Head(q)}
<1>1. q \in Seq(Session) /\ Len(q) \in Nat \ {0} /\ Head(q) = q[1] /\ 1 \in 1 .. Len(q)
  BY EmptySeq DEF Chain
<1>2. /\ Tail(q) \in Seq(Session) /\ Len(Tail(q)) = Len(q) - 1
      /\ \A i \in 1 .. Len(q) - 1 : Tail(q)[i] = q[i + 1]
  BY <1>1
<1>3. Distinct(Tail(q))
  <2> SUFFICES ASSUME NEW i \in 1 .. Len(q) - 1, NEW j \in 1 .. Len(q) - 1, Tail(q)[i] = Tail(q)[j] PROVE i = j
    BY <1>2 DEF Distinct
  <2>1. i + 1 \in 1 .. Len(q) /\ j + 1 \in 1 .. Len(q) /\ q[i + 1] = q[j + 1]
    BY <1>1, <1>2
  <2>2. i + 1 = j + 1
    BY <2>1 DEF Chain, Distinct
  <2> QED BY <2>2
<1>4. Chain(Tail(q))
  BY <1>2, <1>3 DEF Chain
<1>5. ToSet(Tail(q)) = {Tail(q)[i] : i \in 1 .. Len(q) - 1}
  BY <1>2, <1>4, InChain
<1>6. ToSet(q) = {q[i] : i \in 1 .. Len(q)}
  BY InChain
<1>7. ASSUME NEW s \in ToSet(Tail(q)) PROVE s \in ToSet(q) \ {Head(q)}
  <2>1. PICK i \in 1 .. Len(q) - 1 : s = q[i + 1]
    BY <1>2, <1>5, <1>7
  <2>2. i + 1 \in 1 .. Len(q) /\ i + 1 # 1
    BY <1>1
  <2> QED BY <1>1, <1>6, <2>1, <2>2 DEF Chain, Distinct
<1>8. ASSUME NEW s \in ToSet(q) \ {Head(q)} PROVE s \in ToSet(Tail(q))
  <2>1. PICK i \in 1 .. Len(q) : s = q[i]
    BY <1>6, <1>8
  <2>2. i - 1 \in 1 .. Len(q) - 1 /\ (i - 1) + 1 = i
    BY <1>1, <1>8, <2>1
  <2> QED BY <1>2, <1>5, <2>1, <2>2
<1> QED BY <1>1, <1>4, <1>6, <1>7, <1>8

LEMMA InFront ==
  ASSUME NEW q, Chain(q), NEW s \in Session, s \notin ToSet(q)
  PROVE  /\ Chain(<<s>> \o q)
         /\ ToSet(<<s>> \o q) = ToSet(q) \cup {s}
<1>1. q \in Seq(Session) /\ Len(q) \in Nat /\ ToSet(q) = {q[i] : i \in 1 .. Len(q)}
  BY InChain DEF Chain
<1> DEFINE p == <<s>> \o q
<1>2. <<s>> \in Seq(Session) /\ Len(<<s>>) = 1 /\ <<s>>[1] = s
  OBVIOUS
<1>3. /\ p \in Seq(Session) /\ Len(p) = Len(q) + 1
      /\ \A i \in 1 .. Len(q) + 1 : p[i] = IF i <= 1 THEN <<s>>[i] ELSE q[i - 1]
  BY <1>1, <1>2, ConcatProperties
<1> HIDE DEF p
<1>4. p[1] = s /\ 1 \in 1 .. Len(p)
  BY <1>1, <1>2, <1>3
<1>5. \A i \in 1 .. Len(p) : i # 1 => i - 1 \in 1 .. Len(q) /\ p[i] = q[i - 1]
  BY <1>1, <1>3
<1>6. Distinct(p)
  <2> SUFFICES ASSUME NEW i \in 1 .. Len(p), NEW j \in 1 .. Len(p), p[i] = p[j] PROVE i = j
    BY DEF Distinct
  <2>1. CASE i = 1 \/ j = 1
    BY <1>1, <1>4, <1>5, <2>1
  <2>2. CASE i # 1 /\ j # 1
    <3>1. i - 1 = j - 1
      BY <1>5, <2>2 DEF Chain, Distinct
    <3> QED BY <3>1
  <2> QED BY <2>1, <2>2
<1>7. Chain(p) /\ ToSet(p) = {p[i] : i \in 1 .. Len(p)}
  BY <1>3, <1>6, InChain DEF Chain
<1>8. ASSUME NEW x \in ToSet(p) PROVE x \in ToSet(q) \cup {s}
  BY <1>1, <1>4, <1>5, <1>7
<1>9. ASSUME NEW x \in ToSet(q) PROVE x \in ToSet(p)
  <2>1. PICK i \in 1 .. Len(q) : x = q[i]
    BY <1>1
  <2>2. i + 1 \in 1 .. Len(p) /\ i + 1 # 1 /\ (i + 1) - 1 = i
    BY <1>1, <1>3
  <2> QED BY <1>5, <1>7, <2>1, <2>2
<1>10. s \in ToSet(p)
  BY <1>4, <1>7
<1> QED BY <1>7, <1>8, <1>9, <1>10 DEF p

LEMMA FirstOff ==
  ASSUME NEW q, Chain(q), NEW s
  PROVE  /\ Chain(RemoveFirst(q, s))
         /\ ToSet(RemoveFirst(q, s)) = ToSet(q) \ {s}
<1>1. q \in Seq(Session) /\ Len(q) \in Nat /\ ToSet(q) = {q[i] : i \in 1 .. Len(q)}
  BY InChain DEF Chain
<1>2. CASE \A i \in 1 .. Len(q) : q[i] # s
  BY <1>1, <1>2 DEF RemoveFirst
<1>3. ASSUME NEW k \in 1 .. Len(q), q[k] = s
      PROVE  /\ Chain(RemoveFirst(q, s))
             /\ ToSet(RemoveFirst(q, s)) = ToSet(q) \ {s}
  <2> DEFINE I == {i \in 1 .. Len(q) : q[i] = s}
             a == SubSeq(q, 1, k - 1)
             b == SubSeq(q, k + 1, Len(q))
             p == a \o b
  <2>1. I = {k} /\ k \in Nat
    BY <1>1, <1>3 DEF Chain, Distinct
  <2>2. Min(I) = k
    BY <2>1 DEF Min
  <2>3. RemoveFirst(q, s) = p
    BY <1>3, <2>1, <2>2 DEF RemoveFirst, RemoveAt, SelectInSeq
  <2>4. /\ a \in Seq(Session) /\ Len(a) = k - 1
        /\ \A i \in 1 .. k - 1 : a[i] = q[i]
    BY <1>1, <2>1, SubSeqProperties
  <2>5. /\ b \in Seq(Session) /\ Len(b) = Len(q) - k
        /\ \A i \in 1 .. Len(q) - k : b[i] = q[k + i]
    <3>1. k + 1 \in Int /\ Len(q) \in Int /\ \A i \in k + 1 .. Len(q) : q[i] \in Session
      BY <1>1, <2>1
    <3>2. /\ b \in Seq(Session) /\ Len(b) = IF k + 1 <= Len(q) THEN Len(q) - (k + 1) + 1 ELSE 0
          /\ \A i \in 1 .. Len(q) - (k + 1) + 1 : b[i] = q[(k + 1) + i - 1]
      BY <3>1, SubSeqProperties
    <3> QED BY <1>1, <2>1, <3>2
  <2> HIDE DEF a, b
  <2>6. /\ p \in Seq(Session) /\ Len(p) = Len(q) - 1
        /\ \A i \in 1 .. Len(q) - 1 : p[i] = IF i <= k - 1 THEN a[i] ELSE b[i - (k - 1)]
    <3>1. /\ p \in Seq(Session) /\ Len(p) = Len(a) + Len(b)
          /\ \A i \in 1 .. Len(a) + Len(b) : p[i] = IF i <= Len(a) THEN a[i] ELSE b[i - Len(a)]
      BY <2>4, <2>5, ConcatProperties
    <3>2. Len(a) + Len(b) = Len(q) - 1
      BY <1>1, <2>1, <2>4, <2>5
    <3> QED BY <2>4, <3>1, <3>2
  <2> HIDE DEF p
  <2>7. \A i \in 1 .. Len(q) - 1 : p[i] = IF i < k THEN q[i] ELSE q[i + 1]
    BY <1>1, <2>1, <2>4, <2>5, <2>6
  <2> DEFINE place(i) == IF i < k THEN i ELSE i + 1
  <2>8. \A i \in 1 .. Len(q) - 1 : place(i) \in 1 .. Len(q) /\ place(i) # k /\ p[i] = q[place(i)]
    BY <1>1, <2>1, <2>7
  <2>9. Distinct(p)
    <3> SUFFICES ASSUME NEW i \in 1 .. Len(q) - 1, NEW j \in 1 .. Len(q) - 1, p[i] = p[j] PROVE i = j
      BY <2>6 DEF Distinct
    <3>1. place(i) = place(j)
      BY <2>8 DEF Chain, Distinct
    <3> QED BY <1>1, <2>1, <3>1
  <2>10. Chain(p) /\ ToSet(p) = {p[i] : i \in 1 .. Len(q) - 1}
    BY <2>6, <2>9, InChain DEF Chain
  <2>11. ASSUME NEW x \in ToSet(p) PROVE x \in ToSet(q) \ {s}
    <3>1. PICK i \in 1 .. Len(q) - 1 : x = p[i]
      BY <2>10
    <3> QED BY <1>1, <1>3, <2>8, <3>1 DEF Chain, Distinct
  <2>12. ASSUME NEW x \in ToSet(q) \ {s} PROVE x \in ToSet(p)
    <3>1. PICK i \in 1 .. Len(q) : x = q[i]
      BY <1>1
    <3>2. i # k
      BY <1>3, <3>1
    <3>3. \E j \in 1 .. Len(q) - 1 : place(j) = i
      <4>1. CASE i < k
        BY <1>1, <2>1, <4>1
      <4>2. CASE i > k
        <5>1. i - 1 \in 1 .. Len(q) - 1 /\ place(i - 1) = i
          BY <1>1, <2>1, <4>2
        <5> QED BY <5>1
      <4> QED BY <2>1, <3>2, <4>1, <4>2
    <3> QED BY <2>8, <2>10, <3>1, <3>3
  <2> QED BY <2>3, <2>10, <2>11, <2>12
<1> QED BY <1>2, <1>3

-----------------------------------------------------------------------------
(* Where the sessions are.                                                 *)
ForRead == ToSet(idle["read"])
ForWrite == ToSet(idle["write"])

ListsInv ==
  /\ idle \in [{"read", "write"} -> Seq(Session)]
  /\ Distinct(idle["read"]) /\ Distinct(idle["write"])

(* What is listed is valid and in the list it belongs to.                  *)
PlacesInv ==
  /\ ForRead \cap ForWrite = {} /\ ForRead \cup ForWrite \subseteq linked
  /\ linked \subseteq open /\ open \subseteq Session
  /\ ForRead \cap tx = {} /\ ForWrite \subseteq tx

(* Who is at a label that works on a session has one, nobody else has, and *)
(* it is linked to no list.                                                *)
Carrying == {"check", "created", "prepare", "use", "reject"}
HandsInv ==
  /\ handle \in [Client -> Session \cup {None}] /\ mode \in [Client -> {"read", "write"}]
  /\ \A c \in Client : handle[c] \notin linked /\ (pc[c] \in Carrying <=> handle[c] # None)
  /\ \A c, d \in Client : handle[c] = handle[d] /\ handle[c] # None => c = d

(* A worker has marked what it works on, and nobody else works on it.      *)
Resting == {"loop", "ping", "exited"}
WorkersInv ==
  /\ ws \in [Worker -> Session \cup {None}]
  /\ checking = {ws[w] : w \in Worker} \ {None}
  /\ \A w \in Worker : ws[w] = None <=> at[w] \in Resting
  /\ \A v, w \in Worker : ws[v] = ws[w] /\ ws[v] # None => v = w

(* What it prepares it has taken out of the lists, its link to them left.  *)
PreparingInv ==
  \A w \in Worker : at[w] \in {"prepare", "back", "back2"} =>
    ws[w] \notin ForRead \cup ForWrite /\ \A c \in Client : handle[c] # ws[w]

ClosingInv ==
  /\ closer = "destroying" => ForRead \cup ForWrite \subseteq left
  /\ closer = "closed" => ForRead \cup ForWrite = {}

PlaceInv == ListsInv /\ PlacesInv /\ HandsInv /\ WorkersInv /\ PreparingInv /\ ClosingInv

LEMMA ListedAreSessions ==
  ASSUME ListsInv
  PROVE  /\ Chain(idle["read"]) /\ Chain(idle["write"])
         /\ ForRead \subseteq Session /\ ForWrite \subseteq Session
<1>1. Chain(idle["read"]) /\ Chain(idle["write"])
  BY DEF ListsInv, Chain
<1> QED BY <1>1, InChain DEF ForRead, ForWrite

(* How the lists change: not at all, by one session less, by one more.     *)
Off(s) == ListsInv' /\ ForRead' = ForRead \ {s} /\ ForWrite' = ForWrite \ {s}

LEMMA SameLists ==
  ASSUME UNCHANGED idle
  PROVE  (ListsInv => ListsInv') /\ ForRead' = ForRead /\ ForWrite' = ForWrite
BY DEF ListsInv, ForRead, ForWrite

LEMMA HeadTaken ==
  ASSUME ListsInv, ForRead \cap ForWrite = {}, NEW l \in {"read", "write"}, idle[l] # <<>>,
         idle' = [idle EXCEPT ![l] = Tail(@)]
  PROVE  Off(Head(idle[l])) /\ Head(idle[l]) \in ToSet(idle[l])
<1>1. Chain(idle["read"]) /\ Chain(idle["write"]) /\ Chain(idle[l])
  BY ListedAreSessions
<1>2. /\ Chain(Tail(idle[l])) /\ Head(idle[l]) \in ToSet(idle[l])
      /\ ToSet(Tail(idle[l])) = ToSet(idle[l]) \ {Head(idle[l])}
  BY <1>1, HeadOff
<1>3. /\ idle' \in [{"read", "write"} -> Seq(Session)]
      /\ idle'[l] = Tail(idle[l]) /\ \A k \in {"read", "write"} \ {l} : idle'[k] = idle[k]
  BY <1>2 DEF ListsInv, Chain
<1>4. ListsInv'
  BY <1>1, <1>2, <1>3 DEF ListsInv, Chain
<1>5. CASE l = "read"
  BY <1>2, <1>3, <1>4, <1>5 DEF Off, ForRead, ForWrite
<1>6. CASE l = "write"
  BY <1>2, <1>3, <1>4, <1>6 DEF Off, ForRead, ForWrite
<1> QED BY <1>5, <1>6

LEMMA FirstTaken ==
  ASSUME ListsInv, NEW s, ForRead \cap ForWrite = {}, NEW L \in SUBSET {"read", "write"},
         \A l \in {"read", "write"} \ L : s \notin ToSet(idle[l]),
         idle' = [l \in {"read", "write"} |-> IF l \in L THEN RemoveFirst(idle[l], s) ELSE idle[l]]
  PROVE  Off(s)
<1>1. ASSUME NEW l \in {"read", "write"}
      PROVE  Chain(idle'[l]) /\ ToSet(idle'[l]) = ToSet(idle[l]) \ {s}
  <2>1. Chain(idle[l])
    BY ListedAreSessions
  <2>2. CASE l \in L
    BY <2>1, <2>2, FirstOff
  <2>3. CASE l \notin L
    BY <2>1, <2>3
  <2> QED BY <2>2, <2>3
<1>2. ListsInv'
  BY <1>1 DEF ListsInv, Chain
<1> QED BY <1>1, <1>2 DEF Off, ForRead, ForWrite

LEMMA RemovedOff ==
  ASSUME ListsInv, PlacesInv, NEW s, NEW next, remove(s, next)
  PROVE  Off(s) /\ linked' = linked \ {s} /\ open' = open \ {s}
<1>1. CASE s \in linked
  <2>1. idle' = [l \in {"read", "write"} |-> IF l \in {"read", "write"} THEN RemoveFirst(idle[l], s) ELSE idle[l]]
    BY <1>1 DEF remove, ListsInv
  <2> QED BY <2>1, FirstTaken DEF PlacesInv, remove
<1>2. CASE s \notin linked
  <2>1. UNCHANGED idle /\ s \notin ForRead \cup ForWrite
    BY <1>2 DEF remove, PlacesInv
  <2>2. ListsInv' /\ ForRead' = ForRead /\ ForWrite' = ForWrite
    BY <2>1, SameLists
  <2> QED BY <2>1, <2>2 DEF Off, remove
<1> QED BY <1>1, <1>2

On(s, list) ==
  /\ ListsInv'
  /\ ForRead' = ForRead \cup (IF list = "read" THEN {s} ELSE {})
  /\ ForWrite' = ForWrite \cup (IF list = "write" THEN {s} ELSE {})

LEMMA PutOn ==
  ASSUME ListsInv, NEW s \in Session, s \notin ForRead \cup ForWrite, NEW list \in {"read", "write"}, NEW next,
         PutBack(s, list, next)
  PROVE  On(s, list) /\ linked' = linked \cup {s}
<1>1. Chain(idle["read"]) /\ Chain(idle["write"]) /\ Chain(idle[list]) /\ s \notin ToSet(idle[list])
  BY ListedAreSessions DEF ForRead, ForWrite
<1>2. Chain(<<s>> \o idle[list]) /\ ToSet(<<s>> \o idle[list]) = ToSet(idle[list]) \cup {s}
  BY <1>1, InFront
<1>3. /\ idle' \in [{"read", "write"} -> Seq(Session)]
      /\ idle'[list] = <<s>> \o idle[list] /\ \A k \in {"read", "write"} \ {list} : idle'[k] = idle[k]
  BY <1>2 DEF ListsInv, Chain, PutBack
<1>4. ListsInv'
  BY <1>1, <1>2, <1>3 DEF ListsInv, Chain
<1>5. CASE list = "read"
  BY <1>2, <1>3, <1>4, <1>5 DEF On, ForRead, ForWrite, PutBack
<1>6. CASE list = "write"
  BY <1>2, <1>3, <1>4, <1>6 DEF On, ForRead, ForWrite, PutBack
<1> QED BY <1>5, <1>6

-----------------------------------------------------------------------------
(* The steps of the goroutines.                                            *)
OnlyCarries(c) == \A d \in Client \ {c} : pc'[d] \in Carrying <=> pc[d] \in Carrying
NoneCarries == \A d \in Client : pc'[d] \in Carrying <=> pc[d] \in Carrying

(* Which sessions are somewhere, and that they stay so.                    *)
AtPreparing == {"prepare", "back", "back2"}
Present(s) ==
  \/ \E c \in Client : handle[c] = s
  \/ \E w \in Worker : ws[w] = s /\ at[w] \in AtPreparing
  \/ s \in ForRead \cup ForWrite
Keeps(lost) == \A s \in (open \cap open') \ lost : Present(s) => Present(s)'

LEMMA StepsCarry ==
  ASSUME NEW c, NEW from, NEW to, Steps(c, from, to)
  PROVE  OnlyCarries(c) /\ pc'[c] \in to
BY DEF Steps, OnlyCarries, Carrying

(* One of them has another session, or none.                               *)
LEMMA HandsChanged ==
  ASSUME HandsInv, NEW c \in Client, NEW s \in Session \cup {None},
         handle' = [handle EXCEPT ![c] = s], mode' = mode, OnlyCarries(c), pc'[c] \in Carrying <=> s # None,
         s # None => \A d \in Client : handle[d] # s,
         s \notin linked', \A d \in Client \ {c} : handle[d] \notin linked'
  PROVE  HandsInv'
<1>1. /\ handle' \in [Client -> Session \cup {None}] /\ handle'[c] = s
      /\ \A d \in Client \ {c} : handle'[d] = handle[d]
  BY DEF HandsInv
<1>2. ASSUME NEW d \in Client PROVE handle'[d] \notin linked' /\ (pc'[d] \in Carrying <=> handle'[d] # None)
  BY <1>1 DEF HandsInv, OnlyCarries
<1>3. ASSUME NEW d \in Client, NEW e \in Client, handle'[d] = handle'[e], handle'[d] # None PROVE d = e
  BY <1>1, <1>3 DEF HandsInv
<1> QED BY <1>1, <1>2, <1>3 DEF HandsInv

(* One that moves no session.                                              *)
LEMMA QuietPlaces ==
  ASSUME PlaceInv, UNCHANGED <<idle, open, linked, tx, checking, mode, handle, workerVars, closeVars>>, NoneCarries
  PROVE  PlaceInv' /\ Keeps({})
<1>1. ListsInv' /\ ForRead' = ForRead /\ ForWrite' = ForWrite
  BY SameLists DEF PlaceInv
<1>2. PlacesInv' /\ ClosingInv'
  BY <1>1 DEF PlaceInv, PlacesInv, ClosingInv, closeVars
<1>3. HandsInv'
  BY DEF PlaceInv, HandsInv, NoneCarries
<1>4. WorkersInv' /\ PreparingInv'
  BY <1>1 DEF PlaceInv, WorkersInv, PreparingInv, workerVars
<1>5. Keeps({})
  BY <1>1 DEF Keeps, Present, workerVars
<1> QED BY <1>5, <1>1, <1>2, <1>3, <1>4 DEF PlaceInv

(* One that lets go of its session.                                        *)
LEMMA LetGoPlaces ==
  ASSUME PlaceInv, NEW c \in Client, handle' = [handle EXCEPT ![c] = None],
         UNCHANGED <<idle, open, linked, tx, checking, mode, workerVars, closeVars>>, OnlyCarries(c), pc'[c] \notin Carrying
  PROVE  PlaceInv' /\ Keeps({handle[c]})
<1>1. ListsInv' /\ ForRead' = ForRead /\ ForWrite' = ForWrite
  BY SameLists DEF PlaceInv
<1>2. PlacesInv' /\ ClosingInv'
  BY <1>1 DEF PlaceInv, PlacesInv, ClosingInv, closeVars
<1>3. HandsInv'
  BY PoolAssumption DEF PlaceInv, PlacesInv, HandsInv, OnlyCarries
<1>4. WorkersInv'
  BY DEF PlaceInv, WorkersInv, workerVars
<1>5. PreparingInv'
  BY <1>1 DEF PlaceInv, HandsInv, WorkersInv, PreparingInv, Resting, workerVars
<1>6. Keeps({handle[c]})
  BY <1>1 DEF Keeps, Present, PlaceInv, HandsInv, workerVars
<1> QED BY <1>6, <1>1, <1>2, <1>3, <1>4, <1>5 DEF PlaceInv

(* A session is removed, by whoever has come to it.                        *)
LEMMA RemovedPlaces ==
  ASSUME PlaceInv, NEW s, Off(s), linked' = linked \ {s}, open' = open \ {s}, tx' = tx
  PROVE  ListsInv' /\ PlacesInv'
BY DEF PlaceInv, Off, PlacesInv

LEMMA DestroyPlaces ==
  ASSUME PlaceInv, NEW c \in Client, NEW from, NEW to \in ClientState \ Carrying, Destroy(c, from, to),
         OnlyCarries(c), pc'[c] \notin Carrying
  PROVE  PlaceInv' /\ Keeps({})
<1>1. Off(handle[c]) /\ linked' = linked \ {handle[c]} /\ open' = open \ {handle[c]}
  BY RemovedOff DEF PlaceInv, Destroy
<1>2. ListsInv' /\ PlacesInv'
  BY <1>1, RemovedPlaces DEF Destroy
<1>3. HandsInv'
  BY <1>1, PoolAssumption DEF PlaceInv, PlacesInv, HandsInv, Destroy, OnlyCarries
<1>4. WorkersInv'
  BY DEF PlaceInv, WorkersInv, workerVars, Destroy
<1>5. PreparingInv'
  BY <1>1 DEF PlaceInv, HandsInv, WorkersInv, PreparingInv, Resting, workerVars, Destroy, Off
<1>6. ClosingInv'
  BY <1>1 DEF PlaceInv, ClosingInv, closeVars, Destroy, Off
<1>7. Keeps({})
  BY <1>1 DEF Destroy, Keeps, Present, PlaceInv, HandsInv, workerVars, Off
<1> QED BY <1>7, <1>2, <1>3, <1>4, <1>5, <1>6 DEF PlaceInv

LEMMA TakeIdlePlaces ==
  ASSUME PlaceInv, ControlOK, NEW c \in Client, TakeIdle(c)
  PROVE  PlaceInv' /\ Keeps({})
<1> DEFINE l == IF idle[mode[c]] # <<>> THEN mode[c] ELSE CHOOSE k \in DOMAIN idle : k # mode[c]
           s == Head(idle[l])
<1>1. l \in {"read", "write"} /\ idle[l] # <<>>
  <2>1. DOMAIN idle = {"read", "write"}
    BY DEF PlaceInv, ListsInv
  <2>2. PICK k \in {"read", "write"} : idle[k] # <<>>
    BY <2>1 DEF TakeIdle, NoneIdle
  <2>3. mode[c] \in {"read", "write"}
    BY DEF PlaceInv, HandsInv
  <2> QED BY <2>1, <2>2, <2>3
<1>2. idle' = [idle EXCEPT ![l] = Tail(@)] /\ linked' = linked \ {s} /\ handle' = [handle EXCEPT ![c] = s]
  BY DEF TakeIdle
<1> HIDE DEF l, s
<1>3. Off(s) /\ s \in ForRead \cup ForWrite /\ s \in linked
  <2>1. Off(s) /\ s \in ToSet(idle[l])
    BY <1>1, <1>2, HeadTaken DEF PlaceInv, PlacesInv, s
  <2>2. ToSet(idle[l]) \subseteq ForRead \cup ForWrite
    BY <1>1 DEF ForRead, ForWrite
  <2> QED BY <2>1, <2>2 DEF PlaceInv, PlacesInv
<1>4. s \in Session /\ \A d \in Client : handle[d] # s
  BY <1>3 DEF PlaceInv, PlacesInv, HandsInv
<1>5. OnlyCarries(c) /\ pc'[c] = "check"
  BY DEF TakeIdle, Goto, OnlyCarries, ControlOK
<1>6. ListsInv' /\ PlacesInv'
  BY <1>2, <1>3 DEF TakeIdle, PlaceInv, PlacesInv, Off
<1>7. HandsInv'
  BY <1>2, <1>4, <1>5, HandsChanged, PoolAssumption DEF TakeIdle, PlaceInv, HandsInv, Carrying
<1>8. WorkersInv'
  BY DEF TakeIdle, PlaceInv, WorkersInv, workerVars
<1>9. PreparingInv' /\ ClosingInv'
  BY <1>2, <1>3 DEF TakeIdle, PlaceInv, PreparingInv, ClosingInv, Off, workerVars, closeVars
<1>10. Keeps({})
  <2>1. handle[c] = None /\ handle'[c] = s /\ (\A d \in Client \ {c} : handle'[d] = handle[d]) /\ UNCHANGED <<at, ws>>
    BY <1>2 DEF TakeIdle, PlaceInv, HandsInv, Carrying, workerVars
  <2>2. None \notin open
    BY PoolAssumption DEF PlaceInv, PlacesInv
  <2> QED BY <1>3, <2>1, <2>2 DEF Keeps, Present, Off
<1> QED BY <1>10, <1>6, <1>7, <1>8, <1>9 DEF PlaceInv

(* A new session is nobody's.                                              *)
LEMMA CreatePlaces ==
  ASSUME PlaceInv, ControlOK, NEW c \in Client, Create(c)
  PROVE  PlaceInv' /\ Keeps({})
<1>1. PICK s \in Unused : open' = open \cup {s} /\ tx' = tx \ {s} /\ handle' = [handle EXCEPT ![c] = s]
  BY DEF Create
<1>2. s \in Session /\ s \notin open /\ (\A d \in Client : handle[d] # s) /\ \A w \in Worker : ws[w] # s
  BY DEF Unused
<1>3. ListsInv' /\ ForRead' = ForRead /\ ForWrite' = ForWrite
  BY SameLists DEF PlaceInv, Create, poolVars
<1>4. OnlyCarries(c)
  BY DEF Create, Goto, OnlyCarries, ControlOK
<1>5. PlacesInv'
  BY <1>1, <1>2, <1>3 DEF Create, PlaceInv, PlacesInv
<1>6. HandsInv'
  <2>1. pc'[c] \in Carrying /\ UNCHANGED <<linked, mode>>
    BY DEF Create, Goto, Carrying, ControlOK
  <2> QED BY <1>1, <1>2, <1>4, <2>1, HandsChanged, PoolAssumption DEF PlaceInv, PlacesInv, HandsInv
<1>7. WorkersInv'
  BY DEF Create, PlaceInv, WorkersInv, workerVars
<1>8. PreparingInv' /\ ClosingInv'
  BY <1>1, <1>2, <1>3 DEF Create, PlaceInv, PreparingInv, ClosingInv, workerVars, closeVars
<1>9. Keeps({})
  <2>1. handle[c] = None /\ (\A d \in Client \ {c} : handle'[d] = handle[d]) /\ UNCHANGED <<at, ws>>
    BY <1>1 DEF Create, PlaceInv, HandsInv, Carrying, workerVars
  <2>2. None \notin open
    BY PoolAssumption DEF PlaceInv, PlacesInv
  <2> QED BY <1>3, <2>1, <2>2 DEF Keeps, Present
<1> QED BY <1>9, <1>3, <1>5, <1>6, <1>7, <1>8 DEF PlaceInv

LEMMA PreparePlaces ==
  ASSUME PlaceInv, ControlOK, NEW c \in Client, Prepare(c)
  PROVE  PlaceInv' /\ Keeps({})
<1>1. handle[c] \notin linked
  BY DEF PlaceInv, HandsInv
<1>2. ListsInv' /\ ForRead' = ForRead /\ ForWrite' = ForWrite
  BY SameLists DEF PlaceInv, Prepare, poolVars
<1>3. PlacesInv' /\ ClosingInv'
  BY <1>1, <1>2 DEF Prepare, PlaceInv, PlacesInv, ClosingInv, closeVars
<1>4. HandsInv'
  BY DEF Prepare, Goto, PlaceInv, HandsInv, Carrying, ControlOK
<1>5. WorkersInv' /\ PreparingInv'
  BY <1>2 DEF Prepare, PlaceInv, WorkersInv, PreparingInv, workerVars
<1>6. Keeps({})
  BY <1>2 DEF Prepare, Keeps, Present, workerVars
<1> QED BY <1>6, <1>2, <1>3, <1>4, <1>5 DEF PlaceInv

LEMMA RecyclePlaces ==
  ASSUME PlaceInv, ControlOK, NEW c \in Client, Recycle(c)
  PROVE  PlaceInv' /\ Keeps({})
<1> DEFINE s == handle[c]
<1>1. /\ s \in Session /\ s \notin linked /\ tx' = tx \ {s}
      /\ UNCHANGED <<open, checking, mode, workerVars, closeVars>>
  BY DEF Recycle, PlaceInv, HandsInv, Carrying
<1>2. OnlyCarries(c) /\ pc'[c] \in {"done", "reject"}
  BY RecycleSteps, StepsCarry
<1>3. s \notin ForRead \cup ForWrite
  BY <1>1 DEF PlaceInv, PlacesInv
<1>4. CASE Accepts(s)
  <2>1. On(s, "read") /\ linked' = linked \cup {s}
    <3>1. PutBack(s, "read", Goto(c, "done"))
      BY <1>4 DEF Recycle
    <3> QED BY <1>1, <1>3, <3>1, PutOn DEF PlaceInv
  <2>2. handle' = [handle EXCEPT ![c] = None] /\ pc'[c] # "reject" /\ s \in open /\ closer = "open"
    <3>1. "done" # "wait"
      OBVIOUS
    <3> QED BY <1>4 DEF Recycle, PutBack, Broadcast, Goto, Accepts, valid, ControlOK
  <2>3. ListsInv' /\ PlacesInv'
    BY <1>1, <1>3, <2>1, <2>2 DEF On, PlaceInv, PlacesInv
  <2>4. HandsInv'
    <3>1. pc'[c] \notin Carrying /\ None \notin linked'
      BY <1>1, <1>2, <2>1, <2>2, PoolAssumption DEF PlaceInv, PlacesInv, Carrying
    <3>2. \A d \in Client \ {c} : handle[d] \notin linked'
      BY <1>1, <2>1, PoolAssumption DEF PlaceInv, HandsInv
    <3> QED BY <1>1, <1>2, <2>2, <3>1, <3>2, HandsChanged DEF PlaceInv
  <2>5. WorkersInv'
    BY <1>1 DEF PlaceInv, WorkersInv, workerVars
  <2>6. PreparingInv'
    <3> SUFFICES ASSUME NEW w \in Worker, at'[w] \in {"prepare", "back", "back2"}
                 PROVE  ws'[w] \notin ForRead' \cup ForWrite' /\ \A d \in Client : handle'[d] # ws'[w]
      BY DEF PreparingInv
    <3>1. at[w] \in {"prepare", "back", "back2"} /\ ws'[w] = ws[w]
      BY <1>1 DEF workerVars
    <3>2. ws[w] \notin ForRead \cup ForWrite /\ ws[w] # None /\ \A d \in Client : handle[d] # ws[w]
      BY <3>1 DEF PlaceInv, PreparingInv, WorkersInv, Resting
    <3>3. ws[w] \notin ForRead' \cup ForWrite'
      BY <2>1, <3>2 DEF On
    <3>4. \A d \in Client : handle'[d] \in {handle[d], None}
      BY <2>2 DEF PlaceInv, HandsInv
    <3> QED BY <3>1, <3>2, <3>3, <3>4
  <2>7. ClosingInv'
    BY <1>1, <2>2 DEF ClosingInv, closeVars
  <2>8. Keeps({})
    BY <1>1, <2>1, <2>2 DEF Keeps, Present, PlaceInv, HandsInv, workerVars, On
  <2> QED BY <2>3, <2>4, <2>5, <2>6, <2>7, <2>8 DEF PlaceInv
<1>5. CASE ~Accepts(s)
  <2>1. UNCHANGED <<idle, linked, handle>> /\ pc[c] = "use" /\ pc'[c] = "reject"
    BY <1>5 DEF Recycle, Goto, ControlOK
  <2>2. ListsInv' /\ ForRead' = ForRead /\ ForWrite' = ForWrite
    BY <2>1, SameLists DEF PlaceInv
  <2>3. PlacesInv' /\ ClosingInv'
    BY <1>1, <1>3, <2>1, <2>2 DEF PlaceInv, PlacesInv, ClosingInv, closeVars
  <2>4. HandsInv'
    BY <1>1, <1>2, <2>1 DEF PlaceInv, HandsInv, OnlyCarries, Carrying
  <2>5. WorkersInv' /\ PreparingInv'
    BY <1>1, <2>1, <2>2 DEF PlaceInv, WorkersInv, PreparingInv, workerVars
  <2>6. Keeps({})
    BY <1>1, <2>1, <2>2 DEF Keeps, Present, workerVars
  <2> QED BY <2>2, <2>3, <2>4, <2>5, <2>6 DEF PlaceInv
<1> QED BY <1>4, <1>5

(* One reader at a time begins the transaction, which has no session of    *)
(* its own until then.                                                     *)
OneBegins ==
  /\ \A q, r \in Reader : do[q] = "begin" /\ do[r] = "begin" => q = r
  /\ \A r \in Reader : do[r] = "begin" => state \in {"init", "closed"} /\ (state = "init" => id = "pending")
  /\ state \in {"new", "init"} => pc[T] = "idle"

LEMMA OneBeginsStep ==
  ASSUME ControlOK, OneBegins, [Next]_vars
  PROVE  OneBegins'
<1>1. CASE UNCHANGED txVars /\ (state \in {"new", "init"} => pc'[T] = pc[T])
  BY <1>1 DEF OneBegins, txVars
<1>2. CASE PoolStep
  BY <1>1, <1>2, PoolSteps
<1>3. ASSUME NEW c \in Writer, Write(c) PROVE OneBegins'
  BY <1>1, <1>3, WriterSteps DEF Write
<1>4. ASSUME NEW r \in Reader, ReaderStep(r) PROVE OneBegins'
  <2>0. r \in Client /\ r # T /\ T \in Client
    BY Holders
  <2>1. CASE Acquire(r)
    <3>1. pc'[T] = pc[T]
      BY <2>0, <2>1 DEF Acquire, Ask, Goto, ControlOK, allPoolVars, clientVars
    <3> QED BY <2>1, <3>1 DEF Acquire, Turn, OneBegins, ControlOK
  <2>2. CASE TimeOutReader(r) \/ TakeFails(r)
    BY <2>2 DEF TimeOutReader, TakeFails, Turn, Signal, OneBegins, ControlOK, allPoolVars, clientVars
  <2>3. CASE BeginOk(r)
    BY <2>0, <2>3 DEF BeginOk, Goto, Turn, Signal, OneBegins, ControlOK
  <2>4. CASE BeginFails(r)
    BY <2>4 DEF BeginFails, Turn, Signal, OneBegins, ControlOK, allPoolVars, clientVars
  <2>5. CASE GivesBack(r)
    <3>1. Steps(r, {"use"}, {"done", "reject"}) \/ Steps(r, {"reject"}, {"done"}) \/ Steps(r, {"use"}, {"done"})
      BY <2>0, <2>5, RecycleSteps, DestroySteps DEF GivesBack, ClientState
    <3>2. pc'[T] = pc[T]
      BY <2>0, <3>1 DEF Steps, ControlOK
    <3> QED BY <1>1, <2>5, <3>2 DEF GivesBack
  <2>6. CASE Read(r)
    BY <1>1, <2>6 DEF Read, Destroy, OneBegins
  <2> QED BY <1>4, <2>1, <2>2, <2>3, <2>4, <2>5, <2>6 DEF ReaderStep
<1>5. CASE CloseTransaction
  BY <1>5 DEF CloseTransaction, Signal, OneBegins, ControlOK
<1>6. CASE CloseRecycles
  BY <1>1, <1>6 DEF CloseRecycles, Recycle, Destroy, OneBegins
<1>7. CASE UNCHANGED vars
  BY <1>1, <1>7 DEF vars, allPoolVars, clientVars
<1> QED BY <1>2, <1>3, <1>4, <1>5, <1>6, <1>7 DEF Next

(* The first reader's session becomes that of the transaction.             *)
LEMMA BeginOkPlaces ==
  ASSUME PlaceInv, ControlOK, OneBegins, NEW r \in Reader, BeginOk(r)
  PROVE  PlaceInv' /\ Keeps(IF state = "closed" THEN {handle[r]} ELSE {})
<1>1. r \in Client /\ T \in Client /\ r # T
  BY Holders
<1>2. CASE state = "closed"
  <2>1. OnlyCarries(r) /\ pc'[r] = "done"
    BY <1>1, <1>2 DEF BeginOk, Goto, OnlyCarries, ControlOK
  <2>2. PlaceInv' /\ Keeps({handle[r]})
    BY <1>1, <1>2, <2>1, LetGoPlaces DEF BeginOk, poolVars, sessVars, Carrying
  <2> QED BY <1>2, <2>2
<1>3. CASE state # "closed"
  <2>1. /\ handle' = [handle EXCEPT ![T] = handle[r], ![r] = None]
        /\ pc' = [pc EXCEPT ![T] = "use", ![r] = "done"] /\ pc[r] = "use"
        /\ UNCHANGED <<idle, open, linked, tx, checking, mode, workerVars, closeVars>>
    BY <1>3 DEF BeginOk, poolVars, sessVars
  <2>2. ListsInv' /\ ForRead' = ForRead /\ ForWrite' = ForWrite
    BY <2>1, SameLists DEF PlaceInv
  <2>3. PlacesInv' /\ ClosingInv'
    BY <2>1, <2>2 DEF PlaceInv, PlacesInv, ClosingInv, closeVars
  <2>4. /\ handle' \in [Client -> Session \cup {None}]
        /\ handle'[T] = handle[r] /\ handle'[r] = None /\ handle[r] # None
        /\ \A d \in Client \ {r, T} : handle'[d] = handle[d]
        /\ \A d \in Client : pc'[d] \in Carrying <=> d # r /\ (d = T \/ pc[d] \in Carrying)
    BY <1>1, <2>1 DEF PlaceInv, HandsInv, Carrying, ControlOK
  <2>5. HandsInv'
    <3>1. \A d \in Client : handle'[d] \notin linked /\ (pc'[d] \in Carrying <=> handle'[d] # None)
      BY <1>1, <2>4, PoolAssumption DEF PlaceInv, PlacesInv, HandsInv
    <3>2. ASSUME NEW d \in Client, NEW e \in Client, handle'[d] = handle'[e], handle'[d] # None PROVE d = e
      BY <1>1, <2>4, <3>2 DEF PlaceInv, HandsInv
    <3> QED BY <2>1, <2>4, <3>1, <3>2 DEF PlaceInv, HandsInv
  <2>6. WorkersInv'
    BY <2>1 DEF PlaceInv, WorkersInv, workerVars
  <2>7. PreparingInv'
    <3> SUFFICES ASSUME NEW w \in Worker, at'[w] \in {"prepare", "back", "back2"}
                 PROVE  ws'[w] \notin ForRead' \cup ForWrite' /\ \A d \in Client : handle'[d] # ws'[w]
      BY DEF PreparingInv
    <3>1. at[w] \in {"prepare", "back", "back2"} /\ ws'[w] = ws[w]
      BY <2>1 DEF workerVars
    <3>2. ws[w] \notin ForRead \cup ForWrite /\ ws[w] # None /\ \A d \in Client : handle[d] # ws[w]
      BY <3>1 DEF PlaceInv, PreparingInv, WorkersInv, Resting
    <3> QED BY <1>1, <2>2, <2>4, <3>1, <3>2
  <2>8. Keeps({})
    <3>1. handle[T] = None
      BY <1>1, <1>3 DEF BeginOk, OneBegins, PlaceInv, HandsInv, Carrying
    <3>2. \A s : Present(s) /\ s # None => Present(s)'
      BY <1>1, <2>1, <2>2, <2>4, <3>1 DEF Present, workerVars
    <3> QED BY <3>2, PoolAssumption DEF Keeps, PlaceInv, PlacesInv
  <2> QED BY <1>3, <2>2, <2>3, <2>5, <2>6, <2>7, <2>8 DEF PlaceInv
<1> QED BY <1>2, <1>3

-----------------------------------------------------------------------------
(* The steps of the workers.                                               *)
LEMMA HandsStay ==
  ASSUME HandsInv, UNCHANGED <<mode, handle>>, NoneCarries, \A c \in Client : handle[c] \notin linked'
  PROVE  HandsInv'
BY DEF HandsInv, NoneCarries

(* One takes up a session that is not marked, another is done with its own.*)
LEMMA TakesUp ==
  ASSUME WorkersInv, NEW w \in Worker, NEW s \in Session \ checking, NEW to \in WorkerState \ Resting,
         at \in [Worker -> WorkerState], at[w] \in Resting, at' = [at EXCEPT ![w] = to],
         ws' = [ws EXCEPT ![w] = s], checking' = checking \cup {s}
  PROVE  WorkersInv'
<1>1. /\ at'[w] = to /\ ws'[w] = s /\ ws[w] = None /\ s # None
      /\ \A v \in Worker \ {w} : at'[v] = at[v] /\ ws'[v] = ws[v]
      /\ ws' \in [Worker -> Session \cup {None}]
  BY PoolAssumption DEF WorkersInv
<1>2. \A v \in Worker : ws[v] # s
  BY <1>1 DEF WorkersInv
<1>3. checking' = {ws'[v] : v \in Worker} \ {None}
  BY <1>1 DEF WorkersInv
<1>4. \A v \in Worker : ws'[v] = None <=> at'[v] \in Resting
  BY <1>1 DEF WorkersInv
<1>5. \A v, u \in Worker : ws'[v] = ws'[u] /\ ws'[v] # None => v = u
  BY <1>1, <1>2 DEF WorkersInv
<1> QED BY <1>1, <1>3, <1>4, <1>5 DEF WorkersInv

LEMMA IsDone ==
  ASSUME WorkersInv, NEW w \in Worker, NEW to \in Resting,
         at \in [Worker -> WorkerState], at' = [at EXCEPT ![w] = to], markDone(w)
  PROVE  WorkersInv'
<1>1. /\ at'[w] = to /\ ws'[w] = None
      /\ \A v \in Worker \ {w} : at'[v] = at[v] /\ ws'[v] = ws[v]
      /\ ws' \in [Worker -> Session \cup {None}]
  BY DEF WorkersInv, markDone
<1>2. \A v \in Worker \ {w} : ws[v] = ws[w] => ws[v] = None
  BY DEF WorkersInv
<1>3. checking' = {ws'[v] : v \in Worker} \ {None}
  BY <1>1, <1>2 DEF WorkersInv, markDone
<1>4. \A v \in Worker : ws'[v] = None <=> at'[v] \in Resting
  BY <1>1 DEF WorkersInv
<1>5. \A v, u \in Worker : ws'[v] = ws'[u] /\ ws'[v] # None => v = u
  BY <1>1 DEF WorkersInv
<1> QED BY <1>1, <1>3, <1>4, <1>5 DEF WorkersInv

(* One goes on with its session.                                           *)
LEMMA GoesOn ==
  ASSUME WorkersInv, NEW w \in Worker, NEW to, at \in [Worker -> WorkerState], at' = [at EXCEPT ![w] = to],
         UNCHANGED <<ws, checking>>, at[w] \in Resting <=> to \in Resting
  PROVE  WorkersInv'
BY DEF WorkersInv

(* The others prepare what they prepared.                                  *)
LEMMA PreparingStays ==
  ASSUME PreparingInv, NEW w \in Worker, UNCHANGED handle,
         \A v \in Worker \ {w} : at'[v] = at[v] /\ ws'[v] = ws[v],
         \A v \in Worker \ {w} : at[v] \in AtPreparing /\ ws[v] \notin ForRead \cup ForWrite => ws[v] \notin ForRead' \cup ForWrite',
         at'[w] \in AtPreparing => ws'[w] \notin ForRead' \cup ForWrite' /\ \A c \in Client : handle[c] # ws'[w]
  PROVE  PreparingInv'
BY DEF PreparingInv, AtPreparing

LEMMA RestPlaces ==
  ASSUME PlaceInv, ControlOK, NoneCarries, NEW w \in Worker, NEW to,
         UNCHANGED <<idle, open, linked, tx, checking, mode, handle, ws, closeVars>>,
         at' = [at EXCEPT ![w] = to],
         at[w] \in Resting <=> to \in Resting, to \in AtPreparing => at[w] \in AtPreparing
  PROVE  PlaceInv' /\ Keeps(IF at[w] \in AtPreparing /\ to \notin AtPreparing THEN {ws[w]} ELSE {})
<1>1. ListsInv' /\ ForRead' = ForRead /\ ForWrite' = ForWrite
  BY SameLists DEF PlaceInv
<1>2. PlacesInv' /\ ClosingInv'
  BY <1>1 DEF PlaceInv, PlacesInv, ClosingInv, closeVars
<1>3. HandsInv'
  BY HandsStay DEF PlaceInv, HandsInv
<1>4. WorkersInv'
  BY GoesOn DEF PlaceInv, ControlOK
<1>5. PreparingInv'
  BY <1>1 DEF PlaceInv, PreparingInv, AtPreparing, ControlOK
<1>6. Keeps(IF at[w] \in AtPreparing /\ to \notin AtPreparing THEN {ws[w]} ELSE {})
  BY <1>1 DEF Keeps, Present, ControlOK
<1> QED BY <1>6, <1>1, <1>2, <1>3, <1>4, <1>5 DEF PlaceInv

LEMMA NextForTxPlaces ==
  ASSUME PlaceInv, ControlOK, NoneCarries, NEW w \in Worker, getNextForTx(w)
  PROVE  PlaceInv' /\ Keeps({})
<1> DEFINE s == Head(idle["read"])
<1>1. /\ idle["read"] # <<>> /\ idle' = [idle EXCEPT !["read"] = Tail(@)] /\ s \notin checking
      /\ ws' = [ws EXCEPT ![w] = s] /\ checking' = checking \cup {s}
      /\ at[w] = "loop" /\ at' = [at EXCEPT ![w] = "prepare"]
      /\ UNCHANGED <<open, linked, tx, mode, handle, closeVars>>
  BY DEF getNextForTx, MayPrepare, Move, clientVars
<1>2. Off(s) /\ s \in ForRead
  BY <1>1, HeadTaken DEF PlaceInv, PlacesInv, ForRead
<1> HIDE DEF s
<1>3. s \in Session /\ s \in linked /\ \A c \in Client : handle[c] # s
  BY <1>2 DEF PlaceInv, PlacesInv, HandsInv
<1>4. ListsInv' /\ PlacesInv'
  BY <1>1, <1>2 DEF PlaceInv, PlacesInv, Off
<1>5. HandsInv'
  BY <1>1, HandsStay DEF PlaceInv, HandsInv
<1>6. WorkersInv'
  BY <1>1, <1>3, TakesUp DEF PlaceInv, ControlOK, Resting, WorkerState
<1>7. PreparingInv'
  <2>1. /\ ws'[w] = s /\ \A v \in Worker \ {w} : at'[v] = at[v] /\ ws'[v] = ws[v]
    BY <1>1 DEF PlaceInv, WorkersInv, ControlOK
  <2>2. s \notin ForRead' \cup ForWrite' /\ ForRead' \cup ForWrite' \subseteq ForRead \cup ForWrite
    BY <1>2 DEF PlaceInv, PlacesInv, Off
  <2> QED BY <1>1, <1>3, <2>1, <2>2, PreparingStays DEF PlaceInv
<1>8. ClosingInv'
  BY <1>1, <1>2 DEF PlaceInv, ClosingInv, Off, closeVars
<1>9. Keeps({})
  <2>1. ws'[w] = s /\ at'[w] = "prepare" /\ at[w] \notin AtPreparing /\ \A v \in Worker \ {w} : at'[v] = at[v] /\ ws'[v] = ws[v]
    BY <1>1 DEF PlaceInv, WorkersInv, ControlOK, AtPreparing
  <2> QED BY <1>1, <1>2, <2>1 DEF Keeps, Present, AtPreparing, Off
<1> QED BY <1>9, <1>4, <1>5, <1>6, <1>7, <1>8 DEF PlaceInv

LEMMA PrepareForWritePlaces ==
  ASSUME PlaceInv, ControlOK, NoneCarries, NEW w \in Worker, prepareForWrite(w)
  PROVE  PlaceInv' /\ Keeps({})
<1>1. /\ at[w] = "prepare" /\ at' = [at EXCEPT ![w] = "back"]
      /\ UNCHANGED <<idle, open, linked, checking, mode, handle, ws, closeVars>>
  BY DEF prepareForWrite, Move, poolVars, clientVars
<1>2. CASE UNCHANGED tx
  BY <1>1, <1>2, RestPlaces DEF Resting, AtPreparing
<1>3. CASE tx' = tx \cup {ws[w]}
  <2>1. ListsInv' /\ ForRead' = ForRead /\ ForWrite' = ForWrite
    BY <1>1, SameLists DEF PlaceInv
  <2>2. ws[w] \notin ForRead \cup ForWrite
    BY <1>1 DEF PlaceInv, PreparingInv
  <2>3. PlacesInv' /\ ClosingInv'
    BY <1>1, <1>3, <2>1, <2>2 DEF PlaceInv, PlacesInv, ClosingInv, closeVars
  <2>4. HandsInv'
    BY <1>1, HandsStay DEF PlaceInv, HandsInv
  <2>5. WorkersInv'
    BY <1>1, GoesOn DEF PlaceInv, ControlOK, Resting
  <2>6. PreparingInv'
    BY <1>1, <2>1 DEF PlaceInv, PreparingInv, ControlOK
  <2>7. Keeps({})
    BY <1>1, <2>1 DEF Keeps, Present, AtPreparing, ControlOK
  <2> QED BY <2>1, <2>3, <2>4, <2>5, <2>6, <2>7 DEF PlaceInv
<1> QED BY <1>2, <1>3 DEF prepareForWrite

LEMMA GiveBackPlaces ==
  ASSUME PlaceInv, ControlOK, NoneCarries, NEW w \in Worker, NEW from \in {"back", "back2"}, NEW to \in {"prepared", "pinging"},
         GiveBack(w, from, to)
  PROVE  PlaceInv' /\ Keeps(IF Accepts(ws[w]) THEN {} ELSE {ws[w]})
<1> DEFINE s == ws[w]
<1>1. /\ at[w] = from /\ at' = [at EXCEPT ![w] = to]
      /\ UNCHANGED <<open, tx, checking, mode, handle, ws, closeVars>>
  BY DEF GiveBack, Move
<1>2. CASE ~Accepts(s)
  BY <1>1, <1>2, RestPlaces DEF GiveBack, Resting, AtPreparing
<1>3. CASE Accepts(s)
  <2> DEFINE list == IF s \in tx THEN "write" ELSE "read"
  <2>1. s \in Session /\ s \notin ForRead \cup ForWrite /\ s \in open /\ closer = "open" /\ \A c \in Client : handle[c] # s
    BY <1>1, <1>3 DEF PlaceInv, PlacesInv, WorkersInv, PreparingInv, Resting, Accepts, valid
  <2>2. On(s, list) /\ linked' = linked \cup {s}
    <3>1. PutBack(s, list, pc)
      BY <1>3 DEF GiveBack
    <3> QED BY <2>1, <3>1, PutOn DEF PlaceInv
  <2>3. ListsInv' /\ PlacesInv'
    BY <1>1, <2>1, <2>2 DEF PlaceInv, PlacesInv, On
  <2>4. HandsInv'
    BY <1>1, <2>1, <2>2, HandsStay DEF PlaceInv, HandsInv
  <2>5. WorkersInv'
    BY <1>1, GoesOn DEF PlaceInv, ControlOK, Resting
  <2>6. PreparingInv'
    <3>1. at'[w] \notin AtPreparing /\ \A v \in Worker \ {w} : at'[v] = at[v] /\ ws'[v] = ws[v]
      BY <1>1 DEF ControlOK, AtPreparing
    <3>2. \A v \in Worker \ {w} : ws[v] # s
      BY <1>1, <2>1, PoolAssumption DEF PlaceInv, WorkersInv
    <3>3. \A v \in Worker \ {w} : ws[v] \notin ForRead \cup ForWrite => ws[v] \notin ForRead' \cup ForWrite'
      BY <2>2, <3>2 DEF On
    <3> QED BY <1>1, <3>1, <3>3, PreparingStays DEF PlaceInv
  <2>7. ClosingInv'
    BY <1>1, <2>1 DEF ClosingInv, closeVars
  <2>8. Keeps({})
    <3>1. s \in ForRead' \cup ForWrite' /\ ForRead \cup ForWrite \subseteq ForRead' \cup ForWrite'
      BY <2>2 DEF On
    <3>2. \A v \in Worker \ {w} : at'[v] = at[v] /\ ws'[v] = ws[v]
      BY <1>1 DEF ControlOK
    <3> QED BY <1>1, <3>1, <3>2 DEF Keeps, Present
  <2> QED BY <1>3, <2>3, <2>4, <2>5, <2>6, <2>7, <2>8 DEF PlaceInv
<1> QED BY <1>2, <1>3

(* A check that ends, its session kept.                                    *)
LEMMA DonePlaces ==
  ASSUME PlaceInv, ControlOK, NoneCarries, NEW w \in Worker, NEW to \in Resting, at[w] \notin AtPreparing, at' = [at EXCEPT ![w] = to],
         markDone(w), UNCHANGED <<idle, open, linked, tx, mode, handle, closeVars>>
  PROVE  PlaceInv' /\ Keeps({})
<1>1. ListsInv' /\ ForRead' = ForRead /\ ForWrite' = ForWrite
  BY SameLists DEF PlaceInv
<1>2. PlacesInv' /\ ClosingInv'
  BY <1>1 DEF PlaceInv, PlacesInv, ClosingInv, closeVars
<1>3. HandsInv'
  BY HandsStay DEF PlaceInv, HandsInv
<1>4. WorkersInv'
  BY IsDone DEF PlaceInv, ControlOK
<1>5. PreparingInv'
  <2>1. at'[w] \notin AtPreparing /\ \A v \in Worker \ {w} : at'[v] = at[v] /\ ws'[v] = ws[v]
    BY DEF ControlOK, AtPreparing, Resting, markDone, PlaceInv, WorkersInv
  <2> QED BY <1>1, <2>1, PreparingStays DEF PlaceInv
<1>6. Keeps({})
  <2>1. \A v \in Worker \ {w} : at'[v] = at[v] /\ ws'[v] = ws[v]
    BY DEF ControlOK, markDone, PlaceInv, WorkersInv
  <2> QED BY <1>1, <2>1 DEF Keeps, Present
<1> QED BY <1>6, <1>1, <1>2, <1>3, <1>4, <1>5 DEF PlaceInv

(* A check that drops its session.                                         *)
LEMMA DroppedPlaces ==
  ASSUME PlaceInv, ControlOK, NoneCarries, NEW w \in Worker, at' = [at EXCEPT ![w] = "loop"], Dropped(w)
  PROVE  PlaceInv' /\ Keeps({})
<1>1. Off(ws[w]) /\ linked' = linked \ {ws[w]} /\ open' = open \ {ws[w]}
  BY RemovedOff DEF PlaceInv, Dropped
<1>2. markDone(w) /\ UNCHANGED <<tx, mode, handle, closeVars>>
  BY DEF Dropped
<1>3. ListsInv' /\ PlacesInv'
  BY <1>1, <1>2, RemovedPlaces
<1>4. HandsInv'
  BY <1>1, <1>2, HandsStay DEF PlaceInv, HandsInv
<1>5. WorkersInv'
  BY <1>2, IsDone DEF PlaceInv, ControlOK, Resting
<1>6. PreparingInv'
  <2>1. at'[w] \notin AtPreparing /\ \A v \in Worker \ {w} : at'[v] = at[v] /\ ws'[v] = ws[v]
    BY <1>2 DEF ControlOK, AtPreparing, markDone, PlaceInv, WorkersInv
  <2> QED BY <1>1, <1>2, <2>1, PreparingStays DEF PlaceInv, Off
<1>7. ClosingInv'
  BY <1>1, <1>2 DEF PlaceInv, ClosingInv, closeVars, Off
<1>8. Keeps({})
  <2>1. \A v \in Worker \ {w} : at'[v] = at[v] /\ ws'[v] = ws[v]
    BY <1>2 DEF ControlOK, markDone, PlaceInv, WorkersInv
  <2> QED BY <1>1, <1>2, <2>1 DEF Keeps, Present, Off
<1> QED BY <1>8, <1>3, <1>4, <1>5, <1>6, <1>7 DEF PlaceInv

LEMMA NextForPingPlaces ==
  ASSUME PlaceInv, ControlOK, NoneCarries, NEW w \in Worker, NEW s \in Session, getNextForPing(w, s)
  PROVE  PlaceInv' /\ Keeps({})
<1> DEFINE to == IF valid THEN "health" ELSE "drop"
<1>1. /\ s \notin checking /\ ws' = [ws EXCEPT ![w] = s] /\ checking' = checking \cup {s}
      /\ at[w] = "ping" /\ at' = [at EXCEPT ![w] = to]
      /\ UNCHANGED <<idle, open, linked, tx, mode, handle, closeVars>>
  BY DEF getNextForPing, Move, poolVars, clientVars
<1>2. to \in WorkerState \ (Resting \cup AtPreparing)
  BY DEF WorkerState, Resting, AtPreparing
<1> HIDE DEF to
<1>3. ListsInv' /\ ForRead' = ForRead /\ ForWrite' = ForWrite
  BY <1>1, SameLists DEF PlaceInv
<1>4. PlacesInv' /\ ClosingInv'
  BY <1>1, <1>3 DEF PlaceInv, PlacesInv, ClosingInv, closeVars
<1>5. HandsInv'
  BY <1>1, HandsStay DEF PlaceInv, HandsInv
<1>6. WorkersInv'
  BY <1>1, <1>2, TakesUp DEF PlaceInv, ControlOK, Resting
<1>7. PreparingInv'
  <2>1. at'[w] \notin AtPreparing /\ \A v \in Worker \ {w} : at'[v] = at[v] /\ ws'[v] = ws[v]
    BY <1>1, <1>2 DEF ControlOK, PlaceInv, WorkersInv
  <2> QED BY <1>1, <1>3, <2>1, PreparingStays DEF PlaceInv
<1>8. Keeps({})
  <2>1. at[w] \notin AtPreparing /\ \A v \in Worker \ {w} : at'[v] = at[v] /\ ws'[v] = ws[v]
    BY <1>1 DEF ControlOK, PlaceInv, WorkersInv, AtPreparing
  <2> QED BY <1>1, <1>3, <2>1 DEF Keeps, Present
<1> QED BY <1>8, <1>3, <1>4, <1>5, <1>6, <1>7 DEF PlaceInv

LEMMA RefreshPlaces ==
  ASSUME PlaceInv, ControlOK, NoneCarries, NEW w \in Worker, refreshIdle(w)
  PROVE  PlaceInv' /\ Keeps({})
<1> DEFINE s == ws[w]
<1>1. UNCHANGED <<open, linked, checking, mode, handle, ws, closeVars>> /\ at[w] = "refresh"
  BY DEF refreshIdle, Move, clientVars
<1>2. CASE ~(s \in open \cap linked \cap tx)
  <2>1. at' = [at EXCEPT ![w] = "pinging"] /\ UNCHANGED <<tx, idle>>
    BY <1>2 DEF refreshIdle, Move
  <2> QED BY <1>1, <2>1, RestPlaces DEF Resting, AtPreparing
<1>3. CASE s \in open \cap linked \cap tx
  <2>1. /\ at' = [at EXCEPT ![w] = "back2"] /\ tx' = tx \ {s}
        /\ idle' = [idle EXCEPT !["write"] = RemoveFirst(@, s)]
    BY <1>3 DEF refreshIdle, Move
  <2>2. s \notin ForRead /\ \A c \in Client : handle[c] # s
    BY <1>3 DEF PlaceInv, PlacesInv, HandsInv
  <2>3. Off(s)
    <3>1. {"write"} \in SUBSET {"read", "write"} /\ \A l \in {"read", "write"} \ {"write"} : s \notin ToSet(idle[l])
      BY <2>2 DEF ForRead
    <3>2. idle' = [l \in {"read", "write"} |-> IF l \in {"write"} THEN RemoveFirst(idle[l], s) ELSE idle[l]]
      BY <2>1 DEF PlaceInv, ListsInv
    <3> QED BY <3>1, <3>2, FirstTaken DEF PlaceInv, PlacesInv
  <2>4. ListsInv' /\ PlacesInv'
    BY <1>1, <2>1, <2>3 DEF PlaceInv, PlacesInv, Off
  <2>5. HandsInv'
    BY <1>1, HandsStay DEF PlaceInv, HandsInv
  <2>6. WorkersInv'
    BY <1>1, <2>1, GoesOn DEF PlaceInv, ControlOK, Resting
  <2>7. PreparingInv'
    <3>1. \A v \in Worker \ {w} : at'[v] = at[v] /\ ws'[v] = ws[v]
      BY <1>1, <2>1 DEF ControlOK
    <3> QED BY <1>1, <2>2, <2>3, <3>1, PreparingStays DEF PlaceInv, Off
  <2>8. ClosingInv'
    BY <1>1, <2>3 DEF PlaceInv, ClosingInv, closeVars, Off
  <2>9. Keeps({})
    <3>1. at'[w] = "back2" /\ ws'[w] = s /\ \A v \in Worker \ {w} : at'[v] = at[v] /\ ws'[v] = ws[v]
      BY <1>1, <2>1 DEF ControlOK
    <3> QED BY <1>1, <2>3, <3>1 DEF Keeps, Present, AtPreparing, Off
  <2> QED BY <2>4, <2>5, <2>6, <2>7, <2>8, <2>9 DEF PlaceInv
<1> QED BY <1>2, <1>3

(* What a step may lose, and no other (see NothingLost).                   *)
Loses ==
  \A s \in open \cap open' : Present(s) /\ ~Present(s)' =>
    \/ \E c \in Client : handle[c] = s /\ pc[c] = "prepare" /\ pc'[c] = "done"
    \/ \E w \in Worker : ws[w] = s /\ at[w] \in {"back", "back2"} /\ ~Accepts(s)
    \/ \E r \in Reader : handle[r] = s /\ do[r] = "begin" /\ state = "closed"

LEMMA KeepsLoses == ASSUME Keeps({}) PROVE Loses
BY DEF Keeps, Loses

LEMMA WorkingPlaces ==
  ASSUME PlaceInv, ControlOK, NEW w \in Worker, Working(w)
  PROVE  PlaceInv' /\ Loses
<1>1. NoneCarries
  BY OthersSteps DEF NoneSteps, NoneCarries, Carrying
<1>2. CASE Exit(w) \/ NoneForTx(w) \/ NoneForPing(w)
  <2>1. \E to \in Resting : at' = [at EXCEPT ![w] = to] /\ at[w] \in Resting
    BY <1>2 DEF Exit, NoneForTx, NoneForPing, Move, Resting
  <2>2. UNCHANGED <<idle, open, linked, tx, checking, mode, handle, ws, closeVars>>
    BY <1>2 DEF Exit, NoneForTx, NoneForPing, poolVars, sessVars, clientVars
  <2> QED BY <1>1, <2>1, <2>2, KeepsLoses, RestPlaces DEF Resting, AtPreparing
<1>3. CASE GiveBack(w, "back", "prepared") \/ GiveBack(w, "back2", "pinging")
  <2>1. at[w] \in {"back", "back2"} /\ PlaceInv' /\ Keeps(IF Accepts(ws[w]) THEN {} ELSE {ws[w]})
    BY <1>1, <1>3, GiveBackPlaces DEF GiveBack, Move
  <2> QED BY <2>1 DEF Keeps, Loses
<1>4. CASE Prepared(w)
  BY <1>1, <1>4, KeepsLoses, DonePlaces DEF Prepared, AtPreparing, Move, markDone, Resting, clientVars
<1>5. CASE DropClosed(w) \/ Expire(w) \/ Lost(w)
  BY <1>1, <1>5, KeepsLoses, DroppedPlaces DEF DropClosed, Expire, Lost, Move
<1>6. CASE Keep(w)
  <2>1. UNCHANGED <<idle, open, linked, tx, mode, handle, closeVars>> /\ at[w] = "health"
    BY <1>6 DEF Keep, Move, poolVars, clientVars
  <2>2. CASE markDone(w) /\ at' = [at EXCEPT ![w] = "loop"]
    BY <1>1, <2>1, <2>2, KeepsLoses, DonePlaces DEF Resting, AtPreparing
  <2>3. CASE UNCHANGED <<checking, ws>> /\ \E to \in {"pinging", "refresh"} : at' = [at EXCEPT ![w] = to]
    BY <1>1, <2>1, <2>3, KeepsLoses, RestPlaces DEF Resting, AtPreparing
  <2> QED BY <1>6, <2>2, <2>3 DEF Keep, Move
<1>7. CASE EndCheck(w)
  BY <1>1, <1>7, KeepsLoses, DonePlaces DEF EndCheck, AtPreparing, Move, Resting, poolVars, clientVars
<1> QED BY <1>1, <1>2, <1>3, <1>4, <1>5, <1>6, <1>7, KeepsLoses, NextForTxPlaces, PrepareForWritePlaces, NextForPingPlaces, RefreshPlaces
     DEF Working

-----------------------------------------------------------------------------
(* The closing of the pool, and the steps that take a session.             *)
LEMMA ClosingPlaces ==
  ASSUME PlaceInv, ControlOK, Closing
  PROVE  PlaceInv' /\ Keeps({})
<1>1. NoneCarries
  BY OthersSteps DEF NoneSteps, NoneCarries, Carrying
<1>2. CASE Close
  <2>1. UNCHANGED <<idle, open, linked, tx, checking, mode, handle, workerVars>>
    BY <1>2 DEF Close, poolVars, sessVars, clientVars
  <2>2. ListsInv' /\ ForRead' = ForRead /\ ForWrite' = ForWrite
    BY <2>1, SameLists DEF PlaceInv
  <2>3. PlacesInv' /\ WorkersInv' /\ PreparingInv'
    BY <2>1, <2>2 DEF PlaceInv, PlacesInv, WorkersInv, PreparingInv, workerVars
  <2>4. HandsInv'
    BY <1>1, <2>1, HandsStay DEF PlaceInv, HandsInv
  <2>5. ClosingInv'
    BY <1>2, <2>2 DEF Close, PlaceInv, PlacesInv, ClosingInv
  <2>6. Keeps({})
    BY <2>1, <2>2 DEF Keeps, Present, workerVars
  <2> QED BY <2>2, <2>3, <2>4, <2>5, <2>6 DEF PlaceInv
<1>3. ASSUME NEW s \in Session, CloseDestroys(s) PROVE PlaceInv' /\ Keeps({})
  <2>1. UNCHANGED <<tx, checking, mode, handle, workerVars, closer>> /\ left' = left \ {s}
    BY <1>3 DEF CloseDestroys
  <2>2. Off(s) /\ linked' = linked \ {s} /\ open' = open \ {s}
    BY <1>3, RemovedOff DEF PlaceInv, CloseDestroys
  <2>3. ListsInv' /\ PlacesInv'
    BY <2>1, <2>2, RemovedPlaces
  <2>4. HandsInv'
    BY <1>1, <2>1, <2>2, HandsStay DEF PlaceInv, HandsInv
  <2>5. WorkersInv' /\ PreparingInv'
    BY <2>1, <2>2 DEF PlaceInv, WorkersInv, PreparingInv, workerVars, Off
  <2>6. ClosingInv'
    BY <2>1, <2>2 DEF PlaceInv, ClosingInv, Off
  <2>7. Keeps({})
    BY <2>1, <2>2 DEF Keeps, Present, workerVars, Off
  <2> QED BY <2>3, <2>4, <2>5, <2>6, <2>7 DEF PlaceInv
<1> QED BY <1>2, <1>3 DEF Closing

LEMMA DestroysPlaces ==
  ASSUME PlaceInv, ControlOK, NEW c \in Client, NEW from \in {"check", "use", "reject"}, NEW to \in {"take", "done"},
         Destroy(c, from, to)
  PROVE  PlaceInv' /\ Keeps({})
<1>1. Steps(c, {from}, {to})
  BY DestroySteps DEF ClientState
<1>2. OnlyCarries(c) /\ pc'[c] \notin Carrying /\ to \in ClientState \ Carrying
  BY <1>1, StepsCarry DEF Carrying, ClientState
<1> QED BY <1>2, DestroyPlaces

LEMMA AskPlaces ==
  ASSUME PlaceInv, ControlOK, NEW c \in Client, Ask(c)
  PROVE  PlaceInv' /\ Keeps({})
<1>1. NoneCarries
  BY DEF Ask, Goto, NoneCarries, Carrying, ControlOK
<1> QED BY <1>1, QuietPlaces DEF Ask, poolVars, sessVars

LEMMA TakingPlaces ==
  ASSUME PlaceInv, ControlOK, NEW c \in Client, Taking(c) \/ TimeOut(c)
  PROVE  PlaceInv' /\ Loses
<1>1. CASE TakeRefused(c) \/ Wait(c) \/ TakeBudget(c) \/ Healthy(c) \/ TimeOut(c)
  <2>1. NoneCarries
    BY <1>1 DEF TakeRefused, Wait, TakeBudget, Healthy, TimeOut, Ready, Goto, NoneCarries, Carrying, ControlOK
  <2> QED BY <1>1, <2>1, QuietPlaces, KeepsLoses DEF TakeRefused, Wait, TakeBudget, Healthy, TimeOut, poolVars, sessVars
<1>2. CASE DoneCreate(c) \/ CreateFails(c)
  <2>1. NoneCarries
    BY <1>2 DEF DoneCreate, CreateFails, Ready, Broadcast, Goto, NoneCarries, Carrying, ControlOK
  <2> QED BY <1>2, <2>1, QuietPlaces, KeepsLoses DEF DoneCreate, CreateFails, poolVars, sessVars
<1>3. CASE PrepareFails(c)
  <2>1. OnlyCarries(c) /\ pc'[c] \notin Carrying
    BY <1>3 DEF PrepareFails, Goto, OnlyCarries, Carrying, ControlOK
  <2>2. PlaceInv' /\ Keeps({handle[c]})
    BY <1>3, <2>1, LetGoPlaces DEF PrepareFails, poolVars, sessVars
  <2>3. pc[c] = "prepare" /\ pc'[c] = "done"
    BY <1>3 DEF PrepareFails, Goto, ControlOK
  <2> QED BY <2>2, <2>3 DEF Keeps, Loses
<1>4. CASE Unhealthy(c)
  BY <1>4, KeepsLoses, DestroysPlaces DEF Unhealthy
<1> QED BY <1>1, <1>2, <1>3, <1>4, KeepsLoses, TakeIdlePlaces, CreatePlaces, PreparePlaces DEF Taking

LEMMA PlaceStep ==
  ASSUME PlaceInv, ControlOK, OneBegins, [Next]_vars
  PROVE  PlaceInv' /\ Loses
<1>1. CASE UNCHANGED allPoolVars
  <2>1. NoneCarries
    BY <1>1 DEF allPoolVars, clientVars, NoneCarries
  <2> QED BY <1>1, <2>1, QuietPlaces, KeepsLoses DEF allPoolVars, poolVars, sessVars, clientVars
<1>2. CASE PoolStep
  <2>1. ASSUME NEW s \in Session, Age(s) PROVE PlaceInv' /\ Loses
    <3>1. NoneCarries
      BY <2>1 DEF Age, clientVars, NoneCarries
    <3> QED BY <2>1, <3>1, QuietPlaces, KeepsLoses DEF Age, poolVars, clientVars
  <2> QED BY <1>2, <2>1, TakingPlaces, WorkingPlaces, ClosingPlaces, KeepsLoses DEF PoolStep
<1>3. ASSUME NEW c \in Writer, Write(c) PROVE PlaceInv' /\ Loses
  BY <1>3, Holders, AskPlaces, RecyclePlaces, DestroysPlaces, KeepsLoses DEF Write
<1>4. ASSUME NEW r \in Reader, ReaderStep(r) PROVE PlaceInv' /\ Loses
  <2>1. r \in Client /\ T \in Client
    BY Holders
  <2>2. CASE Acquire(r)
    BY <1>1, <2>1, <2>2, AskPlaces, KeepsLoses DEF Acquire
  <2>3. CASE TimeOutReader(r) \/ TakeFails(r) \/ BeginFails(r)
    BY <1>1, <2>3 DEF TimeOutReader, TakeFails, BeginFails
  <2>4. CASE GivesBack(r)
    BY <2>1, <2>4, RecyclePlaces, DestroysPlaces, KeepsLoses DEF GivesBack
  <2>5. CASE Read(r)
    BY <2>1, <2>5, DestroysPlaces, KeepsLoses DEF Read
  <2>6. CASE BeginOk(r)
    <3>1. PlaceInv' /\ Keeps(IF state = "closed" THEN {handle[r]} ELSE {})
      BY <2>6, BeginOkPlaces
    <3> QED BY <2>6, <3>1 DEF Keeps, Loses, BeginOk
  <2> QED BY <1>4, <2>2, <2>3, <2>4, <2>5, <2>6 DEF ReaderStep
<1>5. CASE CloseTransaction
  BY <1>1, <1>5 DEF CloseTransaction
<1>6. CASE CloseRecycles
  BY <1>6, Holders, RecyclePlaces, DestroysPlaces, KeepsLoses DEF CloseRecycles
<1>7. CASE UNCHANGED vars
  BY <1>1, <1>7 DEF vars
<1> QED BY <1>2, <1>3, <1>4, <1>5, <1>6, <1>7 DEF Next

LEMMA PlaceInit == ASSUME Init PROVE PlaceInv
<1>1. /\ idle = [l \in {"read", "write"} |-> <<>>] /\ open = {} /\ linked = {} /\ tx = {} /\ checking = {}
      /\ pc = [c \in Client |-> "idle"] /\ mode \in [Client -> {"read", "write"}] /\ handle = [c \in Client |-> None]
      /\ at = [w \in Worker |-> "loop"] /\ ws = [w \in Worker |-> None] /\ closer = "open"
  BY DEF Init, PoolInit
<1>2. Chain(<<>>) /\ ToSet(<<>>) = {}
  <2>1. <<>> \in Seq(Session) /\ Len(<<>>) = 0
    OBVIOUS
  <2>2. Distinct(<<>>)
    BY <2>1 DEF Distinct
  <2>3. Chain(<<>>)
    BY <2>1, <2>2 DEF Chain
  <2> QED BY <2>3, InChain
<1>3. ListsInv /\ ForRead = {} /\ ForWrite = {}
  BY <1>1, <1>2 DEF ListsInv, ForRead, ForWrite, Chain
<1>4. PlacesInv /\ ClosingInv
  BY <1>1, <1>3 DEF PlacesInv, ClosingInv
<1>5. HandsInv
  BY <1>1 DEF HandsInv, Carrying
<1>6. WorkersInv
  BY <1>1 DEF WorkersInv, Resting
<1>7. PreparingInv
  BY <1>1 DEF PreparingInv
<1> QED BY <1>3, <1>4, <1>5, <1>6, <1>7 DEF PlaceInv

LEMMA AtMostOne ==
  ASSUME NEW S, \A x, y \in S : x = y
  PROVE  Cardinality(S) = IF S = {} THEN 0 ELSE 1
<1>1. CASE S = {}
  BY <1>1, FS_EmptySet
<1>2. ASSUME NEW x \in S PROVE Cardinality(S) = 1
  <2>1. S = {x}
    OBVIOUS
  <2> QED BY <2>1, FS_Singleton
<1> QED BY <1>1, <1>2

LEMMA OnePlaceInv == ASSUME PlaceInv PROVE OnePlace
<1>1. /\ DOMAIN idle = {"read", "write"}
      /\ Chain(idle["read"]) /\ Chain(idle["write"])
  BY ListedAreSessions DEF PlaceInv, ListsInv
<1>2. ASSUME NEW l \in {"read", "write"}, NEW i \in DOMAIN idle[l]
      PROVE  /\ idle[l][i] \in (IF l = "read" THEN ForRead ELSE ForWrite)
             /\ idle[l][i] \in open \cap linked /\ (idle[l][i] \in tx <=> l = "write")
  <2>1. idle[l][i] \in ToSet(idle[l])
    BY DEF ToSet
  <2> QED BY <2>1 DEF PlaceInv, PlacesInv, ForRead, ForWrite
<1>3. ASSUME NEW s \in Session
      PROVE  Cardinality(Held(s)) + Cardinality(Preparing(s)) + Cardinality(Listed(s)) <= 1
  <2>1. s # None
    BY PoolAssumption
  <2>2. \A x, y \in Held(s) : x = y
    BY <2>1 DEF Held, PlaceInv, HandsInv
  <2>3. \A x, y \in Preparing(s) : x = y
    BY <2>1 DEF Preparing, PlaceInv, WorkersInv
  <2>4. \A x \in Listed(s) : /\ x[1] \in {"read", "write"} /\ x = <<x[1], x[2]>> /\ x[2] \in DOMAIN idle[x[1]]
                              /\ idle[x[1]][x[2]] = s /\ s \in (IF x[1] = "read" THEN ForRead ELSE ForWrite)
    BY <1>1, <1>2 DEF Listed
  <2>5. ASSUME NEW x \in Listed(s), NEW y \in Listed(s) PROVE x = y
    <3>1. x[1] = y[1]
      BY <2>4 DEF PlaceInv, PlacesInv
    <3>2. Chain(idle[x[1]])
      BY <1>1, <2>4
    <3>3. x[2] \in 1 .. Len(idle[x[1]]) /\ y[2] \in 1 .. Len(idle[x[1]]) /\ idle[x[1]][x[2]] = idle[x[1]][y[2]]
      BY <2>4, <3>1, <3>2 DEF Chain
    <3>4. x[2] = y[2]
      BY <3>2, <3>3 DEF Chain, Distinct
    <3> QED BY <2>4, <3>1, <3>4
  <2>6. Held(s) # {} => Preparing(s) = {} /\ Listed(s) = {}
    BY <2>4 DEF Held, Preparing, PlaceInv, PlacesInv, HandsInv, PreparingInv
  <2>7. Preparing(s) # {} => Listed(s) = {}
    BY <2>4 DEF Preparing, PlaceInv, PreparingInv
  <2>8. /\ Cardinality(Held(s)) = IF Held(s) = {} THEN 0 ELSE 1
        /\ Cardinality(Preparing(s)) = IF Preparing(s) = {} THEN 0 ELSE 1
        /\ Cardinality(Listed(s)) = IF Listed(s) = {} THEN 0 ELSE 1
    BY <2>2, <2>3, <2>5, AtMostOne
  <2> QED BY <2>6, <2>7, <2>8
<1>4. closer = "closed" => NoneIdle
  BY <1>1, InChain DEF PlaceInv, ClosingInv, NoneIdle, ForRead, ForWrite
<1>5. checking = {ws[w] : w \in Worker} \ {None}
  BY DEF PlaceInv, WorkersInv
<1> QED BY <1>1, <1>2, <1>3, <1>4, <1>5 DEF OnePlace

LEMMA PresentSomewhere == PlaceInv => \A s : Somewhere(s) <=> Present(s)
<1> SUFFICES ASSUME PlaceInv, NEW s PROVE Somewhere(s) <=> Present(s)
  OBVIOUS
<1>1. DOMAIN idle = {"read", "write"}
  BY DEF PlaceInv, ListsInv
<1>2. ASSUME NEW x \in Listed(s) PROVE s \in ForRead \cup ForWrite
  <2>1. PICK l \in {"read", "write"} : x \in {l} \X {i \in DOMAIN idle[l] : idle[l][i] = s}
    BY <1>1 DEF Listed
  <2>2. s \in ToSet(idle[l])
    BY <2>1 DEF ToSet
  <2> QED BY <2>2 DEF ForRead, ForWrite
<1>3. ASSUME s \in ForRead \cup ForWrite PROVE Listed(s) # {}
  <2>1. PICK l \in {"read", "write"} : s \in ToSet(idle[l])
    BY <1>3 DEF ForRead, ForWrite
  <2>2. PICK i \in DOMAIN idle[l] : idle[l][i] = s
    BY <2>1 DEF ToSet
  <2>3. <<l, i>> \in {l} \X {j \in DOMAIN idle[l] : idle[l][j] = s}
    BY <2>2
  <2> QED BY <1>1, <2>3 DEF Listed
<1> QED BY <1>2, <1>3 DEF Somewhere, Present, Held, Preparing, AtPreparing

LEMMA PlaceInvariant == Spec => [](ControlOK /\ OneBegins /\ PlaceInv)
<1>1. Init => ControlOK /\ OneBegins /\ PlaceInv
  BY ControlInit, PlaceInit, Holders DEF Init, PoolInit, OneBegins
<1>2. ControlOK /\ OneBegins /\ PlaceInv /\ [Next]_vars => (ControlOK /\ OneBegins /\ PlaceInv)'
  BY ControlStep, OneBeginsStep, PlaceStep
<1> QED BY <1>1, <1>2, PTL DEF Spec

(* However many goroutines and workers there are, whatever is lost, ages   *)
(* or fails, and whenever the pool is closed, no session is used by two    *)
(* clients, or prepared while it is used or listed (session.go:565).       *)
THEOREM EachInOnePlace == Spec => []OnePlace
BY PlaceInvariant, OnePlaceInv, PTL

(* A session that is not destroyed stays in a list or in somebody's hands, *)
(* but for the three ways to lose one (session.go:214, 626 and 931,        *)
(* transaction.go:319).                                                    *)
THEOREM NoOtherLost == Spec => NothingLost
<1> DEFINE LostOnly ==
      \A s \in open \cap open' : Somewhere(s) /\ ~Somewhere(s)' =>
        \/ \E c \in Client : handle[c] = s /\ pc[c] = "prepare" /\ pc'[c] = "done"
        \/ \E w \in Worker : ws[w] = s /\ at[w] \in {"back", "back2"} /\ ~Accepts(s)
        \/ \E r \in Reader : handle[r] = s /\ do[r] = "begin" /\ state = "closed"
<1>1. ControlOK /\ OneBegins /\ PlaceInv /\ [Next]_vars => LostOnly
  <2> SUFFICES ASSUME ControlOK, OneBegins, PlaceInv, [Next]_vars PROVE LostOnly
    OBVIOUS
  <2>1. PlaceInv' /\ Loses
    BY PlaceStep
  <2>2. \A s : Somewhere(s) <=> Present(s)
    BY PresentSomewhere
  <2>3. (\A s : Somewhere(s) <=> Present(s))'
    BY <2>1, PresentSomewhere, PTL
  <2> QED BY <2>1, <2>2, <2>3 DEF Loses
<1>2. LostOnly => [LostOnly]_vars
  OBVIOUS
<1> QED BY <1>1, PlaceInvariant, PTL DEF Spec, NothingLost
=============================================================================
