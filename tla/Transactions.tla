---------------------------- MODULE Transactions ----------------------------
(***************************************************************************)
(* Transactions of the Spanner client (spanner/transaction.go, client.go)  *)
(* over its pool of sessions: read-write transactions, and one read-only   *)
(* transaction that several goroutines read in, the first of which begins  *)
(* it, and which is closed at some time.                                   *)
(***************************************************************************)
EXTENDS SessionPool

CONSTANTS Writer, Reader, \* goroutines of the two kinds
          T               \* the transaction of the readers, a holder of a session

ASSUME ClientAssumption == Client = Writer \cup Reader \cup {T} /\ T \notin Writer \cup Reader /\ Writer \cap Reader = {}

VARIABLES
  state, \* "new", "init", "active", "closed"
  id,    \* t.tx: "nil", "pending" while somebody begins it, "id"
  do,    \* per reader: see ReaderState
  close  \* the call of Close: "none", "recycle", "panic"

ReaderState == {"acquire", "begin", "wait", "giveback", "read", "error"}

txVars == <<state, id, do, close>>
vars == <<allPoolVars, txVars>>

Init ==
  /\ PoolInit /\ mode = [c \in Client |-> IF c \in Writer THEN "write" ELSE "read"]
  /\ state = "new" /\ id = "nil" /\ do = [r \in Reader |-> "acquire"] /\ close = "none"

-----------------------------------------------------------------------------
(* ReadWriteTransaction: begin, the body and the commit, in any order of   *)
(* outcomes.  A session the service has lost is destroyed; when it was in  *)
(* begin, another one is taken.                                            *)
Write(c) ==
  /\ \/ Ask(c) \/ Recycle(c) \/ Destroy(c, "reject", "done")
     \/ "gone" \in Faults /\ \E to \in {"take", "done"} : Destroy(c, "use", to)
  /\ UNCHANGED txVars

-----------------------------------------------------------------------------
Turn(r, label) == [do EXCEPT ![r] = label]

(* close(txReadyOrClosed)                                                  *)
Signal(next) == do' = [r \in Reader |-> IF next[r] = "wait" THEN "acquire" ELSE next[r]]

(* acquireMultiUse, round by round.                                        *)
Acquire(r) ==
  /\ do[r] = "acquire"
  /\ \/ state = "closed" /\ do' = Turn(r, "error") /\ UNCHANGED <<allPoolVars, state, id>>
     \/ state = "new" /\ state' = "init" /\ UNCHANGED <<allPoolVars, id, do>>
     \/ state = "init" /\ id # "nil" /\ do' = Turn(r, "wait") /\ UNCHANGED <<allPoolVars, state, id>>
     \/ state = "init" /\ id = "nil" /\ id' = "pending" /\ do' = Turn(r, "begin") /\ Ask(r) /\ UNCHANGED state
     \/ state = "active" /\ do' = Turn(r, "read") /\ UNCHANGED <<allPoolVars, state, id>>
  /\ UNCHANGED close

TimeOutReader(r) ==
  /\ do[r] = "wait" /\ do' = Turn(r, "error")
  /\ UNCHANGED <<allPoolVars, state, id, close>>

(* begin: no session was to be had.                                        *)
TakeFails(r) ==
  /\ do[r] = "begin" /\ pc[r] = "done"
  /\ IF state = "closed" THEN do' = Turn(r, "error") ELSE Signal(Turn(r, "error"))
  /\ UNCHANGED <<allPoolVars, state, id, close>>

(* Closed in the meantime: begin returns an error, which is not the one    *)
(* its deferred function asks for, and the session is let go.              *)
BeginOk(r) ==
  /\ do[r] = "begin" /\ pc[r] = "use"
  /\ IF state = "closed"
     THEN /\ do' = Turn(r, "error") /\ pc' = Goto(r, "done")
          /\ handle' = [handle EXCEPT ![r] = None]
          /\ UNCHANGED <<state, id>>
     ELSE /\ state' = "active" /\ id' = "id" /\ Signal(Turn(r, "acquire"))
          /\ handle' = [handle EXCEPT ![T] = handle[r], ![r] = None]
          /\ pc' = [pc EXCEPT ![T] = "use", ![r] = "done"]
  /\ UNCHANGED <<poolVars, sessVars, mode, workerVars, closeVars, close>>

(* Mutant: the marker of who begins stays.                                 *)
BeginFailsMarked(r) ==
  /\ do[r] = "begin" /\ pc[r] = "use" /\ "begin" \in Faults
  /\ IF state = "closed" THEN do' = Turn(r, "giveback") ELSE Signal(Turn(r, "giveback"))
  /\ UNCHANGED <<allPoolVars, state, id, close>>

BeginFails(r) ==
  /\ do[r] = "begin" /\ pc[r] = "use" /\ "begin" \in Faults
  /\ IF state = "closed" THEN do' = Turn(r, "giveback") /\ UNCHANGED id
     ELSE id' = "nil" /\ Signal(Turn(r, "giveback"))
  /\ UNCHANGED <<allPoolVars, state, close>>

GivesBack(r) ==
  /\ do[r] = "giveback"
  /\ Recycle(r) \/ Destroy(r, "reject", "done") \/ ("gone" \in Faults /\ Destroy(r, "use", "done"))
  /\ UNCHANGED txVars

(* One of many reads: what changes is that release destroys a session the  *)
(* service has lost, once.                                                 *)
Read(r) ==
  /\ do[r] = "read" /\ "gone" \in Faults
  /\ Destroy(T, "use", "done")
  /\ UNCHANGED txVars

(* Close, once.  Without a handle its recycle is a panic.                  *)
CloseTransaction ==
  /\ close = "none"
  /\ state' = "closed"
  /\ Signal(do)
  /\ close' = IF pc[T] = "idle" THEN "panic" ELSE "recycle"
  /\ UNCHANGED <<allPoolVars, id>>

CloseRecycles ==
  /\ close = "recycle"
  /\ Recycle(T) \/ Destroy(T, "reject", "done")
  /\ UNCHANGED txVars

-----------------------------------------------------------------------------
PoolStep ==
  /\ \/ \E c \in Client : Taking(c) \/ TimeOut(c)
     \/ \E w \in Worker : Working(w)
     \/ \E s \in Session : Age(s)
     \/ Closing
  /\ UNCHANGED txVars

ReaderStep(r) ==
  \/ Acquire(r) \/ TimeOutReader(r) \/ TakeFails(r) \/ BeginOk(r) \/ BeginFails(r) \/ GivesBack(r) \/ Read(r)

Next ==
  \/ PoolStep
  \/ \E c \in Writer : Write(c)
  \/ \E r \in Reader : ReaderStep(r)
  \/ CloseTransaction \/ CloseRecycles

Spec == Init /\ [][Next]_vars

(* A goroutine that can go on does, and no context ends: what the client   *)
(* promises to those who wait without a deadline.                          *)
FairSpec ==
  /\ Spec
  /\ \A c \in Client : WF_vars(Taking(c) /\ UNCHANGED txVars)
  /\ \A r \in Reader : WF_vars(Acquire(r) \/ TakeFails(r) \/ BeginOk(r) \/ BeginFails(r) \/ GivesBack(r))

-----------------------------------------------------------------------------
(* Properties                                                              *)

(* An open session that was listed or in somebody's hands stays so, until  *)
(* it is destroyed.  There are three ways to lose one, and no other: a     *)
(* session that could not be prepared for write is let go                  *)
(* (session.go:626), one a worker has prepared or refreshed may not be     *)
(* taken back (session.go:214, 931), and so is the one of a transaction    *)
(* that was closed while it was begun (transaction.go:319).                *)
Somewhere(s) == Held(s) # {} \/ Preparing(s) # {} \/ Listed(s) # {}

NothingLost ==
  [][\A s \in open \cap open' : Somewhere(s) /\ ~Somewhere(s)' =>
       \/ \E c \in Client : handle[c] = s /\ pc[c] = "prepare" /\ pc'[c] = "done"
       \/ \E w \in Worker : ws[w] = s /\ at[w] \in {"back", "back2"} /\ ~Accepts(s)
       \/ \E r \in Reader : handle[r] = s /\ do[r] = "begin" /\ state = "closed"]_vars

(* Readers wait for a transaction that somebody is about to begin          *)
(* (transaction.go:387): nobody is left behind by a begin that succeeded,  *)
(* that failed in the service, or that was overtaken by Close, only by one *)
(* that got no session at all.                                             *)
Hangs == {r \in Reader : do[r] = "wait"}
WaitsForBegin ==
  Hangs # {} => \/ \E r \in Reader : do[r] = "begin"
                \/ \E r \in Reader : do[r] = "error" /\ pc[r] = "done"

(* "If begin() fails, this allows other queries to take over the           *)
(* initialization" (transaction.go:322): a reader that waits for another's *)
(* begin does not wait for ever, while the client is open.                 *)
TakesOver == \A r \in Reader : do[r] = "wait" ~> do[r] # "wait" \/ ~valid
=============================================================================
