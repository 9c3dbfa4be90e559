----------------------------- MODULE SessionPool -----------------------------
(***************************************************************************)
(* The pool of sessions of the Spanner client (cloud.google.com/go/spanner *)
(* /session.go): goroutines take sessions for reading or writing and give  *)
(* them back; the workers of the health checker prepare idle sessions for  *)
(* writing, renew old ones and drop those the service has lost; the pool   *)
(* is closed at some time.                                                 *)
(*                                                                         *)
(* A step is what happens under the lock of the pool, or an answer of the  *)
(* service.  A session is in the queue of the health checker from its      *)
(* registration to the end of destroy; the queue is that of the open       *)
(* sessions, as between remove and unregister (session.go:360) a check of  *)
(* the session or another destroy of it changes nothing.                   *)
(***************************************************************************)
EXTENDS Naturals, Sequences, FiniteSets, SequencesExt

CONSTANTS Client,        \* goroutines, each of which takes a session once
          Worker,        \* the workers of the health checker
          Session,       \* session objects; one nobody refers to is used again
          None,
          MaxOpened, MinOpened, MaxBurst, \* of SessionPoolConfig, 0: no limit
          WriteSessions, \* in percent
          Faults         \* "create", "begin": such calls may fail; "gone": the
                         \* service may forget a session; "age": it gets old

ASSUME PoolAssumption ==
  /\ None \notin Session
  /\ {MaxOpened, MinOpened, MaxBurst, WriteSessions} \subseteq Nat
  /\ MaxOpened > 0 => MinOpened <= MaxOpened
  /\ Faults \subseteq {"create", "begin", "gone", "age"}

VARIABLES
  idle,        \* idleList ("read") and idleWriteList ("write")
  numOpened, createReqs, prepareReqs, \* the counters of the pool
  open,        \* the valid sessions
  linked,      \* those whose idleList is not nil
  tx,          \* those prepared for write
  old,         \* the valid ones past MaxSessionAge
  checking,    \* those with checkingHealth
  pc,          \* per client: see ClientState
  mode,        \* "read": take, "write": takeWriteSession
  handle,      \* the session it has
  at,          \* per worker: see WorkerState
  ws,          \* the session it works on
  closer,      \* the call of close: see CloserState
  left         \* and the sessions it has left to destroy

poolVars   == <<idle, numOpened, createReqs, prepareReqs>>
sessVars   == <<open, linked, tx, old, checking>>
clientVars == <<pc, mode, handle>>
workerVars == <<at, ws>>
closeVars  == <<closer, left>>
allPoolVars == <<poolVars, sessVars, clientVars, workerVars, closeVars>>

ClientState == {"idle", "take", "wait", "check", "create", "created", "prepare", "use", "reject", "done"}
WorkerState == {"loop", "prepare", "back", "prepared", "ping", "health", "drop", "refresh", "back2", "pinging", "exited"}
CloserState == {"open", "closing", "waiting", "destroying", "closed"}

PoolInit ==
  /\ idle = [l \in {"read", "write"} |-> <<>>]
  /\ numOpened = 0 /\ createReqs = 0 /\ prepareReqs = 0
  /\ open = {} /\ linked = {} /\ tx = {} /\ old = {} /\ checking = {}
  /\ pc = [c \in Client |-> "idle"] /\ mode \in [Client -> {"read", "write"}]
  /\ handle = [c \in Client |-> None]
  /\ at = [w \in Worker |-> "loop"] /\ ws = [w \in Worker |-> None]
  /\ closer = "open" /\ left = {}

valid == closer = "open"

-----------------------------------------------------------------------------
Goto(c, label) == [pc EXCEPT ![c] = label]

(* close(mayGetSession): who waits tries again.                            *)
Broadcast(next) == pc' = [c \in Client |-> IF next[c] = "wait" THEN "take" ELSE next[c]]

(* remove, which destroy starts with, without isExpire.                    *)
remove(s, next) ==
  /\ idle' = IF s \in linked
             THEN [l \in DOMAIN idle |-> RemoveFirst(idle[l], s)] ELSE idle
  /\ linked' = linked \ {s} /\ open' = open \ {s} /\ old' = old \ {s}
  /\ IF s \in open THEN numOpened' = numOpened - 1 /\ Broadcast(next)
                   ELSE UNCHANGED numOpened /\ pc' = next

MayExpire(s) == numOpened > MinOpened /\ s \in linked

(* recycle of the pool, in the order of the code.                          *)
Accepts(s) == s \in open /\ valid /\ ~(s \in old /\ numOpened > MinOpened)

PutBack(s, list, next) ==
  /\ idle' = [idle EXCEPT ![list] = <<s>> \o @]
  /\ linked' = linked \cup {s}
  /\ Broadcast(next)

-----------------------------------------------------------------------------
(* take and takeWriteSession                                               *)

Full == \/ MaxOpened > 0 /\ numOpened >= MaxOpened
        \/ MaxBurst > 0 /\ createReqs >= MaxBurst

NoneIdle == \A l \in DOMAIN idle : idle[l] = <<>>

Ask(c) ==
  /\ pc[c] = "idle" /\ pc' = Goto(c, "take")
  /\ UNCHANGED <<poolVars, sessVars, mode, handle, workerVars, closeVars>>

TakeRefused(c) ==
  /\ pc[c] = "take" /\ ~valid
  /\ pc' = Goto(c, "done")
  /\ UNCHANGED <<poolVars, sessVars, mode, handle, workerVars, closeVars>>

(* Mutant: the session still has the link to its list.                     *)
TakeIdleLinked(c) ==
  /\ pc[c] = "take" /\ valid /\ ~NoneIdle
  /\ LET l == IF idle[mode[c]] # <<>> THEN mode[c] ELSE CHOOSE k \in DOMAIN idle : k # mode[c]
     IN /\ idle' = [idle EXCEPT ![l] = Tail(@)]
        /\ handle' = [handle EXCEPT ![c] = Head(idle[l])]
  /\ pc' = Goto(c, "check")
  /\ UNCHANGED <<numOpened, createReqs, prepareReqs, open, linked, tx, old, checking, mode, workerVars, closeVars>>

(* From the list that fits, if it has any.                                 *)
TakeIdle(c) ==
  /\ pc[c] = "take" /\ valid /\ ~NoneIdle
  /\ LET l == IF idle[mode[c]] # <<>> THEN mode[c] ELSE CHOOSE k \in DOMAIN idle : k # mode[c]
         s == Head(idle[l])
     IN /\ idle' = [idle EXCEPT ![l] = Tail(@)]
        /\ linked' = linked \ {s}
        /\ handle' = [handle EXCEPT ![c] = s]
  /\ pc' = Goto(c, "check")
  /\ UNCHANGED <<numOpened, createReqs, prepareReqs, open, tx, old, checking, mode, workerVars, closeVars>>

Wait(c) ==
  /\ pc[c] = "take" /\ valid /\ NoneIdle /\ Full
  /\ pc' = Goto(c, "wait")
  /\ UNCHANGED <<poolVars, sessVars, mode, handle, workerVars, closeVars>>

(* The context of a caller may end while it waits.                         *)
TimeOut(c) ==
  /\ pc[c] = "wait" /\ pc' = Goto(c, "done")
  /\ UNCHANGED <<poolVars, sessVars, mode, handle, workerVars, closeVars>>

TakeBudget(c) ==
  /\ pc[c] = "take" /\ valid /\ NoneIdle /\ ~Full
  /\ numOpened' = numOpened + 1 /\ createReqs' = createReqs + 1
  /\ pc' = Goto(c, "create")
  /\ UNCHANGED <<idle, prepareReqs, sessVars, mode, handle, workerVars, closeVars>>

(* destroy of the session of a handle, which has none from then on.        *)
Destroy(c, from, to) ==
  /\ pc[c] = from
  /\ remove(handle[c], Goto(c, to))
  /\ handle' = [handle EXCEPT ![c] = None]
  /\ UNCHANGED <<createReqs, prepareReqs, tx, checking, mode, workerVars, closeVars>>

(* isHealthy: a session not checked for long is pinged, and destroyed if   *)
(* the service has no such session; take then goes round again.            *)
Ready(c) == IF mode[c] = "write" /\ handle[c] \notin tx THEN "prepare" ELSE "use"

Healthy(c) ==
  /\ pc[c] = "check" /\ pc' = Goto(c, Ready(c))
  /\ UNCHANGED <<poolVars, sessVars, mode, handle, workerVars, closeVars>>

Unhealthy(c) ==
  /\ "gone" \in Faults /\ Destroy(c, "check", "take")

(* createSession: the session is registered, then the others are told.     *)
Unused == Session \ (open \cup {handle[c] : c \in Client} \cup {ws[w] : w \in Worker} \cup left)

Create(c) ==
  /\ pc[c] = "create"
  /\ \E s \in Unused :
       /\ open' = open \cup {s} /\ tx' = tx \ {s}
       /\ handle' = [handle EXCEPT ![c] = s]
  /\ pc' = Goto(c, "created")
  /\ UNCHANGED <<poolVars, linked, old, checking, mode, workerVars, closeVars>>

(* Mutant: nobody is told.                                                 *)
DoneCreateSilently(c) ==
  /\ pc[c] = "created"
  /\ createReqs' = createReqs - 1
  /\ pc' = Goto(c, Ready(c))
  /\ UNCHANGED <<idle, numOpened, prepareReqs, sessVars, mode, handle, workerVars, closeVars>>

DoneCreate(c) ==
  /\ pc[c] = "created"
  /\ createReqs' = createReqs - 1
  /\ Broadcast(Goto(c, Ready(c)))
  /\ UNCHANGED <<idle, numOpened, prepareReqs, sessVars, mode, handle, workerVars, closeVars>>

(* Mutant: the budget is not given back.                                   *)
CreateFailsInDebt(c) ==
  /\ pc[c] = "create" /\ "create" \in Faults
  /\ createReqs' = createReqs - 1
  /\ Broadcast(Goto(c, "done"))
  /\ UNCHANGED <<idle, numOpened, prepareReqs, sessVars, mode, handle, workerVars, closeVars>>

CreateFails(c) ==
  /\ pc[c] = "create" /\ "create" \in Faults
  /\ numOpened' = numOpened - 1 /\ createReqs' = createReqs - 1
  /\ Broadcast(Goto(c, "done"))
  /\ UNCHANGED <<idle, prepareReqs, sessVars, mode, handle, workerVars, closeVars>>

Prepare(c) ==
  /\ pc[c] = "prepare"
  /\ tx' = tx \cup {handle[c]}
  /\ pc' = Goto(c, "use")
  /\ UNCHANGED <<poolVars, open, linked, old, checking, mode, handle, workerVars, closeVars>>

(* takeWriteSession returns the error, and lets go of the session.         *)
PrepareFails(c) ==
  /\ pc[c] = "prepare" /\ "begin" \in Faults
  /\ handle' = [handle EXCEPT ![c] = None]
  /\ pc' = Goto(c, "done")
  /\ UNCHANGED <<poolVars, sessVars, mode, workerVars, closeVars>>

-----------------------------------------------------------------------------
(* Mutant: a session the pool does not take back is forgotten.             *)
RecycleForgets(c) ==
  /\ pc[c] = "use"
  /\ tx' = tx \ {handle[c]}
  /\ IF Accepts(handle[c]) THEN PutBack(handle[c], "read", Goto(c, "done"))
                           ELSE pc' = Goto(c, "done") /\ UNCHANGED <<idle, linked>>
  /\ handle' = [handle EXCEPT ![c] = None]
  /\ UNCHANGED <<numOpened, createReqs, prepareReqs, open, old, checking, mode, workerVars, closeVars>>

(* recycle of a handle: only the first recycle or destroy of it counts.    *)
(* What the pool does not take back is destroyed next.                     *)
Recycle(c) ==
  /\ pc[c] = "use"
  /\ tx' = tx \ {handle[c]}
  /\ IF Accepts(handle[c])
     THEN PutBack(handle[c], "read", Goto(c, "done")) /\ handle' = [handle EXCEPT ![c] = None]
     ELSE pc' = Goto(c, "reject") /\ UNCHANGED <<idle, linked, handle>>
  /\ UNCHANGED <<numOpened, createReqs, prepareReqs, open, old, checking, mode, workerVars, closeVars>>

Age(s) ==
  /\ "age" \in Faults /\ s \in open \ old
  /\ old' = old \cup {s}
  /\ UNCHANGED <<poolVars, open, linked, tx, checking, clientVars, workerVars, closeVars>>

-----------------------------------------------------------------------------
(* The loop of a worker                                                    *)

Move(w, from, to) == at[w] = from /\ at' = [at EXCEPT ![w] = to]

isClosing == closer \in {"waiting", "destroying", "closed"}

Exit(w) ==
  /\ isClosing /\ Move(w, "loop", "exited")
  /\ UNCHANGED <<poolVars, sessVars, clientVars, ws, closeVars>>

shouldPrepareWrite == numOpened * WriteSessions > 100 * (Len(idle["write"]) + prepareReqs)

MayPrepare == shouldPrepareWrite /\ idle["read"] # <<>> /\ valid /\ Head(idle["read"]) \notin checking

(* The session leaves the list, its link stays.                            *)
getNextForTx(w) ==
  /\ ~isClosing /\ MayPrepare
  /\ Move(w, "loop", "prepare")
  /\ ws' = [ws EXCEPT ![w] = Head(idle["read"])]
  /\ idle' = [idle EXCEPT !["read"] = Tail(@)]
  /\ checking' = checking \cup {Head(idle["read"])}
  /\ prepareReqs' = prepareReqs + 1
  /\ UNCHANGED <<numOpened, createReqs, open, linked, tx, old, clientVars, closeVars>>

NoneForTx(w) ==
  /\ ~isClosing /\ ~MayPrepare
  /\ Move(w, "loop", "ping")
  /\ UNCHANGED <<poolVars, sessVars, clientVars, ws, closeVars>>

prepareForWrite(w) ==
  /\ Move(w, "prepare", "back")
  /\ \/ tx' = tx \cup {ws[w]}
     \/ "begin" \in Faults /\ UNCHANGED tx
  /\ UNCHANGED <<poolVars, open, linked, old, checking, clientVars, ws, closeVars>>

(* What recycle of the pool answers is ignored.                            *)
GiveBack(w, from, to) ==
  /\ Move(w, from, to)
  /\ IF Accepts(ws[w]) THEN PutBack(ws[w], IF ws[w] \in tx THEN "write" ELSE "read", pc) ELSE UNCHANGED <<idle, linked, pc>>
  /\ UNCHANGED <<numOpened, createReqs, prepareReqs, open, tx, old, checking, mode, handle, ws, closeVars>>

Prepared(w) ==
  /\ Move(w, "prepared", "ping")
  /\ prepareReqs' = prepareReqs - 1
  /\ checking' = checking \ {ws[w]}
  /\ ws' = [ws EXCEPT ![w] = None]
  /\ UNCHANGED <<idle, numOpened, createReqs, open, linked, tx, old, clientVars, closeVars>>

(* The top of the queue; its order is that of times nobody knows.  The     *)
(* check starts with a look at the pool, open at that time or closed.      *)
getNextForPing(w, s) ==
  /\ s \in open \ checking
  /\ Move(w, "ping", IF valid THEN "health" ELSE "drop")
  /\ ws' = [ws EXCEPT ![w] = s]
  /\ checking' = checking \cup {s}
  /\ UNCHANGED <<poolVars, open, linked, tx, old, clientVars, closeVars>>

(* None is due, or the top is being checked.                               *)
NoneForPing(w) ==
  /\ valid \/ open = {} \/ checking # {}
  /\ Move(w, "ping", "loop")
  /\ UNCHANGED <<poolVars, sessVars, clientVars, ws, closeVars>>

-----------------------------------------------------------------------------
(* healthCheck, which ends with markDone.                                  *)
markDone(w) == checking' = checking \ {ws[w]} /\ ws' = [ws EXCEPT ![w] = None]

Dropped(w) ==
  /\ remove(ws[w], pc) /\ markDone(w)
  /\ UNCHANGED <<createReqs, prepareReqs, tx, mode, handle, closeVars>>

DropClosed(w) ==
  /\ Move(w, "drop", "loop") \/ (~valid /\ Move(w, "health", "loop"))
  /\ Dropped(w)

Expire(w) ==
  /\ ws[w] \in old /\ MayExpire(ws[w])
  /\ Move(w, "health", "loop") /\ Dropped(w)

Keep(w) ==
  /\ ~(ws[w] \in old /\ MayExpire(ws[w]))
  /\ \/ ws[w] \notin old /\ Move(w, "health", "pinging") /\ UNCHANGED <<checking, ws>>
     \/ ws[w] \in old /\ ws[w] \in open \cap linked
        /\ Move(w, "health", "refresh") /\ UNCHANGED <<checking, ws>>
     \/ ws[w] \in old /\ ws[w] \notin open \cap linked
        /\ Move(w, "health", "loop") /\ markDone(w)
  /\ UNCHANGED <<poolVars, open, linked, tx, old, clientVars, closeVars>>

(* refreshIdle with a new id from the service: a session prepared for      *)
(* write no longer is and leaves its list, to be put back in a step of its *)
(* own.                                                                    *)
refreshIdle(w) ==
  /\ IF ws[w] \in open \cap linked \cap tx
     THEN /\ Move(w, "refresh", "back2")
          /\ tx' = tx \ {ws[w]}
          /\ idle' = [idle EXCEPT !["write"] = RemoveFirst(@, ws[w])]
     ELSE Move(w, "refresh", "pinging") /\ UNCHANGED <<tx, idle>>
  /\ UNCHANGED <<numOpened, createReqs, prepareReqs, open, linked, old, checking, clientVars, ws, closeVars>>

(* The check ends when a call of refreshIdle fails, or with the ping.      *)
EndCheck(w) ==
  /\ Move(w, "pinging", "loop") \/ ("create" \in Faults /\ Move(w, "refresh", "loop"))
  /\ markDone(w)
  /\ UNCHANGED <<poolVars, open, linked, tx, old, clientVars, closeVars>>

Lost(w) ==
  /\ "gone" \in Faults /\ Move(w, "pinging", "loop") /\ Dropped(w)

-----------------------------------------------------------------------------
(* close                                                                   *)

Close ==
  /\ \/ closer = "open" /\ closer' = "closing" /\ UNCHANGED left
     \/ closer = "closing" /\ closer' = "waiting" /\ UNCHANGED left
     \/ /\ closer = "waiting" /\ \A w \in Worker : at[w] = "exited"
        /\ closer' = "destroying" /\ left' = open
     \/ closer = "destroying" /\ left = {} /\ closer' = "closed" /\ UNCHANGED left
  /\ UNCHANGED <<poolVars, sessVars, clientVars, workerVars>>

CloseDestroys(s) ==
  /\ closer = "destroying" /\ s \in left
  /\ remove(s, pc)
  /\ left' = left \ {s}
  /\ UNCHANGED <<createReqs, prepareReqs, tx, checking, mode, handle, workerVars, closer>>

-----------------------------------------------------------------------------
Taking(c) ==
  \/ TakeRefused(c) \/ TakeIdle(c) \/ Wait(c) \/ TakeBudget(c)
  \/ Healthy(c) \/ Unhealthy(c) \/ Create(c) \/ DoneCreate(c) \/ CreateFails(c) \/ Prepare(c) \/ PrepareFails(c)

Working(w) ==
  \/ Exit(w) \/ getNextForTx(w) \/ NoneForTx(w)
  \/ prepareForWrite(w) \/ GiveBack(w, "back", "prepared") \/ Prepared(w)
  \/ (\E s \in Session : getNextForPing(w, s)) \/ NoneForPing(w)
  \/ DropClosed(w) \/ Expire(w) \/ Keep(w) \/ refreshIdle(w) \/ GiveBack(w, "back2", "pinging")
  \/ EndCheck(w) \/ Lost(w)

Closing == Close \/ \E s \in Session : CloseDestroys(s)

-----------------------------------------------------------------------------
(* Properties                                                              *)

(* The counters are what they count (session.go:400-405), whoever fails,   *)
(* loses, drops or destroys a session at the same time as another does:    *)
(* budgets are given back once and sessions uncounted once, so that the    *)
(* limits hold, and can still be reached.                                  *)
Accounted ==
  /\ numOpened = Cardinality(open) + Cardinality({c \in Client : pc[c] = "create"})
  /\ createReqs = Cardinality({c \in Client : pc[c] \in {"create", "created"}})
  /\ prepareReqs = Cardinality({w \in Worker : at[w] \in {"prepare", "back", "prepared"}})
  /\ MaxOpened > 0 => numOpened <= MaxOpened
  /\ MaxBurst > 0 => createReqs <= MaxBurst

Held(s) == {c \in Client : handle[c] = s}
Preparing(s) == {w \in Worker : ws[w] = s /\ at[w] \in {"prepare", "back", "back2"}}
Listed(s) == UNION {{l} \X {i \in DOMAIN idle[l] : idle[l][i] = s} : l \in DOMAIN idle}

(* A session is used by one client, prepared by one worker or listed once, *)
(* never two of them: "From here, session is no longer in idle list, so    *)
(* healthcheck workers won't destroy it" (session.go:565).  What is listed *)
(* is valid and in the list for what it is prepared for, a closed pool     *)
(* lists nothing, however late a session was given back, and a session is  *)
(* marked as looked at by the health checker while a worker does           *)
(* (session.go:841).                                                       *)
OnePlace ==
  /\ checking = {ws[w] : w \in Worker} \ {None}
  /\ \A s \in Session : Cardinality(Held(s)) + Cardinality(Preparing(s)) + Cardinality(Listed(s)) <= 1
  /\ \A l \in DOMAIN idle : \A i \in DOMAIN idle[l] :
       idle[l][i] \in open \cap linked /\ (idle[l][i] \in tx <=> l = "write")
  /\ closer = "closed" => NoneIdle

(* Nobody waits who need not: whatever frees a session or a budget wakes   *)
(* those who looked before (session.go:498, 676, 701), so a wait lasts no  *)
(* longer than its reason.                                                 *)
WaitsForReason == \A c \in Client : pc[c] = "wait" => NoneIdle /\ Full
==============================================================================
