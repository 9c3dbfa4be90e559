------------------------------ MODULE Receive ------------------------------
(***************************************************************************)
(* Receive of a subscription (cloud.google.com/go/pubsub): a loop pulls    *)
(* messages and calls f with each in a goroutine of its own; keepAlive     *)
(* extends the deadlines of all that have been fetched until they are      *)
(* settled; acker sends the acknowledgements; when the context of Receive  *)
(* ends, or a fetch fails for good, the iterator is stopped, which waits   *)
(* for what is not settled yet.                                            *)
(*                                                                         *)
(* A message is one delivery, with its ack id: what the service delivers   *)
(* again is another one.  f, or whom f hands the message to, answers it,   *)
(* early, late or never.  The time at which a message is overdue is not    *)
(* modelled: any tick may find any of them so.  The bundler of the nacks   *)
(* is left to itself once it has them.                                     *)
(***************************************************************************)
EXTENDS Naturals, FiniteSets

CONSTANTS Message,
          Size,               \* of the messages
          MaxCount, MaxSize, \* MaxOutstandingMessages and -Bytes
          NoMessage,
          MaxExtending        \* bound: requests for longer deadlines at a time

ASSUME ReceiveAssumption ==
  /\ Size \in [Message -> Nat] /\ NoMessage \notin Message
  /\ {MaxCount, MaxSize} \subseteq Nat \ {0} /\ MaxExtending \in Nat

VARIABLES
  canceled,             \* whether the context of Receive is done
  recv, msg,            \* the loop of Receive: see Places; the message it has
  buf,                  \* of the puller
  count, size,         \* what is taken of the two semaphores
  calls, given,         \* the messages f runs for, and all it was called with
  answer,               \* "none", "ack", "nacking", "nack"
  stop,                 \* the goroutine that stops the iterator: see Stops
  items, draining, drained, \* of keepAlive: items, dr.started, Drained is closed
  keeper, overdue,      \* its loop, and the messages it has yet to remove
  extending,            \* the goroutines in extendDeadlines
  pending, send, dirty, \* of ackBuffer; dirty: the goroutines of notify
  acker, batch,         \* the loop of acker, and the messages it is about
  tried, expired        \* history: sent by acker, removed by the loop of keepAlive

pullVars == <<canceled, recv, msg, buf, count, size, calls, given>>
keepVars == <<items, drained>>
loopVars == <<draining, keeper, overdue, extending, expired>>
ackVars  == <<pending, dirty>>
sendVars == <<send, acker, batch, tried>>
iteratorVars == <<answer, stop, keepVars, loopVars, ackVars, sendVars>>
receiveVars == <<pullVars, iteratorVars>>

Places == {"next", "fetch", "count", "size", "orphan", "return", "wait", "returned"}
Stops  == {"waiting", "closed", "canceled", "abandoned", "fast", "draining", "closing", "stopped"}

ReceiveInit ==
  /\ canceled = FALSE /\ recv = "next" /\ msg = NoMessage /\ buf = {}
  /\ count = 0 /\ size = 0 /\ calls = {} /\ given = {}
  /\ answer = [m \in Message |-> "none"] /\ stop = "waiting"
  /\ items = {} /\ draining = FALSE /\ drained = FALSE
  /\ keeper = "running" /\ overdue = {} /\ extending = 0
  /\ pending = {} /\ send = FALSE /\ dirty = 0
  /\ acker = "select" /\ batch = {} /\ tried = {} /\ expired = {}

-----------------------------------------------------------------------------
(* keepAlive.Remove, with closeIfDrained.                                  *)
RemoveItem(m) ==
  /\ items' = items \ {m}
  /\ drained' = (drained \/ (draining /\ items' = {}))

(* Some goroutine sends to Dirty.                                          *)
notify == dirty' = dirty + 1

CancelReceive ==
  /\ ~canceled /\ canceled' = TRUE
  /\ UNCHANGED <<recv, msg, buf, count, size, calls, given, iteratorVars>>

-----------------------------------------------------------------------------
(* puller.Next.  It has the lock of the puller while it fetches.           *)
pullerCanceled == stop \notin {"waiting", "closed"}

NextCanceled ==
  /\ recv = "next" /\ pullerCanceled /\ recv' = "return"
  /\ UNCHANGED <<canceled, msg, buf, count, size, calls, given, iteratorVars>>

NextBuffered ==
  /\ recv = "next" /\ ~pullerCanceled /\ recv' = "count"
  /\ \E m \in buf : msg' = m /\ buf' = buf \ {m}
  /\ UNCHANGED <<canceled, count, size, calls, given, iteratorVars>>

NextFetches ==
  /\ recv = "next" /\ ~pullerCanceled /\ buf = {} /\ recv' = "fetch"
  /\ UNCHANGED <<canceled, msg, buf, count, size, calls, given, iteratorVars>>

(* Those nobody has fetched yet; each is delivered once.                   *)
Undelivered == {m \in Message : m \notin items \cup given \cup expired /\ answer[m] = "none"}

(* Mutant: a message is kept alive from the time it is returned only.      *)
FetchedUnkept ==
  /\ recv = "fetch" /\ recv' = "count"
  /\ \E new \in SUBSET Undelivered \ {{}} : \E m \in new :
       Cardinality(new) <= MaxCount /\ items' = items \cup {m} /\ msg' = m /\ buf' = new \ {m}
  /\ UNCHANGED <<canceled, count, size, calls, given, answer, stop, drained, loopVars, ackVars, sendVars>>

(* All are passed to keepAlive, the first is returned.  A fetch that is    *)
(* tried again, or comes back empty, changes nothing.                      *)
Fetched ==
  /\ recv = "fetch" /\ recv' = "count"
  /\ \E new \in SUBSET Undelivered \ {{}} : \E m \in new :
       Cardinality(new) <= MaxCount /\ items' = items \cup new /\ msg' = m /\ buf' = new \ {m}
  /\ UNCHANGED <<canceled, count, size, calls, given, answer, stop, drained, loopVars, ackVars, sendVars>>

(* It was canceled, or failed twice: either way Receive returns.           *)
FetchFails ==
  /\ recv = "fetch" /\ recv' = "return"
  /\ UNCHANGED <<canceled, msg, buf, count, size, calls, given, iteratorVars>>

-----------------------------------------------------------------------------
(* flowController                                                          *)
bound(m) == IF Size[m] > MaxSize THEN MaxSize ELSE Size[m]

AcquireCount ==
  /\ recv = "count" /\ count < MaxCount
  /\ count' = count + 1 /\ recv' = "size"
  /\ UNCHANGED <<canceled, msg, buf, size, calls, given, iteratorVars>>

(* acquire returns; f is called in a goroutine.                            *)
AcquireSize ==
  /\ recv = "size" /\ size + bound(msg) <= MaxSize
  /\ size' = size + bound(msg) /\ recv' = "next"
  /\ calls' = calls \cup {msg} /\ given' = given \cup {msg} /\ msg' = NoMessage
  /\ UNCHANGED <<canceled, buf, count, iteratorVars>>

(* The context is done; the message is nacked.                             *)
AcquireFails ==
  /\ recv \in {"count", "size"} /\ canceled
  /\ count' = IF recv = "size" THEN count - 1 ELSE count
  /\ recv' = "orphan"
  /\ UNCHANGED <<canceled, msg, buf, size, calls, given, iteratorVars>>

CallReturns(m) ==
  /\ m \in calls /\ calls' = calls \ {m}
  /\ count' = count - 1 /\ size' = size - bound(m)
  /\ UNCHANGED <<canceled, recv, msg, buf, given, iteratorVars>>

(* receive returns, which ends the context of the calls and of the         *)
(* goroutine that stops the iterator, then Receive, after all of them.     *)
LoopReturns ==
  /\ \/ recv = "return"
     \/ recv = "orphan" /\ answer[msg] = "nack"
  /\ recv' = "wait"
  /\ UNCHANGED <<canceled, msg, buf, count, size, calls, given, iteratorVars>>

WaitAll ==
  /\ recv = "wait" /\ calls = {} /\ stop = "stopped"
  /\ recv' = "returned"
  /\ UNCHANGED <<canceled, msg, buf, count, size, calls, given, iteratorVars>>

-----------------------------------------------------------------------------
(* Message.Ack and Message.Nack, of which the first counts.                *)

(* Mutant: what is acknowledged is not kept alive any more.                *)
AckRemoves(m) ==
  /\ m \in given /\ answer[m] = "none"
  /\ answer' = [answer EXCEPT ![m] = "ack"]
  /\ pending' = pending \cup {m}
  /\ IF send /\ pending = {} THEN notify ELSE UNCHANGED dirty
  /\ RemoveItem(m)
  /\ UNCHANGED <<pullVars, stop, loopVars, sendVars>>

Ack(m) ==
  /\ m \in given /\ answer[m] = "none"
  /\ answer' = [answer EXCEPT ![m] = "ack"]
  /\ pending' = pending \cup {m}
  /\ IF send /\ pending = {} THEN notify ELSE UNCHANGED dirty
  /\ UNCHANGED <<pullVars, stop, keepVars, loopVars, sendVars>>

Nack(m) ==
  /\ m \in given \/ (recv = "orphan" /\ m = msg)
  /\ answer[m] = "none" /\ answer' = [answer EXCEPT ![m] = "nacking"]
  /\ RemoveItem(m)
  /\ UNCHANGED <<pullVars, stop, loopVars, ackVars, sendVars>>

(* The bundler has it, and sends it before Flush returns or soon.          *)
NackAdded(m) ==
  /\ answer[m] = "nacking" /\ answer' = [answer EXCEPT ![m] = "nack"]
  /\ UNCHANGED <<pullVars, stop, keepVars, loopVars, ackVars, sendVars>>

-----------------------------------------------------------------------------
(* The goroutine that waits for the end of the context, and stops the      *)
(* iterator step by step.                                                  *)
StopTo(from, to) == stop = from /\ stop' = to

StopCloses ==
  /\ canceled \/ recv \in {"wait", "returned"}
  /\ StopTo("waiting", "closed")
  /\ UNCHANGED <<pullVars, answer, keepVars, loopVars, ackVars, sendVars>>

StopCancels ==
  /\ StopTo("closed", "canceled")
  /\ UNCHANGED <<pullVars, answer, keepVars, loopVars, ackVars, sendVars>>

(* puller.Stop waits for the end of Next, and abandons what it has left.   *)
StopAbandons ==
  /\ StopTo("canceled", "abandoned") /\ recv # "fetch"
  /\ items' = items \ buf /\ buf' = {}
  /\ UNCHANGED <<canceled, recv, msg, count, size, calls, given, answer, drained, loopVars, ackVars, sendVars>>

(* Mutant: what is pending already waits for a tick.                       *)
FastModeForNew ==
  /\ StopTo("abandoned", "fast") /\ send' = TRUE
  /\ UNCHANGED <<pullVars, answer, keepVars, loopVars, ackVars, acker, batch, tried>>

FastMode ==
  /\ StopTo("abandoned", "fast") /\ send' = TRUE
  /\ IF pending # {} THEN notify ELSE UNCHANGED dirty
  /\ UNCHANGED <<pullVars, answer, keepVars, loopVars, pending, acker, batch, tried>>

Drain ==
  /\ StopTo("fast", "draining") /\ draining' = TRUE
  /\ drained' = (items = {})
  /\ UNCHANGED <<pullVars, answer, items, keeper, overdue, extending, expired, ackVars, sendVars>>

(* Mutant: acker is not waited for the end of keepAlive.                   *)
KeepAliveUnwaited ==
  /\ StopTo("draining", "closing")
  /\ UNCHANGED <<pullVars, answer, keepVars, loopVars, ackVars, sendVars>>

KeepAliveStopped ==
  /\ StopTo("draining", "closing") /\ keeper = "exited" /\ extending = 0
  /\ UNCHANGED <<pullVars, answer, keepVars, loopVars, ackVars, sendVars>>

AckerStopped ==
  /\ StopTo("closing", "stopped") /\ acker = "exited"
  /\ UNCHANGED <<pullVars, answer, keepVars, loopVars, ackVars, sendVars>>

-----------------------------------------------------------------------------
(* The loop of keepAlive                                                   *)
keeperSelects == keeper = "running" /\ overdue = {}

ExtensionTick ==
  /\ keeperSelects /\ overdue' \in SUBSET items
  /\ extending < MaxExtending /\ extending' = extending + 1
  /\ UNCHANGED <<pullVars, answer, stop, keepVars, draining, keeper, expired, ackVars, sendVars>>

ExtendEnds ==
  /\ extending > 0 /\ extending' = extending - 1
  /\ UNCHANGED <<pullVars, answer, stop, keepVars, draining, keeper, overdue, expired, ackVars, sendVars>>

(* It may have been removed since.                                         *)
RemoveOverdue(m) ==
  /\ m \in overdue /\ overdue' = overdue \ {m}
  /\ expired' = expired \cup ({m} \cap items)
  /\ RemoveItem(m)
  /\ UNCHANGED <<pullVars, answer, stop, draining, keeper, extending, ackVars, sendVars>>

KeeperExits ==
  /\ keeperSelects /\ drained /\ keeper' = "exited"
  /\ UNCHANGED <<pullVars, answer, stop, keepVars, draining, overdue, extending, expired, ackVars, sendVars>>

-----------------------------------------------------------------------------
(* The loop of acker.  It has nothing to do when nothing is pending.       *)
RemoveAll ==
  /\ acker = "select" /\ batch' = pending /\ pending' = {}
  /\ acker' = IF pending = {} THEN "select" ELSE "send"

AckDirty ==
  /\ RemoveAll /\ dirty > 0 /\ dirty' = dirty - 1
  /\ UNCHANGED <<pullVars, answer, stop, keepVars, loopVars, send, tried>>

AckTick ==
  /\ RemoveAll
  /\ UNCHANGED <<pullVars, answer, stop, keepVars, loopVars, dirty, send, tried>>

(* Twice if need be; after that the service may deliver them again.        *)
Acknowledge ==
  /\ acker = "send" /\ acker' = "notify" /\ tried' = tried \cup batch
  /\ UNCHANGED <<pullVars, answer, stop, keepVars, loopVars, ackVars, send, batch>>

Notify(m) ==
  /\ acker = "notify" /\ m \in batch /\ batch' = batch \ {m}
  /\ acker' = IF batch' = {} THEN "select" ELSE "notify"
  /\ RemoveItem(m)
  /\ UNCHANGED <<pullVars, answer, stop, loopVars, ackVars, send, tried>>

AckerExits ==
  /\ acker = "select" /\ stop \in {"closing", "stopped"} /\ acker' = "exited"
  /\ UNCHANGED <<pullVars, answer, stop, keepVars, loopVars, ackVars, send, batch, tried>>

-----------------------------------------------------------------------------
Loop ==
  \/ NextCanceled \/ NextBuffered \/ NextFetches
  \/ AcquireCount \/ AcquireSize \/ AcquireFails \/ LoopReturns \/ WaitAll
Service == Fetched \/ FetchFails
Stopping ==
  \/ StopCloses \/ StopCancels \/ StopAbandons \/ FastMode \/ Drain \/ KeepAliveStopped \/ AckerStopped
Keeping == \E m \in Message : RemoveOverdue(m)
Acking == Acknowledge \/ \E m \in Message : Notify(m)
Answers(m) == Ack(m) \/ Nack(m)

ReceiveNext ==
  \/ CancelReceive \/ Loop \/ Service \/ Stopping
  \/ ExtensionTick \/ ExtendEnds \/ Keeping \/ KeeperExits
  \/ AckTick \/ AckDirty \/ Acking \/ AckerExits
  \/ \E m \in Message : Answers(m) \/ NackAdded(m) \/ CallReturns(m)

ReceiveSpec == ReceiveInit /\ [][ReceiveNext]_receiveVars

(* Goroutines run, a select passes no case over for ever, requests end, a  *)
(* fetch when it is canceled; calls of f end.  Nobody relies on a tick.    *)
(* Of the steps of Progress there are finitely many in any run: what the   *)
(* fairness says of one of them it says of all.                            *)
Progress ==
  \/ Loop \/ (pullerCanceled /\ Service) \/ Stopping
  \/ (recv = "orphan" /\ Nack(msg))
  \/ \E m \in Message : CallReturns(m) \/ NackAdded(m)

ReceiveFairness ==
  /\ WF_receiveVars(Progress)
  /\ WF_receiveVars(Keeping) /\ SF_receiveVars(KeeperExits) /\ WF_receiveVars(ExtendEnds)
  /\ WF_receiveVars(Acking) /\ SF_receiveVars(AckDirty) /\ SF_receiveVars(AckerExits)

-----------------------------------------------------------------------------
(* Properties                                                              *)

ReceiveTypeOK ==
  /\ canceled \in BOOLEAN /\ recv \in Places /\ msg \in Message \cup {NoMessage}
  /\ recv \in {"count", "size", "orphan"} => msg \in Message
  /\ buf \subseteq Message /\ calls \subseteq given /\ given \subseteq Message
  /\ answer \in [Message -> {"none", "ack", "nacking", "nack"}] /\ stop \in Stops
  /\ items \subseteq Message /\ draining \in BOOLEAN /\ drained \in BOOLEAN
  /\ keeper \in {"running", "exited"} /\ overdue \subseteq Message
  /\ extending \in Nat /\ expired \subseteq Message
  /\ pending \subseteq Message /\ send \in BOOLEAN /\ dirty \in Nat
  /\ acker \in {"select", "send", "notify", "exited"} /\ batch \subseteq Message /\ tried \subseteq Message

(* A message is unsettled from the fetch to the answer, and, when it is    *)
(* acknowledged, to the attempt to tell the service.                       *)
Unsettled(m) ==
  \/ m \in buf
  \/ m = msg /\ recv \in {"count", "size", "orphan"} /\ answer[m] = "none"
  \/ m \in given /\ (answer[m] = "none" \/ (answer[m] = "ack" /\ m \notin tried))

(* The deadlines of the unsettled messages are extended, unless they have  *)
(* expired, of those prefetched, too, and of no others but those acker is  *)
(* just done with: "keepAlive takes ownership of the lifetime of the       *)
(* message" (puller.go:28), and stopping waits for nothing in vain.        *)
KeptAlive ==
  \A m \in Message :
    /\ Unsettled(m) => m \in items \cup expired
    /\ m \in items => Unsettled(m) \/ (acker = "notify" /\ m \in batch)

(* Receive returns "after all of the outstanding calls to f have returned  *)
(* and all messages have been acknowledged or have expired"                *)
(* (subscription.go:231-232), and everything it has started has ended.     *)
SettledAtReturn ==
  recv = "returned" =>
    /\ calls = {} /\ buf = {} /\ items = {} /\ extending = 0
    /\ keeper = "exited" /\ acker = "exited"
    /\ \A m \in given : m \in tried \cup expired \/ answer[m] \in {"nacking", "nack"}

(* "ignoring ackTicker ... as soon as possible" (iterator.go:189): once    *)
(* the context is done Receive returns without any tick, unless a message  *)
(* is left without an answer.                                              *)
ReceiveReturns ==
  canceled ~> recv = "returned" \/ \E m \in given \ expired : answer[m] = "none"
=============================================================================
