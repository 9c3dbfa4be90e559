---------------------------- MODULE Registration ----------------------------
(***************************************************************************)
(* The pages of the SNS service that need no login: the registration and   *)
(* the activation of an e-mail account (snscommon/email.go, web/           *)
(* usermanager.go), over the map they share (common/synmap.go), a map      *)
(* beside a read-write lock.  They run beside the pages of Session; an     *)
(* activation would set the account of a session, had it found its id.     *)
(*                                                                         *)
(* Get has a value receiver: each call copies the map's header, which      *)
(* still is the one map, and the lock, which is another lock from then on, *)
(* in the state the map's lock was in.  Nobody ever unlocks the copy.      *)
(*                                                                         *)
(* A registration holds the map's lock when it searches, so its own copy   *)
(* is held too, and its first Get never returns.  Nobody therefore reaches *)
(* what comes after in the code, and it is not modelled: the Set of the id *)
(* that was found, which would lock one more copy, the Unlock and the mail *)
(* (email.go:20-25).                                                       *)
(***************************************************************************)
EXTENDS Session

VARIABLES
  lock, \* the requests that hold the lock of SEmailAuthIdSyncMap
  copy, \* per request, the state of its copy: "none", "free", "held"
  step, \* per request: "none", "lock", "search", "get", "answered"
  late  \* the requests that copied the lock after it had first been taken

mapVars == <<lock, copy, step, late>>
pageVars == <<sessionVars, mapVars>>

PagesInit ==
  /\ SessionInit
  /\ lock = {} /\ late = {}
  /\ copy = [r \in Visit |-> "none"] /\ step = [r \in Visit |-> "none"]

Move(r, from, to) == step[r] = from /\ step' = [step EXCEPT ![r] = to]

OpenMap(r) ==
  /\ pc[r] = "idle" /\ Goto(r, "other")
  /\ \/ kind' = [kind EXCEPT ![r] = "register"] /\ Move(r, "none", "lock")
     \/ kind' = [kind EXCEPT ![r] = "activate"] /\ Move(r, "none", "search")
  /\ UNCHANGED <<emailAccount, bm, sid, acct, logins, lock, copy, late>>

(* SendActiveEmail takes the map's lock itself ...                         *)
Lock(r) ==
  /\ lock = {} /\ Move(r, "lock", "search")
  /\ lock' = {r}
  /\ UNCHANGED <<sessionVars, copy, late>>

(* ... and calls Get under it, to find an id that is not in use.           *)
CopyReceiver(r) ==
  /\ Move(r, "search", "get")
  /\ copy' = [copy EXCEPT ![r] = IF lock = {} THEN "free" ELSE "held"]
  /\ late' = IF lock = {} THEN late ELSE late \cup {r}
  /\ UNCHANGED <<sessionVars, lock>>

(* Mutant: Get reads the map without the lock of its receiver.             *)
GetUnlocked(r) ==
  /\ Move(r, "get", "answered")
  /\ UNCHANGED <<sessionVars, lock, copy, late>>

(* RLock on the copy: a copy of a held lock is never free.  The map is     *)
(* empty, as no registration gets as far as the Set: an activation that    *)
(* does look it up is sent to the login page.                              *)
GetId(r) ==
  /\ copy[r] = "free" /\ Move(r, "get", "answered")
  /\ UNCHANGED <<sessionVars, lock, copy, late>>

PagesNext ==
  \/ SessionNext /\ UNCHANGED mapVars
  \/ \E r \in Visit : OpenMap(r) \/ Lock(r) \/ CopyReceiver(r) \/ GetId(r)

PagesSpec == PagesInit /\ [][PagesNext]_pageVars

-----------------------------------------------------------------------------
(* Properties                                                              *)

PagesTypeOK ==
  /\ SessionTypeOK
  /\ lock \subseteq Visit /\ late \subseteq Visit
  /\ copy \in [Visit -> {"none", "free", "held"}]
  /\ step \in [Visit -> {"none", "lock", "search", "get", "answered"}]

(* What one registration does to all others: from its Lock on, nobody who  *)
(* asks the map (synmap.go:16) is ever answered, be it to register or to   *)
(* activate, and nobody who asked before it registers any more.            *)
NoneAnsweredLate == \A r \in Visit : step[r] = "answered" => r \notin late /\ kind[r] = "activate"
=============================================================================
