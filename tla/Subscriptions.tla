--------------------------- MODULE Subscriptions ---------------------------
(***************************************************************************)
(* The office application as a whole: init (officeapp/controllers/office/  *)
(* init.go), the daemon that renews the subscriptions (subcribe.go), the   *)
(* goroutines that fetch the changes of a subscription (httpGet and Get of *)
(* default.go), composed with the token task they all depend on.           *)
(*                                                                         *)
(* The rows of office_subcribe are constants: no operation of the program  *)
(* that is called writes them.  The rows of office_app are not: a fetch of *)
(* the token task deletes a row and writes it back under a new id, which   *)
(* is where the two meet.                                                  *)
(***************************************************************************)
EXTENDS TokenTask

CONSTANTS Sub,        \* the rows of office_subcribe
          OfficeId,   \* [Sub -> Nat], their column office_id
          ResourceId  \* [Sub -> Identifier], their column resource_id

(* What Get can tell of an identifier: whether it contains a ".", the rows *)
(* of office_subcribe it is the subcribe_id of (the column is unique), and *)
(* what is left of it from the last "@" on, all of it when there is none.  *)
Identifier == [dotted : BOOLEAN, sub : SUBSET Sub, rest : Key]

ASSUME SubAssumption ==
  /\ ResourceId \in [Sub -> Identifier]
  /\ OfficeId \in [Sub -> {row.id : row \in InitialTable}]

VARIABLES
  main,     \* the goroutine of init: "off", at "sync", at "update", "served"
  daemon,   \* the daemon: "off", at "update", at "select", "stopped"
  todo,     \* the subscriptions left in the range loop of each of the two
  renewing, \* the subscriptions a PATCH is under way for
  sync,     \* per subscription, its httpGet: "none", at "identify", "token",
            \* "wait", "done"
  domain,   \* per subscription, the domain Get asks a token for
  callOf    \* per subscription, the set of the call to GetOfficeToken it made

syncVars == <<sync, domain, callOf>>
subVars  == <<main, daemon, todo, renewing, syncVars>>
allVars  == <<vars, subVars>>

(* What GetOfficeSubcribeList returns: an error is dropped, the list empty. *)
Listed(list) == list = Sub \/ (list = {} /\ "db" \in Faults)

SubInit ==
  /\ Init
  /\ main = "off" /\ daemon = "off" /\ renewing = {}
  /\ todo = [t \in {"main", "daemon"} |-> {}]
  /\ sync = [s \in Sub |-> "none"] /\ domain = [s \in Sub |-> NoDomain]
  /\ callOf = [s \in Sub |-> {}]

-----------------------------------------------------------------------------
(* A panic in any goroutine ends the process, like a crash.                *)
SubEnds ==
  /\ ProcessEnds
  /\ main' = "off" /\ daemon' = "off" /\ renewing' = {}
  /\ todo' = [t \in {"main", "daemon"} |-> {}]
  /\ sync' = [s \in Sub |-> "none"] /\ domain' = [s \in Sub |-> NoDomain]
  /\ callOf' = [s \in Sub |-> {}]

SubCrash == "crash" \in Faults /\ SubEnds

(* select * from office_app where id = office_id; Lost: it has no row, or  *)
(* the statement failed.                                                   *)
OfficeOf(s) == {row \in office_app : row.id = OfficeId[s]}
Lost(s) == OfficeOf(s) = {} \/ "db" \in Faults

(* The process starts: step 1 of init, and the list for step 2 is read.    *)
StartUp ==
  /\ StartUpdateAllTokenTask
  /\ main' = "sync"
  /\ \E list \in SUBSET Sub : Listed(list) /\ todo' = [todo EXCEPT !["main"] = list]
  /\ UNCHANGED <<daemon, renewing, syncVars>>

(* Mutant: the changes are fetched by init itself, not by a goroutine.     *)
SyncAllInline ==
  /\ main = "sync" /\ todo["main"] # {}
  /\ \E s \in todo["main"] :
       \/ /\ OfficeOf(s) # {} /\ sync[s] = "none"
          /\ sync' = [sync EXCEPT ![s] = "identify"]
          /\ UNCHANGED <<vars, main, daemon, todo, renewing, domain, callOf>>
       \/ /\ sync[s] = "done"
          /\ todo' = [todo EXCEPT !["main"] = @ \ {s}]
          /\ UNCHANGED <<vars, main, daemon, renewing, syncVars>>
       \/ sync[s] = "none" /\ Lost(s) /\ SubEnds

(* One round of the loop of SyncAllSubcribeOfficeResource, in init.        *)
SyncAllSubcribeOfficeResource ==
  /\ main = "sync" /\ todo["main"] # {}
  /\ \E s \in todo["main"] :
       \/ /\ OfficeOf(s) # {}
          /\ sync' = [sync EXCEPT ![s] = "identify"]
          /\ todo' = [todo EXCEPT !["main"] = @ \ {s}]
          /\ UNCHANGED <<vars, main, daemon, renewing, domain, callOf>>
       \/ Lost(s) /\ SubEnds

(* One round of the loop of UpdateAllSubcribeOfficeResource, which init    *)
(* runs once and the daemon once when it starts and once per tick.  The    *)
(* rounds do not wait for the requests of the rounds before.               *)
UpdateAllSubcribeOfficeResource(t) ==
  /\ IF t = "main" THEN main = "update" ELSE daemon = "update"
  /\ \E s \in todo[t] :
       \/ /\ OfficeOf(s) # {}
          /\ renewing' = renewing \cup {s}
          /\ todo' = [todo EXCEPT ![t] = @ \ {s}]
          /\ UNCHANGED <<vars, main, daemon, syncVars>>
       \/ Lost(s) /\ SubEnds

(* A loop of init is done: the next one reads the list, and after the last *)
(* the daemon is started, which reads it too.                              *)
NextStep ==
  /\ todo["main"] = {}
  /\ \E list \in SUBSET Sub :
       /\ Listed(list)
       /\ \/ /\ main = "sync" /\ main' = "update"
             /\ todo' = [todo EXCEPT !["main"] = list] /\ UNCHANGED daemon
          \/ /\ main = "update" /\ main' = "served" /\ daemon' = "update"
             /\ todo' = [todo EXCEPT !["daemon"] = list]
  /\ UNCHANGED <<vars, renewing, syncVars>>

-----------------------------------------------------------------------------
(* The daemon                                                              *)

DaemonWaits ==
  /\ daemon = "update" /\ todo["daemon"] = {}
  /\ daemon' = "select"
  /\ UNCHANGED <<vars, main, todo, renewing, syncVars>>

Tick ==
  /\ daemon = "select"
  /\ daemon' = "update"
  /\ \E list \in SUBSET Sub : Listed(list) /\ todo' = [todo EXCEPT !["daemon"] = list]
  /\ UNCHANGED <<vars, main, renewing, syncVars>>

(* quit is the channel StopFileServer sends to for the token task: either  *)
(* of the two may receive.                                                 *)
DaemonStops ==
  /\ daemon = "select"
  /\ daemon' = "stopped"
  /\ UNCHANGED <<vars, main, todo, renewing, syncVars>>

(* updateSubscription: the answer is not looked at, but without one the    *)
(* nil response is.                                                        *)
UpdateSubscription(s) ==
  /\ s \in renewing
  /\ \/ /\ renewing' = renewing \ {s}
        /\ UNCHANGED <<vars, main, daemon, todo, syncVars>>
     \/ "net" \in Faults /\ SubEnds

-----------------------------------------------------------------------------
(* The goroutine that runs httpGet for a subscription: one Get per page.   *)

(* Get looks for the domain: an identifier with a "." is taken for a       *)
(* subscription, any other for a domain or the address of a user.          *)
Identify(s) ==
  /\ sync[s] = "identify"
  /\ LET known == UNION {OfficeOf(t) : t \in ResourceId[s].sub} IN
     \/ /\ ResourceId[s].dotted
        /\ \E row \in known : domain' = [domain EXCEPT ![s] = row.domain]
        /\ sync' = [sync EXCEPT ![s] = "token"]
     \/ /\ ResourceId[s].dotted /\ (known = {} \/ "db" \in Faults)
        /\ sync' = [sync EXCEPT ![s] = "done"]
        /\ UNCHANGED domain
     \/ /\ ~ResourceId[s].dotted
        /\ domain' = [domain EXCEPT ![s] = ResourceId[s].rest]
        /\ sync' = [sync EXCEPT ![s] = "token"]
  /\ UNCHANGED <<vars, main, daemon, todo, renewing, callOf>>

AskToken(s, c) ==
  /\ sync[s] = "token"
  /\ ReadRow(c, domain[s])
  /\ sync' = [sync EXCEPT ![s] = "wait"]
  /\ callOf' = [callOf EXCEPT ![s] = {c}]
  /\ UNCHANGED <<main, daemon, todo, renewing, domain>>

(* The call returns, with err nil, and the page is requested: a 401, which *)
(* is also what becomes of every failure to connect, and a page that has a *)
(* next one lead to another round.                                         *)
Request(s) ==
  /\ sync[s] = "wait"
  /\ \A c \in callOf[s] : pc[c] = "returned"
  /\ \E then \in {"identify", "done"} : sync' = [sync EXCEPT ![s] = then]
  /\ callOf' = [callOf EXCEPT ![s] = {}] /\ domain' = [domain EXCEPT ![s] = NoDomain]
  /\ UNCHANGED <<vars, main, daemon, todo, renewing>>

(* Any other caller of GetOfficeToken, once requests are served.           *)
OtherCall(c, d) == main = "served" /\ ReadRow(c, d) /\ UNCHANGED subVars

TokenStep ==
  /\ TakeResult \/ Deliver \/ \E c \in Call : HandleRequest(c) \/ Fetch(c)
  /\ UNCHANGED subVars

TaskStops == StopFileServer /\ UNCHANGED subVars

SubNext ==
  \/ TokenStep \/ TaskStops \/ SubCrash \/ StartUp \/ SyncAllSubcribeOfficeResource \/ NextStep
  \/ DaemonWaits \/ Tick \/ DaemonStops
  \/ \E t \in {"main", "daemon"} : UpdateAllSubcribeOfficeResource(t)
  \/ \E s \in Sub : UpdateSubscription(s) \/ Identify(s) \/ Request(s) \/ \E c \in Call : AskToken(s, c)
  \/ \E c \in Call, d \in Domain : OtherCall(c, d)

SubSpec == SubInit /\ [][SubNext]_allVars

(* Only the goroutine of init is sure to run.                              *)
InitRuns ==
  SyncAllSubcribeOfficeResource \/ UpdateAllSubcribeOfficeResource("main") \/ NextStep

SubFairSpec == SubSpec /\ WF_allVars(InitRuns)
-----------------------------------------------------------------------------
(* Properties                                                              *)

(* A subscription whose office has no row under the id it was stored with. *)
Dangling(s) == OfficeOf(s) = {}

(* A fetch for d has failed, in this life of the process or an earlier one.*)
Failed(d) == \E c \in Call : fpc[c] \notin {"none", "fetch"} /\ fo[c].status = DELETED /\ fo[c].domain = d

(* What a subscription was stored with leads to its office until a fetch   *)
(* for that very office fails: no success, no failure of another office,   *)
(* no crash and no failed statement makes the daemon lose a subscription   *)
(* (subcribe.go:43).  A row without a domain is excepted: it is not that   *)
(* of an office, and the next successful fetch of any office deletes it.   *)
DanglesOnlyByFailure ==
  \A s \in Sub : Dangling(s) =>
    \E row \in InitialTable :
      row.id = OfficeId[s] /\ (row.domain = NoDomain \/ Failed(row.domain))

(* A subscription that does not lead to its office any more never does     *)
(* again: the office comes back under a fresh id each time (InsertOrUpdate *)
(* without the key), so that restarting the process does not help.         *)
DanglingStays == [][\A s \in Sub : Dangling(s) => Dangling(s)']_allVars

(* "folow steps must be executed by office key: 1. start token update      *)
(* thread, 2. get changes data, 3. update subcribe time, 4. start update   *)
(* subcribe thread" (init.go:31-38): a start of the process gets to the    *)
(* last step or ends in a panic.  It never waits: neither for the token    *)
(* task nor for the goroutines of step 2, which may never get a token.     *)
StartsOrEnds == main = "sync" ~> main \in {"served", "off"}
=============================================================================
