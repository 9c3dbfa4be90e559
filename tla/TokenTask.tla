----------------------------- MODULE TokenTask -----------------------------
(***************************************************************************)
(* The token task of the office application (officeapp/controllers/office/ *)
(* update_token.go, with getTokenByTenant of auth.go and                   *)
(* InsertOrUpdateOffice of models/office_models.go).                       *)
(*                                                                         *)
(* Any number of goroutines call GetOfficeToken.  Each reads the row of    *)
(* its domain, sends a request with a fresh unbuffered channel to the task *)
(* goroutine and blocks on that channel.  The task keeps, per domain, the  *)
(* list of the channels waiting for it; the first request of a domain      *)
(* starts a fetch goroutine, which gets a token, writes it to the database *)
(* and sends it into the channel "result"; the task then sends the result  *)
(* to every channel listed under the result's domain and forgets the list. *)
(*                                                                         *)
(* A member of Call is one invocation of GetOfficeToken.  It stands for    *)
(* its goroutine, for the channel it creates and for the fetch goroutine   *)
(* started for its request, if there is one: each of these belongs to one  *)
(* invocation and is not used again.                                       *)
(***************************************************************************)
EXTENDS OfficeTable, Sequences

CONSTANTS Call,         \* the invocations of GetOfficeToken
          ResultCap,    \* capacity of the channel "result" (1000 in the code)
          InitialTable, \* the rows there are when the model starts
          InitialId,    \* and the last automatic key given out by then
          Faults        \* what may fail: "db" a statement, "net" the connection
                        \* to the calendar service, "crash" the process

ASSUME ResultCapAssumption == ResultCap \in Nat \ {0}
ASSUME FaultsAssumption    == Faults \subseteq {"db", "net", "crash"}
ASSUME TableAssumption ==
  /\ InitialTable \subseteq OfficeApp /\ InitialId \in Nat
  /\ \A row \in InitialTable : row.id \in 1 .. InitialId
  /\ \A r, s \in InitialTable : r.id = s.id \/ r.domain = s.domain => r = s

(* The named domains that have a row when the model starts.                *)
Registered == {row.domain : row \in InitialTable} \ {NoDomain}

VARIABLES
  office_app, \* the table
  lastId,     \* the last automatic key given out
  loop,       \* the task: "off", at "select", in the "deliver" loop, "returned"
  reqList,    \* req_list; <<>> is "no entry": an entry has a channel or more
  result,     \* the buffered channel
  cur, next,  \* the result being delivered and the index of the next channel
  pc,         \* per call: "idle", "send", "wait", "returned", "lost"
        \* per call: the domain it was made for
  req,        \* per call: the OfficeApp in its request
  got,        \* per call: the OfficeApp it received
  fpc,        \* its fetch: "none", "fetch", "select", "delete", "upsert",
              \*            "result", "done", "lost"
  fo,         \* its fetch: office
  last        \* its fetch: the id of the row found by InsertOrUpdateOffice

tableVars == <<office_app, lastId>>
loopVars  == <<loop, reqList, cur, next>>
callVars  == <<pc, req, got>>
fetchVars == <<fpc, fo, last>>
vars == <<tableVars, loopVars, result, callVars, fetchVars>>

-----------------------------------------------------------------------------

(* The process has started and init() has not begun.  The rows were        *)
(* entered from outside: the program has no operation that creates one.    *)
Init ==
  /\ office_app = InitialTable /\ lastId = InitialId
  /\ loop = "off" /\ reqList = [k \in Key |-> <<>>] /\ cur = ZeroOffice /\ next = 0
  /\ result = <<>>
  /\ pc = [c \in Call |-> "idle"]
  /\ req = [c \in Call |-> ZeroOffice] /\ got = [c \in Call |-> ZeroOffice]
  /\ fpc = [c \in Call |-> "none"] /\ fo = [c \in Call |-> ZeroOffice]
  /\ last = [c \in Call |-> 0]

(* UpdateAllTokenTaskRunning is TRUE from here on, also after the task has *)
(* returned, so that it is started once in the life of a process: a second *)
(* call panics, which is a crash.                                          *)
StartUpdateAllTokenTask ==
  /\ loop = "off"
  /\ loop' = "select"
  /\ UNCHANGED <<tableVars, reqList, cur, next, result, callVars, fetchVars>>

-----------------------------------------------------------------------------
(* GetOfficeToken                                                          *)

(* The row is read; an error, a missing row included, is dropped and       *)
(* leaves the zero OfficeApp.  TokenIsValide is constantly FALSE: every     *)
(* call goes on to send a request that carries what was read.              *)
ReadRow(c, d) ==
  /\ loop # "off" /\ pc[c] = "idle"
  /\ pc' = [pc EXCEPT ![c] = "send"]
  /\ \/ \E row \in RowsOf(office_app, d) : req' = [req EXCEPT ![c] = row]
     \/ /\ RowsOf(office_app, d) = {} \/ "db" \in Faults
        /\ req' = [req EXCEPT ![c] = ZeroOffice]
  /\ UNCHANGED <<tableVars, loopVars, result, got, fetchVars>>

-----------------------------------------------------------------------------
(* The task goroutine                                                      *)

(* Mutants: a second request replaces the list; every request fetches.     *)
HandleRequestReplacing(c) ==
  LET k == req[c].domain IN
  /\ loop = "select" /\ pc[c] = "send"
  /\ pc' = [pc EXCEPT ![c] = "wait"]
  /\ reqList' = [reqList EXCEPT ![k] = <<c>>]
  /\ fpc' = [fpc EXCEPT ![c] = IF reqList[k] = <<>> THEN "fetch" ELSE @]
  /\ UNCHANGED <<tableVars, loop, cur, next, result, req, got, fo, last>>
HandleRequestFetching(c) ==
  LET k == req[c].domain IN
  /\ loop = "select" /\ pc[c] = "send"
  /\ pc' = [pc EXCEPT ![c] = "wait"]
  /\ reqList' = [reqList EXCEPT ![k] = Append(@, c)]
  /\ fpc' = [fpc EXCEPT ![c] = "fetch"]
  /\ UNCHANGED <<tableVars, loop, cur, next, result, req, got, fo, last>>

(* The rendezvous on TokenHandleChan and the whole select case: nothing in *)
(* it blocks and nothing in it is shared.                                  *)
HandleRequest(c) ==
  LET k == req[c].domain IN
  /\ loop = "select" /\ pc[c] = "send"
  /\ pc' = [pc EXCEPT ![c] = "wait"]
  /\ reqList' = [reqList EXCEPT ![k] = Append(@, c)]
  /\ fpc' = [fpc EXCEPT ![c] = IF reqList[k] = <<>> THEN "fetch" ELSE @]
  /\ UNCHANGED <<tableVars, loop, cur, next, result, req, got, fo, last>>

(* Mutant: a result is taken only when somebody is listed for it.          *)
TakeResultListed ==
  /\ loop = "select" /\ result # <<>>
  /\ reqList[Head(result).domain] # <<>>
  /\ result' = Tail(result)
  /\ loop' = "deliver" /\ cur' = Head(result) /\ next' = 1
  /\ UNCHANGED <<tableVars, reqList, callVars, fetchVars>>

(* A result is taken.  With no entry for its domain it is dropped.         *)
TakeResult ==
  /\ loop = "select" /\ result # <<>>
  /\ result' = Tail(result)
  /\ IF reqList[Head(result).domain] # <<>>
     THEN loop' = "deliver" /\ cur' = Head(result) /\ next' = 1
     ELSE UNCHANGED <<loop, cur, next>>
  /\ UNCHANGED <<tableVars, reqList, callVars, fetchVars>>

(* Mutant: the entry is not deleted.                                       *)
DeliverKeeping ==
  LET k == cur.domain
      c == reqList[k][next] IN
  /\ loop = "deliver" /\ pc[c] = "wait"
  /\ got' = [got EXCEPT ![c] = cur]
  /\ pc' = [pc EXCEPT ![c] = "returned"]
  /\ IF next = Len(reqList[k])
     THEN loop' = "select" /\ cur' = ZeroOffice /\ next' = 0
     ELSE next' = next + 1 /\ UNCHANGED <<loop, cur>>
  /\ UNCHANGED <<tableVars, reqList, result, req, fetchVars>>

(* One round of the range loop: an unbuffered send, which needs the caller *)
(* at its receive.  After the last one the entry is deleted.               *)
Deliver ==
  LET k == cur.domain
      c == reqList[k][next] IN
  /\ loop = "deliver" /\ pc[c] = "wait"
  /\ got' = [got EXCEPT ![c] = cur]
  /\ pc' = [pc EXCEPT ![c] = "returned"]
  /\ IF next = Len(reqList[k])
     THEN /\ loop' = "select" /\ cur' = ZeroOffice /\ next' = 0
          /\ reqList' = [reqList EXCEPT ![k] = <<>>]
     ELSE next' = next + 1 /\ UNCHANGED <<loop, cur, reqList>>
  /\ UNCHANGED <<tableVars, result, req, fetchVars>>

(* The task receives the quit StopFileServer sends, and returns.           *)
StopFileServer ==
  /\ loop = "select"
  /\ loop' = "returned"
  /\ UNCHANGED <<tableVars, reqList, cur, next, result, callVars, fetchVars>>

-----------------------------------------------------------------------------
(* The fetch goroutine                                                     *)

(* Mutant: the answer names the office it is for.                          *)
TokenResponseNamed(k) == [id |-> 0, domain |-> k, token |-> k, status |-> UNSET]

(* What getTokenByTenant returns without an error: the body of the token   *)
(* endpoint decoded into an OfficeApp.  The body has no "domain", "tenant",*)
(* "id" or "status".                                                       *)
TokenResponse(k) == [id |-> 0, domain |-> NoDomain, token |-> k, status |-> UNSET]

(* Mutant: on an error a new OfficeApp is marked instead of the request's. *)
FetchTokenUnnamed(c) ==
  /\ fpc[c] = "fetch"
  /\ \/ fo' = [fo EXCEPT ![c] = TokenResponse(req[c].domain)]
     \/ fo' = [fo EXCEPT ![c] = [ZeroOffice EXCEPT !.status = DELETED]]
  /\ fpc' = [fpc EXCEPT ![c] = "select"]
  /\ UNCHANGED <<tableVars, loopVars, result, callVars, last>>

(* getTokenByTenant, and on an error the request's own OfficeApp, DELETED. *)
FetchToken(c) ==
  /\ fpc[c] = "fetch"
  /\ \/ fo' = [fo EXCEPT ![c] = TokenResponse(req[c].domain)]
     \/ fo' = [fo EXCEPT ![c] = [req[c] EXCEPT !.status = DELETED]]
  /\ fpc' = [fpc EXCEPT ![c] = "select"]
  /\ UNCHANGED <<tableVars, loopVars, result, callVars, last>>

(* InsertOrUpdateOffice, one statement per step.  Its errors are dropped.  *)
SelectRow(c) ==
  /\ fpc[c] = "select"
  /\ \/ \E row \in RowsOf(office_app, fo[c].domain) :
          /\ last' = [last EXCEPT ![c] = row.id]
          /\ fpc' = [fpc EXCEPT ![c] = "delete"]
     \/ /\ RowsOf(office_app, fo[c].domain) = {} \/ "db" \in Faults
        /\ fpc' = [fpc EXCEPT ![c] = "upsert"]
        /\ UNCHANGED last
  /\ UNCHANGED <<tableVars, loopVars, result, callVars, fo>>

DeleteRow(c) ==
  /\ fpc[c] = "delete"
  /\ \/ office_app' = WithoutRow(office_app, last[c])
     \/ "db" \in Faults /\ UNCHANGED office_app
  /\ fpc' = [fpc EXCEPT ![c] = "upsert"]
  /\ last' = [last EXCEPT ![c] = 0]
  /\ UNCHANGED <<lastId, loopVars, result, callVars, fo>>

(* A key is drawn whether or not the row turns out to be there.            *)
UpsertRow(c) ==
  /\ fpc[c] = "upsert"
  /\ lastId' = lastId + 1
  /\ \/ office_app' = Upserted(office_app, fo[c], lastId')
     \/ "db" \in Faults /\ UNCHANGED office_app
  /\ fpc' = [fpc EXCEPT ![c] = "result"]
  /\ UNCHANGED <<loopVars, result, callVars, fo, last>>

SendResult(c) ==
  /\ fpc[c] = "result" /\ Len(result) < ResultCap
  /\ result' = Append(result, fo[c])
  /\ fpc' = [fpc EXCEPT ![c] = "done"]
  /\ UNCHANGED <<tableVars, loopVars, callVars, fo, last>>

-----------------------------------------------------------------------------
(* The process ends: all but the table is lost.                            *)
ProcessEnds ==
  /\ loop # "off"
  /\ loop' = "off" /\ reqList' = [k \in Key |-> <<>>] /\ cur' = ZeroOffice /\ next' = 0
  /\ result' = <<>>
  /\ pc'  = [c \in Call |-> IF pc[c] \in {"send", "wait"} THEN "lost" ELSE pc[c]]
  /\ fpc' = [c \in Call |-> IF fpc[c] = "none" THEN "none" ELSE "lost"]
  /\ last' = [c \in Call |-> 0]
  /\ UNCHANGED <<tableVars, req, got, fo>>

Crash == "crash" \in Faults /\ ProcessEnds

Fetch(c) == FetchToken(c) \/ SelectRow(c) \/ DeleteRow(c) \/ UpsertRow(c) \/ SendResult(c)

Next ==
  \/ StartUpdateAllTokenTask \/ TakeResult \/ Deliver \/ StopFileServer \/ Crash
  \/ \E c \in Call : HandleRequest(c) \/ Fetch(c) \/ \E d \in Key : ReadRow(c, d)

Spec == Init /\ [][Next]_vars

(* A goroutine that can run does run, the token endpoint and the database  *)
(* answer, and select, which picks among its ready cases at random, does   *)
(* not pass over one of them for ever.  Nobody has to call GetOfficeToken  *)
(* or StopFileServer.                                                      *)
Fairness ==
  /\ WF_vars(StartUpdateAllTokenTask) /\ WF_vars(TakeResult) /\ WF_vars(Deliver)
  /\ \A c \in Call : WF_vars(HandleRequest(c)) /\ WF_vars(Fetch(c))

FairSpec == Spec /\ Fairness

-----------------------------------------------------------------------------
(* Properties                                                              *)

CallState  == {"idle", "send", "wait", "returned", "lost"}
FetchState == {"none", "fetch", "select", "delete", "upsert", "result", "done", "lost"}

(* The type of the state, and that the table is one MySQL can hold: the    *)
(* primary key and the unique column domain are.                           *)
TypeOK ==
  /\ office_app \in SUBSET OfficeApp /\ lastId \in Nat
  /\ \A row \in office_app : row.id \in 1 .. lastId
  /\ \A r, s \in office_app : r.id = s.id \/ r.domain = s.domain => r = s
  /\ loop \in {"off", "select", "deliver", "returned"}
  /\ reqList \in [Key -> Seq(Call)]
  /\ cur \in OfficeApp /\ next \in Nat
  /\ result \in Seq(OfficeApp)
  /\ pc \in [Call -> CallState]
  /\ req \in [Call -> OfficeApp] /\ got \in [Call -> OfficeApp]
  /\ fpc \in [Call -> FetchState] /\ fo \in [Call -> OfficeApp]
  /\ last \in [Call -> Nat]
  /\ loop = "deliver" => next \in 1 .. Len(reqList[cur.domain])

(* The positions of an entry whose channel has not been sent to.           *)
Unserved(k) ==
  {i \in 1 .. Len(reqList[k]) : loop = "deliver" /\ k = cur.domain => i >= next}

(* Every channel still to be served under a domain is one its call is      *)
(* blocked on, having asked for that domain: the unbuffered send of the    *)
(* delivery loop (update_token.go:33) always finds its receiver, and the   *)
(* task, which serves all domains, is never stuck in it.                   *)
ListedAreWaiting ==
  \A k \in Key : \A i \in Unserved(k) :
    LET c == reqList[k][i] IN pc[c] = "wait" /\ req[c].domain = k

(* No blocked call is forgotten: its channel is listed under the domain of *)
(* its request, once, until it has been served.                            *)
WaitersAreListed ==
  \A c \in Call : pc[c] = "wait" =>
    \E i \in Unserved(req[c].domain) :
      /\ reqList[req[c].domain][i] = c
      /\ \A j \in Unserved(req[c].domain) : reqList[req[c].domain][j] = c => j = i

(* The fetch goroutines at work for a domain.                              *)
Working == {"fetch", "select", "delete", "upsert", "result"}
Fetchers(d) == {c \in Call : fpc[c] \in Working /\ req[c].domain = d}

(* One fetch at a time for a named domain ("todo serizable by domain",     *)
(* update_token.go:50): no two goroutines rewrite the row of one office.   *)
(* It is not so for the empty domain, where every successful fetch, of     *)
(* whatever office, ends the entry while the fetch it started still runs.  *)
SingleFlight ==
  \A d \in Domain : \A b, c \in Fetchers(d) : b = c

(* Where the outcome of a fetch for d can be on its way to its callers.    *)
Queued(d) == {i \in 1 .. Len(result) : result[i].domain = d}
Delivering(d) == loop = "deliver" /\ cur.domain = d

(* What makes SingleFlight hold, from one step to the next: for a named    *)
(* domain there is at most one fetch, or one result in the channel, or one *)
(* result being delivered, and none of them without an entry in req_list.  *)
(* The entry is the lock of the domain (update_token.go:39-47) and the     *)
(* delivery that deletes it is the last thing the fetch causes.            *)
OneFlight(d) ==
  /\ \A b, c \in Fetchers(d) : b = c
  /\ \A i, j \in Queued(d) : i = j
  /\ Fetchers(d) # {} => Queued(d) = {} /\ ~Delivering(d)
  /\ Queued(d) # {} => ~Delivering(d)
  /\ reqList[d] = <<>> => Fetchers(d) = {} /\ Queued(d) = {}
FlightInv ==
  /\ \A c \in Call : pc[c] \in {"idle", "send"} => fpc[c] = "none"
  /\ \A c \in Call : fpc[c] \in Working \ {"fetch"} => fo[c].domain \in {NoDomain, req[c].domain}
  /\ \A d \in Domain : OneFlight(d)

(* Why a caller of a named domain can be left without anybody working for  *)
(* it: only because a fetch for that domain succeeded.  A fetch that fails *)
(* never strands the callers that joined it.                               *)
OnlySuccessStrands ==
  \A d \in Domain :
    reqList[d] # <<>> /\ Fetchers(d) = {} /\ Queued(d) = {} /\ ~Delivering(d) =>
    \E c \in Call : fpc[c] = "done" /\ req[c].domain = d /\ fo[c].status # DELETED

(* An office that has a row keeps one, but for the moment in which its one *)
(* fetch has deleted the row and not written it back (InsertOrUpdateOffice,*)
(* office_models.go:64-72), as long as no statement fails and the process  *)
(* does not end in that moment.                                            *)
RowKept ==
  Faults = {} => \A d \in Registered :
    RowsOf(office_app, d) = {} => \E c \in Fetchers(d) : fpc[c] = "upsert" /\ fo[c].domain = d

(* The calls in the delivery under way.                                    *)
BeingServed == {c \in Call : loop = "deliver" /\ pc[c] = "wait" /\ req[c].domain = cur.domain}
Asking == {c \in Call : pc[c] = "wait"} \ BeingServed

(* The task implements the service: taking a result is the step that       *)
(* answers everybody, and the sends that follow only hand the answer over. *)
AskingPairs == {<<c, req[c].domain>> : c \in Asking}
AnswerPairs ==
  {<<c, cur>> : c \in BeingServed} \cup {<<c, got[c]>> : c \in {b \in Call : pc[b] = "returned"}}
Service == INSTANCE TokenService WITH asking <- AskingPairs, answer <- AnswerPairs
ImplementsService == Service!Spec

(* While the task runs, a fetch that fails is made known to every caller   *)
(* that waits for its domain: the DELETED office reaches the channel       *)
(* "result", and from there all of them.                                   *)
FailureReachesAll ==
  \A c \in Call :
    /\ pc[c] = "wait"
    /\ \E b \in Call : /\ fpc[b] \in Working \ {"fetch"} /\ fo[b].status = DELETED
                      /\ req[b].domain = req[c].domain
    ~> pc[c] # "wait" \/ loop \in {"off", "returned"}

(* Every fetch gets rid of its result: no goroutine stays behind on a full *)
(* channel while the task runs, however small the channel.                 *)
FetchesEnd ==
  \A c \in Call : fpc[c] = "fetch" ~> fpc[c] \in {"done", "lost"} \/ loop = "returned"

(* "get office token ... this is maybe slow if toke need to be updated"    *)
(* (update_token.go:88-92): slow, but as long as the task is not stopped a *)
(* call that waits for its answer gets it.                                 *)
GetOfficeTokenReturns ==
  [](loop # "returned") => \A c \in Call : pc[c] = "wait" ~> pc[c] = "returned"
=============================================================================
