------------------------ MODULE SubscriptionsProofs ------------------------
(***************************************************************************)
(* Proofs about Subscriptions, for any offices, subscriptions and calls    *)
(* and any faults.  The lemmas about the token task are used as they are:  *)
(* what the composition adds to it is that a panic anywhere in the process *)
(* ends the task too, which they allow.                                    *)
(***************************************************************************)
EXTENDS Subscriptions, TokenTaskProofs

(* The domain a token is asked for is one the task can be asked about.     *)
DomainOK == domain \in [Sub -> Key]

LEMMA SubDomains ==
  ASSUME TypeOK, DomainOK, [SubNext]_allVars
  PROVE  DomainOK'
<1> USE SubAssumption DEF DomainOK
<1>1. \A s \in Sub : /\ ResourceId[s].rest \in Key
                     /\ \A row \in UNION {OfficeOf(t) : t \in ResourceId[s].sub} : row.domain \in Key
  <2>1. \A s \in Sub : ResourceId[s] \in Identifier
    OBVIOUS
  <2>2. \A t : \A row \in OfficeOf(t) : row \in OfficeApp
    BY DEF OfficeOf, TypeOK
  <2>3. \A row \in OfficeApp : row.domain \in Key
    BY DEF OfficeApp
  <2> QED BY <2>1, <2>2, <2>3 DEF Identifier
<1>2. NoDomain \in Key
  BY DEF Key
<1>3. CASE \/ TokenStep \/ TaskStops \/ StartUp \/ NextStep \/ DaemonWaits \/ Tick \/ DaemonStops
           \/ \E c \in Call, d \in Domain : OtherCall(c, d)
           \/ \E s \in Sub, c \in Call : AskToken(s, c)
           \/ UNCHANGED allVars
  BY <1>3 DEF TokenStep, TaskStops, StartUp, NextStep, DaemonWaits, Tick, DaemonStops, OtherCall,
              AskToken, allVars, subVars, syncVars
<1>4. CASE SubEnds
  BY <1>2, <1>4 DEF SubEnds
<1>5. ASSUME NEW s \in Sub, Identify(s) PROVE DomainOK'
  <2>1. domain' = domain \/ \E d \in Key : domain' = [domain EXCEPT ![s] = d]
    BY <1>1, <1>5 DEF Identify
  <2> QED BY <2>1
<1>6. ASSUME NEW s \in Sub, Request(s) PROVE DomainOK'
  BY <1>2, <1>6 DEF Request
<1>7. CASE SyncAllSubcribeOfficeResource \/ \E t \in {"main", "daemon"} : UpdateAllSubcribeOfficeResource(t)
  BY <1>4, <1>7 DEF SyncAllSubcribeOfficeResource, UpdateAllSubcribeOfficeResource, syncVars
<1>8. ASSUME NEW s \in Sub, UpdateSubscription(s) PROVE DomainOK'
  BY <1>4, <1>8 DEF UpdateSubscription, syncVars
<1> QED BY <1>3, <1>4, <1>5, <1>6, <1>7, <1>8 DEF SubNext, SubCrash

(* A step of the composition is a step of the token task, or leaves it     *)
(* alone, or ends it.                                                      *)
LEMMA StepsOfTheTask ==
  ASSUME DomainOK, [SubNext]_allVars
  PROVE  [Next]_vars \/ ProcessEnds
<1>1. CASE TokenStep \/ TaskStops \/ StartUp
  BY <1>1 DEF TokenStep, TaskStops, StartUp, Next
<1>2. CASE \/ NextStep \/ DaemonWaits \/ Tick \/ DaemonStops
           \/ \E s \in Sub : Identify(s) \/ Request(s)
           \/ UNCHANGED allVars
  BY <1>2 DEF NextStep, DaemonWaits, Tick, DaemonStops, Identify, Request, allVars
<1>3. CASE SubCrash \/ SubEnds
  BY <1>3 DEF SubCrash, SubEnds
<1>4. CASE SyncAllSubcribeOfficeResource \/ \E t \in {"main", "daemon"} : UpdateAllSubcribeOfficeResource(t)
  BY <1>4 DEF SyncAllSubcribeOfficeResource, UpdateAllSubcribeOfficeResource, SubEnds
<1>5. CASE \E s \in Sub : UpdateSubscription(s)
  BY <1>5 DEF UpdateSubscription, SubEnds
<1>6. CASE \E c \in Call, d \in Domain : OtherCall(c, d)
  BY <1>6 DEF OtherCall, Next, Key
<1>7. ASSUME NEW s \in Sub, NEW c \in Call, AskToken(s, c) PROVE Next
  <2>1. ReadRow(c, domain[s]) /\ domain[s] \in Key
    BY <1>7 DEF AskToken, DomainOK
  <2> QED BY <2>1 DEF Next
<1> QED BY <1>1, <1>2, <1>3, <1>4, <1>5, <1>6, <1>7 DEF SubNext

(* What the proofs about the token task need of its own invariants.        *)
TaskInv == TypeOK /\ ListInv /\ FlightInv /\ StrandInv /\ LastIsOwn /\ DomainOK

(* They hold in the composition as they hold for the task alone.           *)
LEMMA TaskInvariant == SubSpec => []TaskInv
<1>1. SubInit => TaskInv
  <2> SUFFICES ASSUME SubInit PROVE TaskInv
    OBVIOUS
  <2>1. Init
    BY DEF SubInit
  <2>2. DomainOK
    BY DEF SubInit, DomainOK, Key
  <2>3. LastIsOwn
    BY <2>1 DEF Init, LastIsOwn
  <2> QED BY <2>1, <2>2, <2>3, TypeInit, ListInvInit, FlightInvInit, StrandInvInit DEF TaskInv
<1>2. TaskInv /\ [SubNext]_allVars => TaskInv'
  <2> SUFFICES ASSUME TaskInv, [SubNext]_allVars PROVE TaskInv'
    OBVIOUS
  <2>1. [Next]_vars \/ ProcessEnds
    BY StepsOfTheTask DEF TaskInv
  <2> QED
    BY <2>1, SubDomains, TypeStep, ListInvStep, FlightInvStep, StrandInvStep, LastIsOwnStep DEF TaskInv
<1> QED BY <1>1, <1>2, PTL DEF SubSpec

(* What the token task promises its callers it also promises in a process  *)
(* whose other goroutines may panic at any moment: no channel that nobody  *)
(* receives from is listed, no waiting caller is forgotten, one fetch at a *)
(* time works for a named domain, and only a success strands callers       *)
(* (update_token.go).                                                      *)
THEOREM TaskInTheProcess ==
  SubSpec => [](TypeOK /\ ListedAreWaiting /\ WaitersAreListed /\ SingleFlight /\ OnlySuccessStrands)
<1>1. TaskInv => TypeOK /\ ListedAreWaiting /\ WaitersAreListed /\ SingleFlight /\ OnlySuccessStrands
  BY DEF TaskInv, ListInv, FlightInv, OneFlight, SingleFlight, StrandInv, Stranded, Succeeded, OnlySuccessStrands
<1> QED BY <1>1, TaskInvariant, PTL

-----------------------------------------------------------------------------
(* Offices and the subscriptions that refer to them by id                  *)

(* A failure is never forgotten: what a fetch has in hand when it fails it *)
(* keeps.                                                                  *)
LEMMA FailureStays ==
  ASSUME TypeOK, FlightInv, [Next]_vars \/ ProcessEnds, NEW d, Failed(d)
  PROVE  Failed(d)'
<1>1. PICK c \in Call : fpc[c] \notin {"none", "fetch"} /\ fo[c].status = DELETED /\ fo[c].domain = d
  BY DEF Failed
<1> SUFFICES fpc'[c] \notin {"none", "fetch"} /\ fo'[c] = fo[c]
  BY <1>1 DEF Failed
<1>2. CASE \/ StartUpdateAllTokenTask \/ StopFileServer \/ TakeResult \/ Deliver \/ UNCHANGED vars
           \/ \E b \in Call, k \in Key : ReadRow(b, k)
  BY <1>1, <1>2 DEF StartUpdateAllTokenTask, StopFileServer, TakeResult, Deliver, ReadRow, vars, fetchVars
<1>3. CASE ProcessEnds
  BY <1>1, <1>3 DEF ProcessEnds
<1>4. ASSUME NEW b \in Call, HandleRequest(b) PROVE fpc'[c] \notin {"none", "fetch"} /\ fo'[c] = fo[c]
  <2>1. pc[b] = "send" /\ fo' = fo /\ (b # c => fpc'[c] = fpc[c])
    BY <1>4 DEF HandleRequest, TypeOK
  <2>2. b # c
    BY <1>1, <2>1 DEF FlightInv
  <2> QED BY <1>1, <2>1, <2>2
<1>5. ASSUME NEW b \in Call, FetchToken(b) PROVE fpc'[c] \notin {"none", "fetch"} /\ fo'[c] = fo[c]
  BY <1>1, <1>5 DEF FetchToken, TypeOK
<1>6. ASSUME NEW b \in Call, SelectRow(b) \/ DeleteRow(b) \/ UpsertRow(b) \/ SendResult(b)
      PROVE  fpc'[c] \notin {"none", "fetch"} /\ fo'[c] = fo[c]
  BY <1>1, <1>6 DEF SelectRow, DeleteRow, UpsertRow, SendResult, TypeOK
<1> QED BY <1>2, <1>3, <1>4, <1>5, <1>6 DEF Next, Crash, Fetch

(* An office is where it was when the process first started, or a fetch    *)
(* for it has failed.                                                      *)
Rooted ==
  \A row \in InitialTable :
    \/ row.domain = NoDomain
    \/ Failed(row.domain)
    \/ \E r \in office_app : r.id = row.id /\ r.domain = row.domain

(* What has a domain and is written was marked: a success has none.        *)
SuccessIsUnnamed ==
  \A c \in Call : fo[c].domain # NoDomain => fo[c].status = DELETED /\ fpc[c] \notin {"none", "fetch"}

LEMMA SuccessStep ==
  ASSUME TypeOK, FlightInv, SuccessIsUnnamed, [Next]_vars \/ ProcessEnds
  PROVE  SuccessIsUnnamed'
<1>1. CASE \/ StartUpdateAllTokenTask \/ StopFileServer \/ TakeResult \/ Deliver \/ UNCHANGED vars
           \/ \E b \in Call, k \in Key : ReadRow(b, k)
  BY <1>1 DEF StartUpdateAllTokenTask, StopFileServer, TakeResult, Deliver, ReadRow, vars, fetchVars,
              SuccessIsUnnamed
<1>2. CASE ProcessEnds
  BY <1>2 DEF ProcessEnds, SuccessIsUnnamed
<1>3. ASSUME NEW b \in Call, HandleRequest(b) PROVE SuccessIsUnnamed'
  <2>1. pc[b] = "send" /\ fo' = fo /\ \A c \in Call : b # c => fpc'[c] = fpc[c]
    BY <1>3 DEF HandleRequest, TypeOK
  <2>2. fpc[b] = "none"
    BY <2>1 DEF FlightInv
  <2> QED BY <2>1, <2>2 DEF SuccessIsUnnamed
<1>4. ASSUME NEW b \in Call, FetchToken(b) PROVE SuccessIsUnnamed'
  <2>1. /\ fpc'[b] = "select"
        /\ \A c \in Call : c # b => fpc'[c] = fpc[c] /\ fo'[c] = fo[c]
        /\ \/ fo'[b] = TokenResponse(req[b].domain)
           \/ fo'[b] = [req[b] EXCEPT !.status = DELETED]
    BY <1>4 DEF FetchToken, TypeOK
  <2>2. fo'[b].domain # NoDomain => fo'[b].status = DELETED
    BY <2>1 DEF TokenResponse, TypeOK, OfficeApp
  <2> QED BY <2>1, <2>2 DEF SuccessIsUnnamed
<1>5. ASSUME NEW b \in Call, SelectRow(b) \/ DeleteRow(b) \/ UpsertRow(b) \/ SendResult(b)
      PROVE  SuccessIsUnnamed'
  <2>1. fo' = fo /\ \A c \in Call : fpc[c] \notin {"none", "fetch"} => fpc'[c] \notin {"none", "fetch"}
    BY <1>5 DEF SelectRow, DeleteRow, UpsertRow, SendResult, TypeOK
  <2> QED BY <2>1 DEF SuccessIsUnnamed
<1> QED BY <1>1, <1>2, <1>3, <1>4, <1>5 DEF Next, Crash, Fetch

(* A fetch deletes no row but that of its own office, and only one that    *)
(* failed has an office.                                                   *)
LEMMA RootedStep ==
  ASSUME TypeOK, FlightInv, LastIsOwn, SuccessIsUnnamed, Rooted, [Next]_vars \/ ProcessEnds
  PROVE  Rooted'
<1> SUFFICES ASSUME NEW row \in InitialTable, row.domain # NoDomain, ~Failed(row.domain)'
             PROVE  \E r \in office_app' : r.id = row.id /\ r.domain = row.domain
  BY DEF Rooted
<1>1. ~Failed(row.domain)
  BY FailureStays
<1>2. PICK r \in office_app : r.id = row.id /\ r.domain = row.domain
  BY <1>1 DEF Rooted
<1>3. CASE UNCHANGED tableVars
  BY <1>2, <1>3 DEF tableVars
<1>4. ASSUME NEW c \in Call, fpc[c] = "delete", office_app' = WithoutRow(office_app, last[c])
      PROVE  r \in office_app'
  <2>1. SUFFICES ASSUME r.id = last[c] PROVE FALSE
    BY <1>4 DEF WithoutRow
  <2>2. fo[c].domain = row.domain
    BY <1>2, <1>4, <2>1 DEF LastIsOwn
  <2>3. Failed(row.domain)
    BY <1>4, <2>2 DEF SuccessIsUnnamed, Failed
  <2> QED BY <1>1, <2>3
<1>5. ASSUME NEW c \in Call, lastId' = lastId + 1,
             office_app' = Upserted(office_app, fo[c], lastId')
      PROVE  \E s \in office_app' : s.id = r.id /\ s.domain = r.domain
  <2>1. office_app \subseteq OfficeApp /\ fo[c] \in OfficeApp /\ lastId' \in Nat
    BY <1>5 DEF TypeOK
  <2>2. \A x \in office_app : \E s \in Upserted(office_app, fo[c], lastId') : s.id = x.id /\ s.domain = x.domain
    BY <2>1, UpsertedRows
  <2> QED BY <1>5, <2>2
<1> QED BY <1>2, <1>3, <1>4, <1>5, TableSteps

(* What a subscription was stored with leads to its office until a fetch   *)
(* for that very office fails (subcribe.go:43, office_models.go:57-74).    *)
THEOREM LostOnlyByFailure == SubSpec => []DanglesOnlyByFailure
<1>1. SubInit => SuccessIsUnnamed /\ Rooted
  <2> SUFFICES ASSUME SubInit PROVE SuccessIsUnnamed /\ Rooted
    OBVIOUS
  <2>1. office_app = InitialTable /\ \A c \in Call : fo[c].domain = NoDomain
    BY DEF SubInit, Init, ZeroOffice
  <2> QED BY <2>1 DEF SuccessIsUnnamed, Rooted
<1>2. TaskInv /\ SuccessIsUnnamed /\ Rooted /\ [SubNext]_allVars => (SuccessIsUnnamed /\ Rooted)'
  BY StepsOfTheTask, SuccessStep, RootedStep DEF TaskInv
<1>3. Rooted => DanglesOnlyByFailure
  <2> SUFFICES ASSUME Rooted, NEW s \in Sub, Dangling(s)
               PROVE  \E row \in InitialTable :
                        row.id = OfficeId[s] /\ (row.domain = NoDomain \/ Failed(row.domain))
    BY DEF DanglesOnlyByFailure
  <2>1. PICK row \in InitialTable : row.id = OfficeId[s]
    BY SubAssumption
  <2>2. ~\E r \in office_app : r.id = row.id
    BY <2>1 DEF Dangling, OfficeOf
  <2> QED BY <2>1, <2>2 DEF Rooted
<1> QED BY <1>1, <1>2, <1>3, TaskInvariant, PTL DEF SubSpec

(* Keys are drawn in order, and no stored id is yet to be drawn.           *)
KeysDrawn == InitialId <= lastId

(* A subscription that has lost its office has lost it for good: neither a *)
(* later success nor a restart brings the row back under the id that was   *)
(* stored (office_models.go:64-72).                                        *)
THEOREM LostForGood == SubSpec => DanglingStays
<1>1. SubInit => KeysDrawn
  BY TableAssumption DEF SubInit, Init, KeysDrawn
<1>2. TaskInv /\ KeysDrawn /\ [SubNext]_allVars => KeysDrawn'
  <2> SUFFICES ASSUME TaskInv, KeysDrawn, [SubNext]_allVars PROVE KeysDrawn'
    OBVIOUS
  <2>1. UNCHANGED lastId \/ lastId' = lastId + 1
    BY StepsOfTheTask, TableSteps DEF TaskInv, tableVars
  <2> QED BY <2>1, TableAssumption DEF TaskInv, TypeOK, KeysDrawn
<1>3. TaskInv /\ KeysDrawn /\ [SubNext]_allVars => [\A s \in Sub : Dangling(s) => Dangling(s)']_allVars
  <2> SUFFICES ASSUME TaskInv, KeysDrawn, [SubNext]_allVars,
                      NEW s \in Sub, NEW row \in office_app', row.id = OfficeId[s]
               PROVE  \E r \in office_app : r.id = OfficeId[s]
    BY DEF Dangling, OfficeOf
  <2>1. TypeOK /\ lastId \in Nat /\ OfficeId[s] \in Nat /\ OfficeId[s] <= lastId
    <3>1. PICK r \in InitialTable : r.id = OfficeId[s]
      BY SubAssumption
    <3> QED BY <3>1, TableAssumption DEF TaskInv, TypeOK, KeysDrawn
  <2>2. CASE office_app' = office_app
    BY <2>2
  <2>3. ASSUME NEW c \in Call, office_app' = WithoutRow(office_app, last[c])
        PROVE  row \in office_app
    BY <2>3 DEF WithoutRow
  <2>4. ASSUME NEW c \in Call, lastId' = lastId + 1,
               office_app' = Upserted(office_app, fo[c], lastId')
        PROVE  \E r \in office_app : r.id = row.id
    <3>1. office_app \subseteq OfficeApp /\ fo[c] \in OfficeApp /\ lastId' \in Nat
      BY <2>1, <2>4 DEF TypeOK
    <3>2. row.id = lastId' \/ \E r \in office_app : r.id = row.id /\ r.domain = row.domain
      BY <2>4, <3>1, UpsertedRows
    <3>3. row.id # lastId'
      BY <2>1, <2>4
    <3> QED BY <3>2, <3>3
  <2> QED BY <2>2, <2>3, <2>4, StepsOfTheTask, TableSteps DEF TaskInv, tableVars
<1> QED BY <1>1, <1>2, <1>3, TaskInvariant, PTL DEF SubSpec, DanglingStays
=============================================================================
