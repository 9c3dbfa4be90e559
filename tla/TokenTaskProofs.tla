-------------------------- MODULE TokenTaskProofs --------------------------
(***************************************************************************)
(* Proofs about TokenTask, for any set of calls and of domains, any        *)
(* capacity of the channel, any initial table and any faults.              *)
(***************************************************************************)
EXTENDS TokenTask, TLAPS

(* The zero OfficeApp and what a fetch makes of a request are OfficeApps.  *)
LEMMA OfficeTypes ==
  /\ ZeroOffice \in OfficeApp
  /\ \A k \in Key : TokenResponse(k) \in OfficeApp
  /\ \A office \in OfficeApp : [office EXCEPT !.status = DELETED] \in OfficeApp
BY DEF OfficeApp, ZeroOffice, TokenResponse, Key, Status, UNSET, CREATED, DELETED

(* A table MySQL can hold whose keys are among 1 .. n.                     *)
Held(table, n) ==
  /\ table \in SUBSET OfficeApp /\ n \in Nat
  /\ \A row \in table : row.id \in 1 .. n
  /\ \A r, s \in table : r.id = s.id \/ r.domain = s.domain => r = s

(* Deleting a row leaves such a table.                                     *)
LEMMA WithoutRowHeld ==
  ASSUME NEW table, NEW n, NEW id, Held(table, n)
  PROVE  Held(WithoutRow(table, id), n)
BY DEF Held, WithoutRow

(* So does InsertOrUpdate with the next automatic key.                     *)
LEMMA UpsertedHeld ==
  ASSUME NEW table, NEW n, NEW office \in OfficeApp, Held(table, n)
  PROVE  Held(Upserted(table, office, n + 1), n + 1)
<1>1. CASE RowsOf(table, office.domain) = {}
  <2> DEFINE new == [office EXCEPT !.id = n + 1]
  <2>1. /\ new \in OfficeApp /\ new.id = n + 1 /\ new.domain = office.domain
    BY DEF OfficeApp, Held
  <2>2. Upserted(table, office, n + 1) = table \cup {new}
    BY <1>1 DEF Upserted
  <2>3. \A row \in table : row.domain # new.domain /\ row.id # new.id
    BY <1>1, <2>1 DEF RowsOf, Held
  <2>4. n \in Nat /\ \A row \in table : row.id \in 1 .. n + 1
    BY DEF Held
  <2>5. n + 1 \in 1 .. n + 1
    BY <2>4
  <2> HIDE DEF new
  <2>6. \A row \in table \cup {new} : row.id \in 1 .. n + 1
    BY <2>1, <2>4, <2>5
  <2>7. \A r, s \in table \cup {new} : r.id = s.id \/ r.domain = s.domain => r = s
    BY <2>3 DEF Held
  <2> QED BY <2>1, <2>2, <2>4, <2>6, <2>7 DEF Held
<1>2. CASE RowsOf(table, office.domain) # {}
  <2> DEFINE put(row) == IF row.domain = office.domain THEN [office EXCEPT !.id = row.id] ELSE row
  <2>1. Upserted(table, office, n + 1) = {put(row) : row \in table}
    BY <1>2 DEF Upserted
  <2>2. ASSUME NEW row \in table
        PROVE  put(row) \in OfficeApp /\ put(row).id = row.id /\ put(row).domain = row.domain
    BY DEF OfficeApp, Held
  <2>3. \A row \in table : row.id \in 1 .. n /\ n \in Nat
    BY DEF Held
  <2>4. ASSUME NEW r \in table, NEW s \in table,
               put(r).id = put(s).id \/ put(r).domain = put(s).domain
        PROVE  put(r) = put(s)
    BY <2>2, <2>4 DEF Held
  <2> HIDE DEF put
  <2> QED BY <2>1, <2>2, <2>3, <2>4 DEF Held
<1> QED BY <1>1, <1>2

(* The state the process starts in is well typed.                          *)
LEMMA TypeInit == Init => TypeOK
BY TableAssumption, OfficeTypes DEF Init, TypeOK, CallState, FetchState, Key

(* A step of the task, or the end of the process, whatever ends it.        *)
LEMMA TypeStep ==
  ASSUME TypeOK, [Next]_vars \/ ProcessEnds
  PROVE  TypeOK'
<1> USE OfficeTypes
<1> USE DEF TypeOK
<1> USE DEF CallState, FetchState
<1>0. Held(office_app, lastId)
  BY DEF Held
<1>1. CASE StartUpdateAllTokenTask
  BY <1>1 DEF StartUpdateAllTokenTask, tableVars, callVars, fetchVars
<1>2. CASE TakeResult
  <2>1. Head(result) \in OfficeApp /\ Tail(result) \in Seq(OfficeApp)
    BY <1>2 DEF TakeResult
  <2>2. Head(result).domain \in Key
    BY <2>1 DEF OfficeApp
  <2>3. reqList[Head(result).domain] # <<>> => 1 \in 1 .. Len(reqList[Head(result).domain])
    BY <2>2
  <2> QED BY <1>2, <2>1, <2>2, <2>3 DEF TakeResult, tableVars, callVars, fetchVars
<1>3. CASE Deliver
  <2> DEFINE k == cur.domain
             c == reqList[k][next]
  <2>1. k \in Key /\ reqList[k] \in Seq(Call) /\ next \in 1 .. Len(reqList[k])
    BY <1>3 DEF Deliver, OfficeApp
  <2>2. c \in Call
    BY <2>1
  <2>3. /\ pc' = [pc EXCEPT ![c] = "returned"] /\ got' = [got EXCEPT ![c] = cur]
        /\ UNCHANGED <<tableVars, result, req, fetchVars>>
    BY <1>3 DEF Deliver
  <2>4. pc' \in [Call -> CallState] /\ got' \in [Call -> OfficeApp]
    BY <2>2, <2>3
  <2>5. CASE next = Len(reqList[k])
    <3>1. /\ loop' = "select" /\ cur' = ZeroOffice /\ next' = 0
          /\ reqList' = [reqList EXCEPT ![k] = <<>>]
      BY <1>3, <2>5 DEF Deliver
    <3>2. reqList' \in [Key -> Seq(Call)]
      BY <2>1, <3>1
    <3>3. /\ office_app' = office_app /\ lastId' = lastId /\ result' = result
          /\ req' = req /\ fpc' = fpc /\ fo' = fo /\ last' = last
      BY <2>3 DEF tableVars, fetchVars
    <3> HIDE DEF c, k
    <3> QED BY <2>4, <3>1, <3>2, <3>3
  <2>6. CASE next # Len(reqList[k])
    <3>1. next' = next + 1 /\ UNCHANGED <<loop, cur, reqList>>
      BY <1>3, <2>6 DEF Deliver
    <3>2. next' \in Nat /\ next' \in 1 .. Len(reqList[k])
      BY <2>1, <2>6, <3>1
    <3>3. next' \in 1 .. Len(reqList'[cur'.domain])
      BY <3>1, <3>2
    <3>4. /\ reqList' \in [Key -> Seq(Call)] /\ cur' \in OfficeApp
          /\ loop' \in {"off", "select", "deliver", "returned"}
      BY <3>1
    <3>5. /\ office_app' = office_app /\ lastId' = lastId /\ result' = result
          /\ req' = req /\ fpc' = fpc /\ fo' = fo /\ last' = last
      BY <2>3 DEF tableVars, fetchVars
    <3> HIDE DEF c, k
    <3> QED BY <2>4, <3>2, <3>3, <3>4, <3>5
  <2> QED BY <2>5, <2>6
<1>4. CASE StopFileServer
  BY <1>4 DEF StopFileServer, tableVars, callVars, fetchVars
<1>5. CASE ProcessEnds
  BY <1>5 DEF ProcessEnds, tableVars
<1>6. ASSUME NEW c \in Call, HandleRequest(c) PROVE TypeOK'
  <2>1. req[c].domain \in Key
    BY DEF OfficeApp
  <2>2. Append(reqList[req[c].domain], c) \in Seq(Call)
    BY <2>1
  <2> QED BY <1>6, <2>1, <2>2 DEF HandleRequest, tableVars
<1>7. ASSUME NEW c \in Call, FetchToken(c) PROVE TypeOK'
  <2>1. req[c].domain \in Key /\ req[c] \in OfficeApp
    BY DEF OfficeApp
  <2> QED BY <1>7, <2>1 DEF FetchToken, tableVars, loopVars, callVars
<1>8. ASSUME NEW c \in Call, SelectRow(c) PROVE TypeOK'
  BY <1>8 DEF SelectRow, tableVars, loopVars, callVars, RowsOf, OfficeApp
<1>9. ASSUME NEW c \in Call, DeleteRow(c) PROVE TypeOK'
  <2>1. Held(office_app', lastId')
    BY <1>0, <1>9, WithoutRowHeld DEF DeleteRow
  <2> QED BY <1>9, <2>1 DEF DeleteRow, loopVars, callVars, Held
<1>10. ASSUME NEW c \in Call, UpsertRow(c) PROVE TypeOK'
  <2>1. Held(Upserted(office_app, fo[c], lastId + 1), lastId + 1)
    BY <1>0, UpsertedHeld
  <2>2. Held(office_app, lastId + 1)
    BY <1>0 DEF Held
  <2>3. Held(office_app', lastId')
    BY <1>10, <2>1, <2>2 DEF UpsertRow
  <2> QED BY <1>10, <2>3 DEF UpsertRow, loopVars, callVars, Held
<1>11. ASSUME NEW c \in Call, SendResult(c) PROVE TypeOK'
  BY <1>11 DEF SendResult, tableVars, loopVars, callVars
<1>12. ASSUME NEW c \in Call, NEW d \in Key, ReadRow(c, d) PROVE TypeOK'
  <2>1. req' \in [Call -> OfficeApp]
    BY <1>12 DEF ReadRow, RowsOf
  <2> QED BY <1>12, <2>1 DEF ReadRow, tableVars, loopVars, fetchVars
<1>13. CASE UNCHANGED vars
  BY <1>13 DEF vars, tableVars, loopVars, callVars, fetchVars
<1> QED
  BY <1>1, <1>2, <1>3, <1>4, <1>5, <1>6, <1>7, <1>8, <1>9, <1>10, <1>11, <1>12, <1>13
  DEF Next, Crash, Fetch

(* Type correctness.                                                       *)
THEOREM TypeCorrect == Spec => []TypeOK
<1>1. Init => TypeOK
  BY TypeInit
<1>2. TypeOK /\ [Next]_vars => TypeOK'
  BY TypeStep
<1> QED BY <1>1, <1>2, PTL DEF Spec

-----------------------------------------------------------------------------
(* The two halves of "listed iff waiting" need each other: that a call is  *)
(* listed once is what keeps the others listed after it has been served.   *)
ListInv == ListedAreWaiting /\ WaitersAreListed

(* What the typing says of the lists.                                      *)
LEMMA ListTypes ==
  ASSUME TypeOK
  PROVE  /\ \A c \in Call : req[c].domain \in Key
         /\ \A k \in Key : reqList[k] \in Seq(Call) /\ Len(reqList[k]) \in Nat
         /\ \A k \in Key : \A i \in 1 .. Len(reqList[k]) : reqList[k][i] \in Call
         /\ \A k \in Key : \A i \in Unserved(k) : i \in 1 .. Len(reqList[k]) /\ reqList[k][i] \in Call
         /\ cur.domain \in Key
<1>1. /\ \A c \in Call : req[c].domain \in Key
      /\ cur.domain \in Key
  BY DEF TypeOK, OfficeApp
<1>2. \A k \in Key : reqList[k] \in Seq(Call) /\ Len(reqList[k]) \in Nat
  BY DEF TypeOK
<1>3. \A k \in Key : \A i \in 1 .. Len(reqList[k]) : reqList[k][i] \in Call
  BY <1>2
<1>4. \A k \in Key : \A i \in Unserved(k) : i \in 1 .. Len(reqList[k])
  BY DEF Unserved
<1> QED BY <1>1, <1>2, <1>3, <1>4

(* A step that touches neither the lists nor the loop nor a waiting call   *)
(* leaves ListInv alone.                                                   *)
LEMMA ListInvFrame ==
  ASSUME ListInv, UNCHANGED <<reqList, req, cur, next>>,
         loop' = loop \/ (loop # "deliver" /\ loop' # "deliver"),
         \A c \in Call : pc'[c] = "wait" <=> pc[c] = "wait",
         TypeOK
  PROVE  ListInv'
<1>1. ASSUME NEW k \in Key PROVE Unserved(k)' = Unserved(k)
  BY DEF Unserved
<1>2. \A k \in Key : \A i \in Unserved(k) : reqList[k][i] \in Call
  BY ListTypes
<1>3. ListedAreWaiting'
  BY <1>1, <1>2 DEF ListInv, ListedAreWaiting
<1>4. WaitersAreListed'
  <2>1. \A c \in Call : req[c].domain \in Key
    BY ListTypes
  <2> QED BY <1>1, <2>1 DEF ListInv, WaitersAreListed
<1> QED BY <1>3, <1>4 DEF ListInv

(* A request is appended to the list of its domain while no list is being  *)
(* served: nobody else moves.                                              *)
LEMMA HandleRequestListInv ==
  ASSUME TypeOK, ListInv, NEW c \in Call, HandleRequest(c)
  PROVE  ListInv'
<1> DEFINE k == req[c].domain
<1>1. /\ loop = "select" /\ loop' = "select" /\ pc[c] = "send"
      /\ pc' = [pc EXCEPT ![c] = "wait"] /\ req' = req
      /\ reqList' = [reqList EXCEPT ![k] = Append(reqList[k], c)]
  BY DEF HandleRequest
<1>2. /\ k \in Key /\ \A b \in Call : req[b].domain \in Key
      /\ \A m \in Key : reqList[m] \in Seq(Call)
      /\ pc \in [Call -> CallState] /\ reqList \in [Key -> Seq(Call)]
  BY ListTypes DEF TypeOK
<1>3. \A m \in Key : Unserved(m) = 1 .. Len(reqList[m]) /\ Unserved(m)' = 1 .. Len(reqList'[m])
  BY <1>1 DEF Unserved
<1>4. /\ reqList'[k] = Append(reqList[k], c)
      /\ \A m \in Key : m # k => reqList'[m] = reqList[m]
      /\ pc'[c] = "wait" /\ \A b \in Call : b # c => pc'[b] = pc[b]
  BY <1>1, <1>2
<1>5. /\ Len(reqList'[k]) = Len(reqList[k]) + 1
      /\ \A i \in 1 .. Len(reqList[k]) : reqList'[k][i] = reqList[k][i]
      /\ reqList'[k][Len(reqList[k]) + 1] = c
  BY <1>2, <1>4
<1>6. \A m \in Key : \A i \in 1 .. Len(reqList[m]) :
        reqList[m][i] \in Call /\ reqList[m][i] # c
        /\ pc[reqList[m][i]] = "wait" /\ req[reqList[m][i]].domain = m
  BY <1>1, <1>2, <1>3 DEF ListInv, ListedAreWaiting
<1> HIDE DEF k
<1>7. ListedAreWaiting'
  <2> SUFFICES ASSUME NEW m \in Key, NEW i \in 1 .. Len(reqList'[m])
               PROVE  pc'[reqList'[m][i]] = "wait" /\ req'[reqList'[m][i]].domain = m
    BY <1>3 DEF ListedAreWaiting
  <2>1. CASE m # k
    BY <2>1, <1>1, <1>4, <1>6
  <2>2. CASE m = k /\ i \in 1 .. Len(reqList[k])
    BY <2>2, <1>1, <1>2, <1>4, <1>5, <1>6
  <2>3. CASE m = k /\ i = Len(reqList[k]) + 1
    BY <2>3, <1>1, <1>4, <1>5 DEF k
  <2> QED BY <1>2, <1>5, <2>1, <2>2, <2>3
<1>8. WaitersAreListed'
  <2> SUFFICES ASSUME NEW b \in Call, pc'[b] = "wait"
               PROVE  \E i \in 1 .. Len(reqList'[req[b].domain]) :
                        /\ reqList'[req[b].domain][i] = b
                        /\ \A j \in 1 .. Len(reqList'[req[b].domain]) :
                             reqList'[req[b].domain][j] = b => j = i
    BY <1>1, <1>2 DEF WaitersAreListed, Unserved
  <2>1. CASE b = c
    <3>1. req[b].domain = k
      BY <2>1 DEF k
    <3>2. Len(reqList[k]) \in Nat
      BY <1>2
    <3>3. \A j \in 1 .. Len(reqList'[k]) : reqList'[k][j] = c => j = Len(reqList[k]) + 1
      BY <3>2, <1>2, <1>5, <1>6
    <3>4. Len(reqList[k]) + 1 \in 1 .. Len(reqList'[k])
      BY <3>2, <1>5
    <3> QED BY <2>1, <3>1, <3>3, <3>4, <1>5
  <2>2. CASE b # c
    <3> DEFINE m == req[b].domain
    <3>1. m \in Key /\ pc[b] = "wait" /\ Unserved(m) = 1 .. Len(reqList[m])
      BY <2>2, <1>2, <1>3, <1>4
    <3>2. PICK i \in Unserved(m) :
            reqList[m][i] = b /\ \A j \in Unserved(m) : reqList[m][j] = b => j = i
      BY <3>1 DEF ListInv, WaitersAreListed
    <3> HIDE DEF m
    <3>3. CASE m # k
      BY <3>1, <3>2, <3>3, <1>4 DEF m
    <3>4. CASE m = k
      <4>1. Len(reqList[k]) \in Nat /\ i \in 1 .. Len(reqList[k])
        BY <1>2, <3>1, <3>2, <3>4
      <4>2. i \in 1 .. Len(reqList'[k]) /\ reqList'[k][i] = b
        BY <1>5, <3>2, <3>4, <4>1
      <4>3. ASSUME NEW j \in 1 .. Len(reqList'[k]), reqList'[k][j] = b PROVE j = i
        <5>1. j # Len(reqList[k]) + 1
          BY <1>5, <2>2, <4>3
        <5>2. j \in 1 .. Len(reqList[k])
          BY <1>5, <4>1, <5>1
        <5> QED BY <1>5, <3>1, <3>2, <3>4, <4>3, <5>2
      <4> QED BY <3>4, <4>2, <4>3 DEF m
    <3> QED BY <3>3, <3>4
  <2> QED BY <2>1, <2>2
<1> QED BY <1>7, <1>8 DEF ListInv

(* The first of the channels still to be served is served; when it was the *)
(* last, the entry goes, and nobody waits for that domain any more.        *)
LEMMA DeliverListInv ==
  ASSUME TypeOK, ListInv, Deliver,
         NEW k, k = cur.domain, NEW c, c = reqList[k][next]
  PROVE  ListInv'
<1>1. /\ loop = "deliver" /\ pc[c] = "wait" /\ req' = req
      /\ pc' = [pc EXCEPT ![c] = "returned"]
  BY DEF Deliver
<1>2. /\ k \in Key /\ \A b \in Call : req[b].domain \in Key
      /\ \A m \in Key : reqList[m] \in Seq(Call)
      /\ next \in 1 .. Len(reqList[k]) /\ c \in Call
      /\ pc \in [Call -> CallState] /\ reqList \in [Key -> Seq(Call)]
  <2>1. next \in 1 .. Len(reqList[k])
    BY <1>1 DEF TypeOK
  <2> QED BY <2>1, ListTypes DEF TypeOK
<1>3. /\ \A m \in Key : m # k => Unserved(m) = 1 .. Len(reqList[m])
      /\ Unserved(k) = next .. Len(reqList[k])
  BY <1>1, <1>2 DEF Unserved
<1>4. req[c].domain = k
  BY <1>2, <1>3 DEF ListInv, ListedAreWaiting
<1>5. \A i \in Unserved(k) : reqList[k][i] = c => i = next
  <2>1. next \in Unserved(k)
    BY <1>2, <1>3
  <2>2. \E i \in Unserved(k) : \A j \in Unserved(k) : reqList[k][j] = c => j = i
    BY <1>1, <1>2, <1>4 DEF ListInv, WaitersAreListed
  <2> QED BY <2>1, <2>2
<1>6. \A m \in Key : m # k =>
        Unserved(m)' = Unserved(m) /\ reqList'[m] = reqList[m]
  BY <1>1, <1>2, <1>3 DEF Deliver, Unserved
<1>7. /\ Unserved(k)' = {i \in Unserved(k) : i # next}
      /\ \A i \in Unserved(k)' : reqList'[k][i] = reqList[k][i]
  <2>1. CASE next = Len(reqList[k])
    <3>1. reqList'[k] = <<>> /\ loop' = "select"
      BY <1>2, <2>1 DEF Deliver
    <3> QED BY <1>2, <1>3, <2>1, <3>1 DEF Unserved
  <2>2. CASE next # Len(reqList[k])
    <3>1. next' = next + 1 /\ UNCHANGED <<loop, cur, reqList>>
      BY <2>2 DEF Deliver
    <3>2. /\ Unserved(k)' = {i \in 1 .. Len(reqList[k]) : i >= next + 1}
          /\ Unserved(k) = {i \in 1 .. Len(reqList[k]) : i >= next}
      BY <1>1, <3>1 DEF Unserved
    <3>3. next \in Nat /\ Len(reqList[k]) \in Nat
      BY <1>2
    <3>4. {i \in 1 .. Len(reqList[k]) : i >= next + 1}
            = {i \in {j \in 1 .. Len(reqList[k]) : j >= next} : i # next}
      BY <3>3
    <3> QED BY <3>1, <3>2, <3>4
  <2> QED BY <2>1, <2>2
<1>8. \A m \in Key : \A i \in Unserved(m) : reqList[m][i] \in Call
  BY ListTypes
<1>9. \A m \in Key : \A i \in Unserved(m)' :
        i \in Unserved(m) /\ reqList'[m][i] = reqList[m][i] /\ reqList[m][i] # c
  <2> SUFFICES ASSUME NEW m \in Key, NEW i \in Unserved(m)'
               PROVE  i \in Unserved(m) /\ reqList'[m][i] = reqList[m][i] /\ reqList[m][i] # c
    OBVIOUS
  <2>1. CASE m = k
    BY <1>5, <1>7, <2>1
  <2>2. CASE m # k
    BY <1>4, <1>6, <2>2 DEF ListInv, ListedAreWaiting
  <2> QED BY <2>1, <2>2
<1>10. pc'[c] = "returned" /\ \A b \in Call : b # c => pc'[b] = pc[b]
  BY <1>1, <1>2
<1>11. ListedAreWaiting'
  BY <1>1, <1>8, <1>9, <1>10 DEF ListInv, ListedAreWaiting
<1>12. WaitersAreListed'
  <2> SUFFICES ASSUME NEW b \in Call, pc'[b] = "wait", NEW m \in Key, m = req[b].domain
               PROVE  \E i \in Unserved(m)' :
                        /\ reqList'[m][i] = b
                        /\ \A j \in Unserved(m)' : reqList'[m][j] = b => j = i
    BY <1>1, <1>2 DEF WaitersAreListed
  <2>1. b # c /\ pc[b] = "wait"
    BY <1>10
  <2>2. PICK i \in Unserved(m) :
          reqList[m][i] = b /\ \A j \in Unserved(m) : reqList[m][j] = b => j = i
    BY <2>1 DEF ListInv, WaitersAreListed
  <2>3. i \in Unserved(m)'
    <3>1. CASE m = k
      BY <1>7, <2>1, <2>2, <3>1
    <3>2. CASE m # k
      BY <1>6, <2>2, <3>2
    <3> QED BY <3>1, <3>2
  <2> QED BY <1>9, <2>2, <2>3
<1> QED BY <1>11, <1>12 DEF ListInv

(* Nobody waits and nobody is listed when the process starts.              *)
LEMMA ListInvInit == Init => ListInv
BY DEF Init, ListInv, ListedAreWaiting, WaitersAreListed, Unserved

(* Every step keeps ListInv.                                               *)
LEMMA ListInvStep ==
  ASSUME TypeOK, ListInv, [Next]_vars \/ ProcessEnds
  PROVE  ListInv'
<1>1. CASE StartUpdateAllTokenTask
  BY <1>1, ListInvFrame DEF StartUpdateAllTokenTask, callVars
<1>2. CASE TakeResult
  <2>1. CASE reqList[Head(result).domain] = <<>>
    BY <1>2, <2>1, ListInvFrame DEF TakeResult, callVars
  <2>2. CASE reqList[Head(result).domain] # <<>>
    <3>1. /\ loop = "select" /\ next' = 1
          /\ UNCHANGED <<reqList, pc, req>>
      BY <1>2, <2>2 DEF TakeResult, callVars
    <3>2. \A k \in Key : Unserved(k)' = Unserved(k)
      BY <3>1 DEF Unserved
    <3>3. /\ \A c \in Call : req[c].domain \in Key
          /\ \A k \in Key : \A i \in Unserved(k) : reqList[k][i] \in Call
      BY ListTypes
    <3> QED BY <3>1, <3>2, <3>3 DEF ListInv, ListedAreWaiting, WaitersAreListed
  <2> QED BY <2>1, <2>2
<1>3. CASE Deliver
  BY <1>3, DeliverListInv
<1>4. CASE StopFileServer
  BY <1>4, ListInvFrame DEF StopFileServer, callVars
<1>5. CASE ProcessEnds
  <2>1. \A k \in Key : Unserved(k)' = {}
    BY <1>5 DEF ProcessEnds, Unserved
  <2>2. \A c \in Call : pc'[c] # "wait"
    BY <1>5 DEF ProcessEnds
  <2> QED BY <2>1, <2>2 DEF ListInv, ListedAreWaiting, WaitersAreListed
<1>6. ASSUME NEW c \in Call, HandleRequest(c) PROVE ListInv'
  BY <1>6, HandleRequestListInv
<1>7. ASSUME NEW c \in Call, Fetch(c) PROVE ListInv'
  BY <1>7, ListInvFrame
  DEF Fetch, FetchToken, SelectRow, DeleteRow, UpsertRow, SendResult, loopVars, callVars
<1>8. ASSUME NEW c \in Call, NEW d \in Key, ReadRow(c, d) PROVE ListInv'
  <2>1. /\ UNCHANGED loopVars /\ pc[c] = "idle" /\ pc' = [pc EXCEPT ![c] = "send"]
        /\ \A b \in Call : b # c => req'[b] = req[b]
    BY <1>8 DEF ReadRow, TypeOK
  <2>2. \A k \in Key : Unserved(k)' = Unserved(k)
    BY <2>1 DEF Unserved, loopVars
  <2>3. /\ \A b \in Call : req[b].domain \in Key
        /\ \A k \in Key : \A i \in Unserved(k) : reqList[k][i] \in Call
    BY ListTypes
  <2>4. \A b \in Call : pc'[b] = "wait" <=> pc[b] = "wait" /\ b # c
    BY <2>1 DEF TypeOK
  <2>5. ListedAreWaiting'
    BY <2>1, <2>2, <2>3, <2>4 DEF ListInv, ListedAreWaiting, loopVars
  <2>6. WaitersAreListed'
    BY <2>1, <2>2, <2>3, <2>4 DEF ListInv, WaitersAreListed, loopVars
  <2> QED BY <2>5, <2>6 DEF ListInv
<1>9. CASE UNCHANGED vars
  BY <1>9, ListInvFrame DEF vars, loopVars, callVars
<1> QED
  BY <1>1, <1>2, <1>3, <1>4, <1>5, <1>6, <1>7, <1>8, <1>9 DEF Next, Crash

(* A channel is listed exactly while its call is blocked on it.            *)
THEOREM ListedIffWaiting == Spec => [](ListedAreWaiting /\ WaitersAreListed)
<1>1. Init => ListInv
  BY ListInvInit
<1>2. TypeOK /\ ListInv /\ [Next]_vars => ListInv'
  BY ListInvStep
<1> QED BY <1>1, <1>2, TypeCorrect, PTL DEF Spec, ListInv

(* No caller blocked on its channel is forgotten by the list, whatever     *)
(* other callers are served or start to wait meanwhile (update_token.go:26 *)
(* to :44).                                                                *)
THEOREM NobodyForgotten == Spec => []WaitersAreListed
BY ListedIffWaiting, PTL

-----------------------------------------------------------------------------
(* A fetch that does not end keeps its place, and what it writes down is   *)
(* for its own domain or for none.                                         *)
LEMMA FetchStepFlight ==
  ASSUME TypeOK, FlightInv, NEW c \in Call,
         FetchToken(c) \/ SelectRow(c) \/ DeleteRow(c) \/ UpsertRow(c)
  PROVE  FlightInv'
<1>1. /\ UNCHANGED <<loopVars, result, callVars>>
      /\ fpc[c] \in Working /\ fpc'[c] \in Working
      /\ \A b \in Call : b # c => fpc'[b] = fpc[b] /\ fo'[b] = fo[b]
      /\ fpc[c] # "fetch" => fo'[c] = fo[c]
  BY DEF FetchToken, SelectRow, DeleteRow, UpsertRow, Working, TypeOK
<1>2. fo'[c].domain \in {NoDomain, req[c].domain}
  <2>1. CASE FetchToken(c)
    BY <2>1 DEF FetchToken, TokenResponse, TypeOK, OfficeApp
  <2>2. CASE fpc[c] # "fetch"
    BY <1>1, <2>2 DEF FlightInv
  <2>3. FetchToken(c) \/ fpc[c] # "fetch"
    BY DEF SelectRow, DeleteRow, UpsertRow
  <2> QED BY <2>1, <2>2, <2>3
<1>3. ASSUME NEW d \in Domain PROVE OneFlight(d)'
  <2>1. Fetchers(d)' = Fetchers(d)
    BY <1>1 DEF Fetchers, callVars
  <2>2. Queued(d)' = Queued(d) /\ Delivering(d)' = Delivering(d)
    BY <1>1 DEF Queued, Delivering, loopVars
  <2>3. OneFlight(d) /\ reqList' = reqList
    BY <1>1 DEF FlightInv, loopVars
  <2> QED BY <2>1, <2>2, <2>3 DEF OneFlight
<1>4. \A b \in Call : pc'[b] \in {"idle", "send"} => fpc'[b] = "none"
  BY <1>1 DEF FlightInv, callVars, Working
<1>5. \A b \in Call : fpc'[b] \in Working \ {"fetch"} => fo'[b].domain \in {NoDomain, req'[b].domain}
  BY <1>1, <1>2 DEF FlightInv, callVars
<1> QED BY <1>3, <1>4, <1>5 DEF FlightInv

(* A fetch for a named domain that ends hands its place over to the result *)
(* it sends, or gives it up when the result carries no domain.             *)
LEMMA SendResultFlight ==
  ASSUME TypeOK, FlightInv, NEW c \in Call, SendResult(c)
  PROVE  FlightInv'
<1>1. /\ fpc[c] = "result" /\ fpc' = [fpc EXCEPT ![c] = "done"]
      /\ result' = Append(result, fo[c])
      /\ UNCHANGED <<loopVars, callVars, fo>>
  BY DEF SendResult
<1>2. /\ result \in Seq(OfficeApp) /\ fo[c] \in OfficeApp /\ Len(result) \in Nat
      /\ Len(result') = Len(result) + 1
      /\ \A i \in 1 .. Len(result) : result'[i] = result[i]
      /\ result'[Len(result) + 1] = fo[c]
  BY <1>1 DEF TypeOK
<1>3. fo[c].domain \in {NoDomain, req[c].domain}
  BY <1>1 DEF FlightInv, Working
<1>4. \A b \in Call : fpc'[b] = IF b = c THEN "done" ELSE fpc[b]
  BY <1>1 DEF TypeOK
<1>5. ASSUME NEW d \in Domain PROVE OneFlight(d)'
  <2>1. OneFlight(d) /\ d # NoDomain
    BY NoDomainAssumption DEF FlightInv
  <2>2. Fetchers(d)' = Fetchers(d) \ {c}
    BY <1>1, <1>4 DEF Fetchers, callVars, Working
  <2>3. Delivering(d)' = Delivering(d) /\ reqList' = reqList
    BY <1>1 DEF Delivering, loopVars
  <2>4. CASE fo[c].domain # d
    <3>1. Queued(d)' = Queued(d)
      BY <1>2, <2>4 DEF Queued
    <3> QED BY <2>1, <2>2, <2>3, <3>1 DEF OneFlight
  <2>5. CASE fo[c].domain = d
    <3>1. c \in Fetchers(d)
      BY <1>1, <1>3, <2>1, <2>5 DEF Fetchers, Working
    <3>2. Queued(d) = {} /\ ~Delivering(d) /\ reqList[d] # <<>> /\ Fetchers(d)' = {}
      BY <2>1, <2>2, <3>1 DEF OneFlight
    <3>3. Queued(d)' = {Len(result) + 1}
      BY <1>2, <2>5, <3>2 DEF Queued
    <3> QED BY <2>3, <3>2, <3>3 DEF OneFlight
  <2> QED BY <2>4, <2>5
<1>6. \A b \in Call : pc'[b] \in {"idle", "send"} => fpc'[b] = "none"
  BY <1>1, <1>4 DEF FlightInv, callVars
<1>7. \A b \in Call : fpc'[b] \in Working \ {"fetch"} => fo'[b].domain \in {NoDomain, req'[b].domain}
  BY <1>1, <1>4 DEF FlightInv, callVars, Working
<1> QED BY <1>5, <1>6, <1>7 DEF FlightInv

(* A fetch is started only for a domain nothing is under way for.          *)
LEMMA HandleRequestFlight ==
  ASSUME TypeOK, FlightInv, NEW c \in Call, HandleRequest(c)
  PROVE  FlightInv'
<1>1. /\ loop = "select" /\ pc[c] = "send" /\ UNCHANGED <<loop, cur, result, req, fo>>
      /\ \A b \in Call : b # c => pc'[b] = pc[b] /\ fpc'[b] = fpc[b]
      /\ pc'[c] = "wait"
      /\ fpc'[c] = IF reqList[req[c].domain] = <<>> THEN "fetch" ELSE fpc[c]
  BY DEF HandleRequest, TypeOK
<1>2. fpc[c] = "none"
  BY <1>1 DEF FlightInv
<1>3. ASSUME NEW d \in Domain PROVE OneFlight(d)'
  <2>1. OneFlight(d) /\ d \in Key
    BY DEF FlightInv, Key
  <2>2. Queued(d)' = Queued(d) /\ ~Delivering(d)'
    BY <1>1 DEF Queued, Delivering
  <2>3. CASE d # req[c].domain
    <3>1. Fetchers(d)' = Fetchers(d)
      BY <1>1, <2>3 DEF Fetchers
    <3>2. reqList'[d] = reqList[d]
      BY <2>1, <2>3 DEF HandleRequest, TypeOK
    <3> QED BY <2>1, <2>2, <3>1, <3>2 DEF OneFlight
  <2>4. CASE d = req[c].domain
    <3>1. reqList'[d] # <<>>
      <4>1. reqList'[d] = Append(reqList[d], c) /\ reqList[d] \in Seq(Call)
        BY <2>1, <2>4 DEF HandleRequest, TypeOK
      <4>2. Len(reqList'[d]) = Len(reqList[d]) + 1 /\ Len(reqList[d]) \in Nat
        BY <4>1
      <4>3. Len(<<>>) = 0
        OBVIOUS
      <4> QED BY <4>2, <4>3
    <3>2. CASE reqList[d] = <<>>
      <4>1. Fetchers(d) = {} /\ Queued(d) = {}
        BY <2>1, <3>2 DEF OneFlight
      <4>2. Fetchers(d)' = {c}
        BY <1>1, <2>4, <3>2, <4>1 DEF Fetchers, Working
      <4> QED BY <2>2, <3>1, <4>1, <4>2 DEF OneFlight
    <3>3. CASE reqList[d] # <<>>
      <4>1. Fetchers(d)' = Fetchers(d)
        BY <1>1, <1>2, <2>4, <3>3 DEF Fetchers, Working
      <4> QED BY <2>1, <2>2, <3>1, <4>1 DEF OneFlight
    <3> QED BY <3>2, <3>3
  <2> QED BY <2>3, <2>4
<1>4. \A b \in Call : pc'[b] \in {"idle", "send"} => fpc'[b] = "none"
  BY <1>1 DEF FlightInv
<1>5. \A b \in Call : fpc'[b] \in Working \ {"fetch"} => fo'[b].domain \in {NoDomain, req'[b].domain}
  BY <1>1, <1>2 DEF FlightInv, Working
<1> QED BY <1>3, <1>4, <1>5 DEF FlightInv

(* A step that leaves the fetches alone disturbs FlightInv only through    *)
(* the flight of each domain.                                              *)
LEMMA LoopFlight ==
  ASSUME FlightInv, UNCHANGED <<fpc, fo, req>>,
         \A b \in Call : pc'[b] \in {"idle", "send"} => pc[b] \in {"idle", "send"},
         \A d \in Domain : Fetchers(d)' = Fetchers(d) => OneFlight(d)'
  PROVE  FlightInv'
BY DEF FlightInv, Fetchers

(* The result that is taken changes from queued to being delivered.        *)
LEMMA TakeResultFlight ==
  ASSUME TypeOK, FlightInv, TakeResult
  PROVE  FlightInv'
<1>1. /\ loop = "select" /\ result # <<>> /\ result' = Tail(result)
      /\ UNCHANGED <<reqList, fpc, fo, req, pc>>
  BY DEF TakeResult, callVars, fetchVars
<1>2. /\ result \in Seq(OfficeApp) /\ Len(result) \in Nat /\ Len(result) >= 1
      /\ Len(result') = Len(result) - 1
      /\ \A i \in 1 .. Len(result') : i + 1 \in 1 .. Len(result) /\ result'[i] = result[i + 1]
      /\ Head(result) = result[1]
  BY <1>1 DEF TypeOK
<1>3. ASSUME NEW d \in Domain, Fetchers(d)' = Fetchers(d) PROVE OneFlight(d)'
  <2>1. OneFlight(d)
    BY DEF FlightInv
  <2>2. \A i \in Queued(d)' : i \in Nat /\ i >= 1 /\ i + 1 \in Queued(d)
    BY <1>2 DEF Queued
  <2>3. \A i, j \in Queued(d)' : i = j
    BY <2>1, <2>2 DEF OneFlight
  <2>4. CASE ~Delivering(d)'
    <3>1. Queued(d) = {} => Queued(d)' = {}
      BY <2>2
    <3> QED BY <1>1, <1>3, <2>1, <2>3, <2>4, <3>1 DEF OneFlight
  <2>5. CASE Delivering(d)'
    <3>1. Head(result).domain = d /\ reqList[d] # <<>>
      BY <1>1, <2>5 DEF Delivering, TakeResult
    <3>2. 1 \in Queued(d)
      BY <1>2, <3>1 DEF Queued
    <3>3. Queued(d)' = {}
      BY <2>1, <2>2, <3>2 DEF OneFlight
    <3>4. Fetchers(d)' = {}
      BY <1>3, <2>1, <3>2 DEF OneFlight
    <3> QED BY <3>3, <3>4 DEF OneFlight
  <2> QED BY <2>4, <2>5
<1> QED BY <1>1, <1>3, LoopFlight

(* The entry goes with the last delivery, and nothing else was under way.  *)
LEMMA DeliverFlight ==
  ASSUME TypeOK, FlightInv, Deliver
  PROVE  FlightInv'
<1>1. /\ loop = "deliver" /\ UNCHANGED <<result, req, fpc, fo>>
      /\ \A b \in Call : pc'[b] \in {"idle", "send"} => pc[b] \in {"idle", "send"}
  BY DEF Deliver, fetchVars, TypeOK
<1>2. ASSUME NEW d \in Domain, Fetchers(d)' = Fetchers(d) PROVE OneFlight(d)'
  <2>1. OneFlight(d) /\ Queued(d)' = Queued(d)
    BY <1>1 DEF FlightInv, Queued
  <2>2. CASE next = Len(reqList[cur.domain])
    <3>1. ~Delivering(d)' /\ reqList' = [reqList EXCEPT ![cur.domain] = <<>>]
      BY <2>2 DEF Deliver, Delivering
    <3>2. CASE cur.domain = d
      BY <1>1, <1>2, <2>1, <3>1, <3>2 DEF OneFlight, Delivering
    <3>3. CASE cur.domain # d
      <4>1. reqList'[d] = reqList[d]
        BY <3>1, <3>3 DEF TypeOK, Key
      <4> QED BY <1>2, <2>1, <3>1, <4>1 DEF OneFlight
    <3> QED BY <3>2, <3>3
  <2>3. CASE next # Len(reqList[cur.domain])
    <3>1. Delivering(d)' = Delivering(d) /\ reqList' = reqList
      BY <2>3 DEF Deliver, Delivering
    <3> QED BY <1>2, <2>1, <3>1 DEF OneFlight
  <2> QED BY <2>2, <2>3
<1> QED BY <1>1, <1>2, LoopFlight

(* No fetch is under way when the process starts.                          *)
LEMMA FlightInvInit == Init => FlightInv
BY DEF Init, FlightInv, OneFlight, Fetchers, Queued, Delivering, Working

(* Every step keeps FlightInv.                                             *)
LEMMA FlightInvStep ==
  ASSUME TypeOK, FlightInv, [Next]_vars \/ ProcessEnds
  PROVE  FlightInv'
<1>1. CASE StartUpdateAllTokenTask \/ StopFileServer \/ UNCHANGED vars
  <2>1. /\ UNCHANGED <<reqList, result, cur, pc, req, fpc, fo>>
        /\ loop' = "deliver" <=> loop = "deliver"
    BY <1>1 DEF StartUpdateAllTokenTask, StopFileServer, vars, loopVars, callVars, fetchVars
  <2>2. ASSUME NEW d \in Domain, Fetchers(d)' = Fetchers(d) PROVE OneFlight(d)'
    <3>1. Queued(d)' = Queued(d) /\ (Delivering(d)' <=> Delivering(d)) /\ OneFlight(d)
      BY <2>1 DEF Queued, Delivering, FlightInv
    <3> QED BY <2>1, <2>2, <3>1 DEF OneFlight
  <2> QED BY <2>1, <2>2, LoopFlight
<1>2. CASE TakeResult
  BY <1>2, TakeResultFlight
<1>3. CASE Deliver
  BY <1>3, DeliverFlight
<1>4. CASE ProcessEnds
  <2>1. /\ loop' = "off" /\ result' = <<>>
        /\ \A b \in Call : pc'[b] # "send" /\ (pc'[b] = "idle" => pc[b] = "idle")
        /\ \A b \in Call : fpc'[b] \in {"none", "lost"} /\ (fpc[b] = "none" => fpc'[b] = "none")
    BY <1>4 DEF ProcessEnds
  <2> QED BY <2>1 DEF FlightInv, OneFlight, Fetchers, Queued, Delivering, Working
<1>5. ASSUME NEW c \in Call, HandleRequest(c) PROVE FlightInv'
  BY <1>5, HandleRequestFlight
<1>6. ASSUME NEW c \in Call, Fetch(c) PROVE FlightInv'
  BY <1>6, FetchStepFlight, SendResultFlight DEF Fetch
<1>7. ASSUME NEW c \in Call, NEW k \in Key, ReadRow(c, k) PROVE FlightInv'
  <2>1. /\ UNCHANGED <<loopVars, result, fpc, fo>> /\ pc[c] = "idle"
        /\ \A b \in Call : b # c => pc'[b] = pc[b] /\ req'[b] = req[b]
    BY <1>7 DEF ReadRow, fetchVars, TypeOK
  <2>2. fpc[c] = "none"
    BY <2>1 DEF FlightInv
  <2>3. ASSUME NEW d \in Domain PROVE OneFlight(d)'
    <3>1. Fetchers(d)' = Fetchers(d)
      BY <2>1, <2>2 DEF Fetchers, Working
    <3>2. Queued(d)' = Queued(d) /\ (Delivering(d)' <=> Delivering(d)) /\ OneFlight(d)
      BY <2>1 DEF Queued, Delivering, FlightInv, loopVars
    <3> QED BY <2>1, <3>1, <3>2 DEF OneFlight, loopVars
  <2> QED BY <2>1, <2>2, <2>3 DEF FlightInv, Working
<1> QED BY <1>1, <1>2, <1>3, <1>4, <1>5, <1>6, <1>7 DEF Next, Crash

(* At most one fetch is at work for a named domain, whatever fails, nor is *)
(* there one beside a result on its way.                                   *)
THEOREM OneFetchPerOffice == Spec => [](FlightInv /\ SingleFlight)
<1>1. Init => FlightInv
  BY FlightInvInit
<1>2. TypeOK /\ FlightInv /\ [Next]_vars => FlightInv'
  BY FlightInvStep
<1>3. FlightInv => SingleFlight
  BY DEF FlightInv, OneFlight, SingleFlight
<1> QED BY <1>1, <1>2, <1>3, TypeCorrect, PTL DEF Spec

-----------------------------------------------------------------------------
(* What a fetch that failed has in hand keeps the domain of its request:   *)
(* it is the request's own office that is marked.                          *)
FailureIsNamed ==
  \A c \in Call : fpc[c] \in Working \ {"fetch"} =>
    fo[c].status # DELETED \/ fo[c].domain = req[c].domain

(* The antecedent and the consequent of OnlySuccessStrands.                *)
Stranded(d) == reqList[d] # <<>> /\ Fetchers(d) = {} /\ Queued(d) = {} /\ ~Delivering(d)
Succeeded(d) == \E c \in Call : fpc[c] = "done" /\ req[c].domain = d /\ fo[c].status # DELETED

StrandInv ==
  /\ FailureIsNamed
  /\ \A d \in Domain : Stranded(d) => Succeeded(d)

(* A fetch that goes on to its next statement strands nobody.              *)
LEMMA FetchStepStrand ==
  ASSUME TypeOK, StrandInv, NEW c \in Call,
         FetchToken(c) \/ SelectRow(c) \/ DeleteRow(c) \/ UpsertRow(c)
  PROVE  StrandInv'
<1>1. /\ UNCHANGED <<loopVars, result, callVars>>
      /\ fpc[c] \in Working /\ fpc'[c] \in Working
      /\ \A b \in Call : b # c => fpc'[b] = fpc[b] /\ fo'[b] = fo[b]
      /\ fpc[c] # "fetch" => fo'[c] = fo[c]
  BY DEF FetchToken, SelectRow, DeleteRow, UpsertRow, Working, TypeOK
<1>2. fo'[c].status # DELETED \/ fo'[c].domain = req[c].domain
  <2>1. CASE FetchToken(c)
    <3>1. fo'[c] \in {TokenResponse(req[c].domain), [req[c] EXCEPT !.status = DELETED]}
      BY <2>1 DEF FetchToken, TypeOK
    <3>2. [req[c] EXCEPT !.status = DELETED].domain = req[c].domain
      BY DEF TypeOK, OfficeApp
    <3>3. TokenResponse(req[c].domain).status # DELETED
      BY DEF TokenResponse, UNSET, DELETED
    <3> QED BY <3>1, <3>2, <3>3
  <2>2. CASE fpc[c] # "fetch"
    BY <1>1, <2>2 DEF StrandInv, FailureIsNamed
  <2>3. FetchToken(c) \/ fpc[c] # "fetch"
    BY DEF SelectRow, DeleteRow, UpsertRow
  <2> QED BY <2>1, <2>2, <2>3
<1>3. FailureIsNamed'
  BY <1>1, <1>2 DEF StrandInv, FailureIsNamed, callVars
<1>4. ASSUME NEW d \in Domain, Stranded(d)' PROVE Succeeded(d)'
  <2>1. Fetchers(d)' = Fetchers(d)
    BY <1>1 DEF Fetchers, callVars
  <2>2. Stranded(d)
    BY <1>1, <1>4, <2>1 DEF Stranded, Queued, Delivering, loopVars
  <2>3. PICK b \in Call : fpc[b] = "done" /\ req[b].domain = d /\ fo[b].status # DELETED
    BY <2>2 DEF StrandInv, Succeeded
  <2>4. b # c
    BY <1>1, <2>3 DEF Working
  <2> QED BY <1>1, <2>3, <2>4 DEF Succeeded, callVars
<1> QED BY <1>3, <1>4 DEF StrandInv

(* A fetch that ends leaves its callers with nobody only when what it sent *)
(* does not carry their domain, and then it succeeded.                     *)
LEMMA SendResultStrand ==
  ASSUME TypeOK, StrandInv, NEW c \in Call, SendResult(c)
  PROVE  StrandInv'
<1>1. /\ fpc[c] = "result" /\ result' = Append(result, fo[c])
      /\ UNCHANGED <<loopVars, callVars, fo>>
  BY DEF SendResult
<1>2. \A b \in Call : fpc'[b] = IF b = c THEN "done" ELSE fpc[b]
  BY DEF SendResult, TypeOK
<1>3. /\ result \in Seq(OfficeApp) /\ fo[c] \in OfficeApp /\ Len(result) \in Nat
      /\ Len(result') = Len(result) + 1
      /\ \A i \in 1 .. Len(result) : result'[i] = result[i]
      /\ result'[Len(result) + 1] = fo[c]
  BY <1>1 DEF TypeOK
<1>4. FailureIsNamed'
  BY <1>1, <1>2 DEF StrandInv, FailureIsNamed, callVars, Working
<1>5. ASSUME NEW d \in Domain, Stranded(d)' PROVE Succeeded(d)'
  <2>1. \A i \in 1 .. Len(result) : i \in 1 .. Len(result')
    BY <1>3
  <2>2. Queued(d) = {} /\ Queued(d)' = {}
    BY <1>3, <1>5, <2>1 DEF Stranded, Queued
  <2>3. reqList[d] # <<>> /\ ~Delivering(d)
    BY <1>1, <1>5 DEF Stranded, Delivering, loopVars
  <2>4. CASE req[c].domain = d
    <3>1. Len(result) + 1 \in 1 .. Len(result')
      BY <1>3
    <3>2. fo[c].domain # d
      BY <1>3, <2>2, <3>1 DEF Queued
    <3>3. fo[c].status # DELETED
      BY <1>1, <2>4, <3>2 DEF StrandInv, FailureIsNamed, Working
    <3> QED BY <1>1, <1>2, <2>4, <3>3 DEF Succeeded, callVars
  <2>5. CASE req[c].domain # d
    <3>1. Fetchers(d)' = Fetchers(d)
      BY <1>1, <1>2, <2>5 DEF Fetchers, callVars
    <3>2. Stranded(d)
      BY <1>5, <2>2, <2>3, <3>1 DEF Stranded
    <3>3. PICK b \in Call : fpc[b] = "done" /\ req[b].domain = d /\ fo[b].status # DELETED
      BY <3>2 DEF StrandInv, Succeeded
    <3> QED BY <1>1, <1>2, <3>3 DEF Succeeded, callVars
  <2> QED BY <2>4, <2>5
<1> QED BY <1>4, <1>5 DEF StrandInv

(* A result that is taken goes to those listed for its domain.             *)
LEMMA TakeResultStrand ==
  ASSUME TypeOK, StrandInv, TakeResult
  PROVE  StrandInv'
<1>1. /\ loop = "select" /\ result # <<>> /\ result' = Tail(result)
      /\ UNCHANGED <<reqList, fpc, fo, req>>
  BY DEF TakeResult, callVars, fetchVars
<1>2. /\ Len(result) \in Nat /\ Len(result') = Len(result) - 1
      /\ \A i \in 1 .. Len(result) : i # 1 => i - 1 \in 1 .. Len(result') /\ result'[i - 1] = result[i]
      /\ Head(result) = result[1]
  BY <1>1 DEF TypeOK
<1>3. ASSUME NEW d \in Domain, Stranded(d)' PROVE Succeeded(d)'
  <2>1. Head(result).domain # d
    BY <1>1, <1>3 DEF Stranded, Delivering, TakeResult
  <2>2. \A i \in Queued(d) : i - 1 \in Queued(d)'
    BY <1>2, <2>1 DEF Queued
  <2>3. Stranded(d)
    BY <1>1, <1>3, <2>2 DEF Stranded, Delivering, Fetchers
  <2> QED BY <1>1, <2>3 DEF StrandInv, Succeeded
<1> QED BY <1>1, <1>3 DEF StrandInv, FailureIsNamed

(* There is no entry to be stranded in when the process starts.            *)
LEMMA StrandInvInit == Init => StrandInv
BY DEF Init, StrandInv, FailureIsNamed, Stranded, Working, Key

(* Every step keeps StrandInv.                                             *)
LEMMA StrandInvStep ==
  ASSUME TypeOK, FlightInv, StrandInv, [Next]_vars \/ ProcessEnds
  PROVE  StrandInv'
<1>1. CASE StartUpdateAllTokenTask \/ StopFileServer \/ UNCHANGED vars
  <2>1. /\ UNCHANGED <<reqList, result, cur, req, fpc, fo>>
        /\ loop' = "deliver" <=> loop = "deliver"
    BY <1>1 DEF StartUpdateAllTokenTask, StopFileServer, vars, loopVars, callVars, fetchVars
  <2> QED BY <2>1 DEF StrandInv, FailureIsNamed, Stranded, Succeeded, Fetchers, Queued, Delivering
<1>2. CASE TakeResult
  BY <1>2, TakeResultStrand
<1>3. CASE Deliver
  <2>1. UNCHANGED <<result, req, fpc, fo>> /\ loop = "deliver"
    BY <1>3 DEF Deliver, fetchVars
  <2>2. ASSUME NEW d \in Domain, Stranded(d)' PROVE Stranded(d)
    <3>1. cur.domain # d /\ reqList'[d] = reqList[d]
      <4>1. d \in Key /\ reqList \in [Key -> Seq(Call)]
        BY DEF Key, TypeOK
      <4>2. CASE next = Len(reqList[cur.domain])
        <5>1. reqList' = [reqList EXCEPT ![cur.domain] = <<>>]
          BY <1>3, <4>2 DEF Deliver
        <5> QED BY <2>2, <4>1, <5>1 DEF Stranded
      <4>3. CASE next # Len(reqList[cur.domain])
        <5>1. UNCHANGED <<loop, cur, reqList>>
          BY <1>3, <4>3 DEF Deliver
        <5> QED BY <2>1, <2>2, <5>1 DEF Stranded, Delivering
      <4> QED BY <4>2, <4>3
    <3> QED BY <2>1, <2>2, <3>1 DEF Stranded, Fetchers, Queued, Delivering
  <2> QED BY <2>1, <2>2 DEF StrandInv, FailureIsNamed, Succeeded
<1>4. CASE ProcessEnds
  <2>1. /\ \A d \in Domain : reqList'[d] = <<>>
        /\ \A b \in Call : fpc'[b] \in {"none", "lost"}
    BY <1>4 DEF ProcessEnds, Key
  <2> QED BY <2>1 DEF StrandInv, FailureIsNamed, Stranded, Working
<1>5. ASSUME NEW c \in Call, HandleRequest(c) PROVE StrandInv'
  <2>1. /\ loop = "select" /\ pc[c] = "send" /\ UNCHANGED <<loop, cur, result, req, fo>>
        /\ \A b \in Call : b # c => fpc'[b] = fpc[b]
        /\ fpc'[c] = IF reqList[req[c].domain] = <<>> THEN "fetch" ELSE fpc[c]
    BY <1>5 DEF HandleRequest, TypeOK
  <2>2. fpc[c] = "none"
    BY <2>1 DEF FlightInv
  <2>3. FailureIsNamed'
    BY <2>1, <2>2 DEF StrandInv, FailureIsNamed, Working
  <2>4. ASSUME NEW d \in Domain, Stranded(d)' PROVE Stranded(d)
    <3>1. reqList[d] # <<>>
      <4>1. CASE req[c].domain = d
        BY <2>1, <2>4, <4>1 DEF Stranded, Fetchers, Working
      <4>2. CASE req[c].domain # d
        BY <1>5, <2>4, <4>2 DEF HandleRequest, Stranded, TypeOK, Key
      <4> QED BY <4>1, <4>2
    <3>2. \A b \in Fetchers(d) : b \in Fetchers(d)'
      BY <2>1, <2>2 DEF Fetchers, Working
    <3> QED BY <2>1, <2>4, <3>1, <3>2 DEF Stranded, Queued, Delivering
  <2>5. \A d \in Domain : Succeeded(d) => Succeeded(d)'
    BY <2>1, <2>2 DEF Succeeded
  <2> QED BY <2>3, <2>4, <2>5 DEF StrandInv
<1>6. ASSUME NEW c \in Call, Fetch(c) PROVE StrandInv'
  BY <1>6, FetchStepStrand, SendResultStrand DEF Fetch
<1>7. ASSUME NEW c \in Call, NEW k \in Key, ReadRow(c, k) PROVE StrandInv'
  <2>1. /\ UNCHANGED <<loopVars, result, fpc, fo>> /\ pc[c] = "idle"
        /\ \A b \in Call : b # c => req'[b] = req[b]
    BY <1>7 DEF ReadRow, fetchVars, TypeOK
  <2>2. fpc[c] = "none"
    BY <2>1 DEF FlightInv
  <2>3. \A d \in Domain : Fetchers(d)' = Fetchers(d) /\ (Succeeded(d) => Succeeded(d)')
    BY <2>1, <2>2 DEF Fetchers, Succeeded, Working
  <2> QED
    BY <2>1, <2>2, <2>3 DEF StrandInv, FailureIsNamed, Stranded, Queued, Delivering, Working, loopVars
<1> QED BY <1>1, <1>2, <1>3, <1>4, <1>5, <1>6, <1>7 DEF Next, Crash

(* Callers of a named domain are left without anybody working for them     *)
(* only by a fetch that succeeded, whatever statements fail and whenever   *)
(* the process ends (update_token.go:54-61).                               *)
THEOREM StrandedBySuccess == Spec => []OnlySuccessStrands
<1>1. Init => StrandInv
  BY StrandInvInit
<1>2. TypeOK /\ FlightInv /\ StrandInv /\ [Next]_vars => StrandInv'
  BY StrandInvStep
<1>3. StrandInv => OnlySuccessStrands
  BY DEF StrandInv, Stranded, Succeeded, OnlySuccessStrands
<1> QED BY <1>1, <1>2, <1>3, TypeCorrect, OneFetchPerOffice, PTL DEF Spec

-----------------------------------------------------------------------------
(* Between the select and the delete of InsertOrUpdateOffice the key that  *)
(* was read is that of a row of the fetch's own domain, or of none.        *)
LastIsOwn ==
  \A c \in Call : fpc[c] = "delete" =>
    last[c] \in 1 .. lastId /\ \A row \in office_app : row.id = last[c] => row.domain = fo[c].domain

(* InsertOrUpdate leaves every row its key and its domain: what is new has *)
(* the new key.                                                            *)
LEMMA UpsertedRows ==
  ASSUME NEW table, NEW new \in Nat, NEW office \in OfficeApp,
         table \subseteq OfficeApp
  PROVE  /\ \A r \in table : \E s \in Upserted(table, office, new) : s.id = r.id /\ s.domain = r.domain
         /\ \A s \in Upserted(table, office, new) :
              s.id = new \/ \E r \in table : r.id = s.id /\ r.domain = s.domain
<1>1. CASE RowsOf(table, office.domain) = {}
  <2> DEFINE row == [office EXCEPT !.id = new]
  <2>1. row.id = new /\ row.domain = office.domain
    BY DEF OfficeApp
  <2>2. Upserted(table, office, new) = table \cup {row}
    BY <1>1 DEF Upserted
  <2> HIDE DEF row
  <2> QED BY <2>1, <2>2
<1>2. CASE RowsOf(table, office.domain) # {}
  <2> DEFINE put(row) == IF row.domain = office.domain THEN [office EXCEPT !.id = row.id] ELSE row
  <2>1. Upserted(table, office, new) = {put(row) : row \in table}
    BY <1>2 DEF Upserted
  <2>2. \A row \in table : put(row).id = row.id /\ put(row).domain = row.domain
    BY DEF OfficeApp
  <2> HIDE DEF put
  <2> QED BY <2>1, <2>2
<1> QED BY <1>1, <1>2

(* And it leaves a row for its office.                                     *)
LEMMA UpsertedWritten ==
  ASSUME NEW table, NEW new \in Nat, NEW office \in OfficeApp,
         table \subseteq OfficeApp
  PROVE  RowsOf(Upserted(table, office, new), office.domain) # {}
<1>1. CASE RowsOf(table, office.domain) = {}
  <2>1. [office EXCEPT !.id = new].domain = office.domain
    BY DEF OfficeApp
  <2> QED BY <1>1, <2>1 DEF Upserted, RowsOf
<1>2. CASE RowsOf(table, office.domain) # {}
  <2>1. PICK r \in table : r.domain = office.domain
    BY <1>2 DEF RowsOf
  <2>2. \E s \in Upserted(table, office, new) : s.domain = office.domain
    BY <2>1, UpsertedRows
  <2> QED BY <2>2 DEF RowsOf
<1> QED BY <1>1, <1>2

(* What a step does to the table: it leaves it alone, a fetch deletes the  *)
(* row it has read, or a fetch writes one and draws a key.                 *)
LEMMA TableSteps ==
  ASSUME TypeOK, [Next]_vars \/ ProcessEnds
  PROVE  \/ UNCHANGED tableVars
         \/ \E c \in Call : /\ fpc[c] = "delete" /\ UNCHANGED lastId
                            /\ office_app' = WithoutRow(office_app, last[c])
         \/ \E c \in Call :
              /\ fpc[c] = "upsert" /\ lastId' = lastId + 1
              /\ office_app' \in {office_app, Upserted(office_app, fo[c], lastId')}
BY DEF Next, StartUpdateAllTokenTask, TakeResult, Deliver, StopFileServer, Crash, ProcessEnds,
       HandleRequest, ReadRow, Fetch, FetchToken, SelectRow, DeleteRow, UpsertRow, SendResult,
       vars, tableVars

(* In a step that writes no row under a key that was there before, the key *)
(* a fetch has read remains that of its own row, or of none.               *)
LEMMA LastFrame ==
  ASSUME TypeOK, LastIsOwn,
         lastId' \in Nat, lastId' >= lastId,
         \A row \in office_app' :
           row.id > lastId \/ \E r \in office_app : r.id = row.id /\ r.domain = row.domain,
         \A c \in Call : fpc'[c] = "delete" => fpc[c] = "delete" /\ last'[c] = last[c] /\ fo'[c] = fo[c]
  PROVE  LastIsOwn'
<1> SUFFICES ASSUME NEW c \in Call, fpc'[c] = "delete"
             PROVE  /\ last'[c] \in 1 .. lastId'
                    /\ \A row \in office_app' : row.id = last'[c] => row.domain = fo'[c].domain
  BY DEF LastIsOwn
<1>1. /\ fpc[c] = "delete" /\ last'[c] = last[c] /\ fo'[c] = fo[c]
  OBVIOUS
<1>2. last[c] \in 1 .. lastId /\ lastId \in Nat /\ ~(last[c] > lastId) /\ last[c] \in 1 .. lastId'
  BY <1>1 DEF LastIsOwn, TypeOK
<1> QED BY <1>1, <1>2 DEF LastIsOwn

(* What is written back after a delete is written under a key that nobody  *)
(* can have read.                                                          *)
LEMMA LastIsOwnStep ==
  ASSUME TypeOK, LastIsOwn, [Next]_vars \/ ProcessEnds
  PROVE  LastIsOwn'
<1>1. CASE \/ StartUpdateAllTokenTask \/ StopFileServer \/ TakeResult \/ Deliver \/ UNCHANGED vars
           \/ \E c \in Call, d \in Key : ReadRow(c, d)
  <2>1. UNCHANGED <<tableVars, fpc, last, fo>>
    BY <1>1 DEF StartUpdateAllTokenTask, StopFileServer, TakeResult, Deliver, ReadRow, vars, fetchVars
  <2> QED BY <2>1 DEF LastIsOwn, tableVars
<1>2. CASE ProcessEnds
  BY <1>2 DEF ProcessEnds, LastIsOwn
<1>3. ASSUME NEW c \in Call, HandleRequest(c) \/ FetchToken(c) \/ SendResult(c) PROVE LastIsOwn'
  <2>1. (UNCHANGED <<tableVars, last>> /\ fpc'[c] # "delete") \/ UNCHANGED <<tableVars, fpc, last, fo>>
    BY <1>3 DEF HandleRequest, FetchToken, SendResult, TypeOK
  <2>2. \A b \in Call : b # c => fpc'[b] = fpc[b] /\ fo'[b] = fo[b]
    BY <1>3 DEF HandleRequest, FetchToken, SendResult, TypeOK
  <2> QED BY <2>1, <2>2 DEF LastIsOwn, tableVars
<1>4. ASSUME NEW c \in Call, SelectRow(c) PROVE LastIsOwn'
  <2>1. /\ UNCHANGED <<tableVars, fo>> /\ fpc'[c] \in {"delete", "upsert"}
        /\ \A b \in Call : b # c => fpc'[b] = fpc[b] /\ last'[b] = last[b]
    BY <1>4 DEF SelectRow, TypeOK
  <2>2. ASSUME fpc'[c] = "delete"
        PROVE  last'[c] \in 1 .. lastId /\ \A row \in office_app : row.id = last'[c] => row.domain = fo[c].domain
    <3>1. PICK row \in RowsOf(office_app, fo[c].domain) : last' = [last EXCEPT ![c] = row.id]
      BY <1>4, <2>2 DEF SelectRow, TypeOK
    <3>2. row \in office_app /\ row.domain = fo[c].domain /\ last'[c] = row.id
      BY <3>1 DEF RowsOf, TypeOK
    <3> QED BY <3>2 DEF TypeOK
  <2> QED BY <2>1, <2>2 DEF LastIsOwn, tableVars
<1>5. ASSUME NEW c \in Call, DeleteRow(c) PROVE LastIsOwn'
  <2>1. /\ UNCHANGED <<lastId, fo>> /\ lastId \in Nat /\ fpc'[c] = "upsert"
        /\ \A b \in Call : b # c => fpc'[b] = fpc[b] /\ last'[b] = last[b]
    BY <1>5 DEF DeleteRow, TypeOK
  <2>2. \A row \in office_app' : row \in office_app
    BY <1>5 DEF DeleteRow, WithoutRow
  <2> QED BY <2>1, <2>2 DEF LastIsOwn
<1>6. ASSUME NEW c \in Call, UpsertRow(c) PROVE LastIsOwn'
  <2>1. /\ lastId' = lastId + 1 /\ lastId \in Nat /\ UNCHANGED <<fo, last>> /\ fpc'[c] = "result"
        /\ \A b \in Call : b # c => fpc'[b] = fpc[b]
    BY <1>6 DEF UpsertRow, TypeOK
  <2>2. /\ lastId' \in Nat /\ lastId' > lastId /\ lastId' >= lastId
        /\ office_app \subseteq OfficeApp /\ fo[c] \in OfficeApp
    BY <2>1 DEF TypeOK
  <2>3. \A row \in Upserted(office_app, fo[c], lastId') :
          row.id = lastId' \/ \E r \in office_app : r.id = row.id /\ r.domain = row.domain
    BY <2>2, UpsertedRows, Zenon
  <2>4. \A row \in office_app' :
          row.id > lastId \/ \E r \in office_app : r.id = row.id /\ r.domain = row.domain
    <3>1. CASE office_app' = office_app
      BY <3>1
    <3>2. CASE office_app' = Upserted(office_app, fo[c], lastId')
      BY <2>2, <2>3, <3>2
    <3> QED BY <1>6, <3>1, <3>2 DEF UpsertRow
  <2> QED BY <2>1, <2>2, <2>4, LastFrame
<1> QED BY <1>1, <1>2, <1>3, <1>4, <1>5, <1>6 DEF Next, Crash, Fetch

(* A step that leaves the table, and the fetches between delete and upsert,*)
(* alone leaves RowKept alone.                                             *)
LEMMA KeptFrame ==
  ASSUME RowKept, UNCHANGED tableVars,
         \A c \in Call : fpc[c] = "upsert" =>
           fpc'[c] = "upsert" /\ fo'[c] = fo[c] /\ req'[c] = req[c]
  PROVE  RowKept'
BY DEF RowKept, RowsOf, Fetchers, Working, tableVars

(* The row that is deleted is the fetch's own, and the fetch is about to   *)
(* write it back.                                                          *)
LEMMA DeleteRowKept ==
  ASSUME TypeOK, FlightInv, LastIsOwn, RowKept, NEW c \in Call, DeleteRow(c)
  PROVE  RowKept'
<1>1. /\ fpc[c] = "delete" /\ UNCHANGED <<lastId, callVars, fo>>
      /\ fpc'[c] = "upsert"
      /\ \A b \in Call : b # c => fpc'[b] = fpc[b] /\ last'[b] = last[b]
  BY DEF DeleteRow, TypeOK
<1> SUFFICES ASSUME Faults = {}, NEW d \in Registered, RowsOf(office_app', d) = {}
             PROVE  \E b \in Fetchers(d)' : fpc'[b] = "upsert" /\ fo'[b].domain = d
  BY DEF RowKept
<1>2. CASE RowsOf(office_app, d) = {}
  <2>1. PICK b \in Fetchers(d) : fpc[b] = "upsert" /\ fo[b].domain = d
    BY <1>2 DEF RowKept
  <2> QED BY <1>1, <2>1 DEF Fetchers, callVars
<1>3. CASE RowsOf(office_app, d) # {}
  <2>1. PICK row \in office_app : row.domain = d /\ row \notin office_app'
    BY <1>3 DEF RowsOf
  <2>2. row.id = last[c]
    BY <2>1 DEF DeleteRow, WithoutRow
  <2>3. fo[c].domain = d
    BY <1>1, <2>1, <2>2 DEF LastIsOwn
  <2>4. req[c].domain = d
    BY <1>1, <2>3 DEF FlightInv, Working, Registered
  <2> QED BY <1>1, <2>3, <2>4 DEF Fetchers, Working, callVars
<1> QED BY <1>2, <1>3

(* What is written back is there again, and nothing else is taken away.    *)
LEMMA UpsertRowKept ==
  ASSUME TypeOK, RowKept, NEW c \in Call, UpsertRow(c)
  PROVE  RowKept'
<1>1. /\ fpc[c] = "upsert" /\ lastId' = lastId + 1 /\ lastId \in Nat
      /\ UNCHANGED <<callVars, fo, last>> /\ fpc'[c] = "result"
      /\ \A b \in Call : b # c => fpc'[b] = fpc[b]
  BY DEF UpsertRow, TypeOK
<1>2. /\ RowsOf(Upserted(office_app, fo[c], lastId'), fo[c].domain) # {}
      /\ \A r \in office_app :
           \E s \in Upserted(office_app, fo[c], lastId') : s.id = r.id /\ s.domain = r.domain
  <2>1. office_app \subseteq OfficeApp /\ fo[c] \in OfficeApp /\ lastId' \in Nat
    BY <1>1 DEF TypeOK
  <2>2. RowsOf(Upserted(office_app, fo[c], lastId'), fo[c].domain) # {}
    BY <2>1, UpsertedWritten
  <2>3. \A r \in office_app :
          \E s \in Upserted(office_app, fo[c], lastId') : s.id = r.id /\ s.domain = r.domain
    BY <2>1, UpsertedRows
  <2> QED BY <2>2, <2>3
<1>3. office_app' = Upserted(office_app, fo[c], lastId') \/ Faults # {}
  BY DEF UpsertRow
<1> SUFFICES ASSUME Faults = {}, NEW d \in Registered, RowsOf(office_app', d) = {}
             PROVE  \E b \in Fetchers(d)' : fpc'[b] = "upsert" /\ fo'[b].domain = d
  BY DEF RowKept
<1>4. RowsOf(office_app, d) = {} /\ fo[c].domain # d
  BY <1>2, <1>3 DEF RowsOf
<1>5. PICK b \in Fetchers(d) : fpc[b] = "upsert" /\ fo[b].domain = d
  BY <1>4 DEF RowKept
<1>6. b # c
  BY <1>4, <1>5
<1> QED BY <1>1, <1>5, <1>6 DEF Fetchers, callVars

(* As long as no statement fails and the process does not end, an office   *)
(* that has a row has one again as soon as its one fetch has rewritten it, *)
(* however the statements of the fetches of all offices are interleaved    *)
(* (InsertOrUpdateOffice, office_models.go:64-72).                         *)
THEOREM RowsAreKept == Spec => []RowKept
<1>1. Init => LastIsOwn /\ RowKept
  <2>1. ASSUME Init, NEW d \in Registered PROVE RowsOf(office_app, d) # {}
    BY <2>1 DEF Init, Registered, RowsOf
  <2> QED BY <2>1 DEF Init, RowKept, LastIsOwn
<1>2. TypeOK /\ LastIsOwn /\ [Next]_vars => LastIsOwn'
  BY LastIsOwnStep
<1>3. TypeOK /\ FlightInv /\ LastIsOwn /\ RowKept /\ [Next]_vars => RowKept'
  <2> SUFFICES ASSUME TypeOK, FlightInv, LastIsOwn, RowKept, [Next]_vars PROVE RowKept'
    OBVIOUS
  <2>1. CASE StartUpdateAllTokenTask \/ StopFileServer \/ TakeResult \/ Deliver \/ UNCHANGED vars
    <3>1. UNCHANGED <<tableVars, fpc, last, fo, req>>
      BY <2>1 DEF StartUpdateAllTokenTask, StopFileServer, TakeResult, Deliver,
                  vars, callVars, fetchVars
    <3> QED BY <3>1, KeptFrame
  <2>2. CASE Crash
    BY <2>2 DEF Crash, RowKept
  <2>3. ASSUME NEW c \in Call, HandleRequest(c) PROVE RowKept'
    <3>1. /\ UNCHANGED <<tableVars, req, fo>> /\ pc[c] = "send"
          /\ \A b \in Call : b # c => fpc'[b] = fpc[b]
      BY <2>3 DEF HandleRequest, TypeOK
    <3>2. fpc[c] = "none"
      BY <3>1 DEF FlightInv
    <3> QED BY <3>1, <3>2, KeptFrame
  <2>4. ASSUME NEW c \in Call, FetchToken(c) PROVE RowKept'
    <3>1. /\ UNCHANGED <<tableVars, req>> /\ fpc[c] = "fetch"
          /\ \A b \in Call : b # c => fpc'[b] = fpc[b] /\ fo'[b] = fo[b]
      BY <2>4 DEF FetchToken, callVars, TypeOK
    <3> QED BY <3>1, KeptFrame
  <2>5. ASSUME NEW c \in Call, SelectRow(c) PROVE RowKept'
    <3>1. /\ UNCHANGED <<tableVars, callVars, fo>> /\ fpc[c] = "select"
          /\ \A b \in Call : b # c => fpc'[b] = fpc[b]
      BY <2>5 DEF SelectRow, TypeOK
    <3> QED BY <3>1, KeptFrame DEF callVars
  <2>6. ASSUME NEW c \in Call, DeleteRow(c) PROVE RowKept'
    BY <2>6, DeleteRowKept
  <2>7. ASSUME NEW c \in Call, UpsertRow(c) PROVE RowKept'
    BY <2>7, UpsertRowKept
  <2>8. ASSUME NEW c \in Call, SendResult(c) PROVE RowKept'
    <3>1. /\ UNCHANGED <<tableVars, callVars, fo>> /\ fpc[c] = "result"
          /\ \A b \in Call : b # c => fpc'[b] = fpc[b]
      BY <2>8 DEF SendResult, TypeOK
    <3> QED BY <3>1, KeptFrame DEF callVars
  <2>9. ASSUME NEW c \in Call, NEW k \in Key, ReadRow(c, k) PROVE RowKept'
    <3>1. /\ UNCHANGED <<tableVars, fpc, fo>> /\ pc[c] = "idle"
          /\ \A b \in Call : b # c => req'[b] = req[b]
      BY <2>9 DEF ReadRow, fetchVars, TypeOK
    <3>2. fpc[c] = "none"
      BY <3>1 DEF FlightInv
    <3> QED BY <3>1, <3>2, KeptFrame
  <2> QED BY <2>1, <2>2, <2>3, <2>4, <2>5, <2>6, <2>7, <2>8, <2>9 DEF Next, Fetch
<1> QED BY <1>1, <1>2, <1>3, TypeCorrect, OneFetchPerOffice, PTL DEF Spec

-----------------------------------------------------------------------------
(* The task implements the service.                                        *)

(* Steps that end no wait, start none and keep the loop where it is do not *)
(* show.                                                                   *)
LEMMA SilentStep ==
  ASSUME UNCHANGED <<cur, got>>, loop' = "deliver" <=> loop = "deliver",
         \A c \in Call : /\ pc'[c] = "wait" <=> pc[c] = "wait"
                         /\ pc'[c] = "returned" <=> pc[c] = "returned"
                         /\ pc[c] = "wait" => req'[c] = req[c]
  PROVE  UNCHANGED Service!serviceVars
<1>1. BeingServed' = BeingServed /\ Asking' = Asking
  BY DEF BeingServed, Asking
<1>2. \A c \in Asking : req'[c] = req[c]
  BY DEF Asking
<1>3. AskingPairs' = AskingPairs
  BY <1>1, <1>2 DEF AskingPairs
<1>4. AnswerPairs' = AnswerPairs
  BY <1>1 DEF AnswerPairs
<1> QED BY <1>3, <1>4 DEF Service!serviceVars

(* A request that is listed asks.                                          *)
LEMMA HandleRequestAsks ==
  ASSUME TypeOK, NEW c \in Call, HandleRequest(c)
  PROVE  Service!Next
<1>1. /\ loop = "select" /\ pc[c] = "send" /\ UNCHANGED <<loop, req, got>>
      /\ pc'[c] = "wait" /\ \A b \in Call : b # c => pc'[b] = pc[b]
  BY DEF HandleRequest, TypeOK
<1>2. BeingServed = {} /\ BeingServed' = {}
  BY <1>1 DEF BeingServed
<1>3. Asking' = Asking \cup {c} /\ c \notin Asking
  BY <1>1, <1>2 DEF Asking
<1>4. AskingPairs' = AskingPairs \cup {<<c, req[c].domain>>}
  BY <1>1, <1>3 DEF AskingPairs
<1>5. AnswerPairs' = AnswerPairs
  BY <1>1, <1>2 DEF AnswerPairs
<1>6. c \notin {p[1] : p \in AskingPairs} \cup {p[1] : p \in AnswerPairs}
  BY <1>1, <1>2, <1>3 DEF AskingPairs, AnswerPairs
<1>7. req[c].domain \in Key
  BY ListTypes
<1> QED BY <1>4, <1>5, <1>6, <1>7 DEF Service!Next, Service!Ask, Key, Service!Key

(* Taking a result answers everybody who waits for its domain.             *)
LEMMA TakeResultAnswers ==
  ASSUME TypeOK, ListInv, TakeResult, NEW k, k = Head(result).domain, reqList[k] # <<>>
  PROVE  Service!Next
<1>1. /\ loop = "select" /\ loop' = "deliver" /\ cur' = Head(result) /\ cur'.domain = k
      /\ UNCHANGED <<pc, req, got>>
  BY DEF TakeResult, callVars
<1>2. k \in Key
  <2>1. Head(result) \in OfficeApp
    BY DEF TakeResult, TypeOK
  <2> QED BY <2>1 DEF OfficeApp
<1>3. BeingServed = {} /\ BeingServed' = {c \in Asking : req[c].domain = k}
  BY <1>1 DEF BeingServed, Asking
<1>4. Asking' = Asking \ BeingServed'
  BY <1>1, <1>3 DEF Asking, BeingServed
<1> DEFINE served == {p \in AskingPairs : p[2] = k}
<1>5. served = {<<c, k>> : c \in BeingServed'}
  BY <1>3 DEF AskingPairs
<1>6. served # {}
  <2>1. 1 \in Unserved(k)
    <3>1. Len(reqList[k]) \in Nat /\ Len(reqList[k]) # 0
      BY <1>2, ListTypes
    <3> QED BY <1>1, <3>1 DEF Unserved
  <2>2. reqList[k][1] \in Call /\ pc[reqList[k][1]] = "wait" /\ req[reqList[k][1]].domain = k
    BY <1>2, <2>1, ListTypes DEF ListInv, ListedAreWaiting
  <2>3. reqList[k][1] \in BeingServed'
    BY <1>1, <2>2 DEF BeingServed
  <2> QED BY <1>5, <2>3
<1>7. AskingPairs' = AskingPairs \ served
  BY <1>1, <1>3, <1>4 DEF AskingPairs
<1>8. AnswerPairs' = AnswerPairs \cup {<<p[1], cur'>> : p \in served}
  <2>1. {<<c, cur'>> : c \in BeingServed'} = {<<p[1], cur'>> : p \in served}
    <3>1. ASSUME NEW c \in BeingServed' PROVE <<c, cur'>> \in {<<p[1], cur'>> : p \in served}
      <4>1. <<c, k>> \in served /\ <<c, k>>[1] = c
        BY <1>5
      <4> HIDE DEF served
      <4> QED BY <4>1
    <3>2. ASSUME NEW p \in served PROVE <<p[1], cur'>> \in {<<c, cur'>> : c \in BeingServed'}
      <4>1. PICK c \in BeingServed' : p = <<c, k>>
        BY <1>5
      <4> QED BY <4>1
    <3> HIDE DEF served
    <3> QED BY <3>1, <3>2
  <2> QED BY <1>1, <1>3, <2>1 DEF AnswerPairs
<1>9. cur' \in {p[2] : p \in AnswerPairs'}
  <2>1. PICK p \in served : TRUE
    BY <1>6
  <2>2. <<p[1], cur'>> \in AnswerPairs' /\ <<p[1], cur'>>[2] = cur'
    BY <1>8, <2>1
  <2> QED BY <2>2
<1>10. Service!Answer(k)
  BY <1>1, <1>6, <1>7, <1>8, <1>9 DEF Service!Answer
<1> QED BY <1>2, <1>10 DEF Service!Next, Service!Key, Key

(* Serving a channel hands over an answer that was already given; with the *)
(* last one nobody is being served any more.                               *)
LEMMA DeliverSilent ==
  ASSUME TypeOK, ListInv, Deliver,
         NEW k, k = cur.domain, NEW c, c = reqList[k][next]
  PROVE  UNCHANGED Service!serviceVars
<1>1. /\ loop = "deliver" /\ pc[c] = "wait" /\ req' = req
      /\ next \in 1 .. Len(reqList[k]) /\ k \in Key
  BY ListTypes DEF Deliver, TypeOK
<1>2. next \in Unserved(k) /\ c \in Call
  BY <1>1, ListTypes DEF Unserved
<1>3. /\ pc'[c] = "returned" /\ got'[c] = cur
      /\ \A b \in Call : b # c => pc'[b] = pc[b] /\ got'[b] = got[b]
  BY <1>2 DEF Deliver, TypeOK
<1>4. c \in BeingServed
  BY <1>1, <1>2 DEF BeingServed, ListInv, ListedAreWaiting
<1>5. BeingServed' = BeingServed \ {c} /\ (BeingServed' # {} => cur' = cur)
  <2>1. CASE next = Len(reqList[k])
    <3>1. loop' = "select"
      BY <2>1 DEF Deliver
    <3>2. Unserved(k) = {next}
      BY <1>1, <2>1, ListTypes DEF Unserved
    <3>3. BeingServed \subseteq {c}
      BY <3>2 DEF BeingServed, ListInv, WaitersAreListed
    <3> QED BY <3>1, <3>3 DEF BeingServed
  <2>2. CASE next # Len(reqList[k])
    <3>1. UNCHANGED <<loop, cur>>
      BY <2>2 DEF Deliver
    <3> QED BY <1>1, <1>2, <1>3, <3>1 DEF BeingServed
  <2> QED BY <2>1, <2>2
<1>6. Asking' = Asking
  BY <1>1, <1>2, <1>3, <1>4, <1>5 DEF Asking
<1>7. AskingPairs' = AskingPairs
  BY <1>1, <1>6 DEF AskingPairs
<1>8. AnswerPairs' = AnswerPairs
  <2> DEFINE R == {b \in Call : pc[b] = "returned"}
             Q == {b \in Call : pc'[b] = "returned"}
  <2>1. Q = R \cup {c} /\ c \notin R
    BY <1>1, <1>2, <1>3
  <2>2. {<<b, got'[b]>> : b \in Q} = {<<b, got[b]>> : b \in R} \cup {<<c, cur>>}
    BY <1>3, <2>1
  <2>3. {<<b, cur'>> : b \in BeingServed'} = {<<b, cur>> : b \in BeingServed \ {c}}
    BY <1>5
  <2>4. {<<b, cur>> : b \in BeingServed} = {<<b, cur>> : b \in BeingServed \ {c}} \cup {<<c, cur>>}
    BY <1>4
  <2> QED BY <2>2, <2>3, <2>4 DEF AnswerPairs
<1> QED BY <1>7, <1>8 DEF Service!serviceVars

(* A result answers, at the moment it is taken, exactly the calls waiting  *)
(* for its domain.                                                         *)
THEOREM TaskImplementsService == Spec => ImplementsService
<1>1. Init => Service!Init
  BY DEF Init, Service!Init, AskingPairs, AnswerPairs, Asking, BeingServed
<1>2. TypeOK /\ ListInv /\ [Next]_vars => [Service!Next]_(Service!serviceVars)
  <2> SUFFICES ASSUME TypeOK, ListInv, [Next]_vars
               PROVE  Service!Next \/ UNCHANGED Service!serviceVars
    OBVIOUS
  <2>1. CASE StartUpdateAllTokenTask \/ StopFileServer \/ UNCHANGED vars
    BY <2>1, SilentStep DEF StartUpdateAllTokenTask, StopFileServer, vars, callVars, loopVars
  <2>2. CASE TakeResult
    <3>1. CASE reqList[Head(result).domain] = <<>>
      BY <2>2, <3>1, SilentStep DEF TakeResult, callVars
    <3> QED BY <2>2, <3>1, TakeResultAnswers
  <2>3. CASE Deliver
    BY <2>3, DeliverSilent
  <2>4. CASE Crash
    <3>1. /\ \A c \in Call : pc'[c] # "wait" /\ (pc'[c] = "returned" <=> pc[c] = "returned")
          /\ got' = got
      BY <2>4 DEF Crash, ProcessEnds
    <3>2. AskingPairs' = {} /\ AnswerPairs' \subseteq AnswerPairs
      BY <3>1 DEF AskingPairs, AnswerPairs, Asking, BeingServed
    <3> QED BY <2>4, <3>2 DEF Crash, ProcessEnds, Service!Next, Service!Forget
  <2>5. ASSUME NEW c \in Call, HandleRequest(c) PROVE Service!Next
    BY <2>5, HandleRequestAsks
  <2>6. ASSUME NEW c \in Call, Fetch(c) PROVE UNCHANGED Service!serviceVars
    BY <2>6, SilentStep
    DEF Fetch, FetchToken, SelectRow, DeleteRow, UpsertRow, SendResult, loopVars, callVars
  <2>7. ASSUME NEW c \in Call, NEW d \in Key, ReadRow(c, d) PROVE UNCHANGED Service!serviceVars
    BY <2>7, SilentStep DEF ReadRow, loopVars, TypeOK
  <2> QED BY <2>1, <2>2, <2>3, <2>4, <2>5, <2>6, <2>7 DEF Next
<1> QED
  BY <1>1, <1>2, TypeCorrect, ListedIffWaiting, PTL DEF Spec, ListInv, ImplementsService, Service!Spec
=============================================================================
