------------------------- MODULE NotificationProofs -------------------------
(***************************************************************************)
(* Theorems about Notification and the run of DeltaSync it starts, for all *)
(* resources, calendars and any number of bad answers: the user is what    *)
(* comes before "/Events", the run goes from page to page, passes none     *)
(* over and collects them in order.                                        *)
(***************************************************************************)
EXTENDS Notification, SequenceTheorems, FiniteSetTheorems,
        WellFoundedInduction, TLAPS

-----------------------------------------------------------------------------
(* The inductive invariant, in parts.                                      *)

(* Before the first page there is nothing; between two pages the link is   *)
(* that of the page to be asked for.                                       *)
LinkInv ==
  /\ at \in {"idle", "first"} => apiUrl = 1 /\ nextLink = 0 /\ ~delta
  /\ at = "next" => nextLink = apiUrl /\ ~delta
  /\ deltaLink => at = "returned"

SyncInv == SyncTypeOK /\ LinkInv

(* Every change of a page has its id among the values.                     *)
HasIds(page, vals) ==
  \A i \in 1 .. Len(page) : \E j \in 1 .. Len(vals) : vals[j].id = page[i].id

(* The list that an event in place i of a page, or of track.Value, leads   *)
(* to is in an array that was made for that place; it has no elements      *)
(* where there is none.  h is the heap, ps the pages.                      *)
InPlace(h, slice, i) == slice = NilSlice \/ (slice.of \in DOMAIN h /\ slice.of[2] = i)
Shown(h, event) == [j \in 1 .. event.attendees.len |-> h[event.attendees.of][j]]

(* No array has the name of one of the page to come.                       *)
HeapInv ==
  /\ \A a \in DOMAIN heap : heap[a] \in Seq(Attendee)
  /\ at # "returned" => \A a \in DOMAIN heap : a[1] < apiUrl
  /\ \A i \in 1 .. Len(array) : InPlace(heap, array[i].attendees, i)

(* An event that was collected of place i of page p, last being the last   *)
(* page collected.                                                         *)
AsSent(h, ps, event, p, i, last) ==
  /\ p \in Nat /\ p <= last /\ InPlace(h, event.attendees, i)
  /\ event.id = ps[p][i].id
  /\ ps[p][i].subject # Absent => event.subject = ps[p][i].subject
  /\ ps[p][i].attendees # Absent =>
       /\ event.attendees.len = Len(ps[p][i].attendees)
       /\ \/ Shown(h, event) = ps[p][i].attendees
          \/ \E q \in p + 1 .. last : i \in Brings(ps[q])

AllAsSent(h, ps, vals, from, last) ==
  /\ Len(vals) = Len(from)
  /\ \A k \in 1 .. Len(from) : AsSent(h, ps, vals[k], from[k][1], from[k][2], last)

PlacesOf(ps, n) == [i \in 1 .. Len(ps[n]) |-> <<n, i>>]
PlacesIn(ps, last) == FlattenSeq([n \in 1 .. last - 1 |-> PlacesOf(ps, n + 1)])

OrderInv ==
  /\ SyncInv /\ HeapInv
  /\ at \in {"idle", "first"} => values = <<>>
  /\ bad = 0 => AllAsSent(heap, pages, values, PlacesIn(pages, Fetched), Fetched)

SkipInv == SyncInv /\ \A p \in 2 .. Fetched : HasIds(pages[p], values)

-----------------------------------------------------------------------------
(* Sequences put together.                                                 *)
LEMMA Least ==
  ASSUME NEW T \in SUBSET Nat, T # {}
  PROVE  \E x \in T : \A y \in T : x <= y
<1>1. PICK x \in T : \A y \in T : ~(<<y, x>> \in OpToRel(<, Nat))
  BY WFMin, NatLessThanWellFounded
<1>2. ASSUME NEW y \in T PROVE x <= y
  <2>1. <<y, x>> \in Nat \X Nat /\ y \in Nat /\ x \in Nat
    OBVIOUS
  <2>2. ~(y < x)
    <3>1. SUFFICES ASSUME y < x PROVE <<y, x>> \in OpToRel(<, Nat)
      BY <1>1
    <3>2. QED BY <2>1, <3>1 DEF OpToRel
  <2>3. QED BY <2>1, <2>2
<1>3. QED BY <1>2

(* Step by step, up to any number.                                         *)
LEMMA UpTo ==
  ASSUME NEW N \in Nat, NEW T, 0 \in T, \A n \in 0 .. N - 1 : n \in T => n + 1 \in T
  PROVE  \A n \in 0 .. N : n \in T
<1> DEFINE R == {n \in 0 .. N : n \notin T}
<1> SUFFICES ASSUME R # {} PROVE FALSE
  OBVIOUS
<1>1. R \in SUBSET Nat
  OBVIOUS
<1>2. PICK n \in R : \A k \in R : n <= k
  <2> HIDE DEF R
  <2> QED BY <1>1, Least
<1>3. n \in 0 .. N /\ n # 0
  BY <1>2
<1>4. n - 1 \in 0 .. N - 1 /\ n - 1 \in 0 .. N /\ (n - 1) + 1 = n
  BY <1>3
<1>5. n - 1 \notin R
  <2> HIDE DEF R
  <2> QED BY <1>2, <1>3
<1> QED BY <1>4, <1>5

(* FlattenSeq, as it is defined: the function that puts one sequence after *)
(* the other, which there is and of which there is one.                    *)
IsFlattening(f, seqs, n) ==
  f = [i \in 1 .. n |-> IF i = 1 THEN seqs[i] ELSE f[i - 1] \o seqs[i]]

LEMMA FlatteningOf ==
  ASSUME NEW seqs, Len(seqs) # 0
  PROVE  FlattenSeq(seqs) = (CHOOSE f : IsFlattening(f, seqs, Len(seqs)))[Len(seqs)]
BY DEF FlattenSeq, IsFlattening

LEMMA FlatteningExists ==
  ASSUME NEW seqs, NEW n \in Nat \ {0}
  PROVE  \E f : IsFlattening(f, seqs, n)
<1> DEFINE T == {m \in Nat \ {0} : ~\E f : IsFlattening(f, seqs, m)}
<1> SUFFICES ASSUME T # {} PROVE FALSE
  OBVIOUS
<1>1. PICK m \in T : \A k \in T : m <= k
  BY Least
<1>2. m # 1
  <2>1. IsFlattening([i \in 1 .. 1 |-> seqs[1]], seqs, 1)
    BY DEF IsFlattening
  <2> QED BY <2>1
<1>3. m - 1 \in Nat \ {0} /\ m - 1 \notin T
  BY <1>1, <1>2
<1>4. PICK f : IsFlattening(f, seqs, m - 1)
  BY <1>3
<1> DEFINE g == [i \in 1 .. m |-> IF i = m THEN f[m - 1] \o seqs[m] ELSE f[i]]
<1>5. ASSUME NEW i \in 1 .. m
      PROVE  g[i] = IF i = 1 THEN seqs[i] ELSE g[i - 1] \o seqs[i]
  <2>1. CASE i = m
    <3>1. m - 1 \in 1 .. m /\ m - 1 # m /\ m \in 1 .. m
      BY <1>3
    <3>2. g[m] = f[m - 1] \o seqs[m] /\ g[m - 1] = f[m - 1]
      BY <3>1
    <3> QED BY <1>2, <2>1, <3>2
  <2>2. CASE i # m
    <3>1. i \in 1 .. m - 1 /\ (i # 1 => i - 1 \in 1 .. m - 1 /\ i - 1 # m /\ i - 1 \in 1 .. m)
      BY <1>3, <2>2
    <3>2. g[i] = f[i] /\ (i # 1 => g[i - 1] = f[i - 1])
      BY <2>2, <3>1
    <3>3. f[i] = IF i = 1 THEN seqs[i] ELSE f[i - 1] \o seqs[i]
      BY <1>4, <3>1 DEF IsFlattening
    <3> QED BY <3>2, <3>3
  <2> QED BY <2>1, <2>2
<1>6. IsFlattening(g, seqs, m)
  <2>1. g = [i \in 1 .. m |-> g[i]]
    OBVIOUS
  <2> HIDE DEF g
  <2> QED BY <1>5, <2>1 DEF IsFlattening
<1> QED BY <1>6

LEMMA FlatteningsAgree ==
  ASSUME NEW n \in Nat \ {0}, NEW seqs, NEW more, \A i \in 1 .. n : seqs[i] = more[i],
         NEW f, IsFlattening(f, seqs, n), NEW g, IsFlattening(g, more, n + 1)
  PROVE  f[n] = g[n]
<1> DEFINE T == {i \in 1 .. n : f[i] # g[i]}
<1> SUFFICES ASSUME T # {} PROVE FALSE
  OBVIOUS
<1>0. T \in SUBSET Nat
  OBVIOUS
<1>1. PICK i \in T : \A k \in T : i <= k
  <2> HIDE DEF T
  <2> QED BY <1>0, Least
<1>2. /\ f[i] = IF i = 1 THEN seqs[i] ELSE f[i - 1] \o seqs[i]
      /\ g[i] = IF i = 1 THEN more[i] ELSE g[i - 1] \o more[i]
  <2>1. i \in 1 .. n /\ i \in 1 .. n + 1
    OBVIOUS
  <2> QED BY <2>1 DEF IsFlattening
<1>3. i # 1 => i - 1 \in 1 .. n /\ i - 1 \notin T
  BY <1>1
<1> QED BY <1>2, <1>3

(* The next of a number of sequences comes at the end.                     *)
LEMMA FlattenLast ==
  ASSUME NEW S, NEW seqs \in Seq(Seq(S)), NEW part \in Seq(S)
  PROVE  FlattenSeq(Append(seqs, part)) = FlattenSeq(seqs) \o part
<1>1. PICK n, more : n = Len(seqs) /\ more = Append(seqs, part)
  OBVIOUS
<1>2. /\ n \in Nat /\ Len(more) = n + 1 /\ more[n + 1] = part
      /\ \A i \in 1 .. n : seqs[i] = more[i]
  BY <1>1, AppendProperties
<1>3. PICK g : IsFlattening(g, more, n + 1) /\ FlattenSeq(more) = g[n + 1]
  <2>1. Len(more) # 0 /\ n + 1 \in Nat \ {0}
    BY <1>2
  <2>2. \E h : IsFlattening(h, more, n + 1)
    BY <2>1, FlatteningExists
  <2>3. FlattenSeq(more) = (CHOOSE h : IsFlattening(h, more, Len(more)))[Len(more)]
    BY <2>1, FlatteningOf
  <2> QED BY <1>2, <2>2, <2>3
<1>4. CASE n = 0
  <2>1. seqs = <<>> /\ FlattenSeq(seqs) = seqs
    BY <1>1, <1>4, EmptySeq DEF FlattenSeq
  <2>2. g[1] = more[1]
    BY <1>3, <1>4 DEF IsFlattening
  <2> QED BY <1>1, <1>2, <1>3, <1>4, <2>1, <2>2, ConcatEmptySeq
<1>5. CASE n # 0
  <2>1. n \in Nat \ {0}
    BY <1>2, <1>5
  <2>2. PICK f : IsFlattening(f, seqs, n) /\ FlattenSeq(seqs) = f[n]
    <3>1. \E h : IsFlattening(h, seqs, n)
      BY <2>1, FlatteningExists
    <3>2. FlattenSeq(seqs) = (CHOOSE h : IsFlattening(h, seqs, Len(seqs)))[Len(seqs)]
      BY <1>1, <2>1, FlatteningOf
    <3> QED BY <1>1, <3>1, <3>2
  <2>3. f[n] = g[n]
    BY <1>2, <1>3, <2>1, <2>2, FlatteningsAgree
  <2>4. g[n + 1] = g[n] \o more[n + 1]
    <3>1. n + 1 \in 1 .. n + 1 /\ n + 1 # 1 /\ (n + 1) - 1 = n
      BY <2>1
    <3> QED BY <1>3, <3>1 DEF IsFlattening
  <2> QED BY <1>1, <1>2, <1>3, <2>2, <2>3, <2>4
<1> QED BY <1>2, <1>4, <1>5

LEMMA FlattenType ==
  ASSUME NEW S, NEW seqs \in Seq(Seq(S))
  PROVE  FlattenSeq(seqs) \in Seq(S)
<1>1. PICK n : n = Len(seqs) /\ n \in Nat /\ \A i \in 1 .. n : seqs[i] \in Seq(S)
  OBVIOUS
<1>2. CASE n = 0
  BY <1>1, <1>2, EmptySeq DEF FlattenSeq
<1>3. CASE n # 0
  <2>1. PICK f : IsFlattening(f, seqs, n) /\ FlattenSeq(seqs) = f[n]
    <3>1. \E h : IsFlattening(h, seqs, n)
      BY <1>1, <1>3, FlatteningExists
    <3>2. FlattenSeq(seqs) = (CHOOSE h : IsFlattening(h, seqs, Len(seqs)))[Len(seqs)]
      BY <1>1, <1>3, FlatteningOf
    <3> QED BY <1>1, <3>1, <3>2
  <2> DEFINE T == {i \in 1 .. n : f[i] \notin Seq(S)}
  <2> SUFFICES ASSUME T # {} PROVE FALSE
    BY <1>1, <1>3, <2>1
  <2>2. T \in SUBSET Nat
    OBVIOUS
  <2>3. PICK i \in T : \A k \in T : i <= k
    <3> HIDE DEF T
    <3> QED BY <2>2, Least
  <2>4. i \in 1 .. n /\ f[i] \notin Seq(S) /\ seqs[i] \in Seq(S)
    BY <1>1
  <2>5. f[i] = IF i = 1 THEN seqs[i] ELSE f[i - 1] \o seqs[i]
    BY <2>1, <2>4 DEF IsFlattening
  <2>6. i # 1 => f[i - 1] \in Seq(S)
    <3>1. i # 1 => i - 1 \in 1 .. n /\ i - 1 \notin T
      BY <1>1, <2>3
    <3> QED BY <3>1
  <2> QED BY <2>4, <2>5, <2>6, ConcatProperties
<1> QED BY <1>2, <1>3

-----------------------------------------------------------------------------
(* The sets of ids, element by element.                                    *)
LEMMA IdsHad ==
  ASSUME NEW page \in Seq(Change), NEW vals \in Seq(Event)
  PROVE  ToSet(Ids(page)) \subseteq ToSet(Ids(vals)) <=> HasIds(page, vals)
<1>1. ASSUME NEW T, NEW l \in Seq(T)
      PROVE  ToSet(Ids(l)) = {l[i].id : i \in 1 .. Len(l)}
  <2>1. DOMAIN Ids(l) = 1 .. Len(l) /\ \A i \in 1 .. Len(l) : Ids(l)[i] = l[i].id
    BY DEF Ids
  <2>2. QED BY <2>1 DEF ToSet
<1>2. ToSet(Ids(page)) = {page[i].id : i \in 1 .. Len(page)}
  BY <1>1
<1>3. ToSet(Ids(vals)) = {vals[i].id : i \in 1 .. Len(vals)}
  BY <1>1
<1>4. QED BY <1>2, <1>3, Zenon DEF HasIds

(* A list that was decoded has the length it was sent with.                *)
LEMMA ListDecoded ==
  ASSUME NEW list \in List \cup {Absent}, NEW slice \in Slice, NEW new \in Nat \X Nat
  PROVE  /\ DecodedList(list, slice, new) \in Slice
         /\ list # Absent => DecodedList(list, slice, new).len = Len(list)
<1>1. CASE list = Absent
  BY <1>1 DEF DecodedList
<1>2. CASE list = <<>>
  BY <1>2, EmptySeq, AbsentAssumption DEF DecodedList, NilSlice, Slice
<1>3. CASE list # Absent /\ list # <<>>
  <2>1. list \in Seq(Attendee) /\ Len(list) \in 1 .. MaxList
    BY <1>3, EmptySeq, RoomAssumption DEF List
  <2>2. Room[Len(list)] \in Nat
    BY <2>1, RoomAssumption
  <2> QED BY <1>3, <2>1, <2>2 DEF DecodedList, Slice
<1> QED BY <1>1, <1>2, <1>3

LEMMA LeftType ==
  ASSUME array \in Seq(Event), NEW i
  PROVE  Left(i).subject \in Subject \cup {Absent} /\ Left(i).attendees \in Slice
<1>1. CASE i \in DOMAIN array
  <2>1. array[i] \in Event
    BY <1>1
  <2> QED BY <1>1, <2>1 DEF Left, Event
<1>2. CASE i \notin DOMAIN array
  BY <1>2 DEF Left, NilSlice, Slice
<1> QED BY <1>1, <1>2

LEMMA EventDecoded ==
  ASSUME array \in Seq(Event), NEW i, NEW sent \in Change, NEW new \in Nat \X Nat
  PROVE  LET event == DecodedEvent(sent, Left(i), new) IN
           /\ event \in Event /\ event.id = sent.id
           /\ event.attendees = DecodedList(sent.attendees, Left(i).attendees, new)
           /\ sent.subject # Absent => event.subject = sent.subject
           /\ sent.attendees # Absent => event.attendees.len = Len(sent.attendees)
<1>1. sent.id \in Id /\ sent.subject \in Subject \cup {Absent} /\ sent.attendees \in List \cup {Absent}
  BY DEF Change
<1>2. Left(i).subject \in Subject \cup {Absent} /\ Left(i).attendees \in Slice
  BY LeftType
<1>3. /\ DecodedList(sent.attendees, Left(i).attendees, new) \in Slice
      /\ sent.attendees # Absent => DecodedList(sent.attendees, Left(i).attendees, new).len = Len(sent.attendees)
  BY <1>1, <1>2, ListDecoded
<1> QED BY <1>1, <1>2, <1>3 DEF DecodedEvent, Event

(* What is decoded into the array is as long as the page at least, and     *)
(* begins with its changes, whatever was in the array; the rest of it is   *)
(* left alone.                                                             *)
LEMMA DecodedFacts ==
  ASSUME array \in Seq(Event), apiUrl \in Nat, NEW page \in Seq(Change)
  PROVE  LET new == Decoded(array, page) IN
           /\ new \in Seq(Event) /\ Len(page) \in 0 .. Len(new)
           /\ \A i \in 1 .. Len(page) : new[i] = DecodedEvent(page[i], Left(i), <<apiUrl, i>>)
           /\ \A i \in Len(page) + 1 .. Len(new) : i \in 1 .. Len(array) /\ new[i] = array[i]
<1> DEFINE head == [i \in 1 .. Len(page) |-> DecodedEvent(page[i], Left(i), <<apiUrl, i>>)]
           rest == SubSeq(array, Len(page) + 1, Len(array))
<1>1. Len(page) \in Nat /\ Len(array) \in Nat
  OBVIOUS
<1>2. CASE page = <<>>
  BY <1>2, EmptySeq DEF Decoded
<1>3. CASE page # <<>>
  <2>1. ASSUME NEW i \in 1 .. Len(page)
        PROVE  DecodedEvent(page[i], Left(i), <<apiUrl, i>>) \in Event
    <3>1. page[i] \in Change /\ <<apiUrl, i>> \in Nat \X Nat
      BY <1>1
    <3> QED BY <3>1, EventDecoded
  <2>2. head \in Seq(Event) /\ Len(head) = Len(page)
    BY <1>1, <2>1
  <2>3. /\ rest \in Seq(Event) /\ Len(rest) \in Nat
        /\ Len(rest) = IF Len(page) < Len(array) THEN Len(array) - Len(page) ELSE 0
        /\ \A j \in 1 .. Len(rest) : rest[j] = array[Len(page) + j]
    BY <1>1
  <2>4. Decoded(array, page) = head \o rest
    BY <1>3 DEF Decoded
  <2>5. \A i \in 1 .. Len(page) : head[i] = DecodedEvent(page[i], Left(i), <<apiUrl, i>>)
    OBVIOUS
  <2> HIDE DEF head, rest
  <2>6. /\ head \o rest \in Seq(Event) /\ Len(head \o rest) = Len(head) + Len(rest)
        /\ \A i \in 1 .. Len(head) : (head \o rest)[i] = head[i]
        /\ \A i \in Len(head) + 1 .. Len(head) + Len(rest) : (head \o rest)[i] = rest[i - Len(head)]
    <3>1. /\ head \o rest \in Seq(Event) /\ Len(head \o rest) = Len(head) + Len(rest)
          /\ \A i \in 1 .. Len(head) + Len(rest) :
               (head \o rest)[i] = IF i <= Len(head) THEN head[i] ELSE rest[i - Len(head)]
      BY <2>2, <2>3, ConcatProperties
    <3> QED BY <1>1, <2>2, <2>3, <3>1
  <2>7. ASSUME NEW i \in Len(page) + 1 .. Len(page) + Len(rest)
        PROVE  i \in 1 .. Len(array) /\ (head \o rest)[i] = array[i]
    <3>1. i - Len(page) \in 1 .. Len(rest) /\ Len(page) + (i - Len(page)) = i /\ i \in 1 .. Len(array)
      BY <1>1, <2>3
    <3> QED BY <2>2, <2>3, <2>6, <3>1
  <2>8. Len(head \o rest) = Len(page) + Len(rest) /\ Len(page) \in 0 .. Len(head \o rest)
    BY <1>1, <2>2, <2>3, <2>6
  <2>9. \A i \in 1 .. Len(page) : (head \o rest)[i] = DecodedEvent(page[i], Left(i), <<apiUrl, i>>)
    BY <2>2, <2>5, <2>6
  <2> QED BY <2>4, <2>6, <2>7, <2>8, <2>9
<1> QED BY <1>2, <1>3

(* What is appended to the values takes no id away.                        *)
LEMMA AppendedFacts ==
  ASSUME NEW vals \in Seq(Event), NEW part \in Seq(Event)
  PROVE  /\ vals \o part \in Seq(Event)
         /\ HasIds(part, vals \o part)
         /\ \A other \in Seq(Change) : HasIds(other, vals) => HasIds(other, vals \o part)
<1> DEFINE new == vals \o part
<1>1. Len(vals) \in Nat /\ Len(part) \in Nat
  OBVIOUS
<1>2. /\ new \in Seq(Event) /\ Len(new) = Len(vals) + Len(part)
      /\ \A k \in 1 .. Len(vals) + Len(part) :
           new[k] = IF k <= Len(vals) THEN vals[k] ELSE part[k - Len(vals)]
  BY ConcatProperties
<1> HIDE DEF new
<1>3. ASSUME NEW j \in 1 .. Len(vals) PROVE j \in 1 .. Len(new) /\ new[j] = vals[j]
  BY <1>1, <1>2
<1>4. ASSUME NEW j \in 1 .. Len(part)
      PROVE  Len(vals) + j \in 1 .. Len(new) /\ new[Len(vals) + j] = part[j]
  <2>1. /\ Len(vals) + j \in 1 .. Len(vals) + Len(part)
        /\ ~(Len(vals) + j <= Len(vals)) /\ (Len(vals) + j) - Len(vals) = j
    BY <1>1, <1>4
  <2>2. QED BY <1>2, <2>1
<1>5. HasIds(part, new)
  BY <1>4 DEF HasIds
<1>6. \A other \in Seq(Change) : HasIds(other, vals) => HasIds(other, new)
  BY <1>3 DEF HasIds
<1>7. QED BY <1>2, <1>5, <1>6 DEF new

(* What is collected of a page are its changes as they were decoded.       *)
LEMMA CollectedFacts ==
  ASSUME array \in Seq(Event), apiUrl \in Nat, NEW page \in Seq(Change)
  PROVE  LET part == Collected(Decoded(array, page), Len(page)) IN
           /\ part \in Seq(Event) /\ Len(part) = Len(page)
           /\ \A i \in 1 .. Len(page) : part[i] = Decoded(array, page)[i] /\ part[i].id = page[i].id
           /\ \A vals \in Seq(Event) : HasIds(part, vals) => HasIds(page, vals)
<1> DEFINE arr == Decoded(array, page)
           part == SubSeq(arr, 1, Len(page))
<1>1. /\ arr \in Seq(Event) /\ Len(page) \in 0 .. Len(arr) /\ Len(arr) \in Nat
      /\ \A i \in 1 .. Len(page) : arr[i].id = page[i].id
  <2>1. /\ arr \in Seq(Event) /\ Len(page) \in 0 .. Len(arr)
        /\ \A i \in 1 .. Len(page) : arr[i] = DecodedEvent(page[i], Left(i), <<apiUrl, i>>)
    BY DecodedFacts
  <2>2. ASSUME NEW i \in 1 .. Len(page)
        PROVE  DecodedEvent(page[i], Left(i), <<apiUrl, i>>).id = page[i].id
    BY DEF DecodedEvent
  <2> HIDE DEF arr
  <2>3. \A i \in 1 .. Len(page) : arr[i].id = page[i].id
    BY <2>1, <2>2
  <2>4. QED BY <2>1, <2>3
<1>2. part = Collected(Decoded(array, page), Len(page))
  BY DEF Collected
<1>0. arr = Decoded(array, page)
  OBVIOUS
<1> HIDE DEF arr
<1>3. /\ part \in Seq(Event) /\ Len(part) = Len(page)
      /\ \A i \in 1 .. Len(page) : part[i] = arr[i]
  <2>1. arr \in Seq(Event) /\ Len(page) \in Nat /\ Len(page) <= Len(arr)
    BY <1>1
  <2>2. part = [i \in 1 .. Len(page) |-> arr[i]]
    BY <2>1
  <2>3. \A i \in 1 .. Len(page) : arr[i] \in Event
    BY <2>1
  <2>4. part \in Seq(Event) /\ Len(part) = Len(page)
    BY <2>1, <2>2, <2>3
  <2>5. QED BY <2>2, <2>4
<1> HIDE DEF part
<1>4. ASSUME NEW vals \in Seq(Event), HasIds(part, vals) PROVE HasIds(page, vals)
  <2>1. ASSUME NEW i \in 1 .. Len(page) PROVE \E j \in 1 .. Len(vals) : vals[j].id = page[i].id
    <3>1. i \in 1 .. Len(part) /\ part[i].id = page[i].id
      BY <1>1, <1>3
    <3>2. QED BY <1>4, <3>1 DEF HasIds
  <2>2. QED BY <2>1 DEF HasIds
<1>5. QED BY <1>0, <1>1, <1>2, <1>3, <1>4

-----------------------------------------------------------------------------
(* The arrays of the lists.                                                *)

(* A list is put at the beginning of an array.                             *)
LEMMA OverlaidFacts ==
  ASSUME NEW items \in Seq(Attendee), NEW list \in Seq(Attendee), NEW cap \in Nat
  PROVE  /\ Overlaid(items, list, cap) \in Seq(Attendee)
         /\ Len(list) <= cap => \A j \in 1 .. Len(list) : Overlaid(items, list, cap)[j] = list[j]
<1>0. Len(list) \in Nat /\ Len(items) \in Nat
  OBVIOUS
<1>1. CASE Len(list) <= cap
  <2> DEFINE rest == SubSeq(items, Len(list) + 1, Len(items))
  <2>1. rest \in Seq(Attendee)
    BY <1>0
  <2>2. Overlaid(items, list, cap) = list \o rest
    BY <1>1 DEF Overlaid
  <2> HIDE DEF rest
  <2>3. list \o rest \in Seq(Attendee) /\ \A j \in 1 .. Len(list) : (list \o rest)[j] = list[j]
    BY <1>0, <2>1
  <2> QED BY <2>2, <2>3
<1>2. CASE ~(Len(list) <= cap)
  <2>1. Overlaid(items, list, cap) = SubSeq(list, 1, cap)
    BY <1>2 DEF Overlaid
  <2>2. SubSeq(list, 1, cap) \in Seq(Attendee)
    BY <1>0, <1>2
  <2> QED BY <1>2, <2>1, <2>2
<1> QED BY <1>1, <1>2

(* The lists a page brings have elements.                                  *)
LEMMA BroughtFacts ==
  ASSUME NEW page \in Seq(Change), NEW i \in Brings(page)
  PROVE  /\ i \in 1 .. Len(page) /\ page[i] \in Change
         /\ page[i].attendees \in Seq(Attendee) /\ page[i].attendees # Absent
         /\ Len(page[i].attendees) \in Nat /\ Len(page[i].attendees) > 0
<1>1. i \in DOMAIN page /\ page[i].attendees \notin {Absent, <<>>}
  BY DEF Brings
<1>2. i \in 1 .. Len(page) /\ page[i] \in Change
  BY <1>1
<1>3. page[i].attendees \in Seq(Attendee)
  BY <1>1, <1>2 DEF Change, List
<1>4. Len(page[i].attendees) # 0
  BY <1>1, <1>3, EmptySeq
<1> QED BY <1>1, <1>2, <1>3, <1>4

(* A page is decoded into the arrays of its own places only.               *)
Used(page) == {Left(i).attendees.of : i \in Brings(page)}

LEMMA UsedInPlace ==
  ASSUME SyncTypeOK, HeapInv, NEW page \in Seq(Change),
         NEW a \in DOMAIN heap, NEW i \in Brings(page), Left(i).attendees.of = a
  PROVE  a[2] = i
<1>1. a # <<0, 0>>
  BY DEF SyncTypeOK
<1>2. Left(i).attendees # NilSlice
  BY <1>1 DEF NilSlice
<1>3. i \in DOMAIN array /\ Left(i).attendees = array[i].attendees
  BY <1>2 DEF Left
<1>4. i \in 1 .. Len(array)
  BY <1>3 DEF SyncTypeOK
<1>5. InPlace(heap, array[i].attendees, i)
  BY <1>4 DEF HeapInv
<1> QED BY <1>2, <1>3, <1>5 DEF InPlace

(* The names of the arrays there are after a page.                         *)
LEMMA HeapType ==
  ASSUME SyncTypeOK, NEW page \in Seq(Change)
  PROVE  /\ DOMAIN DecodedHeap(page) = DOMAIN heap \cup ({apiUrl} \X Outgrow(page))
         /\ DOMAIN DecodedHeap(page) \subseteq (Nat \ {0}) \X Nat
<1>1. DOMAIN DecodedHeap(page) = DOMAIN heap \cup ({apiUrl} \X Outgrow(page))
  BY DEF DecodedHeap
<1>2. apiUrl \in Nat \ {0} /\ DOMAIN heap \subseteq (Nat \ {0}) \X Nat
  BY DEF SyncTypeOK
<1>3. ASSUME NEW i \in Outgrow(page) PROVE i \in Nat
  <2>1. i \in Brings(page)
    BY DEF Outgrow
  <2>2. i \in 1 .. Len(page)
    BY <2>1, BroughtFacts
  <2> QED BY <2>2
<1> QED BY <1>1, <1>2, <1>3

LEMMA HeapDecoded ==
  ASSUME SyncTypeOK, HeapInv, at # "returned", NEW page \in Seq(Change)
  PROVE  LET new == DecodedHeap(page) IN
           /\ DOMAIN new = DOMAIN heap \cup ({apiUrl} \X Outgrow(page))
           /\ DOMAIN new \subseteq (Nat \ {0}) \X Nat
           /\ \A a \in DOMAIN new : new[a] \in Seq(Attendee) /\ a[1] < apiUrl + 1
           /\ \A i \in Outgrow(page) : new[<<apiUrl, i>>] = page[i].attendees
           /\ \A a \in DOMAIN heap :
                new[a] = IF a \in Used(page)
                         THEN Overlaid(heap[a], page[a[2]].attendees, Left(a[2]).attendees.cap)
                         ELSE heap[a]
           /\ \A a \in DOMAIN heap : a[2] \notin Brings(page) => new[a] = heap[a]
<1> DEFINE made == {apiUrl} \X Outgrow(page)
           new == DecodedHeap(page)
<1>1. /\ apiUrl \in Nat \ {0} /\ array \in Seq(Event)
      /\ \A a \in DOMAIN heap : a \in (Nat \ {0}) \X Nat /\ a[1] < apiUrl /\ heap[a] \in Seq(Attendee)
  BY DEF SyncTypeOK, HeapInv
<1>2. Outgrow(page) \subseteq Brings(page)
  BY DEF Outgrow
<1>3. /\ DOMAIN new = DOMAIN heap \cup made
      /\ \A a \in DOMAIN heap \cup made :
           new[a] = IF a \in made THEN page[a[2]].attendees
                    ELSE IF a \in Used(page)
                    THEN Overlaid(heap[a], page[a[2]].attendees, Left(a[2]).attendees.cap)
                    ELSE heap[a]
  BY DEF DecodedHeap, Used
<1>4. \A a \in made : a[1] = apiUrl /\ a[2] \in Outgrow(page) /\ a = <<apiUrl, a[2]>>
  OBVIOUS
<1>5. \A a \in DOMAIN heap : a \notin made
  BY <1>1, <1>4
<1>6. \A i \in Outgrow(page) : <<apiUrl, i>> \in made
  OBVIOUS
<1> HIDE DEF made, new
<1>7. ASSUME NEW i \in Outgrow(page) PROVE new[<<apiUrl, i>>] = page[i].attendees
  BY <1>3, <1>6
<1>8. ASSUME NEW a \in DOMAIN heap
      PROVE  new[a] = IF a \in Used(page)
                      THEN Overlaid(heap[a], page[a[2]].attendees, Left(a[2]).attendees.cap)
                      ELSE heap[a]
  BY <1>3, <1>5
<1>9. ASSUME NEW a \in DOMAIN heap, a \in Used(page) PROVE a[2] \in Brings(page)
  <2>1. PICK i \in Brings(page) : Left(i).attendees.of = a
    BY <1>9 DEF Used
  <2> QED BY <2>1, UsedInPlace
<1>10. ASSUME NEW a \in DOMAIN new
       PROVE  a \in (Nat \ {0}) \X Nat /\ new[a] \in Seq(Attendee) /\ a[1] < apiUrl + 1
  <2>1. CASE a \in made
    <3>1. a[2] \in Brings(page)
      BY <1>2, <1>4, <2>1
    <3>2. a[2] \in 1 .. Len(page) /\ page[a[2]].attendees \in Seq(Attendee)
      BY <3>1, BroughtFacts
    <3>3. a[2] \in Nat
      BY <3>2
    <3> QED BY <1>1, <1>3, <1>4, <2>1, <3>2, <3>3
  <2>2. CASE a \in DOMAIN heap
    <3>1. CASE a \in Used(page)
      <4>1. page[a[2]].attendees \in Seq(Attendee)
        BY <1>9, <2>2, <3>1, BroughtFacts
      <4>2. Left(a[2]).attendees.cap \in Nat
        BY <1>1, LeftType DEF Slice
      <4>3. Overlaid(heap[a], page[a[2]].attendees, Left(a[2]).attendees.cap) \in Seq(Attendee)
        BY <1>1, <2>2, <4>1, <4>2, OverlaidFacts
      <4> QED BY <1>1, <1>8, <2>2, <3>1, <4>3
    <3>2. CASE a \notin Used(page)
      BY <1>1, <1>8, <2>2, <3>2
    <3> QED BY <3>1, <3>2
  <2> QED BY <1>3, <2>1, <2>2
<1>11. ASSUME NEW a \in DOMAIN heap, a[2] \notin Brings(page) PROVE new[a] = heap[a]
  BY <1>8, <1>9, <1>11
<1> QED BY <1>3, <1>7, <1>8, <1>10, <1>11 DEF made, new

(* The list of a change that brings one is the one that was sent; all      *)
(* lists are in arrays made for their place.                               *)
LEMMA PlacedAsSent ==
  ASSUME SyncTypeOK, HeapInv, at # "returned", NEW page \in Seq(Change), NEW i \in 1 .. Len(page)
  PROVE  LET event == DecodedEvent(page[i], Left(i), <<apiUrl, i>>)
             new == DecodedHeap(page)
         IN /\ InPlace(new, event.attendees, i)
            /\ page[i].attendees # Absent => Shown(new, event) = page[i].attendees
<1> DEFINE event == DecodedEvent(page[i], Left(i), <<apiUrl, i>>)
           new == DecodedHeap(page)
           list == page[i].attendees
           left == Left(i).attendees
<1>1. /\ array \in Seq(Event) /\ apiUrl \in Nat /\ i \in Nat /\ page[i] \in Change
      /\ list \in List \cup {Absent} /\ left \in Slice
  <2>1. array \in Seq(Event) /\ apiUrl \in Nat /\ i \in Nat /\ page[i] \in Change
    BY DEF SyncTypeOK
  <2> QED BY <2>1, LeftType DEF Change
<1>2. event.attendees = DecodedList(list, left, <<apiUrl, i>>)
  BY DEF DecodedEvent
<1>3. /\ DOMAIN new = DOMAIN heap \cup ({apiUrl} \X Outgrow(page))
      /\ \A j \in Outgrow(page) : new[<<apiUrl, j>>] = page[j].attendees
      /\ \A a \in DOMAIN heap :
           new[a] = IF a \in Used(page)
                    THEN Overlaid(heap[a], page[a[2]].attendees, Left(a[2]).attendees.cap)
                    ELSE heap[a]
  BY HeapDecoded
<1>4. left = NilSlice \/ (left.of \in DOMAIN heap /\ left.of[2] = i)
  <2>1. CASE i \in DOMAIN array
    <3>1. i \in 1 .. Len(array) /\ left = array[i].attendees
      BY <1>1, <2>1 DEF Left
    <3> QED BY <3>1 DEF HeapInv, InPlace
  <2>2. CASE i \notin DOMAIN array
    BY <2>2 DEF Left
  <2> QED BY <2>1, <2>2
<1> SUFFICES /\ InPlace(new, event.attendees, i)
             /\ list # Absent => Shown(new, event) = list
  OBVIOUS
<1>b. list # Absent /\ list # <<>> => i \in Brings(page)
  BY DEF Brings
<1>l. list # Absent /\ list # <<>> => list \in Seq(Attendee) /\ Len(list) \in Nat /\ Len(list) > 0
  BY <1>b, BroughtFacts
<1>o. list # Absent /\ list # <<>> /\ ~(Len(list) <= left.cap) => i \in Outgrow(page)
  BY <1>1, <1>b, <1>l DEF Outgrow, Slice
<1>u. list # Absent /\ list # <<>> => left.of \in Used(page)
  BY <1>b DEF Used
<1>c. left = Left(i).attendees /\ list = page[i].attendees
  OBVIOUS
<1> HIDE DEF new, list, left, event
<1>5. CASE list = Absent
  BY <1>2, <1>3, <1>4, <1>5 DEF DecodedList, InPlace
<1>6. CASE list = <<>>
  <2>1. list # Absent
    <3>1. <<>> \in List
      BY EmptySeq, RoomAssumption DEF List
    <3> QED BY <1>6, <3>1, AbsentAssumption
  <2>2. event.attendees = NilSlice
    BY <1>2, <1>6, <2>1 DEF DecodedList
  <2>3. Shown(new, event) = <<>>
    BY <2>2 DEF Shown, NilSlice
  <2> QED BY <1>6, <2>2, <2>3 DEF InPlace
<1>7. CASE list # Absent /\ list # <<>> /\ Len(list) <= left.cap
  <2>1. left # NilSlice
    BY <1>l, <1>7 DEF NilSlice
  <2>2. event.attendees = [left EXCEPT !.len = Len(list)]
    BY <1>2, <1>7 DEF DecodedList
  <2>3. event.attendees.of = left.of /\ event.attendees.len = Len(list)
    BY <1>1, <2>2 DEF Slice
  <2>4. left.of \in DOMAIN heap /\ left.of[2] = i
    BY <1>4, <2>1
  <2>5. new[left.of] = Overlaid(heap[left.of], list, left.cap)
    BY <1>3, <1>u, <1>c, <1>7, <2>4
  <2>6. heap[left.of] \in Seq(Attendee) /\ left.cap \in Nat
    BY <1>1, <2>4 DEF HeapInv, Slice
  <2>7. \A j \in 1 .. Len(list) : new[left.of][j] = list[j]
    <3>1. list \in Seq(Attendee)
      BY <1>l, <1>7
    <3>2. \A j \in 1 .. Len(list) : Overlaid(heap[left.of], list, left.cap)[j] = list[j]
      BY <1>7, <2>6, <3>1, OverlaidFacts
    <3> QED BY <2>5, <3>2
  <2>8. Shown(new, event) = [j \in 1 .. Len(list) |-> list[j]]
    BY <2>3, <2>7 DEF Shown
  <2>9. [j \in 1 .. Len(list) |-> list[j]] = list
    BY <1>l, <1>7
  <2> QED BY <1>3, <2>3, <2>4, <2>8, <2>9 DEF InPlace
<1>8. CASE list # Absent /\ list # <<>> /\ ~(Len(list) <= left.cap)
  <2>1. event.attendees = [of |-> <<apiUrl, i>>, len |-> Len(list), cap |-> Room[Len(list)]]
    BY <1>2, <1>8 DEF DecodedList
  <2>2. i \in Outgrow(page)
    BY <1>o, <1>8
  <2>3. <<apiUrl, i>> \in DOMAIN new /\ new[<<apiUrl, i>>] = list
    BY <1>3, <1>c, <2>2
  <2>4. event.attendees.of = <<apiUrl, i>> /\ event.attendees.len = Len(list) /\ <<apiUrl, i>>[2] = i
    BY <2>1
  <2>5. Shown(new, event) = [j \in 1 .. Len(list) |-> list[j]]
    BY <2>3, <2>4 DEF Shown
  <2>6. [j \in 1 .. Len(list) |-> list[j]] = list
    BY <1>l, <1>8
  <2> QED BY <2>3, <2>4, <2>5, <2>6 DEF InPlace
<1> QED BY <1>5, <1>6, <1>7, <1>8

-----------------------------------------------------------------------------
(* The kinds of steps of a run.                                            *)
Keeps == values' \in Seq(Event)
         /\ \A other \in Seq(Change) : HasIds(other, values) => HasIds(other, values')

(* It ends where it is, with what it has.                                  *)
Stops == /\ at' = "returned" /\ ~deltaLink' /\ UNCHANGED <<apiUrl, values>>
         /\ nextLink' \in {0} \cup 2 .. Len(pages) /\ delta' \in BOOLEAN

(* A bad answer: the same page again.                                      *)
Repeats == /\ at = "next" /\ at' = "next" /\ bad' # bad /\ ~deltaLink'
           /\ UNCHANGED <<apiUrl, nextLink, delta>> /\ Keeps

(* A page, and there is another.                                           *)
GoesOn == /\ at \in {"first", "next"} /\ at' = "next" /\ ~deltaLink' /\ delta' = delta
          /\ apiUrl' = apiUrl + 1 /\ apiUrl < Len(pages) /\ nextLink' = apiUrl' /\ Keeps
          /\ at = "next" => HasIds(pages[apiUrl], values')

(* The last page.                                                          *)
Ends == /\ at = "next" /\ at' = "returned" /\ deltaLink' /\ delta'
        /\ UNCHANGED <<apiUrl, nextLink>> /\ apiUrl = Len(pages) /\ Keeps
        /\ HasIds(pages[apiUrl], values')

LEMMA StepKinds ==
  ASSUME SyncInv, SyncStep
  PROVE  /\ UNCHANGED pages /\ array' \in Seq(Event) /\ shown' \in 0 .. Len(array')
         /\ DOMAIN heap' \subseteq (Nat \ {0}) \X Nat
         /\ deltaLink' \in BOOLEAN /\ errRes' \in BOOLEAN /\ bad' \in 0 .. MaxBad
         /\ Stops \/ Repeats \/ GoesOn \/ Ends
<1> DEFINE page == pages[apiUrl]
<1>0. SyncTypeOK /\ LinkInv /\ Len(pages) \in Nat /\ apiUrl \in Nat /\ MaxBad \in Nat
  BY FailuresAssumption DEF SyncInv, SyncTypeOK
<1>1. page \in Seq(Change) /\ values \in Seq(Event) /\ array \in Seq(Event)
  BY <1>0 DEF SyncTypeOK
<1> HIDE DEF page
<1>2. UNCHANGED pages
  BY DEF SyncStep, FirstPage, NextPage
<1>3. ASSUME DecodePage
      PROVE  /\ array' = Decoded(array, page) /\ array' \in Seq(Event)
             /\ DOMAIN heap' \subseteq (Nat \ {0}) \X Nat
             /\ shown' = Len(page) /\ shown' \in 0 .. Len(array') /\ bad' = bad
             /\ \/ apiUrl < Len(pages) /\ nextLink' = apiUrl + 1 /\ delta' = delta
                \/ apiUrl = Len(pages) /\ nextLink' = nextLink /\ delta'
  <2>1. array' = Decoded(array, page) /\ shown' = Len(page)
    BY <1>3 DEF DecodePage, page
  <2>2. array' \in Seq(Event) /\ shown' \in 0 .. Len(array')
    BY <1>0, <1>1, <2>1, DecodedFacts
  <2>3. heap' = DecodedHeap(page)
    BY <1>3 DEF DecodePage, page
  <2>4. DOMAIN heap' \subseteq (Nat \ {0}) \X Nat
    BY <1>0, <1>1, <2>3, HeapType
  <2>5. QED BY <1>0, <1>3, <2>1, <2>2, <2>4 DEF DecodePage, SyncTypeOK
<1>4. ASSUME NEW kind, Fails(kind)
      PROVE  /\ array' \in Seq(Event) /\ shown' \in 0 .. Len(array')
             /\ DOMAIN heap' \subseteq (Nat \ {0}) \X Nat
             /\ bad' # bad /\ bad' \in 0 .. MaxBad /\ UNCHANGED <<nextLink, delta>>
             /\ Collected(array', shown') \in Seq(Event)
  <2>1. UNCHANGED <<array, shown, heap, nextLink, delta>> /\ bad' = bad + 1 /\ bad < MaxBad
    BY <1>4 DEF Fails, track
  <2>2. bad' # bad /\ bad' \in 0 .. MaxBad /\ shown \in 0 .. Len(array) /\ Len(array) \in Nat
    BY <1>0, <2>1 DEF SyncTypeOK
  <2>3. SubSeq(array, 1, shown) \in Seq(Event)
    BY <1>1, <2>2
  <2>4. DOMAIN heap' \subseteq (Nat \ {0}) \X Nat
    BY <1>0, <2>1 DEF SyncTypeOK
  <2>5. QED BY <1>1, <2>1, <2>2, <2>3, <2>4 DEF Collected
<1> DEFINE Bad == \E kind \in {"body", "garbled", "none"} : Fails(kind)
<1>5. DecodePage => ~Bad
  <2>1. bad \in Nat
    BY <1>0 DEF SyncTypeOK
  <2>2. Bad => bad' = bad + 1
    BY DEF Fails
  <2>3. QED BY <1>3, <2>1, <2>2
<1>6. CASE FirstPage
  <2>1. at = "first" /\ apiUrl = 1 /\ nextLink = 0 /\ ~delta /\ ~deltaLink /\ values' = values
    BY <1>0, <1>6 DEF FirstPage, LinkInv
  <2>2. Keeps
    BY <1>1, <2>1 DEF Keeps
  <2>3. CASE DecodePage /\ nextLink' # 0
    <3>1. at' = "next" /\ apiUrl' = nextLink' /\ UNCHANGED deltaLink
      BY <1>6, <1>5, <2>3 DEF FirstPage
    <3>2. apiUrl < Len(pages) /\ nextLink' = apiUrl + 1 /\ delta' = delta
      BY <1>3, <2>1, <2>3
    <3>3. deltaLink' \in BOOLEAN /\ errRes' \in BOOLEAN /\ bad' \in 0 .. MaxBad
      BY <1>0, <1>3, <1>6, <1>5, <2>1, <2>3 DEF FirstPage, SyncTypeOK
    <3>4. GoesOn
      BY <2>1, <2>2, <3>1, <3>2 DEF GoesOn
    <3>5. QED BY <1>2, <1>3, <2>3, <3>3, <3>4
  <2>4. CASE DecodePage /\ nextLink' = 0
    BY <1>0, <1>2, <1>3, <1>6, <2>1, <2>4 DEF FirstPage, Stops, SyncTypeOK, Return
  <2>5. CASE \E kind \in {"body", "garbled", "none"} : Fails(kind)
    BY <1>0, <1>2, <1>4, <1>6, <2>1, <2>5 DEF FirstPage, Stops, SyncTypeOK, Return
  <2>6. QED BY <1>6, <2>3, <2>4, <2>5 DEF FirstPage
<1>7. CASE NextPage
  <2>1. at = "next" /\ nextLink = apiUrl /\ ~delta /\ ~deltaLink /\ nextLink # 0
    BY <1>0, <1>7 DEF NextPage, LinkInv, SyncTypeOK
  <2>2. \/ /\ values' = values \o Collected(array', shown')
           /\ apiUrl' = Followed(nextLink', apiUrl)
           /\ IF delta' THEN Return(TRUE, FALSE) ELSE UNCHANGED <<at, deltaLink, errRes>>
        \/ Fails("none") /\ Return(FALSE, FALSE) /\ UNCHANGED <<apiUrl, values>>
    BY <1>7 DEF NextPage, Ended
  <2>3. CASE DecodePage /\ values' = values \o Collected(array', shown')
    <3>1. Keeps /\ HasIds(page, values')
      BY <1>0, <1>1, <1>3, <2>3, CollectedFacts, AppendedFacts DEF Keeps
    <3>2. /\ apiUrl' = Followed(nextLink', apiUrl)
          /\ IF delta' THEN Return(TRUE, FALSE) ELSE UNCHANGED <<at, deltaLink, errRes>>
      BY <1>5, <2>3, <2>2
    <3>3. deltaLink' \in BOOLEAN /\ errRes' \in BOOLEAN /\ bad' \in 0 .. MaxBad
      BY <1>0, <1>3, <2>3, <3>2 DEF Return, SyncTypeOK
    <3>4. CASE apiUrl < Len(pages)
      <4>1. nextLink' = apiUrl + 1 /\ delta' = delta /\ nextLink' # 0
        BY <1>0, <1>3, <2>1, <2>3, <3>4
      <4>2. GoesOn
        BY <2>1, <3>1, <3>2, <3>4, <4>1 DEF GoesOn, Followed, page
      <4>3. QED BY <1>2, <1>3, <2>3, <3>3, <4>2
    <3>5. CASE apiUrl = Len(pages)
      <4>1. nextLink' = apiUrl /\ delta'
        BY <1>0, <1>3, <2>1, <2>3, <3>5
      <4>2. Ends
        BY <2>1, <3>1, <3>2, <3>5, <4>1 DEF Ends, Followed, Return, page
      <4>3. QED BY <1>2, <1>3, <2>3, <3>3, <4>2
    <3>6. QED BY <1>3, <2>3, <3>4, <3>5
  <2>4. CASE /\ Fails("body") \/ Fails("garbled")
             /\ values' = values \o Collected(array', shown')
             /\ apiUrl' = Followed(nextLink', apiUrl)
             /\ IF delta' THEN Return(TRUE, FALSE) ELSE UNCHANGED <<at, deltaLink, errRes>>
    <3>1. Collected(array', shown') \in Seq(Event) /\ UNCHANGED <<nextLink, delta>>
      BY <1>4, <2>4
    <3>2. Keeps
      BY <1>1, <2>4, <3>1, AppendedFacts DEF Keeps
    <3>3. UNCHANGED <<apiUrl, at, deltaLink, errRes>>
      BY <2>1, <2>4, <3>1 DEF Followed
    <3>4. QED BY <1>0, <1>2, <1>4, <2>1, <2>4, <3>1, <3>2, <3>3 DEF Repeats, SyncTypeOK
  <2>5. CASE Fails("none") /\ Return(FALSE, FALSE) /\ UNCHANGED <<apiUrl, values>>
    BY <1>0, <1>2, <1>4, <2>1, <2>5 DEF Stops, SyncTypeOK, Return
  <2>6. QED BY <1>7, <2>3, <2>4, <2>5 DEF NextPage, Ended
<1>8. QED BY <1>6, <1>7 DEF SyncStep

-----------------------------------------------------------------------------
(* What the invariant asks of each kind of step.                           *)
LEMMA SyncInvStep ==
  ASSUME SyncInv, SyncStep
  PROVE  SyncInv'
<1>1. /\ Len(pages) \in Nat /\ apiUrl \in 1 .. Len(pages) /\ SyncTypeOK /\ LinkInv
  BY DEF SyncInv, SyncTypeOK
<1>2. /\ UNCHANGED pages /\ array' \in Seq(Event) /\ shown' \in 0 .. Len(array')
      /\ DOMAIN heap' \subseteq (Nat \ {0}) \X Nat
      /\ deltaLink' \in BOOLEAN /\ errRes' \in BOOLEAN /\ bad' \in 0 .. MaxBad
      /\ Stops \/ Repeats \/ GoesOn \/ Ends
  BY StepKinds
<1>3. CASE Stops
  BY <1>1, <1>2, <1>3 DEF Stops, SyncInv, SyncTypeOK, LinkInv
<1>4. CASE Repeats
  BY <1>1, <1>2, <1>4 DEF Repeats, Keeps, SyncInv, SyncTypeOK, LinkInv
<1>5. CASE GoesOn
  <2>1. apiUrl + 1 \in 2 .. Len(pages)
    BY <1>1, <1>5 DEF GoesOn
  <2>2. /\ apiUrl' \in 1 .. Len(pages) /\ nextLink' \in 2 .. Len(pages) /\ nextLink' = apiUrl'
        /\ at' = "next" /\ ~deltaLink' /\ ~delta' /\ values' \in Seq(Event) /\ delta' \in BOOLEAN
    BY <1>1, <1>5, <2>1 DEF GoesOn, Keeps, LinkInv, SyncTypeOK
  <2>3. QED BY <1>1, <1>2, <2>2 DEF SyncInv, SyncTypeOK, LinkInv
<1>6. CASE Ends
  BY <1>1, <1>2, <1>6 DEF Ends, Keeps, SyncInv, SyncTypeOK, LinkInv
<1>7. QED BY <1>2, <1>3, <1>4, <1>5, <1>6

LEMMA SkipInvStep ==
  ASSUME SkipInv, SyncStep
  PROVE  SkipInv'
<1>1. /\ Len(pages) \in Nat /\ apiUrl \in 1 .. Len(pages) /\ SyncTypeOK /\ LinkInv /\ SyncInv
  BY DEF SkipInv, SyncInv, SyncTypeOK
<1>2. SyncInv' /\ UNCHANGED pages /\ (Stops \/ Repeats \/ GoesOn \/ Ends)
  BY <1>1, SyncInvStep, StepKinds
<1>3. at # "returned" /\ ~deltaLink /\ Fetched = apiUrl - 1
  <2>1. at # "returned"
    BY DEF SyncStep, FirstPage, NextPage
  <2>2. QED BY <1>1, <2>1 DEF LinkInv, Fetched
<1>4. \A p \in 2 .. apiUrl - 1 : HasIds(pages[p], values)
  BY <1>3 DEF SkipInv
<1>5. \A p \in 2 .. apiUrl : pages[p] \in Seq(Change)
  BY <1>1 DEF SyncTypeOK
<1>6. SUFFICES \A p \in 2 .. Fetched' : HasIds(pages[p], values')
  BY <1>2 DEF SkipInv
<1>7. CASE Stops \/ Repeats
  <2>1. Fetched' = apiUrl - 1
    BY <1>7 DEF Stops, Repeats, Fetched
  <2>2. QED BY <1>1, <1>4, <1>5, <1>7, <2>1 DEF Stops, Repeats, Keeps
<1>8. CASE GoesOn \/ Ends
  <2>1. Fetched' = apiUrl
    BY <1>1, <1>2, <1>8 DEF GoesOn, Ends, Fetched
  <2>2. \A p \in 2 .. apiUrl - 1 : HasIds(pages[p], values')
    BY <1>1, <1>4, <1>5, <1>8 DEF GoesOn, Ends, Keeps
  <2>3. apiUrl \in 2 .. apiUrl => HasIds(pages[apiUrl], values')
    BY <1>1, <1>8 DEF GoesOn, Ends, LinkInv
  <2>4. ASSUME NEW p \in 2 .. apiUrl PROVE p = apiUrl \/ p \in 2 .. apiUrl - 1
    BY <1>1, <2>4
  <2>5. QED BY <2>1, <2>2, <2>3, <2>4
<1>9. QED BY <1>2, <1>7, <1>8

-----------------------------------------------------------------------------
(* As long as there has been no bad answer.                                *)

(* Where the changes come from: nowhere before the second page, then from  *)
(* one page more.                                                          *)
LEMMA NowhereYet ==
  ASSUME NEW ps, NEW last \in {0, 1}
  PROVE  PlacesIn(ps, last) = <<>>
<1> DEFINE parts == [n \in 1 .. last - 1 |-> PlacesOf(ps, n + 1)]
<1>1. parts = <<>>
  <2>1. 1 .. last - 1 = {}
    OBVIOUS
  <2> QED BY <2>1
<1> HIDE DEF parts
<1>2. FlattenSeq(parts) = <<>>
  BY <1>1, EmptySeq DEF FlattenSeq
<1> QED BY <1>2 DEF PlacesIn, parts

LEMMA PlacesOfPage ==
  ASSUME NEW ps \in Seq(Seq(Change)), NEW n \in 1 .. Len(ps)
  PROVE  /\ PlacesOf(ps, n) \in Seq(Nat \X Nat) /\ Len(PlacesOf(ps, n)) = Len(ps[n]) /\ Len(ps[n]) \in Nat
         /\ \A i \in 1 .. Len(ps[n]) : PlacesOf(ps, n)[i] = <<n, i>>
<1>1. ps[n] \in Seq(Change) /\ n \in Nat
  OBVIOUS
<1>2. Len(ps[n]) \in Nat
  BY <1>1
<1> QED BY <1>1, <1>2 DEF PlacesOf

LEMMA OnePageMore ==
  ASSUME NEW ps \in Seq(Seq(Change)), NEW n \in 2 .. Len(ps)
  PROVE  /\ PlacesIn(ps, n - 1) \in Seq(Nat \X Nat)
         /\ PlacesIn(ps, n) = PlacesIn(ps, n - 1) \o PlacesOf(ps, n)
<1> DEFINE parts == [m \in 1 .. (n - 1) - 1 |-> PlacesOf(ps, m + 1)]
           more == [m \in 1 .. n - 1 |-> PlacesOf(ps, m + 1)]
<1>1. Len(ps) \in Nat /\ n \in Nat /\ (n - 1) - 1 \in Nat
  OBVIOUS
<1>2. ASSUME NEW m \in 1 .. n - 1 PROVE PlacesOf(ps, m + 1) \in Seq(Nat \X Nat)
  <2>1. m + 1 \in 1 .. Len(ps)
    BY <1>1
  <2> QED BY <2>1, PlacesOfPage
<1>3. parts \in Seq(Seq(Nat \X Nat)) /\ Len(parts) = (n - 1) - 1
  BY <1>1, <1>2
<1>5. n \in 1 .. Len(ps)
  BY <1>1
<1>6. PlacesOf(ps, n) \in Seq(Nat \X Nat)
  BY <1>5, PlacesOfPage
<1>4. more = Append(parts, PlacesOf(ps, n))
  <2> DEFINE app == Append(parts, PlacesOf(ps, n))
  <2>1. /\ more \in Seq(Seq(Nat \X Nat)) /\ Len(more) = n - 1
        /\ \A m \in 1 .. n - 1 : more[m] = PlacesOf(ps, m + 1)
    BY <1>1, <1>2
  <2>2. \A m \in 1 .. (n - 1) - 1 : parts[m] = PlacesOf(ps, m + 1)
    OBVIOUS
  <2>3. ((n - 1) - 1) + 1 = n - 1 /\ (n - 1) + 1 = n
    BY <1>1
  <2> HIDE DEF parts, more
  <2>4. /\ app \in Seq(Seq(Nat \X Nat)) /\ Len(app) = Len(parts) + 1
        /\ \A m \in 1 .. Len(parts) : app[m] = parts[m]
        /\ app[Len(parts) + 1] = PlacesOf(ps, n)
    BY <1>3, <1>6, AppendProperties
  <2> HIDE DEF app
  <2>5. ASSUME NEW m \in 1 .. n - 1 PROVE more[m] = app[m]
    <3>1. m = n - 1 \/ m \in 1 .. (n - 1) - 1
      BY <1>1
    <3>2. CASE m = n - 1
      BY <1>3, <2>1, <2>3, <2>4, <3>2
    <3>3. CASE m \in 1 .. (n - 1) - 1
      BY <1>3, <2>1, <2>2, <2>4, <3>3
    <3> QED BY <3>1, <3>2, <3>3
  <2>6. more = app
    <3>1. /\ more \in Seq(Seq(Nat \X Nat)) /\ app \in Seq(Seq(Nat \X Nat)) /\ Len(more) = Len(app)
          /\ \A m \in 1 .. Len(more) : more[m] = app[m]
      BY <1>3, <2>1, <2>3, <2>4, <2>5
    <3> QED BY <3>1, SeqEqual
  <2> QED BY <2>6 DEF app
<1>7. FlattenSeq(more) = FlattenSeq(parts) \o PlacesOf(ps, n) /\ FlattenSeq(parts) \in Seq(Nat \X Nat)
  <2> HIDE DEF parts, more
  <2> QED BY <1>3, <1>4, <1>6, FlattenLast, FlattenType
<1> QED BY <1>7 DEF PlacesIn

(* The values of one page come after those of the others.                  *)
LEMMA AllAsSentOn ==
  ASSUME NEW h, NEW ps, NEW last,
         NEW vals \in Seq(Event), NEW from \in Seq(Nat \X Nat), AllAsSent(h, ps, vals, from, last),
         NEW part \in Seq(Event), NEW more \in Seq(Nat \X Nat), AllAsSent(h, ps, part, more, last)
  PROVE  AllAsSent(h, ps, vals \o part, from \o more, last)
<1> DEFINE n == Len(from)
           all == from \o more
           got == vals \o part
<1>1. /\ n \in Nat /\ Len(vals) = n /\ Len(part) = Len(more) /\ Len(more) \in Nat
      /\ \A k \in 1 .. n : AsSent(h, ps, vals[k], from[k][1], from[k][2], last)
      /\ \A k \in 1 .. Len(more) : AsSent(h, ps, part[k], more[k][1], more[k][2], last)
  BY DEF AllAsSent
<1>2. /\ Len(all) = n + Len(more) /\ Len(got) = n + Len(more)
      /\ \A i \in 1 .. n + Len(more) : all[i] = IF i <= n THEN from[i] ELSE more[i - n]
      /\ \A i \in 1 .. n + Len(more) : got[i] = IF i <= n THEN vals[i] ELSE part[i - n]
  <2>1. /\ Len(all) = n + Len(more)
        /\ \A i \in 1 .. n + Len(more) : all[i] = IF i <= n THEN from[i] ELSE more[i - n]
    BY ConcatProperties
  <2>2. /\ Len(got) = Len(vals) + Len(part)
        /\ \A i \in 1 .. Len(vals) + Len(part) : got[i] = IF i <= Len(vals) THEN vals[i] ELSE part[i - Len(vals)]
    BY ConcatProperties
  <2> HIDE DEF n, all, got
  <2> QED BY <1>1, <2>1, <2>2
<1> HIDE DEF n, all, got
<1>3. ASSUME NEW k \in 1 .. n + Len(more)
      PROVE  AsSent(h, ps, got[k], all[k][1], all[k][2], last)
  <2>1. CASE k <= n
    <3>1. k \in 1 .. n
      BY <1>1, <2>1
    <3> QED BY <1>1, <1>2, <2>1, <3>1
  <2>2. CASE ~(k <= n)
    <3>1. k - n \in 1 .. Len(more)
      BY <1>1, <2>2
    <3> QED BY <1>1, <1>2, <2>2, <3>1
  <2> QED BY <2>1, <2>2
<1>4. AllAsSent(h, ps, got, all, last)
  BY <1>2, <1>3 DEF AllAsSent
<1> QED BY <1>4 DEF got, all

(* A value that was collected stays as it was, but for the elements of its *)
(* list, which the page has taken when it brings one for its place.        *)
LEMMA StaysAsSent ==
  ASSUME SyncTypeOK, HeapInv, at # "returned",
         NEW event \in Event, NEW p \in Nat, NEW i \in Nat, AsSent(heap, pages, event, p, i, apiUrl - 1)
  PROVE  AsSent(DecodedHeap(pages[apiUrl]), pages, event, p, i, apiUrl)
<1> DEFINE new == DecodedHeap(pages[apiUrl])
<1>1. apiUrl \in Nat /\ pages[apiUrl] \in Seq(Change)
  BY DEF SyncTypeOK
<1>2. /\ DOMAIN heap \subseteq DOMAIN new
      /\ \A a \in DOMAIN heap : a[2] \notin Brings(pages[apiUrl]) => new[a] = heap[a]
  BY <1>1, HeapDecoded
<1> HIDE DEF new
<1>3. p <= apiUrl /\ apiUrl \in p + 1 .. apiUrl /\ \A q \in p + 1 .. apiUrl - 1 : q \in p + 1 .. apiUrl
  <2>1. p <= apiUrl - 1
    BY DEF AsSent
  <2> QED BY <1>1, <2>1
<1>4. InPlace(heap, event.attendees, i) /\ InPlace(new, event.attendees, i)
  BY <1>2 DEF AsSent, InPlace
<1>5. ASSUME i \notin Brings(pages[apiUrl]) PROVE Shown(new, event) = Shown(heap, event)
  <2>1. CASE event.attendees = NilSlice
    <3>1. event.attendees.len = 0 /\ 1 .. 0 = {}
      BY <2>1 DEF NilSlice
    <3> QED BY <3>1 DEF Shown
  <2>2. CASE event.attendees.of \in DOMAIN heap /\ event.attendees.of[2] = i
    <3>1. new[event.attendees.of] = heap[event.attendees.of]
      BY <1>2, <1>5, <2>2
    <3> QED BY <3>1 DEF Shown
  <2> QED BY <1>4, <2>1, <2>2 DEF InPlace
<1>6. ASSUME pages[p][i].attendees # Absent
      PROVE  /\ event.attendees.len = Len(pages[p][i].attendees)
             /\ \/ Shown(new, event) = pages[p][i].attendees
                \/ \E q \in p + 1 .. apiUrl : i \in Brings(pages[q])
  <2>1. /\ event.attendees.len = Len(pages[p][i].attendees)
        /\ \/ Shown(heap, event) = pages[p][i].attendees
           \/ \E q \in p + 1 .. apiUrl - 1 : i \in Brings(pages[q])
    BY <1>6 DEF AsSent
  <2> QED BY <1>3, <1>5, <2>1
<1>7. AsSent(new, pages, event, p, i, apiUrl)
  BY <1>3, <1>4, <1>6 DEF AsSent
<1> QED BY <1>7 DEF new

(* The values collected of the page.                                       *)
LEMMA PageAsSent ==
  ASSUME SyncTypeOK, HeapInv, at # "returned"
  PROVE  LET page == pages[apiUrl]
             part == Collected(Decoded(array, page), Len(page))
         IN part \in Seq(Event) /\ AllAsSent(DecodedHeap(page), pages, part, PlacesOf(pages, apiUrl), apiUrl)
<1> DEFINE page == pages[apiUrl]
           part == Collected(Decoded(array, page), Len(page))
           from == PlacesOf(pages, apiUrl)
           new == DecodedHeap(page)
<1>1. /\ pages \in Seq(Seq(Change)) /\ apiUrl \in 1 .. Len(pages) /\ apiUrl \in Nat
      /\ array \in Seq(Event) /\ page \in Seq(Change)
  BY DEF SyncTypeOK
<1>2. /\ Len(from) = Len(page) /\ Len(page) \in Nat
      /\ \A i \in 1 .. Len(page) : from[i] = <<apiUrl, i>>
  BY <1>1, PlacesOfPage
<1>3. /\ part \in Seq(Event) /\ Len(part) = Len(page)
      /\ \A i \in 1 .. Len(page) : part[i] = DecodedEvent(page[i], Left(i), <<apiUrl, i>>)
  BY <1>1, CollectedFacts, DecodedFacts
<1>4. ASSUME NEW i \in 1 .. Len(page)
      PROVE  /\ InPlace(new, part[i].attendees, i)
             /\ page[i].attendees # Absent => Shown(new, part[i]) = page[i].attendees
  BY <1>1, <1>3, PlacedAsSent
<1>5. ASSUME NEW i \in 1 .. Len(page)
      PROVE  /\ part[i].id = page[i].id
             /\ page[i].subject # Absent => part[i].subject = page[i].subject
             /\ page[i].attendees # Absent => part[i].attendees.len = Len(page[i].attendees)
  <2>1. page[i] \in Change /\ <<apiUrl, i>> \in Nat \X Nat
    BY <1>1, <1>2
  <2> QED BY <1>1, <1>3, <2>1, EventDecoded
<1>6. ASSUME NEW i \in 1 .. Len(page)
      PROVE  AsSent(new, pages, part[i], from[i][1], from[i][2], apiUrl)
  <2> HIDE DEF part, new, from
  <2>1. from[i][1] = apiUrl /\ from[i][2] = i
    BY <1>2
  <2>2. apiUrl <= apiUrl
    BY <1>1
  <2>3. AsSent(new, pages, part[i], apiUrl, i, apiUrl)
    BY <1>1, <1>4, <1>5, <2>2 DEF AsSent
  <2> QED BY <2>1, <2>3
<1>7. AllAsSent(new, pages, part, from, apiUrl)
  <2> HIDE DEF part, new, from, page
  <2> QED BY <1>2, <1>3, <1>6 DEF AllAsSent
<1> QED BY <1>3, <1>7

(* The arrays are those of the pages there have been, each used in its     *)
(* place alone.                                                            *)
LEMMA HeapInvStep ==
  ASSUME SyncInv, HeapInv, SyncStep
  PROVE  HeapInv'
<1>1. /\ SyncTypeOK /\ apiUrl \in Nat /\ array \in Seq(Event) /\ pages[apiUrl] \in Seq(Change)
      /\ at # "returned" /\ (Stops \/ Repeats \/ GoesOn \/ Ends)
  <2>1. SyncTypeOK /\ apiUrl \in Nat /\ array \in Seq(Event) /\ pages[apiUrl] \in Seq(Change)
    BY DEF SyncInv, SyncTypeOK
  <2>2. at # "returned"
    BY DEF SyncStep, FirstPage, NextPage
  <2> QED BY <2>1, <2>2, StepKinds
<1>2. DecodePage \/ \E kind \in {"body", "garbled", "none"} : Fails(kind)
  BY DEF SyncStep, FirstPage, NextPage
<1>3. at' # "returned" => apiUrl' = apiUrl \/ apiUrl' = apiUrl + 1
  BY <1>1 DEF Stops, Repeats, GoesOn, Ends
<1>4. CASE DecodePage
  <2> DEFINE page == pages[apiUrl]
  <2>1. array' = Decoded(array, page) /\ heap' = DecodedHeap(page)
    BY <1>4 DEF DecodePage
  <2>p. page \in Seq(Change)
    BY <1>1
  <2> HIDE DEF page
  <2>2. /\ \A a \in DOMAIN heap' : heap'[a] \in Seq(Attendee) /\ a[1] < apiUrl + 1
        /\ DOMAIN heap \subseteq DOMAIN heap'
    BY <1>1, <2>p, <2>1, HeapDecoded
  <2>3. at' # "returned" => apiUrl' = apiUrl + 1
    <3>1. bad \in Nat /\ bad' = bad
      BY <1>1, <1>4 DEF DecodePage, SyncTypeOK
    <3> QED BY <1>1, <3>1 DEF Stops, Repeats, GoesOn, Ends
  <2>4. ASSUME NEW i \in 1 .. Len(array') PROVE InPlace(heap', array'[i].attendees, i)
    <3>1. /\ Len(page) \in Nat /\ Len(array') \in Nat
          /\ \A j \in 1 .. Len(page) : array'[j] = DecodedEvent(page[j], Left(j), <<apiUrl, j>>)
          /\ \A j \in Len(page) + 1 .. Len(array') : j \in 1 .. Len(array) /\ array'[j] = array[j]
      <4>1. array' \in Seq(Event) /\ Len(page) \in Nat
        BY <1>1, <2>p, <2>1, DecodedFacts
      <4> QED BY <1>1, <2>p, <2>1, <4>1, DecodedFacts
    <3>2. CASE i <= Len(page)
      <4>1. i \in 1 .. Len(page)
        BY <3>1, <3>2
      <4>2. InPlace(DecodedHeap(page), DecodedEvent(page[i], Left(i), <<apiUrl, i>>).attendees, i)
        BY <1>1, <2>p, <4>1, PlacedAsSent
      <4> QED BY <2>1, <3>1, <4>1, <4>2
    <3>3. CASE ~(i <= Len(page))
      <4>1. i \in 1 .. Len(array) /\ array'[i] = array[i]
        BY <3>1, <3>3
      <4>2. InPlace(heap, array[i].attendees, i)
        BY <4>1 DEF HeapInv
      <4> QED BY <2>2, <4>1, <4>2 DEF InPlace
    <3> QED BY <3>2, <3>3
  <2> QED BY <2>2, <2>3, <2>4 DEF HeapInv
<1>5. CASE \E kind \in {"body", "garbled", "none"} : Fails(kind)
  <2>1. array' = array /\ heap' = heap
    BY <1>5 DEF Fails, track
  <2>2. ASSUME at' # "returned", NEW a \in DOMAIN heap PROVE a[1] < apiUrl'
    <3>1. a[1] < apiUrl
      BY <1>1 DEF HeapInv
    <3>2. a[1] \in Nat
      BY <1>1 DEF SyncTypeOK
    <3> QED BY <1>1, <1>3, <2>2, <3>1, <3>2
  <2> QED BY <2>1, <2>2 DEF HeapInv
<1> QED BY <1>2, <1>4, <1>5

LEMMA OrderInvStep ==
  ASSUME OrderInv, SyncStep
  PROVE  OrderInv'
<1>1. /\ SyncInv /\ HeapInv /\ SyncTypeOK /\ LinkInv /\ Len(pages) \in Nat /\ apiUrl \in 1 .. Len(pages)
      /\ pages \in Seq(Seq(Change)) /\ values \in Seq(Event) /\ array \in Seq(Event)
      /\ bad \in Nat /\ nextLink \in {0} \cup 2 .. Len(pages)
  BY FailuresAssumption DEF OrderInv, SyncInv, SyncTypeOK
<1>2. SyncInv' /\ HeapInv' /\ UNCHANGED pages /\ (Stops \/ Repeats \/ GoesOn \/ Ends)
  BY <1>1, SyncInvStep, HeapInvStep, StepKinds
<1>3. at \in {"first", "next"} /\ at' \in {"next", "returned"} /\ ~deltaLink /\ Fetched = apiUrl - 1
  <2>1. at \in {"first", "next"}
    BY DEF SyncStep, FirstPage, NextPage
  <2> QED BY <1>1, <1>2, <2>1 DEF LinkInv, Fetched, Stops, Repeats, GoesOn, Ends
<1> SUFFICES ASSUME bad' = 0
             PROVE  AllAsSent(heap', pages, values', PlacesIn(pages, Fetched'), Fetched')
  BY <1>2, <1>3 DEF OrderInv
<1>4. \A kind : ~Fails(kind)
  BY <1>1 DEF Fails
<1>5. bad = 0
  BY <1>1, <1>4 DEF SyncStep, FirstPage, NextPage, DecodePage
<1>6. AllAsSent(heap, pages, values, PlacesIn(pages, apiUrl - 1), apiUrl - 1)
  BY <1>3, <1>5 DEF OrderInv
<1>7. CASE at = "first"
  <2>1. values' = <<>> /\ apiUrl = 1
    BY <1>1, <1>7 DEF SyncStep, FirstPage, NextPage, LinkInv, OrderInv
  <2>2. Fetched' \in {0, 1}
    BY <1>2, <1>7, <2>1 DEF Stops, Repeats, GoesOn, Ends, Fetched
  <2>3. PlacesIn(pages, Fetched') = <<>>
    BY <2>2, NowhereYet
  <2> QED BY <2>1, <2>3, EmptySeq DEF AllAsSent
<1>8. CASE at = "next"
  <2> DEFINE page == pages[apiUrl]
             part == Collected(Decoded(array, page), Len(page))
             from == PlacesIn(pages, apiUrl - 1)
             more == PlacesOf(pages, apiUrl)
             new == DecodedHeap(page)
  <2>1. NextPage /\ DecodePage
    BY <1>4, <1>8 DEF SyncStep, FirstPage, NextPage
  <2>2. values' = values \o part /\ heap' = new
    BY <1>4, <2>1 DEF NextPage, DecodePage
  <2>3. GoesOn \/ Ends
    <3>1. delta' => deltaLink'
      BY <1>4, <2>1 DEF NextPage, Ended, Return
    <3>2. ~delta' => at' = "next"
      BY <1>4, <1>8, <2>1 DEF NextPage, Ended
    <3> QED BY <1>2, <1>5, <3>1, <3>2 DEF Stops, Repeats
  <2>4. Fetched' = apiUrl
    BY <1>1, <1>2, <2>3 DEF GoesOn, Ends, Fetched
  <2>5. apiUrl \in 2 .. Len(pages) /\ apiUrl \in 1 .. Len(pages)
    BY <1>1, <1>8 DEF LinkInv
  <2>6. from \in Seq(Nat \X Nat) /\ more \in Seq(Nat \X Nat) /\ PlacesIn(pages, apiUrl) = from \o more
    BY <1>1, <2>5, OnePageMore, PlacesOfPage
  <2>7. part \in Seq(Event) /\ AllAsSent(new, pages, part, more, apiUrl)
    BY <1>1, <1>3, PageAsSent
  <2>8. AllAsSent(new, pages, values, from, apiUrl)
    <3> HIDE DEF from, new
    <3>1. Len(values) = Len(from) /\ Len(from) \in Nat
      BY <1>6, <2>6 DEF AllAsSent, from
    <3>2. ASSUME NEW k \in 1 .. Len(from)
          PROVE  AsSent(new, pages, values[k], from[k][1], from[k][2], apiUrl)
      <4>1. AsSent(heap, pages, values[k], from[k][1], from[k][2], apiUrl - 1)
        BY <1>6 DEF AllAsSent, from
      <4>2. values[k] \in Event /\ from[k] \in Nat \X Nat
        BY <1>1, <2>6, <3>1
      <4>3. from[k][1] \in Nat /\ from[k][2] \in Nat
        BY <4>2
      <4> QED BY <1>1, <1>3, <4>1, <4>2, <4>3, StaysAsSent DEF new
    <3> QED BY <3>1, <3>2 DEF AllAsSent
  <2>9. AllAsSent(new, pages, values \o part, from \o more, apiUrl)
    <3> HIDE DEF part, from, more, new, page
    <3> QED BY <1>1, <2>6, <2>7, <2>8, AllAsSentOn
  <2> QED BY <2>2, <2>4, <2>6, <2>9
<1> QED BY <1>3, <1>7, <1>8

(* The run begins with the calendar of whoever the notification names.     *)
LEMMA CallStep ==
  ASSUME SkipInv, NEW user, httpGet(user)
  PROVE  SkipInv'
<1>1. SyncTypeOK /\ LinkInv /\ at = "idle" /\ at' = "first"
  BY DEF SkipInv, SyncInv, httpGet
<1>2. UNCHANGED <<apiUrl, nextLink, delta, array, shown, heap, values, deltaLink, errRes, bad>>
  BY DEF httpGet, track
<1>3. apiUrl = 1 /\ nextLink = 0 /\ ~delta /\ ~deltaLink
  BY <1>1 DEF LinkInv
<1>4. pages' \in Seq(Seq(Change)) /\ Len(pages') \in Nat \ {0}
  <2>1. pages' \in Seq(Seq(Change)) /\ pages' # <<>>
    <3>1. CASE user \in DOMAIN Calendars
      BY <3>1, CalendarsAssumption DEF httpGet
    <3>2. CASE user \notin DOMAIN Calendars
      <4>1. pages' = <<<<>>>>
        BY <3>2 DEF httpGet
      <4>2. QED BY <4>1, EmptySeq
    <3>3. QED BY <3>1, <3>2
  <2>2. QED BY <2>1, EmptySeq
<1>5. SyncTypeOK'
  BY <1>1, <1>2, <1>3, <1>4 DEF SyncTypeOK
<1>6. LinkInv'
  BY <1>1, <1>2, <1>3 DEF LinkInv
<1>7. Fetched' = 0
  BY <1>2, <1>3 DEF Fetched
<1>8. QED BY <1>5, <1>6, <1>7 DEF SkipInv, SyncInv

-----------------------------------------------------------------------------
(* Strings: their characters and the bytes of these.                       *)
Byte == Char \X (1 .. 4)
BytesOf(char) == [b \in 1 .. Width[char] |-> <<char, b>>]

LEMMA BytesOfChar ==
  ASSUME NEW char \in Char
  PROVE  /\ BytesOf(char) \in Seq(Byte) /\ Len(BytesOf(char)) = Width[char] /\ Width[char] \in 1 .. 4
         /\ \A b \in 1 .. Width[char] : BytesOf(char)[b] = <<char, b>>
<1>1. Width[char] \in 1 .. 4
  BY NotificationAssumption
<1> QED BY <1>1 DEF BytesOf, Byte

LEMMA NoBytes == Bytes(<<>>) = <<>> /\ <<>> \in Seq(Byte) /\ Len(<<>>) = 0
<1> DEFINE parts == [i \in 1 .. Len(<<>>) |-> BytesOf(<<>>[i])]
<1>1. Bytes(<<>>) = FlattenSeq(parts)
  BY DEF Bytes, BytesOf
<1>2. parts = <<>> /\ Len(<<>>) = 0
  BY EmptySeq
<1> HIDE DEF parts
<1>3. FlattenSeq(parts) = <<>>
  BY <1>2 DEF FlattenSeq
<1> QED BY <1>1, <1>2, <1>3, EmptySeq

LEMMA BytesType ==
  ASSUME NEW str \in String
  PROVE  Bytes(str) \in Seq(Byte)
<1> DEFINE parts == [i \in 1 .. Len(str) |-> BytesOf(str[i])]
<1>1. Len(str) \in Nat /\ \A i \in 1 .. Len(str) : str[i] \in Char
  BY DEF String
<1>2. parts \in Seq(Seq(Byte))
  BY <1>1, BytesOfChar
<1>3. Bytes(str) = FlattenSeq(parts)
  BY DEF Bytes, BytesOf
<1> HIDE DEF parts
<1> QED BY <1>2, <1>3, FlattenType

LEMMA BytesLast ==
  ASSUME NEW str \in String, NEW char \in Char
  PROVE  Bytes(Append(str, char)) = Bytes(str) \o BytesOf(char)
<1> DEFINE parts == [i \in 1 .. Len(str) |-> BytesOf(str[i])]
           more == Append(str, char)
           all == [i \in 1 .. Len(more) |-> BytesOf(more[i])]
<1>1. /\ Len(str) \in Nat /\ Len(more) = Len(str) + 1 /\ more[Len(str) + 1] = char
      /\ \A i \in 1 .. Len(str) : more[i] = str[i] /\ str[i] \in Char
  BY AppendProperties DEF String
<1>2. Bytes(str) = FlattenSeq(parts) /\ Bytes(more) = FlattenSeq(all)
  BY DEF Bytes, BytesOf
<1>3. parts \in Seq(Seq(Byte)) /\ Len(parts) = Len(str) /\ BytesOf(char) \in Seq(Byte)
  BY <1>1, BytesOfChar
<1>4. all = Append(parts, BytesOf(char))
  <2> HIDE DEF more
  <2>1. all = [i \in 1 .. Len(str) + 1 |-> IF i = Len(str) + 1 THEN BytesOf(char) ELSE BytesOf(str[i])]
    BY <1>1
  <2> QED BY <1>1, <1>3, <2>1
<1>5. FlattenSeq(all) = FlattenSeq(parts) \o BytesOf(char)
  <2> HIDE DEF parts, all
  <2> QED BY <1>3, <1>4, FlattenLast
<1> QED BY <1>2, <1>5

-----------------------------------------------------------------------------
(* Where the characters of a string begin: how many bytes come before the  *)
(* character after the first n.                                            *)
Up(str, n) == SubSeq(str, 1, n)
Off(str, n) == Len(Bytes(Up(str, n)))

LEMMA OffNext ==
  ASSUME NEW str \in String, NEW n \in 0 .. Len(str)
  PROVE  /\ Up(str, n) \in String /\ Bytes(Up(str, n)) \in Seq(Byte) /\ Off(str, n) \in Nat
         /\ Off(str, 0) = 0 /\ Up(str, Len(str)) = str
         /\ n < Len(str) =>
              /\ str[n + 1] \in Char
              /\ Bytes(Up(str, n + 1)) = Bytes(Up(str, n)) \o BytesOf(str[n + 1])
              /\ Off(str, n + 1) = Off(str, n) + Width[str[n + 1]]
<1>1. Len(str) \in Nat /\ str \in Seq(Char)
  BY DEF String
<1>2. Up(str, n) \in String /\ Up(str, Len(str)) = str /\ Up(str, 0) = <<>>
  BY <1>1 DEF Up, String
<1>3. Bytes(Up(str, n)) \in Seq(Byte) /\ Off(str, n) \in Nat
  <2>1. Bytes(Up(str, n)) \in Seq(Byte)
    BY <1>2, BytesType
  <2> QED BY <2>1 DEF Off
<1>4. Off(str, 0) = 0
  BY <1>2, NoBytes DEF Off
<1>5. ASSUME n < Len(str)
      PROVE  /\ str[n + 1] \in Char
             /\ Bytes(Up(str, n + 1)) = Bytes(Up(str, n)) \o BytesOf(str[n + 1])
             /\ Off(str, n + 1) = Off(str, n) + Width[str[n + 1]]
  <2>1. str[n + 1] \in Char /\ Up(str, n + 1) = Append(Up(str, n), str[n + 1])
    BY <1>1, <1>5 DEF Up
  <2>2. Bytes(Up(str, n + 1)) = Bytes(Up(str, n)) \o BytesOf(str[n + 1])
    BY <1>2, <2>1, BytesLast
  <2>3. /\ BytesOf(str[n + 1]) \in Seq(Byte) /\ Len(BytesOf(str[n + 1])) = Width[str[n + 1]]
    BY <2>1, BytesOfChar
  <2>4. Off(str, n + 1) = Off(str, n) + Width[str[n + 1]]
    <3>1. ASSUME NEW s \in Seq(Byte), NEW t \in Seq(Byte) PROVE Len(s \o t) = Len(s) + Len(t)
      OBVIOUS
    <3> QED BY <1>3, <2>2, <2>3, <3>1 DEF Off
  <2> QED BY <2>1, <2>2, <2>4
<1> QED BY <1>2, <1>3, <1>4, <1>5

(* The bytes before a character are as many as there are.                  *)
LEMMA OffGrows ==
  ASSUME NEW str \in String, NEW m \in 0 .. Len(str)
  PROVE  \A k \in 0 .. m : Off(str, k) + (m - k) <= Off(str, m)
<1> DEFINE N == Len(str)
           T == {n \in 0 .. N : \A k \in 0 .. n : Off(str, k) + (n - k) <= Off(str, n)}
<1>1. N \in Nat /\ \A n \in 0 .. N : Off(str, n) \in Nat
  <2>1. N \in Nat
    BY DEF String
  <2>2. ASSUME NEW n \in 0 .. N PROVE Off(str, n) \in Nat
    BY OffNext
  <2> QED BY <2>1, <2>2
<1>2. 0 \in T
  BY <1>1
<1>3. ASSUME NEW n \in 0 .. N - 1, n \in T PROVE n + 1 \in T
  <2>1. Off(str, n) + 1 <= Off(str, n + 1)
    <3>1. n \in 0 .. Len(str) /\ n < Len(str)
      BY <1>1
    <3>2. Off(str, n + 1) = Off(str, n) + Width[str[n + 1]] /\ Width[str[n + 1]] \in 1 .. 4
      BY <3>1, OffNext, BytesOfChar
    <3> QED BY <1>1, <3>1, <3>2
  <2>2. ASSUME NEW k \in 0 .. n + 1 PROVE Off(str, k) + ((n + 1) - k) <= Off(str, n + 1)
    <3>1. CASE k = n + 1
      BY <1>1, <3>1
    <3>2. CASE k # n + 1
      <4>1. k \in 0 .. n /\ Off(str, k) \in Nat /\ Off(str, n) \in Nat /\ Off(str, n + 1) \in Nat
        BY <1>1, <3>2
      <4>2. Off(str, k) + (n - k) <= Off(str, n)
        BY <1>3, <4>1
      <4> QED BY <2>1, <4>1, <4>2
    <3> QED BY <3>1, <3>2
  <2> QED BY <1>1, <2>2
<1> HIDE DEF T
<1>4. \A n \in 0 .. N : n \in T
  BY <1>1, <1>2, <1>3, UpTo
<1> QED BY <1>4 DEF T

(* Each byte is one of a character.                                        *)
LEMMA BytesAt ==
  ASSUME NEW str \in String, NEW m \in 0 .. Len(str)
  PROVE  /\ \A k \in 0 .. m - 1 : \A b \in 1 .. Width[str[k + 1]] :
              /\ Off(str, k) + b \in 1 .. Off(str, m)
              /\ Bytes(Up(str, m))[Off(str, k) + b] = <<str[k + 1], b>>
         /\ \A i \in 1 .. Off(str, m) :
              \E k \in 0 .. m - 1 : \E b \in 1 .. Width[str[k + 1]] : i = Off(str, k) + b
<1> DEFINE N == Len(str)
           At(n) == \A k \in 0 .. n - 1 : \A b \in 1 .. Width[str[k + 1]] :
                      /\ Off(str, k) + b \in 1 .. Off(str, n)
                      /\ Bytes(Up(str, n))[Off(str, k) + b] = <<str[k + 1], b>>
           Each(n) == \A i \in 1 .. Off(str, n) :
                        \E k \in 0 .. n - 1 : \E b \in 1 .. Width[str[k + 1]] : i = Off(str, k) + b
           T == {n \in 0 .. N : At(n) /\ Each(n)}
<1>1. N \in Nat /\ \A n \in 0 .. N : Off(str, n) \in Nat /\ Off(str, 0) = 0
  <2>1. N \in Nat
    BY DEF String
  <2>2. ASSUME NEW n \in 0 .. N PROVE Off(str, n) \in Nat /\ Off(str, 0) = 0
    BY OffNext
  <2> QED BY <2>1, <2>2
<1>2. 0 \in T
  BY <1>1
<1>3. ASSUME NEW n \in 0 .. N - 1, n \in T PROVE n + 1 \in T
  <2> DEFINE char == str[n + 1]
             old == Bytes(Up(str, n))
             new == Bytes(Up(str, n + 1))
  <2>1. n \in 0 .. Len(str) /\ n < Len(str) /\ n + 1 \in 0 .. N
    BY <1>1
  <2>2. /\ char \in Char /\ new = old \o BytesOf(char) /\ old \in Seq(Byte) /\ Len(old) = Off(str, n)
        /\ Off(str, n + 1) = Off(str, n) + Width[char]
    BY <2>1, OffNext DEF Off
  <2>3. /\ BytesOf(char) \in Seq(Byte) /\ Len(BytesOf(char)) = Width[char] /\ Width[char] \in 1 .. 4
        /\ \A b \in 1 .. Width[char] : BytesOf(char)[b] = <<char, b>>
    BY <2>2, BytesOfChar
  <2>4. \A i \in 1 .. Off(str, n) + Width[char] :
          new[i] = IF i <= Off(str, n) THEN old[i] ELSE BytesOf(char)[i - Off(str, n)]
    <3>1. ASSUME NEW s \in Seq(Byte), NEW t \in Seq(Byte), NEW i \in 1 .. Len(s) + Len(t)
          PROVE  (s \o t)[i] = IF i <= Len(s) THEN s[i] ELSE t[i - Len(s)]
      BY <3>1
    <3> HIDE DEF old, new, char
    <3>2. \A i \in 1 .. Len(old) + Len(BytesOf(char)) :
            (old \o BytesOf(char))[i] = IF i <= Len(old) THEN old[i] ELSE BytesOf(char)[i - Len(old)]
      BY <2>2, <2>3, <3>1
    <3> QED BY <2>2, <2>3, <3>2
  <2>5. Off(str, n) \in Nat /\ Off(str, n + 1) \in Nat
    BY <1>1, <2>1
  <2>6. ASSUME NEW k \in 0 .. n, NEW b \in 1 .. Width[str[k + 1]]
        PROVE  /\ Off(str, k) + b \in 1 .. Off(str, n + 1)
               /\ new[Off(str, k) + b] = <<str[k + 1], b>>
    <3>1. CASE k = n
      <4>1. /\ Off(str, n) + b \in 1 .. Off(str, n) + Width[char] /\ ~(Off(str, n) + b <= Off(str, n))
            /\ (Off(str, n) + b) - Off(str, n) = b
        <5>1. ASSUME NEW o \in Nat, NEW w \in 1 .. 4, NEW c \in 1 .. w
              PROVE  o + c \in 1 .. o + w /\ ~(o + c <= o) /\ (o + c) - o = c
          OBVIOUS
        <5>2. b \in 1 .. Width[char]
          BY <3>1
        <5> HIDE DEF char
        <5> QED BY <2>3, <2>5, <5>1, <5>2
      <4> QED BY <2>2, <2>3, <2>4, <3>1, <4>1
    <3>2. CASE k # n
      <4>1. k \in 0 .. n - 1
        BY <2>1, <3>2
      <4>2. Off(str, k) + b \in 1 .. Off(str, n) /\ old[Off(str, k) + b] = <<str[k + 1], b>>
        BY <1>3, <4>1
      <4>3. Off(str, k) + b \in 1 .. Off(str, n) + Width[char] /\ Off(str, k) + b <= Off(str, n)
        BY <2>3, <2>5, <4>2
      <4> QED BY <2>2, <2>4, <4>2, <4>3
    <3> QED BY <3>1, <3>2
  <2>7. ASSUME NEW i \in 1 .. Off(str, n + 1)
        PROVE  \E k \in 0 .. n : \E b \in 1 .. Width[str[k + 1]] : i = Off(str, k) + b
    <3>1. CASE i <= Off(str, n)
      <4>1. i \in 1 .. Off(str, n)
        BY <2>5, <3>1
      <4>2. \E k \in 0 .. n - 1 : \E b \in 1 .. Width[str[k + 1]] : i = Off(str, k) + b
        BY <1>3, <4>1
      <4>3. 0 .. n - 1 \subseteq 0 .. n
        BY <2>1
      <4> QED BY <4>2, <4>3
    <3>2. CASE ~(i <= Off(str, n))
      <4>1. i - Off(str, n) \in 1 .. Width[char] /\ i = Off(str, n) + (i - Off(str, n))
        <5>1. Off(str, n + 1) = Off(str, n) + Width[char] /\ Width[char] \in 1 .. 4
          BY <2>2, <2>3
        <5> HIDE DEF char
        <5> QED BY <2>5, <3>2, <5>1
      <4>2. n \in 0 .. n
        BY <2>1
      <4> QED BY <4>1, <4>2
    <3> QED BY <3>1, <3>2
  <2>8. (n + 1) - 1 = n
    BY <2>1
  <2> HIDE DEF char, old
  <2>9. At(n + 1) /\ Each(n + 1)
    BY <2>6, <2>7, <2>8
  <2> QED BY <2>1, <2>9
<1> HIDE DEF T
<1>4. \A n \in 0 .. N : n \in T
  BY <1>1, <1>2, <1>3, UpTo
<1> QED BY <1>4 DEF T

LEMMA AllBytes ==
  ASSUME NEW str \in String
  PROVE  /\ Bytes(str) \in Seq(Byte) /\ Len(Bytes(str)) = Off(str, Len(str)) /\ Len(str) \in Nat
         /\ \A n \in 0 .. Len(str) : Off(str, n) \in Nat
         /\ \A k \in 0 .. Len(str) - 1 : \A b \in 1 .. Width[str[k + 1]] :
              Bytes(str)[Off(str, k) + b] = <<str[k + 1], b>>
         /\ \A i \in 1 .. Len(Bytes(str)) :
              \E k \in 0 .. Len(str) - 1 : \E b \in 1 .. Width[str[k + 1]] : i = Off(str, k) + b
<1>1. Len(str) \in Nat /\ Len(str) \in 0 .. Len(str)
  BY DEF String
<1>2. Bytes(Up(str, Len(str))) \in Seq(Byte) /\ Up(str, Len(str)) = str
  BY <1>1, OffNext
<1>3. Len(Bytes(str)) = Off(str, Len(str))
  BY <1>2 DEF Off
<1>4. \A n \in 0 .. Len(str) : Off(str, n) \in Nat
  BY OffNext
<1>5. \A k \in 0 .. Len(str) - 1 : \A b \in 1 .. Width[str[k + 1]] :
        Bytes(Up(str, Len(str)))[Off(str, k) + b] = <<str[k + 1], b>>
  BY <1>1, BytesAt
<1>6. \A i \in 1 .. Off(str, Len(str)) :
        \E k \in 0 .. Len(str) - 1 : \E b \in 1 .. Width[str[k + 1]] : i = Off(str, k) + b
  BY <1>1, BytesAt
<1> QED BY <1>1, <1>2, <1>3, <1>4, <1>5, <1>6

(* A byte that is the first of a character is where that begins.           *)
LEMMA FirstByte ==
  ASSUME NEW str \in String, NEW p \in Nat, NEW char, p < Len(Bytes(str)), Bytes(str)[p + 1] = <<char, 1>>
  PROVE  \E k \in 0 .. Len(str) - 1 : p = Off(str, k) /\ str[k + 1] = char
<1>1. p + 1 \in 1 .. Len(Bytes(str)) /\ Len(str) \in Nat
  BY AllBytes
<1>2. PICK k \in 0 .. Len(str) - 1 : \E b \in 1 .. Width[str[k + 1]] : p + 1 = Off(str, k) + b
  BY <1>1, AllBytes
<1>3. PICK b \in 1 .. Width[str[k + 1]] : p + 1 = Off(str, k) + b
  BY <1>2
<1>4. Bytes(str)[p + 1] = <<str[k + 1], b>>
  BY <1>2, <1>3, AllBytes
<1>5. str[k + 1] = char /\ b = 1
  BY <1>4
<1>6. k \in 0 .. Len(str)
  BY <1>1, <1>2
<1>7. Off(str, k) \in Nat
  BY <1>6, AllBytes
<1>8. p = Off(str, k)
  BY <1>3, <1>5, <1>7
<1> QED BY <1>2, <1>5, <1>8

(* Where a string is found: by its characters and by its bytes.            *)
Found(str, sub, k) == k \in 0 .. Len(str) - Len(sub) /\ SubSeq(str, k + 1, k + Len(sub)) = sub

PlacesFor(bytes, sub) == {i \in 0 .. Len(bytes) - Len(sub) : SubSeq(bytes, i + 1, i + Len(sub)) = sub}

(* One sequence is found in another where its elements are.                *)
LEMMA FoundBy ==
  ASSUME NEW S, NEW s \in Seq(S), NEW t \in Seq(S), NEW k \in Nat
  PROVE  /\ k \in 0 .. Len(s) - Len(t) <=> k + Len(t) <= Len(s)
         /\ k + Len(t) <= Len(s) =>
              (SubSeq(s, k + 1, k + Len(t)) = t <=> \A i \in 1 .. Len(t) : s[k + i] = t[i])
<1>1. Len(s) \in Nat /\ Len(t) \in Nat
  OBVIOUS
<1>2. ASSUME k + Len(t) <= Len(s)
      PROVE  SubSeq(s, k + 1, k + Len(t)) = t <=> \A i \in 1 .. Len(t) : s[k + i] = t[i]
  <2> DEFINE part == SubSeq(s, k + 1, k + Len(t))
  <2>1. part \in Seq(S) /\ Len(part) = Len(t) /\ \A i \in 1 .. Len(t) : part[i] = s[k + i]
    <3>1. /\ part \in Seq(S) /\ Len(part) = (k + Len(t)) - (k + 1) + 1
          /\ \A i \in 1 .. (k + Len(t)) - (k + 1) + 1 : part[i] = s[(k + 1) + i - 1]
      BY <1>1, <1>2, SubSeqProperties
    <3>2. (k + Len(t)) - (k + 1) + 1 = Len(t) /\ \A i \in 1 .. Len(t) : (k + 1) + i - 1 = k + i
      BY <1>1
    <3> HIDE DEF part
    <3> QED BY <3>1, <3>2
  <2> HIDE DEF part
  <2>2. part = t <=> \A i \in 1 .. Len(t) : part[i] = t[i]
    BY <2>1, SeqEqual
  <2>3. part = t <=> \A i \in 1 .. Len(t) : s[k + i] = t[i]
    BY <2>1, <2>2
  <2> QED BY <2>3 DEF part
<1> QED BY <1>1, <1>2

LEMMA FoundThere ==
  ASSUME NEW S, NEW s \in Seq(S), NEW t \in Seq(S), NEW k \in 0 .. Len(s) - Len(t),
         SubSeq(s, k + 1, k + Len(t)) = t
  PROVE  k \in Nat /\ k + Len(t) <= Len(s) /\ \A i \in 1 .. Len(t) : s[k + i] = t[i]
<1>1. k \in Nat
  OBVIOUS
<1>2. k + Len(t) <= Len(s)
  <2>1. Len(s) \in Nat /\ Len(t) \in Nat
    OBVIOUS
  <2> QED BY <1>1, <2>1
<1>3. SubSeq(s, k + 1, k + Len(t)) = t <=> \A i \in 1 .. Len(t) : s[k + i] = t[i]
  BY <1>1, <1>2, FoundBy
<1> QED BY <1>1, <1>2, <1>3

(* What is found by its characters is found where they begin.              *)
LEMMA FoundBytes ==
  ASSUME NEW str \in String, NEW sub \in String, NEW k, Found(str, sub, k)
  PROVE  Off(str, k) \in PlacesFor(Bytes(str), Bytes(sub))
<1> DEFINE N == Len(sub)
           T == {n \in 0 .. N : Off(str, k + n) = Off(str, k) + Off(sub, n)}
<1>1. /\ N \in Nat /\ Len(str) \in Nat /\ k \in Nat /\ k + N <= Len(str)
      /\ \A i \in 1 .. N : str[k + i] = sub[i]
  <2>1. str \in Seq(Char) /\ sub \in Seq(Char)
    BY DEF String
  <2>2. k \in 0 .. Len(str) - Len(sub) /\ SubSeq(str, k + 1, k + Len(sub)) = sub
    BY DEF Found
  <2>3. k \in Nat /\ k + Len(sub) <= Len(str) /\ \A i \in 1 .. Len(sub) : str[k + i] = sub[i]
    BY <2>1, <2>2, FoundThere
  <2>4. Len(str) \in Nat /\ N \in Nat
    BY <2>1
  <2> QED BY <2>3, <2>4
<1>2. /\ \A n \in 0 .. Len(str) : Off(str, n) \in Nat
      /\ \A n \in 0 .. N : Off(sub, n) \in Nat /\ Off(sub, 0) = 0
  BY OffNext
<1>3. 0 \in T
  BY <1>1, <1>2
<1>4. ASSUME NEW n \in 0 .. N - 1, n \in T PROVE n + 1 \in T
  <2>1. /\ k + n \in 0 .. Len(str) /\ k + n < Len(str) /\ (k + n) + 1 = k + (n + 1)
        /\ n \in 0 .. N /\ n < N /\ n + 1 \in 1 .. N /\ n + 1 \in 0 .. N
    BY <1>1
  <2>2. Off(str, k + (n + 1)) = Off(str, k + n) + Width[str[k + (n + 1)]]
    BY <2>1, OffNext
  <2>3. Off(sub, n + 1) = Off(sub, n) + Width[sub[n + 1]] /\ sub[n + 1] \in Char
    BY <2>1, OffNext
  <2>4. str[k + (n + 1)] = sub[n + 1] /\ Width[sub[n + 1]] \in Nat
    BY <1>1, <2>1, <2>3, BytesOfChar
  <2>5. Off(str, k) \in Nat /\ Off(sub, n) \in Nat
    BY <1>1, <1>2, <2>1
  <2>6. Off(str, k + n) = Off(str, k) + Off(sub, n)
    BY <1>4
  <2> QED BY <2>1, <2>2, <2>3, <2>4, <2>5, <2>6
<1> HIDE DEF T
<1>5. \A n \in 0 .. N : Off(str, k + n) = Off(str, k) + Off(sub, n)
  <2>1. \A n \in 0 .. N : n \in T
    BY <1>1, <1>3, <1>4, UpTo
  <2> QED BY <2>1 DEF T
<1>6. /\ Bytes(str) \in Seq(Byte) /\ Bytes(sub) \in Seq(Byte)
      /\ Len(Bytes(str)) = Off(str, Len(str)) /\ Len(Bytes(sub)) = Off(sub, N)
  BY AllBytes
<1>7. Off(str, k) \in Nat /\ Off(str, k) + Len(Bytes(sub)) <= Len(Bytes(str))
  <2>1. /\ k + N \in 0 .. Len(str) /\ k \in 0 .. Len(str) /\ Len(str) \in 0 .. Len(str) /\ N \in 0 .. N
        /\ Len(str) - (k + N) \in Nat
    BY <1>1
  <2>2. Off(str, k + N) + (Len(str) - (k + N)) <= Off(str, Len(str))
    BY <2>1, OffGrows
  <2>3. Off(str, k + N) = Off(str, k) + Off(sub, N)
    BY <1>5, <2>1
  <2>4. Off(str, k) \in Nat /\ Off(sub, N) \in Nat /\ Off(str, Len(str)) \in Nat
    BY <1>2, <2>1
  <2> QED BY <1>6, <2>1, <2>2, <2>3, <2>4
<1>8. ASSUME NEW i \in 1 .. Len(Bytes(sub)) PROVE Bytes(str)[Off(str, k) + i] = Bytes(sub)[i]
  <2>1. PICK n \in 0 .. N - 1 : \E b \in 1 .. Width[sub[n + 1]] : i = Off(sub, n) + b
    BY AllBytes
  <2>2. PICK b \in 1 .. Width[sub[n + 1]] : i = Off(sub, n) + b
    BY <2>1
  <2>3. Bytes(sub)[i] = <<sub[n + 1], b>>
    BY <2>1, <2>2, AllBytes
  <2>4. k + n \in 0 .. Len(str) - 1 /\ n + 1 \in 1 .. N /\ n \in 0 .. N /\ (k + n) + 1 = k + (n + 1)
    BY <1>1, <2>1
  <2>5. str[(k + n) + 1] = sub[n + 1]
    <3>1. str[k + (n + 1)] = sub[n + 1]
      BY <1>1, <2>4
    <3> QED BY <2>4, <3>1
  <2>6. Bytes(str)[Off(str, k + n) + b] = <<sub[n + 1], b>>
    <3>1. b \in 1 .. Width[str[(k + n) + 1]]
      BY <2>2, <2>5
    <3>2. Bytes(str)[Off(str, k + n) + b] = <<str[(k + n) + 1], b>>
      BY <2>4, <3>1, AllBytes
    <3> QED BY <2>5, <3>2
  <2>7. sub[n + 1] \in Char
    BY <2>4 DEF String
  <2>8. Width[sub[n + 1]] \in 1 .. 4
    BY <2>7, BytesOfChar
  <2>9. Off(str, k + n) + b = Off(str, k) + i
    <3>1. Off(str, k + n) = Off(str, k) + Off(sub, n)
      BY <1>5, <2>4
    <3>2. Off(str, k) \in Nat /\ Off(sub, n) \in Nat /\ b \in Nat
      BY <1>2, <1>7, <2>2, <2>4, <2>8
    <3> QED BY <2>2, <3>1, <3>2
  <2> QED BY <2>3, <2>6, <2>9
<1> QED BY <1>6, <1>7, <1>8, FoundBy DEF PlacesFor

(* And what is found by its bytes is found where a character begins.       *)
LEMMA FoundChars ==
  ASSUME NEW str \in String, NEW sub \in String, sub # <<>>, NEW p \in PlacesFor(Bytes(str), Bytes(sub))
  PROVE  \E k : Found(str, sub, k) /\ p = Off(str, k)
<1> DEFINE N == Len(sub)
<1>1. /\ N \in Nat \ {0} /\ Len(str) \in Nat
      /\ Bytes(str) \in Seq(Byte) /\ Bytes(sub) \in Seq(Byte)
      /\ Len(Bytes(str)) = Off(str, Len(str)) /\ Len(Bytes(sub)) = Off(sub, N)
      /\ \A n \in 0 .. Len(str) : Off(str, n) \in Nat
      /\ \A n \in 0 .. N : Off(sub, n) \in Nat /\ Off(sub, 0) = 0
  BY AllBytes, OffNext, EmptySeq DEF String
<1>2. /\ p \in Nat /\ p + Len(Bytes(sub)) <= Len(Bytes(str))
      /\ \A i \in 1 .. Len(Bytes(sub)) : Bytes(str)[p + i] = Bytes(sub)[i]
  <2>1. /\ p \in 0 .. Len(Bytes(str)) - Len(Bytes(sub))
        /\ SubSeq(Bytes(str), p + 1, p + Len(Bytes(sub))) = Bytes(sub)
    BY DEF PlacesFor
  <2>2. Bytes(str) \in Seq(Byte) /\ Bytes(sub) \in Seq(Byte)
    BY <1>1
  <2> QED BY <2>1, <2>2, FoundThere
<1>3. ASSUME NEW n \in 0 .. N - 1
      PROVE  /\ sub[n + 1] \in Char /\ Width[sub[n + 1]] \in 1 .. 4 /\ n \in 0 .. N /\ n + 1 \in 0 .. N
             /\ Off(sub, n + 1) = Off(sub, n) + Width[sub[n + 1]]
             /\ \E m \in 0 .. Len(str) - 1 : p + Off(sub, n) = Off(str, m) /\ str[m + 1] = sub[n + 1]
  <2>1. n \in 0 .. Len(sub) /\ n < Len(sub) /\ n + 1 \in 0 .. N
    BY <1>1
  <2>2. sub[n + 1] \in Char /\ Off(sub, n + 1) = Off(sub, n) + Width[sub[n + 1]] /\ Off(sub, n) \in Nat
    BY <2>1, OffNext
  <2>3. Width[sub[n + 1]] \in 1 .. 4 /\ 1 \in 1 .. Width[sub[n + 1]]
    BY <2>2, BytesOfChar
  <2>4. Off(sub, n) + 1 \in 1 .. Len(Bytes(sub))
    <3>1. N \in 0 .. Len(sub) /\ n + 1 \in 0 .. N /\ N - (n + 1) \in Nat
      BY <1>1, <2>1
    <3>2. Off(sub, n + 1) + (N - (n + 1)) <= Off(sub, N)
      BY <3>1, OffGrows
    <3>3. Off(sub, n + 1) \in Nat /\ Off(sub, N) \in Nat
      BY <1>1, <3>1
    <3>4. Off(sub, n) + 1 <= Off(sub, n + 1) /\ Off(sub, n + 1) <= Off(sub, N)
      BY <2>2, <2>3, <3>1, <3>2, <3>3
    <3>5. Len(Bytes(sub)) = Off(sub, N)
      BY <1>1
    <3> QED BY <2>2, <3>3, <3>4, <3>5
  <2>5. Bytes(sub)[Off(sub, n) + 1] = <<sub[n + 1], 1>>
    BY <2>3, AllBytes
  <2>6. p + Off(sub, n) \in Nat /\ (p + Off(sub, n)) + 1 = p + (Off(sub, n) + 1)
    BY <1>2, <2>2
  <2>7. Bytes(str)[(p + Off(sub, n)) + 1] = <<sub[n + 1], 1>> /\ p + Off(sub, n) < Len(Bytes(str))
    <3>1. Len(Bytes(str)) \in Nat /\ Len(Bytes(sub)) \in Nat
      BY <1>1
    <3>2. Bytes(str)[p + (Off(sub, n) + 1)] = <<sub[n + 1], 1>>
      BY <1>2, <2>4, <2>5
    <3>3. p + Len(Bytes(sub)) <= Len(Bytes(str)) /\ p \in Nat
      BY <1>2
    <3>4. p + Off(sub, n) < Len(Bytes(str))
      BY <2>2, <2>4, <3>1, <3>3
    <3> QED BY <2>6, <3>2, <3>4
  <2>8. \E m \in 0 .. Len(str) - 1 : p + Off(sub, n) = Off(str, m) /\ str[m + 1] = sub[n + 1]
    BY <2>6, <2>7, FirstByte
  <2> QED BY <2>1, <2>2, <2>3, <2>8
<1>4. PICK k \in 0 .. Len(str) - 1 : p = Off(str, k)
  <2>1. 0 \in 0 .. N - 1 /\ Off(sub, 0) = 0 /\ p + 0 = p
    BY <1>1, <1>2
  <2> QED BY <1>3, <2>1
<1> DEFINE T == {n \in 0 .. N : /\ k + n <= Len(str) /\ Off(str, k + n) = p + Off(sub, n)
                                /\ \A i \in 1 .. n : str[k + i] = sub[i]}
<1>5. 0 \in T
  <2>1. k + 0 = k /\ k <= Len(str) /\ p + Off(sub, 0) = p
    BY <1>1, <1>2, <1>4
  <2> QED BY <1>1, <1>4, <2>1
<1>6. ASSUME NEW n \in 0 .. N - 1, n \in T PROVE n + 1 \in T
  <2>1. /\ k + n <= Len(str) /\ Off(str, k + n) = p + Off(sub, n)
        /\ \A i \in 1 .. n : str[k + i] = sub[i]
    BY <1>6
  <2>2. PICK m \in 0 .. Len(str) - 1 : p + Off(sub, n) = Off(str, m) /\ str[m + 1] = sub[n + 1]
    BY <1>3
  <2>3. k + n \in 0 .. Len(str) /\ m \in 0 .. Len(str) /\ k \in Nat /\ m \in Nat /\ n \in Nat
    BY <1>1, <1>4, <2>1, <2>2
  <2>4. m = k + n
    <3>1. ASSUME NEW a \in 0 .. Len(str), NEW c \in 0 .. Len(str), Off(str, a) = Off(str, c)
          PROVE  a <= c
      <4> SUFFICES ASSUME ~(a <= c) PROVE FALSE
        OBVIOUS
      <4>1. c \in 0 .. a /\ a - c > 0 /\ a - c \in Nat
        BY <1>1, <3>1
      <4>2. Off(str, c) + (a - c) <= Off(str, a)
        BY <4>1, OffGrows
      <4>3. Off(str, a) \in Nat /\ Off(str, c) \in Nat
        BY <1>1
      <4> QED BY <3>1, <4>1, <4>2, <4>3
    <3> QED BY <2>1, <2>2, <2>3, <3>1
  <2>5. k + (n + 1) = m + 1 /\ k + (n + 1) <= Len(str)
    BY <1>1, <2>2, <2>3, <2>4
  <2>6. Off(str, k + (n + 1)) = p + Off(sub, n + 1)
    <3>1. m < Len(str)
      BY <1>1, <2>2
    <3>2. Off(str, m + 1) = Off(str, m) + Width[str[m + 1]]
      BY <2>3, <3>1, OffNext
    <3>3. Off(sub, n + 1) = Off(sub, n) + Width[sub[n + 1]] /\ Width[sub[n + 1]] \in 1 .. 4 /\ n \in 0 .. N
      BY <1>3
    <3>4. Off(sub, n) \in Nat /\ Off(str, k + (n + 1)) = Off(str, m + 1)
      BY <1>1, <2>5, <3>3
    <3>5. Off(str, m + 1) = (p + Off(sub, n)) + Width[sub[n + 1]]
      BY <2>2, <3>2
    <3>6. Off(str, m + 1) = p + (Off(sub, n) + Width[sub[n + 1]])
      <4>1. ASSUME NEW a \in Nat, NEW b \in Nat, NEW c \in 1 .. 4 PROVE (a + b) + c = a + (b + c)
        OBVIOUS
      <4>2. p \in Nat
        BY <1>2
      <4> QED BY <3>3, <3>4, <3>5, <4>1, <4>2
    <3> QED BY <3>3, <3>4, <3>6
  <2>7. ASSUME NEW i \in 1 .. n + 1 PROVE str[k + i] = sub[i]
    <3>1. i \in 1 .. n \/ i = n + 1
      BY <2>3
    <3> QED BY <2>1, <2>2, <2>5, <3>1
  <2>8. n + 1 \in 0 .. N
    BY <1>3
  <2> QED BY <2>5, <2>6, <2>7, <2>8
<1> HIDE DEF T
<1>7. N \in T
  <2>1. \A n \in 0 .. N : n \in T
    BY <1>1, <1>5, <1>6, UpTo
  <2> QED BY <1>1, <2>1
<1>8. k + N <= Len(str) /\ \A i \in 1 .. N : str[k + i] = sub[i]
  BY <1>7 DEF T
<1>9. Found(str, sub, k)
  <2>1. k \in Nat
    BY <1>4
  <2> QED BY <1>8, <2>1, FoundBy DEF Found, String
<1> QED BY <1>4, <1>9

(* Characters are counted by the bytes they begin with.                    *)
Starts(str, n) == {i \in 1 .. n : Bytes(str)[i][2] = 1}

LEMMA StartsCounted ==
  ASSUME NEW str \in String
  PROVE  \A k \in 0 .. Len(str) : Cardinality(Starts(str, Off(str, k))) = k
<1> DEFINE N == Len(str)
           S(k) == Starts(str, Off(str, k))
           T == {k \in 0 .. N : IsFiniteSet(S(k)) /\ Cardinality(S(k)) = k}
<1>1. N \in Nat /\ \A n \in 0 .. N : Off(str, n) \in Nat
  BY AllBytes
<1>2. 0 \in T
  <2>1. Off(str, 0) = 0
    BY <1>1, OffNext
  <2>2. S(0) = {}
    BY <2>1 DEF Starts
  <2> QED BY <1>1, <2>2, FS_EmptySet
<1>3. ASSUME NEW k \in 0 .. N - 1, k \in T PROVE k + 1 \in T
  <2>1. k \in 0 .. N /\ k + 1 \in 0 .. N /\ k < N
    BY <1>1
  <2>2. /\ str[k + 1] \in Char /\ Off(str, k + 1) = Off(str, k) + Width[str[k + 1]]
        /\ Width[str[k + 1]] \in 1 .. 4 /\ Off(str, k) \in Nat
    BY <1>1, <2>1, OffNext, BytesOfChar
  <2>3. ASSUME NEW b \in 1 .. Width[str[k + 1]]
        PROVE  Bytes(str)[Off(str, k) + b] = <<str[k + 1], b>>
    BY AllBytes
  <2>4. S(k + 1) = S(k) \cup {Off(str, k) + 1}
    <3>1. ASSUME NEW i \in 1 .. Off(str, k + 1), ~(i <= Off(str, k))
          PROVE  Bytes(str)[i][2] = 1 <=> i = Off(str, k) + 1
      <4> DEFINE b == i - Off(str, k)
      <4>1. b \in 1 .. Width[str[k + 1]] /\ Off(str, k) + b = i
        BY <2>2, <3>1
      <4>2. Bytes(str)[i] = <<str[k + 1], b>>
        BY <2>3, <4>1
      <4> QED BY <2>2, <4>1, <4>2
    <3>2. /\ 1 .. Off(str, k) \subseteq 1 .. Off(str, k + 1)
          /\ Off(str, k) + 1 \in 1 .. Off(str, k + 1) /\ ~(Off(str, k) + 1 <= Off(str, k))
          /\ \A i \in 1 .. Off(str, k + 1) : i <= Off(str, k) <=> i \in 1 .. Off(str, k)
      BY <2>2
    <3>3. S(k + 1) \subseteq S(k) \cup {Off(str, k) + 1}
      BY <3>1, <3>2 DEF Starts
    <3>4. S(k) \cup {Off(str, k) + 1} \subseteq S(k + 1)
      BY <3>1, <3>2 DEF Starts
    <3> QED BY <3>3, <3>4
  <2>5. Off(str, k) + 1 \notin S(k)
    BY <2>2 DEF Starts
  <2>6. IsFiniteSet(S(k)) /\ Cardinality(S(k)) = k
    BY <1>3
  <2> HIDE DEF S
  <2>7. IsFiniteSet(S(k + 1)) /\ Cardinality(S(k + 1)) = k + 1
    BY <2>4, <2>5, <2>6, FS_AddElement
  <2> QED BY <2>1, <2>7
<1> HIDE DEF T
<1>4. \A k \in 0 .. N : k \in T
  BY <1>1, <1>2, <1>3, UpTo
<1> QED BY <1>4 DEF T

(* The index is that of the first place by characters, or -1.              *)
LEMMA UnicodeIndexFacts ==
  ASSUME NEW str \in String, NEW sub \in String, sub # <<>>
  PROVE  \/ UnicodeIndex(str, sub) = -1 /\ \A k : ~Found(str, sub, k)
         \/ /\ Found(str, sub, UnicodeIndex(str, sub))
            /\ \A k : Found(str, sub, k) => UnicodeIndex(str, sub) <= k
<1> DEFINE places == PlacesFor(Bytes(str), Bytes(sub))
           index == Index(Bytes(str), Bytes(sub))
<1>1. index = IF places = {} THEN -1 ELSE CHOOSE i \in places : \A j \in places : i <= j
  BY DEF Index, PlacesFor
<1>2. UnicodeIndex(str, sub) = IF index >= 0 THEN Cardinality(Starts(str, index)) ELSE index
  BY DEF UnicodeIndex, Starts
<1>3. \A k : Found(str, sub, k) => Off(str, k) \in places
  BY FoundBytes
<1>4. \A p \in places : \E k : Found(str, sub, k) /\ p = Off(str, k)
  BY FoundChars
<1>5. places \in SUBSET Nat
  BY DEF PlacesFor
<1> HIDE DEF places, index
<1>6. CASE places = {}
  <2>1. index = -1
    BY <1>1, <1>6
  <2>2. UnicodeIndex(str, sub) = -1
    BY <1>2, <2>1
  <2> QED BY <1>3, <1>6, <2>2
<1>7. CASE places # {}
  <2>1. \E i \in places : \A j \in places : i <= j
    BY <1>5, <1>7, Least
  <2>2. index \in places /\ \A j \in places : index <= j
    BY <1>1, <1>7, <2>1
  <2>3. PICK k : Found(str, sub, k) /\ index = Off(str, k)
    BY <1>4, <2>2
  <2>4. \A n : Found(str, sub, n) => n \in 0 .. Len(str)
    BY DEF Found, String
  <2>5. index \in Nat
    BY <1>5, <2>2
  <2>6. UnicodeIndex(str, sub) = k
    <3>1. Cardinality(Starts(str, Off(str, k))) = k
      BY <2>3, <2>4, StartsCounted
    <3> QED BY <1>2, <2>3, <2>5, <3>1
  <2>7. ASSUME NEW n, Found(str, sub, n) PROVE k <= n
    <3>1. n \in 0 .. Len(str) /\ k \in 0 .. Len(str) /\ Len(str) \in Nat
      BY <2>3, <2>4, <2>7, AllBytes
    <3>2. Off(str, k) <= Off(str, n)
      BY <1>3, <2>2, <2>3, <2>7
    <3> SUFFICES ASSUME ~(k <= n) PROVE FALSE
      OBVIOUS
    <3>3. n \in 0 .. k /\ k - n \in Nat /\ k - n > 0
      BY <3>1
    <3>4. Off(str, n) + (k - n) <= Off(str, k)
      BY <3>1, <3>3, OffGrows
    <3>5. Off(str, n) \in Nat /\ Off(str, k) \in Nat
      BY <3>1, AllBytes
    <3> QED BY <3>2, <3>3, <3>4, <3>5
  <2> QED BY <2>3, <2>6, <2>7
<1> QED BY <1>6, <1>7

LEMMA SubStringFacts ==
  ASSUME NEW str \in String
  PROVE  /\ SubString(str, 0, -1) = Panic
         /\ \A k \in 0 .. Len(str) : SubString(str, 0, k) = SubSeq(str, 1, k)
<1> DEFINE from == IF 0 < 0 THEN 0 ELSE IF 0 >= Len(str) THEN Len(str) ELSE 0
           end(length) == IF from + length > Len(str) THEN Len(str) ELSE from + length
<1>1. Len(str) \in Nat
  BY DEF String
<1>2. \A length : SubString(str, 0, length) =
                    IF end(length) < from THEN Panic ELSE SubSeq(str, from + 1, end(length))
  BY DEF SubString
<1>3. from = 0
  BY <1>1
<1> HIDE DEF from
<1>4. end(-1) = -1 /\ \A k \in 0 .. Len(str) : end(k) = k
  BY <1>1, <1>3
<1> HIDE DEF end
<1>5. SubString(str, 0, -1) = Panic
  BY <1>2, <1>3, <1>4
<1>6. ASSUME NEW k \in 0 .. Len(str) PROVE SubString(str, 0, k) = SubSeq(str, 1, k)
  BY <1>2, <1>3, <1>4
<1> QED BY <1>5, <1>6

(* What the index cuts off is the user.                                    *)
LEMMA UserFound ==
  ASSUME NEW str \in String, NEW k \in 0 .. Len(str)
  PROVE  UserOf(str, SubSeq(str, 1, k)) <=>
           Found(str, Events, k) /\ \A n \in 0 .. k - 1 : ~Found(str, Events, n)
<1> DEFINE user == SubSeq(str, 1, k)
           N == Len(Events)
<1>1. Len(str) \in Nat /\ str \in Seq(Char) /\ N \in Nat /\ Events \in Seq(Char)
  BY NotificationAssumption DEF String
<1>2. user \in Seq(Char) /\ Len(user) = k /\ \A i \in 1 .. k : user[i] = str[i]
  BY <1>1, SubSeqProperties
<1>3. /\ user \o Events \in Seq(Char) /\ Len(user \o Events) = k + N
      /\ \A i \in 1 .. k + N : (user \o Events)[i] = IF i <= k THEN user[i] ELSE Events[i - k]
  <2> HIDE DEF user
  <2> QED BY <1>1, <1>2, ConcatProperties
<1> DEFINE whole == user \o Events
<1> HIDE DEF user
<1>4. IsPrefix(whole, str) <=> k + N <= Len(str) /\ \A i \in 1 .. k + N : whole[i] = str[i]
  <2> HIDE DEF whole
  <2>1. IsPrefix(whole, str) <=> k + N <= Len(str) /\ SubSeq(whole, 1, k + N) = SubSeq(str, 1, k + N)
    BY <1>3 DEF IsPrefix, whole
  <2>2. ASSUME k + N <= Len(str)
        PROVE  SubSeq(whole, 1, k + N) = SubSeq(str, 1, k + N) <=> \A i \in 1 .. k + N : whole[i] = str[i]
    <3>1. whole \in Seq(Char) /\ Len(whole) = k + N
      BY <1>3 DEF whole
    <3>2. /\ SubSeq(whole, 1, k + N) = whole
          /\ SubSeq(str, 1, k + N) \in Seq(Char) /\ Len(SubSeq(str, 1, k + N)) = k + N
          /\ \A i \in 1 .. k + N : SubSeq(str, 1, k + N)[i] = str[i]
      BY <1>1, <2>2, <3>1, SubSeqProperties
    <3> QED BY <3>1, <3>2, SeqEqual
  <2> QED BY <2>1, <2>2
<1>5. Found(str, Events, k) <=> k + N <= Len(str) /\ \A i \in 1 .. N : str[k + i] = Events[i]
  BY <1>1, FoundBy DEF Found
<1>6. ASSUME k + N <= Len(str)
      PROVE  (\A i \in 1 .. k + N : whole[i] = str[i]) <=> \A i \in 1 .. N : str[k + i] = Events[i]
  <2>1. ASSUME \A i \in 1 .. k + N : whole[i] = str[i], NEW i \in 1 .. N PROVE str[k + i] = Events[i]
    <3>1. k + i \in 1 .. k + N /\ ~(k + i <= k) /\ (k + i) - k = i
      BY <1>1
    <3> QED BY <1>3, <2>1, <3>1
  <2>2. ASSUME \A i \in 1 .. N : str[k + i] = Events[i], NEW i \in 1 .. k + N PROVE whole[i] = str[i]
    <3>1. CASE i <= k
      BY <1>1, <1>2, <1>3, <3>1
    <3>2. CASE ~(i <= k)
      <4>1. i - k \in 1 .. N /\ k + (i - k) = i
        BY <1>1, <3>2
      <4>2. str[k + (i - k)] = Events[i - k]
        BY <2>2, <4>1
      <4> QED BY <1>3, <3>2, <4>1, <4>2
    <3> QED BY <3>1, <3>2
  <2> QED BY <2>1, <2>2
<1>7. IsPrefix(whole, str) <=> Found(str, Events, k)
  BY <1>4, <1>5, <1>6
<1>8. ASSUME Found(str, Events, k), NEW n \in 0 .. k - 1
      PROVE  SubSeq(str, n + 1, n + N) # Events <=> ~Found(str, Events, n)
  BY <1>1, <1>8 DEF Found
<1>9. UserOf(str, user) <=>
        IsPrefix(whole, str) /\ \A n \in 0 .. k - 1 : SubSeq(str, n + 1, n + N) # Events
  BY <1>2 DEF UserOf
<1> QED BY <1>7, <1>8, <1>9 DEF user

-----------------------------------------------------------------------------
(* The theorems.                                                           *)

LEMMA CallOrder ==
  ASSUME OrderInv, SkipInv, NEW user, httpGet(user)
  PROVE  OrderInv'
<1>1. SkipInv' /\ at = "idle" /\ at' = "first" /\ SyncTypeOK /\ LinkInv /\ HeapInv
  BY CallStep DEF OrderInv, SkipInv, SyncInv, httpGet
<1>2. UNCHANGED <<apiUrl, array, heap, values, deltaLink>>
  BY DEF httpGet, track
<1>3. values' = <<>> /\ Fetched' = 0
  BY <1>1, <1>2 DEF OrderInv, LinkInv, Fetched
<1>4. HeapInv'
  BY <1>1, <1>2 DEF HeapInv
<1>5. PlacesIn(pages', 0) = <<>>
  BY NowhereYet
<1>6. AllAsSent(heap', pages', values', PlacesIn(pages', Fetched'), Fetched')
  BY <1>3, <1>5, EmptySeq DEF AllAsSent
<1> QED BY <1>1, <1>3, <1>4, <1>6 DEF OrderInv, SkipInv

NotifyInv == TypeOK /\ SkipInv /\ OrderInv

LEMMA InitNotifyInv == Init => NotifyInv
<1> SUFFICES ASSUME Init PROVE NotifyInv
  OBVIOUS
<1>1. /\ <<>> \in Seq(Change) /\ <<>> \in Seq(Event) /\ Len(<<>>) = 0
      /\ <<<<>>>> \in Seq(Seq(Change)) /\ Len(<<<<>>>>) = 1
  BY EmptySeq
<1>2. SyncTypeOK
  <2>1. /\ pages \in Seq(Seq(Change)) /\ Len(pages) = 1 /\ array \in Seq(Event)
        /\ Len(array) = 0 /\ values \in Seq(Event) /\ DOMAIN heap = {}
    BY <1>1 DEF Init, SyncInit
  <2>2. /\ at = "idle" /\ apiUrl = 1 /\ nextLink = 0 /\ delta = FALSE /\ shown = 0
        /\ deltaLink = FALSE /\ errRes = FALSE /\ bad = 0 /\ MaxBad \in Nat
    BY FailuresAssumption DEF Init, SyncInit
  <2>3. 0 \in 0 .. 0 /\ 0 \in 0 .. MaxBad /\ 1 \in 1 .. 1
    BY <2>2
  <2>4. QED BY <2>1, <2>2, <2>3 DEF SyncTypeOK
<1>3. LinkInv /\ Fetched = 0
  BY DEF Init, SyncInit, LinkInv, Fetched
<1>4. OrderInv
  <2>1. values = <<>> /\ array = <<>> /\ heap = <<>>
    BY DEF Init, SyncInit
  <2>2. HeapInv
    <3>1. DOMAIN heap = {} /\ 1 .. Len(array) = {}
      BY <2>1, EmptySeq
    <3> QED BY <3>1 DEF HeapInv
  <2>3. PlacesIn(pages, 0) = <<>>
    BY NowhereYet
  <2>4. AllAsSent(heap, pages, values, PlacesIn(pages, Fetched), Fetched)
    BY <1>3, <2>1, <2>3, EmptySeq DEF AllAsSent
  <2> QED BY <1>2, <1>3, <2>1, <2>2, <2>4 DEF OrderInv, SyncInv
<1>5. QED BY <1>2, <1>3, <1>4 DEF Init, SyncInit, NotifyInv, TypeOK, SkipInv, SyncInv

LEMMA NextNotifyInv ==
  ASSUME NotifyInv, [Next]_vars
  PROVE  NotifyInv'
<1>0. UNCHANGED syncVars => SkipInv' /\ OrderInv'
  <2> SUFFICES ASSUME UNCHANGED syncVars PROVE SkipInv' /\ OrderInv'
    OBVIOUS
  <2>1. UNCHANGED <<pages, at, apiUrl, nextLink, delta, array, shown, heap, values, deltaLink, errRes, bad>>
    BY DEF syncVars, track
  <2>2. Fetched' = Fetched /\ SyncInv'
    BY <2>1 DEF Fetched, NotifyInv, SkipInv, SyncInv, SyncTypeOK, LinkInv
  <2> QED BY <2>1, <2>2 DEF NotifyInv, SkipInv, OrderInv, HeapInv
<1>1. CASE WriteToken
  <2>1. UNCHANGED <<request, call, syncVars>> /\ written' = "token"
    BY <1>1 DEF WriteToken
  <2>2. SkipInv' /\ OrderInv'
    BY <1>0, <2>1
  <2>3. QED BY <2>1, <2>2 DEF NotifyInv, TypeOK, SkipInv, SyncInv, syncVars
<1>2. CASE Notify
  <2>1. request' = None /\ written' = written
    BY <1>2 DEF Notify
  <2>2. UNCHANGED syncVars \/ \E user : httpGet(user)
    BY <1>2 DEF Notify
  <2>3. SkipInv' /\ OrderInv'
    <3>1. CASE UNCHANGED syncVars
      BY <1>0, <3>1
    <3>2. CASE \E user : httpGet(user)
      BY <3>2, CallStep, CallOrder DEF NotifyInv
    <3>3. QED BY <2>2, <3>1, <3>2
  <2>4. QED BY <2>1, <2>3 DEF NotifyInv, TypeOK, SkipInv, SyncInv
<1>3. CASE SyncStep /\ UNCHANGED <<request, written, call>>
  <2>1. SkipInv' /\ OrderInv'
    BY <1>3, SkipInvStep, OrderInvStep DEF NotifyInv
  <2>2. request = None
    BY <1>3 DEF NotifyInv, TypeOK, SyncStep, FirstPage, NextPage
  <2>3. QED BY <1>3, <2>1, <2>2 DEF NotifyInv, TypeOK, SkipInv, SyncInv
<1>4. CASE UNCHANGED vars
  BY <1>0, <1>4 DEF NotifyInv, TypeOK, SkipInv, SyncInv, vars, syncVars
<1>5. QED BY <1>1, <1>2, <1>3, <1>4 DEF Next

LEMMA NotifyInvariant == Spec => []NotifyInv
BY InitNotifyInv, NextNotifyInv, PTL DEF Spec

(* Notify and the run it starts have their types; until the page is called *)
(* no run is under way (default.go:120-160).                               *)
THEOREM TypeCorrect == Spec => []TypeOK
<1>1. NotifyInv => TypeOK
  BY DEF NotifyInv
<1>2. QED BY <1>1, NotifyInvariant, PTL

(* No page after the first is passed over, whatever the calendar and       *)
(* however many answers are bad (default.go:222-246).                      *)
THEOREM NoPageSkipped == Spec => []NothingSkipped
<1>1. NotifyInv => NothingSkipped
  <2>1. SUFFICES ASSUME NotifyInv, NEW p \in 2 .. Fetched
                 PROVE  ToSet(Ids(pages[p])) \subseteq ToSet(Ids(values))
    BY DEF NothingSkipped
  <2>2. p \in 1 .. Len(pages)
    BY <2>1 DEF NotifyInv, SkipInv, SyncInv, SyncTypeOK, Fetched
  <2>3. pages[p] \in Seq(Change) /\ values \in Seq(Event) /\ HasIds(pages[p], values)
    BY <2>1, <2>2 DEF NotifyInv, SkipInv, SyncInv, SyncTypeOK
  <2>4. QED BY <2>3, IdsHad
<1>2. QED BY <1>1, NotifyInvariant, PTL

(* As long as every answer is a page, the values are the changes of the    *)
(* pages from the second on, each once and in order, with what they were   *)
(* sent with, whatever the struct held from the page before; of a list     *)
(* that is in an array the struct still has, the elements last until a     *)
(* later page brings one for the same place (default.go:222-246).          *)
THEOREM InOrderAlways == Spec => []CollectedInOrder
<1>1. NotifyInv => CollectedInOrder
  <2> DEFINE from == PlacesIn(pages, Fetched)
  <2> SUFFICES ASSUME NotifyInv, bad = 0
               PROVE  /\ Len(values) = Len(from)
                      /\ \A k \in DOMAIN from :
                           LET p == from[k][1]
                               i == from[k][2]
                               sent == pages[p][i]
                           IN /\ values[k].id = sent.id
                              /\ sent.subject # Absent => values[k].subject = sent.subject
                              /\ sent.attendees # Absent =>
                                   /\ values[k].attendees.len = Len(sent.attendees)
                                   /\ \/ Attendees(values[k]) = sent.attendees
                                      \/ \E q \in p + 1 .. Fetched : i \in Brings(pages[q])
    BY DEF CollectedInOrder, Places, PlacesIn, PlacesOf
  <2>1. AllAsSent(heap, pages, values, from, Fetched)
    BY DEF NotifyInv, OrderInv
  <2>2. DOMAIN from = 1 .. Len(from)
    <3>0. pages \in Seq(Seq(Change)) /\ Len(pages) \in Nat /\ apiUrl \in 1 .. Len(pages)
      BY DEF NotifyInv, OrderInv, SyncInv, SyncTypeOK
    <3>1. Fetched \in 2 .. Len(pages) \/ Fetched \in {0, 1}
      <4>1. Fetched = Len(pages) \/ Fetched = apiUrl - 1
        BY DEF Fetched
      <4> HIDE DEF from
      <4>2. Fetched \in Nat /\ Fetched <= Len(pages)
        BY <3>0, <4>1
      <4> QED BY <3>0, <4>2
    <3>2. CASE Fetched \in {0, 1}
      BY <3>2, NowhereYet, EmptySeq
    <3>3. CASE Fetched \in 2 .. Len(pages)
      <4>1. Fetched \in 1 .. Len(pages)
        BY <3>0, <3>3
      <4>2. from = PlacesIn(pages, Fetched - 1) \o PlacesOf(pages, Fetched)
            /\ PlacesIn(pages, Fetched - 1) \in Seq(Nat \X Nat) /\ PlacesOf(pages, Fetched) \in Seq(Nat \X Nat)
        BY <3>0, <3>3, <4>1, OnePageMore, PlacesOfPage
      <4> HIDE DEF from
      <4>3. from \in Seq(Nat \X Nat)
        BY <4>2, ConcatProperties
      <4> QED BY <4>3
    <3> QED BY <3>1, <3>2, <3>3
  <2>3. \A event : Attendees(event) = Shown(heap, event)
    BY DEF Attendees, Shown
  <2> HIDE DEF from
  <2> QED BY <2>1, <2>2, <2>3 DEF AllAsSent, AsSent
<1>2. QED BY <1>1, NotifyInvariant, PTL

(* A page takes the run one page on or ends it, nothing takes it back: it  *)
(* never goes in circles (default.go:222-246).                             *)
THEOREM AlwaysAdvances == Spec => EveryPageAdvances
<1> DEFINE Advance == at # "idle" => /\ apiUrl' >= apiUrl
                                     /\ bad' = bad => apiUrl' = apiUrl + 1 \/ at' = "returned"
<1>1. NotifyInv /\ [Next]_vars => [Advance]_syncVars
  <2> SUFFICES ASSUME NotifyInv, Next, at # "idle", ~UNCHANGED syncVars PROVE Advance
    BY DEF vars
  <2>1. SyncStep
    BY DEF Next, WriteToken, Notify, NotifyInv, TypeOK
  <2>2. Stops \/ Repeats \/ GoesOn \/ Ends
    BY <2>1, StepKinds DEF NotifyInv, SkipInv
  <2>3. apiUrl \in Nat
    BY DEF NotifyInv, SkipInv, SyncInv, SyncTypeOK
  <2>4. QED BY <2>2, <2>3 DEF Stops, Repeats, GoesOn, Ends
<1>2. QED BY <1>1, NotifyInvariant, PTL DEF Spec, EveryPageAdvances

(* The user a notification is about is all that comes before the first     *)
(* "/Events" of the resource of its first change, whatever the characters  *)
(* and their widths, and it is a panic only when there is none             *)
(* (Notify, UnicodeIndex and SubString, default.go:129-197).               *)
THEOREM UserCutOut == Spec => CutsOutTheUser
<1> DEFINE first == request.value[1]
           Cut == IF call' # Panic
                  THEN call'.subscription = first.subscriptionId /\ UserOf(first.resource, call'.user_id)
                  ELSE request.value # <<>> =>
                         ~\E n \in 0 .. Len(first.resource) : UserOf(first.resource, SubSeq(first.resource, 1, n))
<1>1. NotifyInv /\ [Next]_vars => [call' # call => Cut]_vars
  <2> SUFFICES ASSUME NotifyInv, Next, call' # call PROVE Cut
    OBVIOUS
  <2>1. Notify
    BY DEF Next, WriteToken
  <2>2. request \in Request /\ request # None
    BY <2>1 DEF NotifyInv, TypeOK, Notify
  <2>3. CASE request.value = <<>>
    BY <2>1, <2>3 DEF Notify
  <2>4. CASE request.value # <<>>
    <3> DEFINE str == first.resource
               index == UnicodeIndex(str, Events)
               user == SubString(str, 0, index)
    <3>1. first \in Value /\ str \in String /\ first.subscriptionId \in Subscription
      <4>1. request.value \in Seq(Value)
        BY <2>2, NotificationAssumption
      <4>2. first \in Value
        BY <2>4, <4>1, EmptySeq
      <4> QED BY <4>2 DEF Value
    <3>2. /\ user = Panic => call' = Panic
          /\ user # Panic => call' = [subscription |-> first.subscriptionId, user_id |-> user]
      BY <2>1, <2>4 DEF Notify
    <3>3. Events \in String /\ Events # <<>> /\ Len(str) \in Nat
      BY <3>1, NotificationAssumption DEF String
    <3> HIDE DEF str, user, index
    <3>4. \/ index = -1 /\ \A k : ~Found(str, Events, k)
          \/ Found(str, Events, index) /\ \A k : Found(str, Events, k) => index <= k
      BY <3>1, <3>3, UnicodeIndexFacts DEF index
    <3>5. CASE index = -1 /\ \A k : ~Found(str, Events, k)
      <4>1. call' = Panic
        BY <3>1, <3>2, <3>5, SubStringFacts DEF user
      <4>2. ~\E n \in 0 .. Len(str) : UserOf(str, SubSeq(str, 1, n))
        BY <3>1, <3>5, UserFound
      <4> QED BY <4>1, <4>2 DEF str
    <3>6. CASE Found(str, Events, index) /\ \A k : Found(str, Events, k) => index <= k
      <4>1. index \in 0 .. Len(str)
        BY <3>3, <3>6 DEF Found, String
      <4>2. user = SubSeq(str, 1, index) /\ user \in String
        <5>1. user = SubSeq(str, 1, index)
          BY <3>1, <4>1, SubStringFacts DEF user
        <5>2. SubSeq(str, 1, index) \in String
          BY <3>1, <4>1 DEF String
        <5> QED BY <5>1, <5>2
      <4>3. UserOf(str, user)
        BY <3>1, <3>6, <4>1, <4>2, UserFound
      <4>4. user # Panic
        BY <4>2, PanicAssumption
      <4>5. call' = [subscription |-> first.subscriptionId, user_id |-> user] /\ call' # Panic
        <5>1. [subscription |-> first.subscriptionId, user_id |-> user]
                \in [subscription : Subscription, user_id : String]
          BY <3>1, <4>2
        <5>2. call' = [subscription |-> first.subscriptionId, user_id |-> user]
          BY <3>2, <4>4
        <5> QED BY <5>1, <5>2, PanicAssumption
      <4> QED BY <4>3, <4>5 DEF str
    <3> QED BY <3>4, <3>5, <3>6
  <2> QED BY <2>3, <2>4
<1>2. QED BY <1>1, NotifyInvariant, PTL DEF Spec, CutsOutTheUser
=============================================================================
