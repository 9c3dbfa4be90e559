----------------------------- MODULE DeltaSync -----------------------------
(***************************************************************************)
(* One run of httpGet (officeapp/controllers/office/default.go:204): the   *)
(* changes of a calendar, fetched page by page.  Every page but the last   *)
(* carries a link to the next one, the last a "delta" link to start from   *)
(* the next time.                                                          *)
(*                                                                         *)
(* All pages are decoded into one struct, track.  The JSON decoder of the  *)
(* Go versions this code was written for leaves alone what a page does not *)
(* mention: the links, the list of values, and, in the elements of that    *)
(* list, whose array it uses again, every field that is missing.  An       *)
(* element is a struct with lists in it, and of these too the array is     *)
(* used again.  What is collected of a page are copies of the structs,     *)
(* which still lead to the arrays of their lists: the pages that follow    *)
(* are decoded into these.                                                 *)
(***************************************************************************)
EXTENDS Naturals, Sequences, SequencesExt

CONSTANTS Id,        \* the ids of events
          Subject,   \* stands for all their fields that are copied whole
          Attendee,  \* what their lists are made of, see below
          MaxList,   \* how long a list may be
          Room,      \* and for how many an array is made for so many: in Go
                     \* the first of 4, 6, 9, 13, ... that is enough
          Absent,    \* a removed event is sent with its id alone
          Calendars, \* of the users that have one: sets of sequences of pages
          Failures,  \* the kinds of bad answers: "body", "garbled", "none"
          MaxBad     \* and how many of them there may be

(* An event as it is sent; attendees stands for its two lists, the other   *)
(* is categories.                                                          *)
List   == {list \in Seq(Attendee) : Len(list) <= MaxList}
Change == [id : Id, subject : Subject \cup {Absent}, attendees : List \cup {Absent}]

(* The event as it is kept.  A slice is a part of an array, which has the  *)
(* name <<p, i>> when it was made for change i of page p; the one a list   *)
(* without elements leaves, and a new struct has, is a part of no array.   *)
Slice    == [of : Nat \X Nat, len : Nat, cap : Nat]
NilSlice == [of |-> <<0, 0>>, len |-> 0, cap |-> 0]
Event    == [id : Id, subject : Subject \cup {Absent}, attendees : Slice]

ASSUME AbsentAssumption    == Absent \notin Subject \cup List
ASSUME RoomAssumption      == MaxList \in Nat /\ Room \in [1 .. MaxList -> Nat \ {0}]
ASSUME CalendarsAssumption == \A user \in DOMAIN Calendars : Calendars[user] \subseteq Seq(Seq(Change)) \ {<<>>}
ASSUME FailuresAssumption  == Failures \subseteq {"body", "garbled", "none"} /\ MaxBad \in Nat

VARIABLES
  pages,     \* the pages of the service, constant while they are fetched
  at,        \* "idle", "first" page, "next" pages, "returned"
  apiUrl,    \* the number of the page the next request is for
  nextLink,  \* track.Aodata_nextLink: a page number, 0 for ""
  delta,     \* track.Aodata_deltaLink # ""
  array,     \* the array under track.Value
  shown,    \* and how much of it track.Value shows
  heap,      \* the arrays of the lists: a function from their names
  values,    \* the changes collected
  deltaLink, \* returned: TRUE when it is not ""
  errRes,    \* returned: TRUE when it is not nil
  bad        \* the number of bad answers so far

track == <<nextLink, delta, array, shown, heap>>
syncVars == <<pages, at, apiUrl, track, values, deltaLink, errRes, bad>>

SyncInit ==
  /\ pages = <<<<>>>>
  /\ at = "idle" /\ apiUrl = 1
  /\ nextLink = 0 /\ delta = FALSE /\ array = <<>> /\ shown = 0 /\ heap = <<>>
  /\ values = <<>> /\ deltaLink = FALSE /\ errRes = FALSE /\ bad = 0

(* The call.  For anyone else the service has an empty page.               *)
httpGet(user_id) ==
  /\ at = "idle" /\ at' = "first"
  /\ pages' \in IF user_id \in DOMAIN Calendars THEN Calendars[user_id] ELSE {<<<<>>>>}
  /\ UNCHANGED <<apiUrl, track, values, deltaLink, errRes, bad>>

-----------------------------------------------------------------------------
(* What json.Unmarshal finds in the place of change i.                     *)
Left(i) ==
  IF i \in DOMAIN array THEN array[i]
  ELSE [id |-> Absent, subject |-> Absent, attendees |-> NilSlice]

(* A list goes to the array of the one before.  If that is too small it is *)
(* filled all the same, then copied to a new one.                          *)
DecodedList(list, slice, new) ==
  IF list = Absent THEN slice
  ELSE IF list = <<>> THEN NilSlice
  ELSE IF Len(list) <= slice.cap THEN [slice EXCEPT !.len = Len(list)]
  ELSE [of |-> new, len |-> Len(list), cap |-> Room[Len(list)]]

Overlaid(items, list, cap) ==
  IF Len(list) <= cap THEN list \o SubSeq(items, Len(list) + 1, Len(items))
  ELSE SubSeq(list, 1, cap)

DecodedEvent(sent, left, new) ==
  [id        |-> sent.id,
   subject   |-> IF sent.subject = Absent THEN left.subject ELSE sent.subject,
   attendees |-> DecodedList(sent.attendees, left.attendees, new)]

(* The list of changes itself; one without changes makes a new array.      *)
Decoded(old, page) ==
  IF page = <<>> THEN <<>>
  ELSE [i \in 1 .. Len(page) |-> DecodedEvent(page[i], Left(i), <<apiUrl, i>>)]
       \o SubSeq(old, Len(page) + 1, Len(old))

(* The changes of a page that bring a list, and those that need an array.  *)
Brings(page) == {i \in DOMAIN page : page[i].attendees \notin {Absent, <<>>}}
Outgrow(page) == {i \in Brings(page) : Len(page[i].attendees) > Left(i).attendees.cap}

DecodedHeap(page) ==
  LET made == {apiUrl} \X Outgrow(page)
      used == {Left(i).attendees.of : i \in Brings(page)}
  IN [a \in DOMAIN heap \cup made |->
        IF a \in made THEN page[a[2]].attendees
        ELSE IF a \in used
        THEN Overlaid(heap[a], page[a[2]].attendees, Left(a[2]).attendees.cap)
        ELSE heap[a]]

(* The answer is page apiUrl; links it does not have stay what they were.  *)
DecodePage ==
  /\ array' = Decoded(array, pages[apiUrl]) /\ shown' = Len(pages[apiUrl])
  /\ heap' = DecodedHeap(pages[apiUrl])
  /\ IF apiUrl < Len(pages)
     THEN nextLink' = apiUrl + 1 /\ UNCHANGED delta
     ELSE delta' = TRUE /\ UNCHANGED nextLink
  /\ UNCHANGED bad

(* A bad answer.  "body": JSON that says nothing of links or values, as    *)
(* comes with any error but a 401; "garbled": not JSON; "none": no bytes,  *)
(* Get found no office for the identifier.                                 *)
Fails(kind) ==
  /\ kind \in Failures /\ bad < MaxBad
  /\ bad' = bad + 1
  /\ UNCHANGED track

Return(hasDelta, hasErr) ==
  /\ at' = "returned" /\ deltaLink' = hasDelta /\ errRes' = hasErr

-----------------------------------------------------------------------------
(* The first request: an error is returned; the page's values are not      *)
(* collected; without a next page it is also the last.                     *)
FirstPage ==
  /\ at = "first"
  /\ \/ /\ DecodePage \/ Fails("body")
        /\ IF nextLink' # 0
           THEN at' = "next" /\ apiUrl' = nextLink' /\ UNCHANGED <<deltaLink, errRes>>
           ELSE Return(FALSE, FALSE) /\ UNCHANGED apiUrl
     \/ (Fails("garbled") \/ Fails("none")) /\ Return(FALSE, TRUE) /\ UNCHANGED apiUrl
  /\ UNCHANGED <<pages, values>>

(* Mutants: all of the array is collected; the loop looks for the end      *)
(* where the page has no link, not where it has a delta link; a round      *)
(* whose answer cannot be decoded goes on to the page after.               *)
CollectedWhole(arr, len) == arr
EndedWithoutLink(link, hasDelta) == link = 0
FollowedBlindly(link, url) == url + 1

(* values = append(values, track.Value...): copies of the structs.         *)
Collected(arr, len) == SubSeq(arr, 1, len)

Ended(link, hasDelta) == hasDelta

Followed(link, url) == IF link # 0 THEN link ELSE url

(* One round of the loop.  An error of the decoder is printed, what the    *)
(* struct holds is collected all the same.  No bytes end the loop, with    *)
(* neither a link nor an error.                                            *)
NextPage ==
  /\ at = "next"
  /\ \/ /\ DecodePage \/ Fails("body") \/ Fails("garbled")
        /\ values' = values \o Collected(array', shown')
        /\ apiUrl' = Followed(nextLink', apiUrl)
        /\ IF Ended(nextLink', delta')
           THEN Return(TRUE, FALSE)
           ELSE UNCHANGED <<at, deltaLink, errRes>>
     \/ Fails("none") /\ Return(FALSE, FALSE) /\ UNCHANGED <<apiUrl, values>>
  /\ UNCHANGED pages

SyncStep == FirstPage \/ NextPage

-----------------------------------------------------------------------------
(* Properties                                                              *)

SyncTypeOK ==
  /\ pages \in Seq(Seq(Change))
  /\ at \in {"idle", "first", "next", "returned"}
  /\ apiUrl \in 1 .. Len(pages)
  /\ nextLink \in {0} \cup 2 .. Len(pages)
  /\ delta \in BOOLEAN /\ deltaLink \in BOOLEAN /\ errRes \in BOOLEAN
  /\ array \in Seq(Event) /\ shown \in 0 .. Len(array)
  /\ values \in Seq(Event)
  /\ DOMAIN heap \subseteq (Nat \ {0}) \X Nat
  /\ bad \in 0 .. MaxBad

Ids(changes) == [i \in 1 .. Len(changes) |-> changes[i].id]

(* The last page whose values must have been collected.                    *)
Fetched == IF deltaLink THEN Len(pages) ELSE apiUrl - 1

(* Where the changes of the pages up to that come from, in order: a page   *)
(* and a place in it.                                                      *)
Places(last) ==
  FlattenSeq([n \in 1 .. last - 1 |-> [i \in 1 .. Len(pages[n + 1]) |-> <<n + 1, i>>]])

(* The list a collected change leads to now.                               *)
Attendees(event) == [j \in 1 .. event.attendees.len |-> heap[event.attendees.of][j]]

(* As long as every answer is a page, the values are the changes of the    *)
(* pages from the second on, each once and in order, whatever the struct   *)
(* and its array were left with by the page before (default.go:235): ids   *)
(* and all fields that are copied whole are as they were sent, only a      *)
(* field that a change was sent without may be another one's.  Lists keep  *)
(* their length, and their elements until a later page brings a list for   *)
(* the change in the same place; they are never those of another place.    *)
CollectedInOrder ==
  bad = 0 =>
    LET from == Places(Fetched) IN
      /\ Len(values) = Len(from)
      /\ \A k \in DOMAIN from :
           LET p == from[k][1]
               i == from[k][2]
               sent == pages[p][i]
           IN /\ values[k].id = sent.id
              /\ sent.subject # Absent => values[k].subject = sent.subject
              /\ sent.attendees # Absent =>
                   /\ values[k].attendees.len = Len(sent.attendees)
                   /\ \/ Attendees(values[k]) = sent.attendees
                      \/ \E q \in p + 1 .. Fetched : i \in Brings(pages[q])

(* "get changes data", "save data" (default.go:199-203): what has been     *)
(* collected to be saved are the changes that were got.  It is not so:     *)
(* the lists of a change are those of a later page's.                      *)
CollectedAsSent ==
  bad = 0 =>
    LET from == Places(Fetched) IN
      \A k \in DOMAIN from :
        LET sent == pages[from[k][1]][from[k][2]]
        IN sent.attendees # Absent => Attendees(values[k]) = sent.attendees

(* Whatever the bad answers, no page after the first is passed over: what  *)
(* cannot be decoded is asked for again, from the link the struct still    *)
(* has, and the delta link is only returned when all of them were had.     *)
NothingSkipped ==
  \A p \in 2 .. Fetched : ToSet(Ids(pages[p])) \subseteq ToSet(Ids(values))

(* Each page that arrives takes the run one page further or ends it, and   *)
(* nothing takes it back: a stale link never makes it go in circles.       *)
EveryPageAdvances ==
  [][at # "idle" => /\ apiUrl' >= apiUrl
                    /\ bad' = bad => apiUrl' = apiUrl + 1 \/ at' = "returned"]_syncVars
=============================================================================
