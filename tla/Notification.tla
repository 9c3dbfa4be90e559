---------------------------- MODULE Notification ----------------------------
(***************************************************************************)
(* The page the calendar service calls with changes (Notify of             *)
(* officeapp/controllers/office/default.go): the user in the resource of   *)
(* the first change is what comes before "/Events", cut out by characters  *)
(* although it is looked for by bytes, and his calendar is fetched before  *)
(* the page is done.                                                       *)
(*                                                                         *)
(* A string is a sequence of characters of one to four bytes.              *)
(***************************************************************************)
EXTENDS DeltaSync, Integers, FiniteSets

CONSTANTS Char,
          Width,   \* of a character, in bytes
          Events,  \* the string "/Events"
          Subscription, \* the ids of subscriptions
          Request, \* the requests that come, see below
          None, Panic

String == Seq(Char)
Value  == [subscriptionId : Subscription, resource : String]

(* A request that asks for a validation has a token; the body of any may   *)
(* have no changes in it, or be no json, which is dropped: <<>>.           *)
ASSUME NotificationAssumption ==
  /\ Width \in [Char -> 1 .. 4] /\ Events \in String \ {<<>>}
  /\ \A r \in Request : r.validationToken \in BOOLEAN /\ r.value \in Seq(Value)

ASSUME PanicAssumption ==
  Panic \notin String \cup [subscription : Subscription, user_id : String]

VARIABLES request, \* the one being handled, None once it has been read
          written, \* "token" when the validation token has been written
          call     \* None, Panic, or the arguments of httpGet

vars == <<request, written, call, syncVars>>

Init == SyncInit /\ request \in Request /\ written = None /\ call = None

-----------------------------------------------------------------------------
Bytes(str) == FlattenSeq([i \in 1 .. Len(str) |-> [b \in 1 .. Width[str[i]] |-> <<str[i], b>>]])

(* strings.Index: how many bytes come before the first of sub, or -1.      *)
Index(bytes, sub) ==
  LET places == {i \in 0 .. Len(bytes) - Len(sub) : SubSeq(bytes, i + 1, i + Len(sub)) = sub}
  IN IF places = {} THEN -1 ELSE CHOOSE i \in places : \A j \in places : i <= j

(* Mutant: the index is that of the bytes.                                 *)
UnicodeIndexBytes(str, substr) == Index(Bytes(str), Bytes(substr))

(* The characters that begin in the bytes before it.                       *)
UnicodeIndex(str, substr) ==
  LET bytes  == Bytes(str)
      result == Index(bytes, Bytes(substr))
  IN IF result >= 0 THEN Cardinality({i \in 1 .. result : bytes[i][2] = 1}) ELSE result

(* A slice whose end is before its begin is a panic.                       *)
SubString(str, begin, length) ==
  LET from == IF begin < 0 THEN 0 ELSE IF begin >= Len(str) THEN Len(str) ELSE begin
      end  == IF from + length > Len(str) THEN Len(str) ELSE from + length
  IN IF end < from THEN Panic ELSE SubSeq(str, from + 1, end)

-----------------------------------------------------------------------------
WriteToken ==
  /\ request # None /\ written = None /\ request.validationToken
  /\ written' = "token"
  /\ UNCHANGED <<request, call, syncVars>>

(* Only the first change is looked at; a request without one, as those     *)
(* that ask for a validation are, is a panic.                              *)
Notify ==
  /\ request # None /\ (request.validationToken => written = "token")
  /\ IF request.value = <<>> THEN call' = Panic /\ UNCHANGED syncVars
     ELSE LET resource == request.value[1].resource
              user_id  == SubString(resource, 0, UnicodeIndex(resource, Events))
          IN IF user_id = Panic THEN call' = Panic /\ UNCHANGED syncVars
             ELSE /\ call' = [subscription |-> request.value[1].subscriptionId, user_id |-> user_id]
                  /\ httpGet(user_id)
  /\ request' = None
  /\ UNCHANGED written

Next ==
  \/ WriteToken \/ Notify
  \/ SyncStep /\ UNCHANGED <<request, written, call>>

Spec == Init /\ [][Next]_vars

-----------------------------------------------------------------------------
(* Properties                                                              *)

TypeOK ==
  /\ SyncTypeOK
  /\ written \in {None, "token"} /\ request \in Request \cup {None}
  /\ request # None => call = None /\ at = "idle"

(* What httpGet is called with is the subscription and the user of the     *)
(* first change, the user being all that comes before the first "/Events", *)
(* whatever the width of its characters; no change with a "/Events" in its *)
(* resource is a panic when it is the first (default.go:152-154).          *)
UserOf(resource, user_id) ==
  /\ IsPrefix(user_id \o Events, resource)
  /\ \A n \in 0 .. Len(user_id) - 1 : SubSeq(resource, n + 1, n + Len(Events)) # Events

CutsOutTheUser ==
  [][call' # call => LET first == request.value[1] IN
       IF call' # Panic
       THEN call'.subscription = first.subscriptionId /\ UserOf(first.resource, call'.user_id)
       ELSE request.value # <<>> =>
              ~\E n \in 0 .. Len(first.resource) : UserOf(first.resource, SubSeq(first.resource, 1, n))]_vars
=============================================================================
