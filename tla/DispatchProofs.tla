--------------------------- MODULE DispatchProofs ---------------------------
(***************************************************************************)
(* Proofs about Dispatch, for any plugins, users, accounts and messages,   *)
(* any number of requests and any faults.                                  *)
(***************************************************************************)
EXTENDS Dispatch, SequenceTheorems, TLAPS

(* What the model needs of a message.                                      *)
LEMMA MessageTypes ==
  \A m \in Messages \cup {NoMessage} :
    /\ m.users \subseteq Account /\ m.emails \subseteq Email
    /\ m.callback # None => m \in Messages /\ m \in Message
<1>1. NoMessage.users = {} /\ NoMessage.emails = {} /\ NoMessage.callback = None
  BY DEF NoMessage
<1>2. \A m \in Messages : m \in Message
  BY DispatchAssumption
<1>3. \A m \in Message : m.users \subseteq Account /\ m.emails \subseteq Email
  BY DEF Message
<1> QED BY <1>1, <1>2, <1>3

(* An event of a user is one of his own, or a button of a message that has *)
(* been delivered.                                                         *)
LEMMA EventTypes ==
  ASSUME NEW one \in Event
  PROVE  /\ one.type = "follow" => one.from \in EpId
         /\ one.type = "postback" => one.of \in inbox
BY DEF Event

(* What one call of the webhook changes: an account is stored or a message *)
(* posted, for an event of the call.                                       *)
LEMMA NotifySteps ==
  ASSUME NEW one \in Event, NEW two \in Event, NEW events \in {<<one>>, <<one, two>>}, Notify(events)
  PROVE  /\ UNCHANGED <<token, subscribed, bound, request, inbox, issued, everBound>>
         /\ \/ posted' = posted /\ \E from \in EpId : followed' = followed \cup {from}
            \/ /\ followed' = followed
               /\ \/ posted' = posted
                  \/ \E m \in inbox : \E parts \in ParseToPluginMessage(CallbackId(m)) :
                       \E p \in PluginsById(parts[1]) :
                         posted' = posted \cup {[plugin |-> p, callback |-> parts[2], of |-> m]}
<1> DEFINE follows   == {i \in 1 .. Len(events) : events[i].type = "follow"}
           postbacks == {i \in 1 .. Len(events) : events[i].type = "postback"}
           first     == CHOOSE i \in follows : \A j \in follows : i <= j
           last      == CHOOSE i \in postbacks : \A j \in postbacks : j <= i
<1>1. Len(events) \in {1, 2} /\ \A i \in 1 .. Len(events) : i \in {1, 2} /\ events[i] \in {one, two}
  <2> HIDE DEF follows, postbacks, first, last
  <2>1. CASE events = <<one>>
    BY <2>1
  <2>2. CASE events = <<one, two>>
    BY <2>2
  <2> QED BY <2>1, <2>2
<1>2. UNCHANGED <<token, subscribed, bound, request, inbox, issued, everBound>>
  BY DEF Notify
<1>3. CASE follows # {}
  <2>1. \E i \in follows : \A j \in follows : i <= j
    BY <1>1, <1>3
  <2>2. first \in follows
    BY <2>1
  <2>3. events[first].from \in EpId
    BY <1>1, <2>2, EventTypes
  <2>4. followed' = followed \cup {events[first].from} /\ posted' = posted
    BY <1>3 DEF Notify
  <2> QED BY <1>2, <2>3, <2>4
<1>4. CASE follows = {}
  <2>1. /\ postbacks # {} /\ followed' = followed
        /\ \E parts \in ParseToPluginMessage(CallbackId(events[last].of)) :
             \E p \in PluginsById(parts[1]) : posted' \in Posted(p, parts[2], events[last].of)
    BY <1>4 DEF Notify
  <2>2. \E i \in postbacks : \A j \in postbacks : j <= i
    BY <1>1, <2>1
  <2>3. last \in postbacks
    BY <2>2
  <2> DEFINE m == events[last].of
  <2>4. m \in inbox
    BY <1>1, <2>3, EventTypes
  <2> HIDE DEF m, last
  <2>5. PICK parts \in ParseToPluginMessage(CallbackId(m)) :
          \E p \in PluginsById(parts[1]) : posted' \in Posted(p, parts[2], m)
    BY <2>1 DEF m
  <2>6. PICK p \in PluginsById(parts[1]) : posted' \in Posted(p, parts[2], m)
    BY <2>5
  <2>7. posted' = posted \/ posted' = posted \cup {[plugin |-> p, callback |-> parts[2], of |-> m]}
    BY <2>6 DEF Posted
  <2> QED BY <1>2, <2>1, <2>4, <2>7
<1> QED BY <1>3, <1>4

-----------------------------------------------------------------------------
(* Types                                                                   *)

(* The states in which a request has found its plugin, which it then knows.*)
Accepted   == {"subscribers", "bindings", "emails", "state", "send"}
OwnerKnown == \A r \in Request : pc[r] \in Accepted => owner[r] \in Plugin

(* The tokens a plugin has and starts with are its own: that no two        *)
(* plugins ever have the same is why a new one is unlike any issued one.   *)
TokenIssued ==
  \A p \in Plugin : <<p, token[p]>> \in issued /\ <<p, InitialToken[p]>> \in issued

TypeInv == TypeOK /\ OwnerKnown /\ TokenIssued

(* A step of a request keeps the types of the tables and of what has been  *)
(* sent: what it changes is checked here.                                  *)
LEMMA RequestTypes ==
  ASSUME TypeInv, UNCHANGED <<tables, posted, issued, everBound>>, NEW r \in Request,
         pc' \in [Request -> RequestState], \A q \in Request : q # r => pc'[q] = pc[q],
         msg' \in [Request -> Messages \cup {NoMessage}],
         owner' \in [Request -> Plugin \cup {None}], \A q \in Request : q # r => owner'[q] = owner[q],
         pc'[r] \in Accepted => owner'[r] \in Plugin,
         left' \in [Request -> SUBSET Email],
         targets' \in [Request -> SUBSET ((Email \cup {None}) \X Account)],
         inbox \subseteq inbox', \A m \in inbox' \ inbox : m.owner \in Plugin /\ m.to \in Account
  PROVE  TypeInv'
BY DEF TypeInv, TypeOK, OwnerKnown, TokenIssued, tables

LEMMA TypeStep ==
  ASSUME TypeInv, [Next]_vars
  PROVE  TypeInv'
<1> USE DEF Goto
<1>0. /\ pc \in [Request -> RequestState] /\ msg \in [Request -> Messages \cup {NoMessage}]
      /\ owner \in [Request -> Plugin \cup {None}] /\ left \in [Request -> SUBSET Email]
      /\ targets \in [Request -> SUBSET ((Email \cup {None}) \X Account)]
      /\ \A r \in Request : pc[r] \in Accepted => owner[r] \in Plugin
  BY DEF TypeInv, TypeOK, OwnerKnown
<1>1. ASSUME NEW r \in Request, PluginToEpMessage(r) PROVE TypeInv'
  <2>1. PICK m \in Messages : /\ msg' = [msg EXCEPT ![r] = m]
                              /\ Goto(r, IF m.json /\ HasBearer(m) THEN "token" ELSE "panic")
    BY <1>1 DEF PluginToEpMessage
  <2> QED
    BY <1>0, <1>1, <2>1, RequestTypes DEF PluginToEpMessage, RequestState, Accepted, tables, history
<1>2. ASSUME NEW r \in Request, CheckToken(r) PROVE TypeInv'
  <2>1. UNCHANGED <<tables, msg, history>>
    BY <1>2 DEF CheckToken
  <2>2. /\ msg[r].emails \subseteq Email
        /\ {None} \X (IF msg[r].toAll THEN {} ELSE msg[r].users) \subseteq (Email \cup {None}) \X Account
    BY <1>0, MessageTypes
  <2>3. CASE \E p \in Plugin :
               /\ owner' = [owner EXCEPT ![r] = p]
               /\ Goto(r, IF msg[r].toAll THEN "subscribers" ELSE "emails")
               /\ left' = [left EXCEPT ![r] = msg[r].emails]
               /\ targets' = [targets EXCEPT ![r] = {None} \X IF msg[r].toAll THEN {} ELSE msg[r].users]
    BY <1>0, <2>1, <2>2, <2>3, RequestTypes DEF RequestState, Accepted, history
  <2>4. CASE Goto(r, "refused") /\ UNCHANGED <<owner, left, targets>>
    BY <1>0, <2>1, <2>4, RequestTypes DEF RequestState, Accepted, history
  <2> QED BY <1>2, <2>3, <2>4 DEF CheckToken
<1>3. ASSUME NEW r \in Request, FindSubscribers(r) PROVE TypeInv'
  <2>1. /\ UNCHANGED <<tables, msg, owner, targets, history>> /\ owner[r] \in Plugin
        /\ pc' = [pc EXCEPT ![r] = "bindings"] \/ pc' = [pc EXCEPT ![r] = "panic"]
    BY <1>0, <1>3 DEF FindSubscribers, Accepted
  <2>2. left' \in [Request -> SUBSET Email]
    BY <1>0, <1>3 DEF FindSubscribers
  <2> QED BY <1>0, <2>1, <2>2, RequestTypes DEF RequestState, history
<1>4. ASSUME NEW r \in Request, FindBindings(r) PROVE TypeInv'
  <2>1. PICK rows \in Result({b \in Bindings(bound) : b[1] \in left[r]}) :
          targets' = [targets EXCEPT ![r] = rows]
    BY <1>4 DEF FindBindings
  <2>2. rows \subseteq (Email \cup {None}) \X Account
    BY DEF Bindings, Result
  <2> QED BY <1>0, <1>4, <2>1, <2>2, RequestTypes DEF FindBindings, RequestState, Accepted, history
<1>5. ASSUME NEW r \in Request, FindByEmail(r) PROVE TypeInv'
  <2>1. CASE left[r] = {} /\ Goto(r, "state") /\ UNCHANGED <<left, targets>>
    BY <1>0, <1>5, <2>1, RequestTypes DEF FindByEmail, RequestState, Accepted, history
  <2>2. ASSUME NEW e \in left[r],
               NEW rows \in Result({b \in Bindings(bound) : b[1] = e /\ b[2].type \in msg[r].platforms}),
               targets' = [targets EXCEPT ![r] = @ \cup rows],
               left' = [left EXCEPT ![r] = @ \ {e}], pc' = pc
        PROVE  TypeInv'
    <3>1. rows \subseteq (Email \cup {None}) \X Account
      BY DEF Bindings, Result
    <3> QED BY <1>0, <1>5, <2>2, <3>1, RequestTypes DEF FindByEmail, history
  <2> QED BY <1>5, <2>1, <2>2 DEF FindByEmail
<1>6. ASSUME NEW r \in Request, InsertState(r) PROVE TypeInv'
  BY <1>0, <1>6, RequestTypes DEF InsertState, RequestState, Accepted, history
<1>7. ASSUME NEW r \in Request, Send(r) PROVE TypeInv'
  <2>1. UNCHANGED <<tables, msg, owner, left, posted, issued, everBound>> /\ pc[r] = "send" /\ owner[r] \in Plugin
    BY <1>0, <1>7 DEF Send, Accepted
  <2>2. CASE Goto(r, "done") /\ UNCHANGED <<targets, inbox>>
    BY <1>0, <2>1, <2>2, RequestTypes DEF RequestState, Accepted
  <2>3. ASSUME NEW t \in targets[r], targets' = [targets EXCEPT ![r] = @ \ {t}],
               Goto(r, "send") \/ Goto(r, "panic"),
               inbox' \in {inbox, inbox \cup {[msg |-> msg[r], owner |-> owner[r], to |-> t[2]]}}
        PROVE  TypeInv'
    <3>1. t[2] \in Account
      BY <1>0
    <3>2. \A m \in inbox' \ inbox : m.owner \in Plugin /\ m.to \in Account
      BY <2>1, <2>3, <3>1
    <3> QED BY <1>0, <2>1, <2>3, <3>2, RequestTypes DEF RequestState
  <2> QED BY <1>7, <2>2, <2>3 DEF Send
<1>8. ASSUME NEW one \in Event, NEW two \in Event, NEW events \in {<<one>>, <<one, two>>}, Notify(events)
      PROVE  TypeInv'
  <2>1. UNCHANGED <<token, subscribed, bound, request, inbox, issued, everBound>>
    BY <1>8, NotifySteps
  <2>2. followed' \subseteq EpId
    BY <1>8, NotifySteps DEF TypeInv, TypeOK
  <2>3. \A x \in posted' : x.plugin \in Plugin /\ x.of \in inbox
    <3>1. \A id : PluginsById(id) \subseteq Plugin
      BY DEF PluginsById
    <3>2. \A x \in posted : x.plugin \in Plugin /\ x.of \in inbox
      BY DEF TypeInv, TypeOK
    <3>3. CASE posted' = posted
      BY <3>2, <3>3
    <3>4. ASSUME NEW m \in inbox, NEW parts, NEW p \in PluginsById(parts[1]),
                 posted' = posted \cup {[plugin |-> p, callback |-> parts[2], of |-> m]}
          PROVE  \A x \in posted' : x.plugin \in Plugin /\ x.of \in inbox
      BY <3>1, <3>2, <3>4
    <3> QED BY <1>8, <3>3, <3>4, NotifySteps
  <2> QED BY <2>1, <2>2, <2>3 DEF TypeInv, TypeOK, OwnerKnown, TokenIssued, request
<1>9. ASSUME NEW p \in Plugin, RequestPluginToken(p) PROVE TypeInv'
  <2>1. PICK t \in Token \ {i[2] : i \in issued} :
          token' = [token EXCEPT ![p] = t] /\ issued' = issued \cup {<<p, t>>}
    BY <1>9 DEF RequestPluginToken
  <2>2. \A q \in Plugin : token[q] # t
    <3>1. \A i \in issued : i[2] # t
      BY <2>1
    <3>2. \A q \in Plugin : <<q, token[q]>> \in issued /\ <<q, token[q]>>[2] = token[q]
      BY DEF TypeInv, TokenIssued
    <3> QED BY <3>1, <3>2
  <2>3. token' \in [Plugin -> Token] /\ \A q, s \in Plugin : token'[q] = token'[s] => q = s
    BY <2>1, <2>2 DEF TypeInv, TypeOK
  <2>4. TokenIssued'
    BY <2>1 DEF TypeInv, TypeOK, TokenIssued
  <2> QED BY <1>9, <2>3, <2>4 DEF RequestPluginToken, TypeInv, TypeOK, OwnerKnown, request
<1>10. ASSUME NEW e \in Email, NEW a \in CheckLoginResponses, Login(e, a) PROVE TypeInv'
  <2>1. a.type \in Type /\ a.id \in EpId
    BY DEF CheckLoginResponses, Account
  <2>2. bound' \in [Email \X Type -> EpId \cup {None}]
    BY <1>10, <2>1 DEF Login, InsertOrUpdate, TypeInv, TypeOK
  <2> QED BY <1>10, <2>2 DEF Login, TypeInv, TypeOK, OwnerKnown, TokenIssued, request
<1>11. ASSUME NEW e \in Email, NEW p \in Plugin, UserAddPlugin(e, p) PROVE TypeInv'
  BY <1>11 DEF UserAddPlugin, TypeInv, TypeOK, OwnerKnown, TokenIssued, request
<1>12. CASE Restart
  <2>1. pc' \in [Request -> RequestState] /\ \A r \in Request : pc'[r] \notin Accepted
    BY <1>0, <1>12 DEF Restart, RequestState, Accepted
  <2>2. bound' \in [Email \X Type -> EpId \cup {None}]
    BY <1>12, DispatchAssumption DEF Restart, TypeInv, TypeOK
  <2>3. token' \in [Plugin -> Token] /\ (\A q, s \in Plugin : token'[q] = token'[s] => q = s)
        /\ subscribed' \subseteq Email \X Plugin /\ TokenIssued'
    BY <1>12, DispatchAssumption DEF Restart, TypeInv, TypeOK, TokenIssued, history
  <2> QED BY <1>12, <2>1, <2>2, <2>3 DEF Restart, TypeInv, TypeOK, OwnerKnown, history
<1>13. CASE UNCHANGED vars
  BY <1>13 DEF vars, tables, request, history, TypeInv, TypeOK, OwnerKnown, TokenIssued
<1> QED
  BY <1>1, <1>2, <1>3, <1>4, <1>5, <1>6, <1>7, <1>8, <1>9, <1>10, <1>11, <1>12, <1>13
  DEF Next, Work, UserRemovePlugin

LEMMA TypeInit == Init => TypeInv
<1> SUFFICES ASSUME Init PROVE TypeInv
  OBVIOUS
<1>1. \A p \in Plugin : <<p, InitialToken[p]>> \in issued /\ token = InitialToken
  BY DEF Init
<1>2. TypeOK
  BY DispatchAssumption DEF Init, TypeOK, RequestState
<1> QED BY <1>1, <1>2 DEF Init, TypeInv, OwnerKnown, Accepted, TokenIssued

LEMMA TypeInvariant == Spec => []TypeInv
<1>1. TypeInv /\ [Next]_vars => TypeInv'
  BY TypeStep
<1> QED BY <1>1, TypeInit, PTL DEF Spec

(* The state is well typed, and no two plugins have the same token: not    *)
(* after a plugin has asked for a new one, nor after a restart that gives  *)
(* every plugin its first one again.                                       *)
THEOREM TypeCorrect == Spec => []TypeOK
<1>1. TypeInv => TypeOK
  BY DEF TypeInv
<1> QED BY <1>1, TypeInvariant, PTL

-----------------------------------------------------------------------------
(* Whom a message may go to                                                *)

(* Whom DeliveredAsAddressed lets a message of a plugin go to, for what    *)
(* has been bound and subscribed.                                          *)
Audience(m, plugin, ever, subs) ==
  {a \in Account :
     IF m.toAll
     THEN \E e \in Email : <<e, a>> \in ever /\ <<e, plugin>> \in subs
     ELSE \/ a \in m.users
          \/ a.type \in m.platforms /\ \E e \in m.emails : <<e, a>> \in ever}

(* It does not shrink.                                                     *)
LEMMA AudienceGrows ==
  ASSUME NEW m, NEW plugin, NEW ever, NEW subs, NEW ever2, NEW subs2, ever \subseteq ever2, subs \subseteq subs2
  PROVE  Audience(m, plugin, ever, subs) \subseteq Audience(m, plugin, ever2, subs2)
BY DEF Audience

(* What a request has read is what it needs, from statement to statement:  *)
(* the tables change between them, but no subscription and no binding is   *)
(* undone that has been looked at.                                         *)
RightlyRead(r) ==
  /\ pc[r] \in Accepted => <<owner[r], msg[r].bearer>> \in issued
  /\ pc[r] \in {"subscribers", "bindings"} => msg[r].toAll
  /\ pc[r] = "bindings" => \A e \in left[r] : <<e, owner[r]>> \in subscribed
  /\ pc[r] = "emails" => ~msg[r].toAll /\ left[r] \subseteq msg[r].emails
  /\ pc[r] \in {"emails", "state", "send"} =>
       \A t \in targets[r] : t[2] \in Audience(msg[r], owner[r], everBound, subscribed)

Delivered ==
  \A m \in inbox : /\ <<m.owner, m.msg.bearer>> \in issued
                   /\ m.to \in Audience(m.msg, m.owner, everBound, subscribed)

AddressInv ==
  /\ Bindings(bound) \cup Bindings(InitialBound) \subseteq everBound
  /\ \A r \in Request : RightlyRead(r)
  /\ Delivered

(* Subscriptions, the history of the bindings and that of the tokens grow. *)
Grow == subscribed \subseteq subscribed' /\ everBound \subseteq everBound' /\ issued \subseteq issued'

LEMMA TablesGrow ==
  ASSUME TypeInv, [Next]_vars
  PROVE  Grow
<1>1. ASSUME NEW r \in Request, PluginToEpMessage(r) \/ Work(r) PROVE Grow
  BY <1>1 DEF Grow, PluginToEpMessage, Work, CheckToken, FindSubscribers, FindBindings, FindByEmail,
              InsertState, Send, tables, history
<1>2. ASSUME NEW one \in Event, NEW two \in Event, NEW events \in {<<one>>, <<one, two>>}, Notify(events)
      PROVE  Grow
  BY <1>2 DEF Grow, Notify
<1>3. ASSUME NEW p \in Plugin, RequestPluginToken(p) PROVE Grow
  BY <1>3 DEF Grow, RequestPluginToken
<1>4. ASSUME NEW e \in Email, NEW a \in CheckLoginResponses, Login(e, a) PROVE Grow
  BY <1>4 DEF Grow, Login
<1>5. ASSUME NEW e \in Email, NEW p \in Plugin, UserAddPlugin(e, p) PROVE Grow
  BY <1>5 DEF Grow, UserAddPlugin
<1>6. CASE Restart \/ UNCHANGED vars
  BY <1>6 DEF Grow, Restart, vars, tables, history
<1> QED BY <1>1, <1>2, <1>3, <1>4, <1>5, <1>6 DEF Next, UserRemovePlugin

(* What a request has read it has read for good.                           *)
LEMMA ReadStays ==
  ASSUME Grow, NEW r \in Request, RightlyRead(r),
         pc'[r] \notin Accepted \/ pc'[r] = pc[r],
         UNCHANGED <<msg, owner, left, targets>>
  PROVE  RightlyRead(r)'
<1>1. CASE pc'[r] \notin Accepted
  BY <1>1 DEF RightlyRead, Accepted
<1>2. CASE pc'[r] = pc[r]
  <2>1. Audience(msg[r], owner[r], everBound, subscribed) \subseteq Audience(msg[r], owner[r], everBound', subscribed')
    BY AudienceGrows DEF Grow
  <2> QED BY <1>2, <2>1 DEF RightlyRead, Grow
<1> QED BY <1>1, <1>2

(* A step of a request leaves what the others have read.                   *)
LEMMA OneRequest ==
  ASSUME TypeInv, AddressInv, UNCHANGED <<tables, issued, everBound>>, NEW r \in Request,
         \A q \in Request : q # r => /\ pc'[q] = pc[q] /\ msg'[q] = msg[q] /\ owner'[q] = owner[q]
                                     /\ left'[q] = left[q] /\ targets'[q] = targets[q],
         RightlyRead(r)', Delivered'
  PROVE  AddressInv'
<1>1. UNCHANGED <<bound, subscribed, everBound, issued>>
  BY DEF tables
<1>2. \A q \in Request : q # r => RightlyRead(q)'
  BY <1>1 DEF AddressInv, RightlyRead
<1> QED BY <1>1, <1>2 DEF AddressInv

LEMMA DeliveredStays ==
  ASSUME Delivered, Grow, inbox' = inbox
  PROVE  Delivered'
<1> SUFFICES ASSUME NEW m \in inbox
             PROVE  /\ <<m.owner, m.msg.bearer>> \in issued'
                    /\ m.to \in Audience(m.msg, m.owner, everBound', subscribed')
  BY DEF Delivered
<1>1. Audience(m.msg, m.owner, everBound, subscribed) \subseteq Audience(m.msg, m.owner, everBound', subscribed')
  BY AudienceGrows DEF Grow
<1> QED BY <1>1 DEF Delivered, Grow

(* A row of the bindings is one an e-mail has been bound by.               *)
LEMMA BoundOnce ==
  ASSUME AddressInv, NEW b \in Bindings(bound)
  PROVE  b[1] \in Email /\ b[2] \in Account /\ <<b[1], b[2]>> \in everBound
BY DEF AddressInv, Bindings

LEMMA AddressStep ==
  ASSUME TypeInv, AddressInv, [Next]_vars
  PROVE  AddressInv'
<1> USE DEF Goto
<1>0. /\ Grow /\ (inbox' = inbox => Delivered')
      /\ pc \in [Request -> RequestState] /\ msg \in [Request -> Messages \cup {NoMessage}]
      /\ owner \in [Request -> Plugin \cup {None}] /\ left \in [Request -> SUBSET Email]
      /\ targets \in [Request -> SUBSET ((Email \cup {None}) \X Account)]
      /\ \A r \in Request : RightlyRead(r)
  BY TablesGrow, DeliveredStays DEF TypeInv, TypeOK, AddressInv
<1>1. ASSUME NEW r \in Request, PluginToEpMessage(r) PROVE AddressInv'
  <2>1. pc'[r] \in {"token", "panic"} /\ UNCHANGED <<tables, owner, left, targets, history>>
    BY <1>0, <1>1 DEF PluginToEpMessage
  <2>2. RightlyRead(r)'
    BY <2>1 DEF RightlyRead, Accepted
  <2> QED BY <1>0, <1>1, <2>1, <2>2, OneRequest DEF PluginToEpMessage, history
<1>2. ASSUME NEW r \in Request, CheckToken(r) PROVE AddressInv'
  <2>1. UNCHANGED <<tables, msg, history>>
    BY <1>2 DEF CheckToken
  <2>2. ASSUME NEW p \in Plugin, msg[r].bearer = token[p],
               owner' = [owner EXCEPT ![r] = p],
               Goto(r, IF msg[r].toAll THEN "subscribers" ELSE "emails"),
               left' = [left EXCEPT ![r] = msg[r].emails],
               targets' = [targets EXCEPT ![r] = {None} \X IF msg[r].toAll THEN {} ELSE msg[r].users]
        PROVE  AddressInv'
    <3>1. /\ pc'[r] = IF msg[r].toAll THEN "subscribers" ELSE "emails"
          /\ owner'[r] = p /\ left'[r] = msg[r].emails /\ msg'[r] = msg[r]
          /\ ~msg[r].toAll => \A t \in targets'[r] : t[2] \in msg[r].users
      BY <1>0, <2>1, <2>2
    <3>2. <<p, msg[r].bearer>> \in issued'
      BY <2>1, <2>2 DEF TypeInv, TokenIssued, history
    <3>3. ~msg[r].toAll => \A t \in targets'[r] : t[2] \in Audience(msg[r], p, everBound, subscribed)
      BY <1>0, <3>1, MessageTypes DEF Audience
    <3>4. RightlyRead(r)'
      BY <2>1, <3>1, <3>2, <3>3 DEF RightlyRead, tables, history
    <3> QED BY <1>0, <2>1, <2>2, <3>4, OneRequest DEF history
  <2>3. CASE Goto(r, "refused") /\ UNCHANGED <<owner, left, targets>>
    <3>1. RightlyRead(r)'
      BY <1>0, <2>3 DEF RightlyRead, Accepted
    <3> QED BY <1>0, <2>1, <2>3, <3>1, OneRequest DEF history
  <2> QED BY <1>2, <2>2, <2>3 DEF CheckToken
<1>3. ASSUME NEW r \in Request, FindSubscribers(r) PROVE AddressInv'
  <2>1. pc[r] = "subscribers" /\ UNCHANGED <<tables, msg, owner, targets, history>>
    BY <1>3 DEF FindSubscribers
  <2>2. CASE Goto(r, "panic") /\ UNCHANGED left
    <3>1. RightlyRead(r)'
      BY <1>0, <2>2 DEF RightlyRead, Accepted
    <3> QED BY <1>0, <2>1, <2>2, <3>1, OneRequest DEF history
  <2>3. CASE left' = [left EXCEPT ![r] = {e \in Email : <<e, owner[r]>> \in subscribed}] /\ Goto(r, "bindings")
    <3>1. pc'[r] = "bindings" /\ \A e \in left'[r] : <<e, owner[r]>> \in subscribed
      BY <1>0, <2>3
    <3>2. msg[r].toAll /\ <<owner[r], msg[r].bearer>> \in issued
      BY <1>0, <2>1 DEF RightlyRead, Accepted
    <3>3. RightlyRead(r)'
      BY <2>1, <3>1, <3>2 DEF RightlyRead, tables, history
    <3> QED BY <1>0, <2>1, <2>3, <3>3, OneRequest DEF history
  <2> QED BY <1>3, <2>2, <2>3 DEF FindSubscribers
<1>4. ASSUME NEW r \in Request, FindBindings(r) PROVE AddressInv'
  <2>1. PICK rows \in Result({b \in Bindings(bound) : b[1] \in left[r]}) :
          targets' = [targets EXCEPT ![r] = rows]
    BY <1>4 DEF FindBindings
  <2>2. /\ pc[r] = "bindings" /\ UNCHANGED <<tables, msg, owner, history>>
        /\ pc' = [pc EXCEPT ![r] = "state"] /\ left' = [left EXCEPT ![r] = {}]
    BY <1>4 DEF FindBindings
  <2>3. /\ msg[r].toAll /\ <<owner[r], msg[r].bearer>> \in issued
        /\ \A e \in left[r] : <<e, owner[r]>> \in subscribed
    BY <1>0, <2>2 DEF RightlyRead, Accepted
  <2>4. \A b \in rows : b \in Bindings(bound) /\ b[1] \in left[r]
    BY DEF Result
  <2>5. \A t \in rows : t[2] \in Audience(msg[r], owner[r], everBound, subscribed)
    BY <2>3, <2>4, BoundOnce DEF Audience
  <2>6. RightlyRead(r)'
    BY <1>0, <2>1, <2>2, <2>3, <2>5 DEF RightlyRead, tables, history
  <2> QED BY <1>0, <2>1, <2>2, <2>6, OneRequest DEF history
<1>5. ASSUME NEW r \in Request, FindByEmail(r) PROVE AddressInv'
  <2>1. /\ pc[r] = "emails" /\ UNCHANGED <<tables, msg, owner, history>>
        /\ ~msg[r].toAll /\ <<owner[r], msg[r].bearer>> \in issued /\ left[r] \subseteq msg[r].emails
        /\ \A t \in targets[r] : t[2] \in Audience(msg[r], owner[r], everBound, subscribed)
    BY <1>0, <1>5 DEF FindByEmail, RightlyRead, Accepted
  <2>3. CASE Goto(r, "state") /\ UNCHANGED <<left, targets>>
    <3>1. RightlyRead(r)'
      BY <1>0, <2>1, <2>3 DEF RightlyRead, tables, history
    <3> QED BY <1>0, <2>1, <2>3, <3>1, OneRequest DEF history
  <2>4. ASSUME NEW e \in left[r],
               NEW rows \in Result({b \in Bindings(bound) : b[1] = e /\ b[2].type \in msg[r].platforms}),
               targets' = [targets EXCEPT ![r] = @ \cup rows],
               left' = [left EXCEPT ![r] = @ \ {e}], pc' = pc
        PROVE  AddressInv'
    <3>1. \A b \in rows : b \in Bindings(bound) /\ b[1] \in msg[r].emails /\ b[2].type \in msg[r].platforms
      BY <2>1 DEF Result
    <3>2. \A b \in rows : b[2] \in Audience(msg[r], owner[r], everBound, subscribed)
      BY <2>1, <3>1, BoundOnce DEF Audience
    <3>3. targets'[r] = targets[r] \cup rows /\ left'[r] \subseteq msg[r].emails
      BY <1>0, <2>1, <2>4
    <3>4. RightlyRead(r)'
      BY <2>1, <2>4, <3>2, <3>3 DEF RightlyRead, tables, history
    <3> QED BY <1>0, <2>1, <2>4, <3>4, OneRequest DEF history
  <2> QED BY <1>5, <2>3, <2>4 DEF FindByEmail
<1>6. ASSUME NEW r \in Request, InsertState(r) PROVE AddressInv'
  <2>1. /\ pc[r] = "state" /\ pc'[r] = "send" /\ UNCHANGED <<tables, msg, owner, left, targets, history>>
    BY <1>0, <1>6 DEF InsertState
  <2>2. RightlyRead(r)'
    BY <1>0, <2>1 DEF RightlyRead, Accepted, tables, history
  <2> QED BY <1>0, <1>6, <2>1, <2>2, OneRequest DEF InsertState, history
<1>7. ASSUME NEW r \in Request, Send(r) PROVE AddressInv'
  <2>1. /\ pc[r] = "send" /\ UNCHANGED <<tables, msg, owner, left, posted, issued, everBound>>
        /\ <<owner[r], msg[r].bearer>> \in issued
        /\ \A t \in targets[r] : t[2] \in Audience(msg[r], owner[r], everBound, subscribed)
    BY <1>0, <1>7 DEF Send, RightlyRead, Accepted
  <2>2. /\ pc' \in {[pc EXCEPT ![r] = label] : label \in {"send", "done", "panic"}}
        /\ targets' = targets \/ \E t \in targets[r] : targets' = [targets EXCEPT ![r] = @ \ {t}]
    BY <1>7 DEF Send
  <2>3. pc'[r] \in {"send", "done", "panic"} /\ targets'[r] \subseteq targets[r]
    BY <1>0, <2>2
  <2>4. RightlyRead(r)'
    BY <2>1, <2>3 DEF RightlyRead, Accepted, tables
  <2>5. \/ inbox' = inbox
        \/ \E t \in targets[r] : inbox' = inbox \cup {[msg |-> msg[r], owner |-> owner[r], to |-> t[2]]}
    BY <1>7 DEF Send
  <2>6. Delivered'
    <3>1. Delivered
      BY DEF AddressInv
    <3>2. ASSUME NEW t \in targets[r], inbox' = inbox \cup {[msg |-> msg[r], owner |-> owner[r], to |-> t[2]]}
          PROVE  Delivered'
      <4> DEFINE one == [msg |-> msg[r], owner |-> owner[r], to |-> t[2]]
      <4>1. /\ <<one.owner, one.msg.bearer>> \in issued
            /\ one.to \in Audience(one.msg, one.owner, everBound, subscribed)
        BY <2>1
      <4>2. inbox' = inbox \cup {one} /\ UNCHANGED <<issued, everBound, subscribed>>
        BY <2>1, <3>2 DEF tables
      <4> HIDE DEF one
      <4> QED BY <3>1, <4>1, <4>2 DEF Delivered
    <3> QED BY <1>0, <2>5, <3>2
  <2>7. \A q \in Request : q # r => pc'[q] = pc[q] /\ targets'[q] = targets[q]
    BY <1>0, <2>2
  <2> QED BY <2>1, <2>4, <2>6, <2>7, OneRequest
<1>8. ASSUME UNCHANGED <<bound, request, inbox>> PROVE AddressInv'
  <2>1. \A r \in Request : RightlyRead(r)'
    BY <1>0, <1>8, ReadStays DEF request
  <2> QED BY <1>0, <1>8, <2>1 DEF AddressInv, Grow
<1>9. ASSUME NEW e \in Email, NEW a \in CheckLoginResponses, Login(e, a) PROVE AddressInv'
  <2>1. /\ bound' = [bound EXCEPT ![<<e, a.type>>] = a.id]
        /\ everBound' = everBound \cup {<<e, a>>} /\ UNCHANGED <<request, inbox>>
    BY <1>9 DEF Login, InsertOrUpdate
  <2>2. ASSUME NEW b \in Bindings(bound') PROVE b \in everBound'
    <3>1. /\ b \in Email \X Account /\ bound'[<<b[1], b[2].type>>] = b[2].id
          /\ bound \in [Email \X Type -> EpId \cup {None}] /\ a \in Account
      BY DEF Bindings, TypeInv, TypeOK, CheckLoginResponses
    <3>2. b = <<b[1], b[2]>> /\ b[1] \in Email /\ b[2] \in Account /\ b[2].type \in Type
      BY <3>1 DEF Account
    <3>3. CASE b[1] = e /\ b[2].type = a.type
      <4>1. b[2].id = a.id
        BY <2>1, <3>1, <3>2, <3>3
      <4>2. b[2] = a
        BY <3>1, <3>2, <3>3, <4>1 DEF Account
      <4> QED BY <2>1, <3>2, <3>3, <4>2
    <3>4. CASE ~(b[1] = e /\ b[2].type = a.type)
      <4>1. bound[<<b[1], b[2].type>>] = b[2].id
        BY <2>1, <3>1, <3>2, <3>4
      <4> QED BY <2>1, <3>1, <4>1 DEF Bindings, AddressInv
    <3> QED BY <3>3, <3>4
  <2>3. \A r \in Request : RightlyRead(r)'
    BY <1>0, <2>1, ReadStays DEF request
  <2> QED BY <1>0, <2>1, <2>2, <2>3 DEF AddressInv, Grow
<1>10. CASE Restart
  <2>1. ASSUME NEW b \in Bindings(bound') PROVE b \in Bindings(bound) \cup Bindings(InitialBound)
    <3>1. b \in Email \X Account /\ bound'[<<b[1], b[2].type>>] = b[2].id
      BY DEF Bindings
    <3>2. <<b[1], b[2].type>> \in Email \X Type
      BY <3>1 DEF Account
    <3>3. bound'[<<b[1], b[2].type>>] \in {bound[<<b[1], b[2].type>>], InitialBound[<<b[1], b[2].type>>]}
      BY <1>10, <3>2 DEF Restart
    <3> QED BY <3>1, <3>3 DEF Bindings
  <2>2. \A r \in Request : pc'[r] \notin Accepted \/ pc'[r] = pc[r]
    BY <1>10 DEF Restart, Accepted
  <2>3. \A r \in Request : RightlyRead(r)'
    BY <1>0, <1>10, <2>2, ReadStays DEF Restart
  <2>4. UNCHANGED history
    BY <1>10 DEF Restart
  <2> QED BY <1>0, <2>1, <2>3, <2>4 DEF AddressInv, history
<1>11. ASSUME NEW one \in Event, NEW two \in Event, NEW events \in {<<one>>, <<one, two>>}, Notify(events)
       PROVE  UNCHANGED <<bound, request, inbox>>
  BY <1>11 DEF Notify
<1>12. ASSUME NEW p \in Plugin, RequestPluginToken(p) PROVE UNCHANGED <<bound, request, inbox>>
  BY <1>12 DEF RequestPluginToken
<1>13. ASSUME NEW e \in Email, NEW p \in Plugin, UserAddPlugin(e, p) PROVE UNCHANGED <<bound, request, inbox>>
  BY <1>13 DEF UserAddPlugin
<1>14. CASE UNCHANGED vars
  BY <1>8, <1>14 DEF vars, tables, history
<1> QED
  BY <1>1, <1>2, <1>3, <1>4, <1>5, <1>6, <1>7, <1>8, <1>9, <1>10, <1>11, <1>12, <1>13, <1>14
  DEF Next, Work, UserRemovePlugin

(* What has been delivered came with a token its plugin was given, and     *)
(* went to whom it was for, whatever is bound, subscribed, issued or       *)
(* restarted between the statements of its request (sns_common.go:58-111). *)
THEOREM DeliveredRightly == Spec => []DeliveredAsAddressed
<1>1. Init => AddressInv
  BY DEF Init, AddressInv, RightlyRead, Accepted, Delivered
<1>2. TypeInv /\ AddressInv /\ [Next]_vars => AddressInv'
  BY AddressStep
<1>3. AddressInv => DeliveredAsAddressed
  BY DEF AddressInv, Delivered, Audience, DeliveredAsAddressed
<1> QED BY <1>1, <1>2, <1>3, TypeInvariant, PTL DEF Spec

-----------------------------------------------------------------------------
(* The way back                                                            *)

(* A callback id is taken apart where it was put together when the first   *)
(* part has no "_".                                                        *)
LEMMA CallbackParts ==
  ASSUME NEW S, NEW claimed \in Seq(S), NEW callback \in Seq(S), Len(claimed) = 1, callback # <<>>,
         NEW parts \in ParseToPluginMessage(claimed \o callback)
  PROVE  parts[1] = claimed /\ parts[2] = callback
<1> DEFINE whole == claimed \o callback
<1>1. Len(callback) \in Nat /\ Len(callback) # 0 /\ Len(whole) = 1 + Len(callback) /\ whole \in Seq(S)
  <2>1. Len(callback) \in Nat /\ Len(callback) # 0
    BY EmptySeq
  <2>2. Len(whole) = Len(claimed) + Len(callback) /\ whole \in Seq(S)
    BY ConcatProperties
  <2> QED BY <2>1, <2>2
<1>2. parts = <<<<Head(whole)>>, Tail(whole)>>
  BY DEF ParseToPluginMessage
<1>3. Head(whole) = claimed[1] /\ claimed = <<claimed[1]>>
  BY <1>1
<1>4. Tail(whole) = callback
  <2>1. Len(Tail(whole)) = Len(callback) /\ Tail(whole) \in Seq(S)
    BY <1>1
  <2>2. \A i \in 1 .. Len(callback) : Tail(whole)[i] = callback[i]
    BY <1>1
  <2> QED BY <2>1, <2>2
<1> QED BY <1>2, <1>3, <1>4

(* What is delivered can be answered.                                      *)
Answerable == \A m \in inbox : m.msg \in Message /\ m.msg.callback # None

LEMMA AnswerableStep ==
  ASSUME TypeInv, Answerable, [Next]_vars
  PROVE  Answerable'
<1>1. ASSUME NEW r \in Request, Send(r) PROVE Answerable'
  <2>1. \/ inbox' = inbox
        \/ Generates(msg[r]) /\ \E t \in targets[r] :
             inbox' = inbox \cup {[msg |-> msg[r], owner |-> owner[r], to |-> t[2]]}
    BY <1>1 DEF Send
  <2>2. Generates(msg[r]) => msg[r] \in Message /\ msg[r].callback # None
    BY MessageTypes DEF Generates, TypeInv, TypeOK
  <2> QED BY <2>1, <2>2 DEF Answerable
<1>2. ASSUME inbox' = inbox PROVE Answerable'
  BY <1>2 DEF Answerable
<1>3. ASSUME NEW r \in Request,
             \/ PluginToEpMessage(r) \/ CheckToken(r) \/ FindSubscribers(r) \/ FindBindings(r)
             \/ FindByEmail(r) \/ InsertState(r)
      PROVE  inbox' = inbox
  BY <1>3 DEF PluginToEpMessage, CheckToken, FindSubscribers, FindBindings, FindByEmail, InsertState, history
<1>4. CASE \/ \E one \in Event : Notify(<<one>>) \/ \E two \in Event : Notify(<<one, two>>)
           \/ \E p \in Plugin : RequestPluginToken(p)
           \/ \E e \in Email : \/ \E a \in CheckLoginResponses : Login(e, a)
                               \/ \E p \in Plugin : UserAddPlugin(e, p) \/ UserRemovePlugin(e, p)
           \/ Restart \/ UNCHANGED vars
  BY <1>2, <1>4 DEF Notify, RequestPluginToken, Login, UserAddPlugin, UserRemovePlugin, Restart, vars, history
<1> QED BY <1>1, <1>2, <1>3, <1>4 DEF Next, Work

(* A button goes back to the plugin its message claimed to be of, with the *)
(* callback id of the message, whatever "_" that contains                  *)
(* (snspluginaccountmanager.go:38 and 64).                                 *)
THEOREM CallbacksReturn == Spec => []CallbackReturnsToClaimed
<1>1. Init => Answerable /\ CallbackReturnsToClaimed
  BY DEF Init, Answerable, CallbackReturnsToClaimed
<1>2. TypeInv /\ Answerable /\ CallbackReturnsToClaimed /\ [Next]_vars => (Answerable /\ CallbackReturnsToClaimed)'
  <2> SUFFICES ASSUME TypeInv, Answerable, CallbackReturnsToClaimed, [Next]_vars
               PROVE  Answerable' /\ CallbackReturnsToClaimed'
    OBVIOUS
  <2>1. ASSUME posted' = posted PROVE CallbackReturnsToClaimed'
    BY <2>1 DEF CallbackReturnsToClaimed
  <2>2. ASSUME NEW m \in inbox, NEW parts \in ParseToPluginMessage(CallbackId(m)),
               NEW p \in PluginsById(parts[1]),
               posted' = posted \cup {[plugin |-> p, callback |-> parts[2], of |-> m]}
        PROVE  CallbackReturnsToClaimed'
    <3>1. ASSUME Len(m.msg.claimed) = 1, m.msg.claimed # <<"">>
          PROVE  p = m.msg.claimed /\ parts[2] = m.msg.callback
      <4>1. m.msg.claimed \in Seq(STRING) /\ m.msg.callback \in Seq(STRING) /\ m.msg.callback # <<>>
        BY DEF Answerable, Message, Str
      <4>2. parts \in ParseToPluginMessage(m.msg.claimed \o m.msg.callback) /\ Len(m.msg.claimed) = 1
        BY <3>1 DEF CallbackId
      <4>3. parts[1] = m.msg.claimed /\ parts[2] = m.msg.callback
        BY <4>1, <4>2, CallbackParts
      <4> QED BY <3>1, <4>3 DEF PluginsById
    <3> DEFINE back == [plugin |-> p, callback |-> parts[2], of |-> m]
    <3>2. Len(back.of.msg.claimed) = 1 /\ back.of.msg.claimed # <<"">> =>
            back.plugin = back.of.msg.claimed /\ back.callback = back.of.msg.callback
      BY <3>1
    <3> HIDE DEF back
    <3> QED BY <2>2, <3>2 DEF CallbackReturnsToClaimed, back
  <2>3. ASSUME NEW one \in Event, NEW two \in Event, NEW events \in {<<one>>, <<one, two>>}, Notify(events)
        PROVE  CallbackReturnsToClaimed'
    BY <2>1, <2>2, <2>3, NotifySteps
  <2>4. ASSUME \/ \E r \in Request : PluginToEpMessage(r) \/ Work(r)
               \/ \E p \in Plugin : RequestPluginToken(p)
               \/ \E e \in Email : \/ \E a \in CheckLoginResponses : Login(e, a)
                                   \/ \E p \in Plugin : UserAddPlugin(e, p) \/ UserRemovePlugin(e, p)
               \/ Restart \/ UNCHANGED vars
        PROVE  CallbackReturnsToClaimed'
    <3>1. posted' = posted
      BY <2>4 DEF PluginToEpMessage, Work, CheckToken, FindSubscribers, FindBindings, FindByEmail,
                  InsertState, Send, RequestPluginToken, Login, UserAddPlugin, UserRemovePlugin, Restart,
                  vars, history
    <3> QED BY <2>1, <3>1
  <2>5. Answerable'
    BY AnswerableStep
  <2> QED BY <2>3, <2>4, <2>5 DEF Next
<1> QED BY <1>1, <1>2, TypeInvariant, PTL DEF Spec
=============================================================================
