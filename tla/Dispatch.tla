------------------------------ MODULE Dispatch ------------------------------
(***************************************************************************)
(* The two ways of a message through the SNS service: from a plugin to the *)
(* accounts of its users (PluginToEpMessage in web/snsplugin.go,           *)
(* DispatchMessageToEP in snscommon/sns_common.go), and, when a user       *)
(* presses one of its buttons, back to a plugin (Notify in                 *)
(* web/snsepauth.go); with the tables they read, which the pages of the    *)
(* users and the plugins' requests for tokens write meanwhile.             *)
(*                                                                         *)
(* A string that is put together with "_" and taken apart at it is the     *)
(* sequence of its parts: "a_b" is <<"a", "b">>, "" is <<"">>.             *)
(***************************************************************************)
EXTENDS Naturals, Sequences, FiniteSets

CONSTANTS Request,    \* the requests of plugins, each handled once
          Plugin,     \* the ids of the plugins, rows of sns_plugin
          Token,      \* plugin tokens, NoToken ("") not among them
          Email,      \* the e-mail accounts of users
          Type,       \* types of endpoints
          Registered, \* those the bean factory knows
          EpId,       \* ids of accounts at an endpoint
          Messages,   \* what plugins may send: see Message
          NoToken, NoHeader, None,
          InitialToken, InitialSubscribed, InitialBound, \* InitDbData
          Faults      \* "db": statements may fail; "net": pushes may

Str     == Seq(STRING) \ {<<>>}
Account == [type : Type, id : EpId]

(* json: the body can be parsed, with all of its user ids.  callback: that *)
(* of its first attachment, None when it has no attachment.                *)
Message ==
  [json : BOOLEAN, bearer : Token \cup {NoToken, NoHeader}, claimed : Str,
   toAll : BOOLEAN, users : SUBSET Account, emails : SUBSET Email,
   platforms : SUBSET Type, callback : Str \cup {None}]

ASSUME DispatchAssumption ==
  /\ Plugin \subseteq Str \ {<<"">>} /\ Registered \subseteq Type
  /\ {NoToken, NoHeader} \cap Token = {} /\ None \notin EpId
  /\ InitialToken \in [Plugin -> Token]
  /\ \A p, q \in Plugin : InitialToken[p] = InitialToken[q] => p = q
  /\ InitialSubscribed \subseteq Email \X Plugin
  /\ InitialBound \in [Email \X Type -> EpId \cup {None}]
  /\ Messages \subseteq Message

VARIABLES
  token,      \* sns_plugin.plugin_token
  subscribed, \* sns_plugin_ep_account: pairs of an e-mail and a plugin
  bound,      \* sns_ep_account_email: its key is e-mail and type
  followed,   \* the accounts the follow events have stored
  pc,         \* per request: see RequestState
  msg,        \* its message
  owner,      \* the plugin whose token it came with
  left,       \* the e-mails still to be looked up
  targets,    \* whom it is still to be sent to: pairs of an e-mail and an
              \* account, as an account found under two e-mails is sent to
              \* twice; None for an account the message names itself
  inbox,      \* what has been delivered: [msg, owner, to]
  posted,     \* what has come back: [plugin, callback, of], of in inbox
  issued,     \* the tokens each plugin has ever had
  everBound   \* the accounts each e-mail has ever been bound to

tables  == <<token, subscribed, bound, followed>>
request == <<pc, msg, owner, left, targets>>
history == <<inbox, posted, issued, everBound>>
vars    == <<tables, request, history>>

RequestState ==
  {"idle", "token", "subscribers", "bindings", "emails", "state", "send",
   "done", "refused", "panic", "lost"}

NoMessage ==
  [json |-> FALSE, bearer |-> NoHeader, claimed |-> <<"">>, toAll |-> FALSE,
   users |-> {}, emails |-> {}, platforms |-> {}, callback |-> None]

Bindings(b) ==
  {k \in Email \X Account : b[<<k[1], k[2].type>>] = k[2].id}

Init ==
  /\ token = InitialToken /\ subscribed = InitialSubscribed /\ bound = InitialBound
  /\ followed = {}
  /\ pc = [r \in Request |-> "idle"] /\ msg = [r \in Request |-> NoMessage]
  /\ owner = [r \in Request |-> None]
  /\ left = [r \in Request |-> {}] /\ targets = [r \in Request |-> {}]
  /\ inbox = {} /\ posted = {}
  /\ issued = {<<p, InitialToken[p]>> : p \in Plugin}
  /\ everBound = Bindings(InitialBound)

(* What a Find whose error is dropped may return.                          *)
Result(rows) == {rows} \cup (IF "db" \in Faults THEN {{}} ELSE {})

Goto(r, label) == pc' = [pc EXCEPT ![r] = label]

-----------------------------------------------------------------------------
(* From a plugin to its users                                              *)

(* A missing header is a panic: its parts are indexed after the error has  *)
(* been made.                                                              *)
HasBearer(m) == m.bearer # NoHeader

(* So is a body or a user id that cannot be parsed.                        *)
PluginToEpMessage(r) ==
  /\ pc[r] = "idle"
  /\ \E m \in Messages :
       /\ msg' = [msg EXCEPT ![r] = m]
       /\ Goto(r, IF m.json /\ HasBearer(m) THEN "token" ELSE "panic")
  /\ UNCHANGED <<tables, owner, left, targets, history>>

(* The plugin is found by the token; the id the message claims is reset to *)
(* its id, in the message, not in the callback ids it was put into.        *)
CheckToken(r) ==
  /\ pc[r] = "token"
  /\ \/ \E p \in Plugin :
          /\ msg[r].bearer = token[p]
          /\ msg[r].toAll \/ msg[r].emails \cup msg[r].users # {}
          /\ owner' = [owner EXCEPT ![r] = p]
          /\ Goto(r, IF msg[r].toAll THEN "subscribers" ELSE "emails")
          /\ left' = [left EXCEPT ![r] = msg[r].emails]
          /\ targets' = [targets EXCEPT ![r] = {None} \X IF msg[r].toAll THEN {} ELSE msg[r].users]
     \/ /\ \/ \A p \in Plugin : msg[r].bearer # token[p]
           \/ ~msg[r].toAll /\ msg[r].emails \cup msg[r].users = {}
           \/ "db" \in Faults
        /\ Goto(r, "refused")
        /\ UNCHANGED <<owner, left, targets>>
  /\ UNCHANGED <<tables, msg, history>>

(* Mutant: the subscribers of the plugin the message claims to be of.      *)
FindSubscribersOfClaimed(r) ==
  /\ pc[r] = "subscribers"
  /\ left' = [left EXCEPT ![r] = {e \in Email : <<e, msg[r].claimed>> \in subscribed}]
  /\ Goto(r, "bindings")
  /\ UNCHANGED <<tables, msg, owner, targets, history>>

FindSubscribers(r) ==
  /\ pc[r] = "subscribers"
  /\ \/ /\ left' = [left EXCEPT ![r] = {e \in Email : <<e, owner[r]>> \in subscribed}]
        /\ Goto(r, "bindings")
     \/ "db" \in Faults /\ Goto(r, "panic") /\ UNCHANGED left
  /\ UNCHANGED <<tables, msg, owner, targets, history>>

(* All of them in one statement.                                           *)
FindBindings(r) ==
  /\ pc[r] = "bindings"
  /\ \E rows \in Result({b \in Bindings(bound) : b[1] \in left[r]}) :
       targets' = [targets EXCEPT ![r] = rows]
  /\ left' = [left EXCEPT ![r] = {}]
  /\ Goto(r, "state")
  /\ UNCHANGED <<tables, msg, owner, history>>

(* One statement per e-mail, then on to the insert.                        *)
FindByEmail(r) ==
  /\ pc[r] = "emails"
  /\ \/ \E e \in left[r] :
          /\ \E rows \in Result({b \in Bindings(bound) : b[1] = e /\ b[2].type \in msg[r].platforms}) :
               targets' = [targets EXCEPT ![r] = @ \cup rows]
          /\ left' = [left EXCEPT ![r] = @ \ {e}]
          /\ pc' = pc
     \/ left[r] = {} /\ Goto(r, "state") /\ UNCHANGED <<left, targets>>
  /\ UNCHANGED <<tables, msg, owner, history>>

(* The state of the message is inserted; until that succeeds the request   *)
(* tries again, with another random key.                                   *)
InsertState(r) ==
  /\ pc[r] = "state"
  /\ Goto(r, "send")
  /\ UNCHANGED <<tables, msg, owner, left, targets, history>>

(* A panic without an attachment, to whomever the message goes.            *)
Generates(m) == m.callback # None

(* Mutant: the loop takes the first account again and again.               *)
SendToFirst(r) ==
  /\ pc[r] = "send"
  /\ \E t \in targets[r] :
       /\ t[2].type \in Registered /\ Generates(msg[r])
       /\ inbox' = inbox \cup {[msg |-> msg[r], owner |-> owner[r], to |-> t[2]]}
  /\ UNCHANGED <<tables, request, posted, issued, everBound>>

(* One round of the loop over the accounts, or its end.  The factory       *)
(* panics for a type it does not know; an error of the push is logged.     *)
Send(r) ==
  /\ pc[r] = "send"
  /\ \/ targets[r] = {} /\ Goto(r, "done") /\ UNCHANGED <<targets, inbox>>
     \/ \E t \in targets[r] :
          /\ targets' = [targets EXCEPT ![r] = @ \ {t}]
          /\ IF t[2].type \in Registered /\ Generates(msg[r])
             THEN /\ Goto(r, "send")
                  /\ \/ inbox' = inbox \cup {[msg |-> msg[r], owner |-> owner[r], to |-> t[2]]}
                     \/ "net" \in Faults /\ UNCHANGED inbox
             ELSE Goto(r, "panic") /\ UNCHANGED inbox
  /\ UNCHANGED <<tables, msg, owner, left, posted, issued, everBound>>

-----------------------------------------------------------------------------
(* From a user back to a plugin                                            *)

(* The callback id as ParseFromPluginMessage put it together.              *)
CallbackId(m) == m.msg.claimed \o m.msg.callback

(* What LINE reports: a new follower, a text, a button of a message that   *)
(* has been delivered.                                                     *)
Event ==
  [type : {"follow", "message"}, from : EpId, of : {None}]
  \cup {[type |-> "postback", from |-> m.to.id, of |-> m] : m \in inbox}

(* Mutant: the plugin id is everything before the last "_".                *)
ParseToPluginMessageLast(callbackId) ==
  IF Len(callbackId) < 2 THEN {}
  ELSE {<<SubSeq(callbackId, 1, Len(callbackId) - 1), <<callbackId[Len(callbackId)]>>>>}

(* SplitN(value, "_", 2): nothing when there is no "_".                    *)
ParseToPluginMessage(callbackId) ==
  IF Len(callbackId) < 2 THEN {} ELSE {<<<<Head(callbackId)>>, Tail(callbackId)>>}

(* The rows a condition on plugin_id finds, of which the last is taken; an *)
(* empty id is no condition.                                               *)
PluginsById(id) == IF id = <<"">> THEN Plugin ELSE Plugin \cap {id}

(* The post to a plugin, which panics when there is no answer: it has then *)
(* been made or not.                                                       *)
Posted(p, callbackId, m) ==
  {posted \cup {[plugin |-> p, callback |-> callbackId, of |-> m]}}
  \cup (IF "net" \in Faults THEN {posted} ELSE {})

(* One call of the webhook.  A follow event stores the account and then    *)
(* panics at a greeting without attachments.  Each postback overwrites the *)
(* one before; what has been kept at the end is dispatched, unless the id  *)
(* has no "_" or no plugin is found (a panic).                             *)
Notify(events) ==
  LET follows   == {i \in 1 .. Len(events) : events[i].type = "follow"}
      postbacks == {i \in 1 .. Len(events) : events[i].type = "postback"}
      first     == CHOOSE i \in follows : \A j \in follows : i <= j
      last      == CHOOSE i \in postbacks : \A j \in postbacks : j <= i
  IN /\ IF follows # {}
        THEN followed' = followed \cup {events[first].from} /\ UNCHANGED posted
        ELSE /\ postbacks # {}
             /\ \E parts \in ParseToPluginMessage(CallbackId(events[last].of)) :
                \E p \in PluginsById(parts[1]) :
                  posted' \in Posted(p, parts[2], events[last].of)
             /\ UNCHANGED followed
     /\ UNCHANGED <<token, subscribed, bound, request, inbox, issued, everBound>>

-----------------------------------------------------------------------------
(* Plugins and users meanwhile                                             *)

(* Mutant: the token of another plugin will do.                            *)
RequestPluginTokenAny(p) ==
  /\ \E t \in Token : token' = [token EXCEPT ![p] = t] /\ issued' = issued \cup {<<p, t>>}
  /\ UNCHANGED <<subscribed, bound, followed, request, inbox, posted, everBound>>

(* A random token, repeated while the column's unique index refuses it.    *)
RequestPluginToken(p) ==
  /\ \E t \in Token \ {i[2] : i \in issued} :
       token' = [token EXCEPT ![p] = t] /\ issued' = issued \cup {<<p, t>>}
  /\ UNCHANGED <<subscribed, bound, followed, request, inbox, posted, everBound>>

(* What the exchange of a code for a profile gives: the errors of its      *)
(* requests are dropped, so that any of them leaves an empty id, one of    *)
(* EpId like the others, and true beside it.                               *)
CheckLoginResponses == {a \in Account : a.type \in Registered}

(* Create, and for the rows whose key is taken Update of the others.       *)
InsertOrUpdate(table, key, value) == [table EXCEPT ![key] = value]

(* Login of an endpoint binds its account to the e-mail of the session.    *)
Login(e, a) ==
  /\ bound' = InsertOrUpdate(bound, <<e, a.type>>, a.id)
  /\ everBound' = everBound \cup {<<e, a>>}
  /\ UNCHANGED <<token, subscribed, followed, request, inbox, posted, issued>>

UserAddPlugin(e, p) ==
  /\ <<e, p>> \notin subscribed
  /\ subscribed' = subscribed \cup {<<e, p>>}
  /\ UNCHANGED <<token, bound, followed, request, inbox, posted, issued, everBound>>

(* "delete from sns_plugin_ep_account wheredelete from ... whereemail=?And *)
(* plugin_id=?" is not SQL; its error is dropped, the answer is Ok.        *)
UserRemovePlugin(e, p) == UNCHANGED vars

(* The process ends and starts again.  InitDbData writes its rows over     *)
(* those of the tables, the tokens of the plugins among them.              *)
Restart ==
  /\ token' = InitialToken
  /\ subscribed' = subscribed \cup InitialSubscribed
  /\ bound' = [k \in Email \X Type |-> IF InitialBound[k] = None THEN bound[k] ELSE InitialBound[k]]
  /\ pc' = [r \in Request |-> IF pc[r] \in {"idle", "done", "refused", "panic"} THEN pc[r] ELSE "lost"]
  /\ UNCHANGED <<followed, msg, owner, left, targets, history>>

Work(r) ==
  \/ CheckToken(r) \/ FindSubscribers(r) \/ FindBindings(r) \/ FindByEmail(r)
  \/ InsertState(r) \/ Send(r)

Next ==
  \/ \E r \in Request : PluginToEpMessage(r) \/ Work(r)
  \/ \E one \in Event : Notify(<<one>>) \/ \E two \in Event : Notify(<<one, two>>)
  \/ \E p \in Plugin : RequestPluginToken(p)
  \/ \E e \in Email : \/ \E a \in CheckLoginResponses : Login(e, a)
                      \/ \E p \in Plugin : UserAddPlugin(e, p) \/ UserRemovePlugin(e, p)
  \/ Restart

Spec == Init /\ [][Next]_vars

(* The handler of a request runs; the database takes the insert some time. *)
FairSpec == Spec /\ \A r \in Request : WF_vars(Work(r))
-----------------------------------------------------------------------------
(* Properties                                                              *)

TypeOK ==
  /\ token \in [Plugin -> Token] /\ subscribed \subseteq Email \X Plugin
  /\ bound \in [Email \X Type -> EpId \cup {None}] /\ followed \subseteq EpId
  /\ pc \in [Request -> RequestState] /\ msg \in [Request -> Messages \cup {NoMessage}]
  /\ owner \in [Request -> Plugin \cup {None}]
  /\ left \in [Request -> SUBSET Email]
  /\ targets \in [Request -> SUBSET ((Email \cup {None}) \X Account)]
  /\ \A m \in inbox : m.owner \in Plugin /\ m.to \in Account
  /\ \A x \in posted : x.plugin \in Plugin /\ x.of \in inbox
  /\ \A p, q \in Plugin : token[p] = token[q] => p = q  \* a unique column

(* What has been delivered came with a token its plugin was given, and     *)
(* went to whom it was for: a message to all to accounts of e-mails that   *)
(* subscribed to the plugin of the token, whatever plugin it claims to be  *)
(* of (sns_common.go:85); any other to the accounts it names or to those   *)
(* of the e-mails and platforms it names.  Tokens, subscriptions and       *)
(* bindings change between the statements.                                 *)
DeliveredAsAddressed ==
  \A m \in inbox :
    /\ <<m.owner, m.msg.bearer>> \in issued
    /\ IF m.msg.toAll
       THEN \E e \in Email : <<e, m.to>> \in everBound /\ <<e, m.owner>> \in subscribed
       ELSE \/ m.to \in m.msg.users
            \/ m.to.type \in m.msg.platforms /\ \E e \in m.msg.emails : <<e, m.to>> \in everBound

(* A button goes back to the plugin the message claimed to be of, with the *)
(* callback id the message had, whatever "_" that contains, if the plugin  *)
(* id is there and has no "_" (snspluginaccountmanager.go:38 and 64).      *)
CallbackReturnsToClaimed ==
  \A x \in posted :
    Len(x.of.msg.claimed) = 1 /\ x.of.msg.claimed # <<"">> =>
      x.plugin = x.of.msg.claimed /\ x.callback = x.of.msg.callback

(* Every message that is taken up comes to an end: answered, refused or,   *)
(* with its request, lost.                                                 *)
MessagesEnd ==
  \A r \in Request : pc[r] = "token" ~> pc[r] \in {"done", "refused", "panic", "lost"}
=============================================================================
