# A TLA+ verification of the services of this repository

The repository holds two Go services, `officeapp` (a client of the calendar
service of Office 365) and `sns` (a gateway between plugins and messaging
endpoints, LINE above all), with what they share in `ricoh/common`, a third
service that was only begun (`dingding`), vendored libraries and the settings of
an editor. This project models the two services and, of the vendored code, the
parts in which most goroutines meet: the Spanner client's pool of sessions, its
transactions and the streams it reads from, and the Pub/Sub client's `Receive`. Who keeps which state, which goroutines and
requests step on it in which order, what fails, and what is promised nevertheless.
TLC checks the models on small instances; the TLA+ proof system proves the
invariants and action properties, and the refinement of the token task, for every
number of offices, calls, sessions, rows, files and lines.

All paths below are relative to `src/go/src`.

## 1. The system

### officeapp

| part | code | state | operations |
|---|---|---|---|
| token task | `officeapp/controllers/office/update_token.go`, `getTokenByTenant` of `auth.go` | `req_list` (waiting channels per domain), the channel `result`, one goroutine per call and per fetch | `StartUpdateAllTokenTask`, `GetOfficeToken`, the fetch, `StopFileServer` |
| table of the offices | `officeapp/models/office_models.go` | rows of `office_app` and of `office_subcribe` in MySQL | lookups by domain and by id, `InsertOrUpdateOffice` (select, delete, insert) |
| start-up and subscriptions | `init.go`, `subcribe.go`, `local.go` | the ticker, the channel `quit`, the daemon goroutine | the four steps of `init`, the renewals, the stop |
| synchronisation | `default.go` | one struct that all pages of a run are decoded into | `Get` (from an identifier to an office, with a retry), `httpGet` (page by page) |
| notifications | `Notify` of `default.go` | none | cutting the user out of a resource, a run of `httpGet` |
| OAuth pages | `auth.go` | the global `tenant` | proxies of the token endpoint |
| rooms and users | `meeting.go` | none | calls of the calendar service |

A synchronisation calls `Get`, `Get` calls `GetOfficeToken`, which sends a
request with a fresh unbuffered channel to the token task and blocks. The task
keeps the list of the channels of a domain, starts one fetch for the first of
them, and hands the result of a fetch to all of them. The fetch writes the row of
the office; the subscriptions refer to that row by its id. Hard here: unbuffered
channels served from one loop, a row that is rewritten in three statements while
others read it, and everything that is dropped when something fails.

Correct is this part if the task is never stuck in a send, nobody who waits is
forgotten, one office has one fetch at a time, rows are not lost, the
subscriptions keep leading to their offices, and a synchronisation returns what
the calendar has.

### sns

| part | code | state | operations |
|---|---|---|---|
| session manager | `sns/controllers/snscommon/sessionmanager.go`, `web/usercheck.go`, `usermanager.go`, `page.go` | the session store, a cache from accounts to session ids | the check before every page, login, logout, activation |
| registration | `snscommon/email.go`, `common/synmap.go`, `models_insert_function.go` | a map beside a lock | registering, activating |
| dispatch | `snscommon/sns_common.go`, `token_util.go`, `snsplugin/`, `snsep/SNSEPAccountManager.go`, `web/snsplugin.go`, `web/snsepauth.go` | the tables of plugins, subscriptions, bindings, accounts | a message to endpoints, an event back to a plugin, tokens for plugins, logins of endpoints |
| endpoint adapters | `snsep/epline.go`, `epslack.go`, `epemailbind.go` | none | building and pushing messages, taking webhooks apart |
| user pages | `web/pageController.go` | the same tables | adding and removing a plugin |
| data access | `sns/models` | the connection | insert, insert-or-update, query, delete |
| file store | `web/file_controller.go` | the directory `files` | upload, download |
| start | `main.go` | the tables | `InitDbData` on every start |

Every request is a goroutine. What the requests share are the tables, the two
stores of the session manager, the map of the registration and the directory of
the files; nothing groups several accesses together. Hard here: check-then-act on
those stores, several statements per message while users change what they read,
identifiers that are put together with `_` and taken apart again, and a start
that writes over what was saved.

Correct is this part if a page is only shown to a session that is logged in and
not replaced, a message goes to whom it is for, an answer goes to who asked, what
was acknowledged has happened, and what was listed can be downloaded.

### ricoh/common

`cmutil/conf_util.go` reads a configuration file into a map and looks keys up by
run mode; `cmutil/log.go` logs. Correct is the former if the map says what the
file says and a lookup falls back as it is meant to.

### cloud.google.com/go/spanner (vendored)

| part | code | state | operations |
|---|---|---|---|
| pool of sessions | `session.go` | two idle lists, three counters, the channel `mayGetSession`, the queue of the health checker | `take`, `takeWriteSession`, `recycle`, `destroy`, the loop of a worker, `close` |
| transactions | `transaction.go`, `client.go` | `state`, `tx`, `sh` and the channel `txReadyOrClosed` of a read-only transaction | `acquire`, `begin`, `release`, `Close`, a read-write transaction with its retries |
| reads | `read.go` | the state of the decoder, its queue and last resume token; the row under construction | `next`, `Next`, `Stop`, `add`, `merge` |

Goroutines take a session each from the pool, the workers of the health checker
take idle ones out of it to prepare, renew or drop them, and a transaction shares
one session among all who read in it. A read takes its rows from a stream that is
asked for again from the last resume token when it breaks. Hard here: state that
is read under one lock and used after it was released, counters that stand for
calls under way, channels that are closed to wake everybody, sessions that two
parties could destroy at a time, and a buffer that decides whether a stream may still be
resumed.

Correct is this part if the limits of the pool hold and can be reached, a session
has one user, nobody waits without a reason, nothing is lost that need not be, and
the rows of a query come whole, in order and once.

### cloud.google.com/go/pubsub (vendored), receiving

| part | code | state | operations |
|---|---|---|---|
| `Receive` | `subscription.go` | two semaphores, the calls of `f` | pulling, calling `f`, waiting for all it started |
| puller | `puller.go` | the messages fetched and not returned yet | `Next`, `Stop` |
| keep-alive | `keepalive.go` | the messages whose deadlines are extended, the drain | `Add`, `Remove`, its loop, `Stop` |
| acker | `acker.go` | the pending acknowledgements | `Ack`, `FastMode`, its loop, `Stop` |
| the iterator | `iterator.go`, `message.go` | who it has been closed by | `next`, `stop`, `done` |

The loop of `Receive` pulls messages through the puller, which hands each of a batch
to keep-alive; `f` runs in a goroutine per message and answers it, there or elsewhere;
acker sends the acknowledgements in batches and tells keep-alive; a goroutine waits for
the end of the context and stops the three, one after the other. Hard here: messages are
in the hands of five kinds of goroutines, each with a lock of its own, and stopping
waits for what others may still add or remove.

Correct is this part if deadlines are extended of what is not settled and of nothing
else, `Receive` returns when everything is settled and nothing runs any more, and it does
so without waiting for the next tick.

## 2. The modules

| module | models | its properties are in the run |
|---|---|---|
| `OfficeTable` | the rows of `office_app` and the single statements against them | (used by the next two) |
| `TokenTask` | the token task: callers, task, fetches, the statements of a fetch, stops, failing statements, crashes | `token_task`, `token_task_faults`, `token_task_hang` |
| `TokenService` | abstract: a result for a domain answers all who ask for that domain, in one step | implemented by `TokenTask` |
| `Subscriptions` | `EXTENDS TokenTask`: `init`, the daemon, renewals, `Get` | `subscriptions` |
| `DeltaSync` | one run of `httpGet` against a calendar and bad answers | `delta_sync`, `lists_overwritten` |
| `Notification` | `EXTENDS DeltaSync`: `Notify`, `UnicodeIndex`, `SubString`, and the run it starts for the user | `delta_sync` |
| `Session` | the session manager, one step per access of a store | `sns_pages`, `session_race` |
| `Registration` | `EXTENDS Session`: the lock of the map, and its copies | `sns_pages` |
| `Dispatch` | messages to endpoints and back, tokens, bindings, subscriptions, restarts | `dispatch` |
| `FileStore` | uploads beside each other, downloads | `sns_pages` |
| `Conf` | reading a configuration, looking a key up | `sns_pages` |
| `SessionPool` | the pool of the Spanner client, its users and its health checker | `spanner` |
| `Transactions` | `EXTENDS SessionPool`: read-write transactions, one read-only transaction of several readers | `spanner`, `begin_takeover` |
| `ResumableStream` | `next` of the decoder against a server | `streams` |
| `RowIterator` | `EXTENDS ResumableStream`: the rows, `Next`, `Stop`, what a result is; `Merge` is its parameter | `streams` |
| `ValueMerge` | `merge`, which `streams` gives for that parameter | `streams` |
| `Receive` | `Receive` with its puller, keep-alive, acker and flow control, from the first fetch to its return | `streams` |
| `TokenTaskProofs`, `SubscriptionsProofs`, `NotificationProofs`, `RegistrationProofs`, `DispatchProofs`, `FilesProofs`, `TransactionsProofs`, `StreamsProofs` | the theorems about these | section 5 |

`MC*` modules hold what TLC needs: constants and symmetry. `MCPages` runs
`FileStore`, `Conf` and `Registration` (with `Session`), which share nothing, one or the
other, `MCStreams` likewise `RowIterator` and `Receive`. Mutants, marked as
such in the modules, are forms of a definition with a plausible bug in it; each
checked property is known to fail for one of them. They are not part of any
specification.

### How state and actions correspond to the code

*TokenTask.* A member of `Call` is an invocation of `GetOfficeToken`, and with it
its channel and the fetch goroutine it may start. `pc` is where the invocation
is, `fpc` where its fetch is, `fo` the variable `office` of the fetch, `reqList`,
`result`, `loop`, `cur`, `next` are `req_list`, the buffered channel, and the
place of the task in its `select` and its delivery loop. `ReadRow` is
update_token.go:94-101, `HandleRequest` and `TakeResult` are the two cases of the
`select`, `Deliver` is one round of the range loop with its unbuffered send (it
needs the receiver), `FetchToken`, `SelectRow`, `DeleteRow`, `UpsertRow`,
`SendResult` are the fetch, one statement per step because the program opens no
transaction. What matters most of the data is kept: the decoded body of the token
endpoint has no domain (`TokenResponse`), an upsert gives a row a new automatic
key (`Upserted`), and errors are dropped where the code drops them.

*Subscriptions.* `main` and `daemon` are the two goroutines that run the loops of
`subcribe.go`; both are one action per round and per subscription. A panic in any
goroutine ends the process (`SubEnds`), which then may start again. `sync` is
the goroutine of a synchronisation: `Identify` is the routing of
default.go:255-283, `AskToken` the call of `GetOfficeToken` (`ReadRow` of
`TokenTask`), `Request` the request and the choice between another round and the
end. An identifier is abstracted to what `Get` asks of it.

*DeltaSync.* `track`, with the array under its slice, is the struct that is
decoded into over and over; `Decoded` is what the decoder leaves there. A change has an id,
a `subject` that stands for all its fields that are copied whole, and `attendees` that stands
for its two lists. A list is a slice (array, length, capacity) of an array in `heap`, so that
the copies in `values` and the struct lead to the same arrays, as the copies `append` makes
do; `DecodedList` and `DecodedHeap` say when the decoder writes into the array that is there
and when it makes another, `Room` for how many. An array is named after the change it was made for.

*Notification.* Strings are sequences of characters of one to four bytes. The call
picks the resource of the first notification and the user in it, whose calendar
the run of `DeltaSync` then goes through.

*Session.* One step per call of a store: `ReadAccount`, `IsExist`, `Get`, `Put`,
`Drop` are sessionmanager.go:70-93 in order. The store and the cache are external
and atomic call by call.

*Registration.* `copy` is the lock inside the copy of the map that `Get` makes.
Registrations and activations are visits like the pages of `Session`. A registration is
followed into its search and no further, as the program does not get further: what comes
after it, the Set of the id, the Unlock and the mail (email.go:20-25), is not modelled.

*Dispatch.* `pc` of a request steps through `PluginToEpMessage` (parse, token,
accounts by subscription or by e-mail, the insert, one push per step). Strings
that are joined with `_` are sequences of their parts. `inbox` is what was
delivered and with whose token, `posted` what came back to a plugin. Pages are
single actions; `Restart` runs `InitDbData`.

*FileStore.* One step per field, per skipped file, for creating a file and for
copying into it. A stored name is a reading of the clock, `_`, and the name.

*Conf.* One step per line; a line is what `InitConfig` asks of it. `ReadLine` of bufio may return
a long line in pieces, and the code does not look whether it did (`isPrefix`, conf_util.go:57):
each piece is then a line of its own, here as there.

*SessionPool.* One step per critical section of the pool's lock, or answer of the
service. `idle`, `numOpened`, `createReqs`, `prepareReqs` are the fields; that of a
session are memberships (`open` is `valid`, `linked` that `idleList` is set, `tx`,
`old`, `checking`). Closing and replacing `mayGetSession` is `Broadcast`: whoever
looked before goes round again. `take` of a client goes through `take`, `wait`,
`check`, `create`, `created`, `prepare`; the loop of a worker through the labels
of `WorkerState`, among them `prepare` and `back`, between which the session is in
nobody's list. A session object nobody refers to any more is used again for the
next session.

*Transactions.* `do` is where a reader is in `acquireMultiUse` and `begin`, `id` is
`t.tx` with the marker of who begins. `T` stands for the transaction as the holder
of its session.

*ResumableStream.* One step per round of the loop of `next`; a set is the interval of
the pieces of the result it carries. *RowIterator* adds what the pieces are, so that
rows can be compared with those of the query; `Add` is one call of `add` with all of
the values of a set. When parts are put together is in `RowIterator`, how in `ValueMerge`:
`RowAssumption` says that the rows of a result are what its pieces make by `Merge`, and TLC,
which evaluates it with `merge` for every cut of every value of the instance, so compares
`merge` with the value that was cut.

*Receive.* One step per critical section of a lock, per case of a `select`, per request.
`recv` is where the loop is, with `fetch` for the lock of the puller it holds; `stop` the
goroutine that stops the iterator, a label per call in pollingMessageIterator.stop; `items`,
`draining` and `drained` are those of `keepAlive` and its drain, `pending` and `send` those of
`ackBuffer`, `dirty` the goroutines that wait to tell acker. `calls` are those of `f` under
way, `given` all there have been: a message may be answered after its call has returned.
`tried` and `expired` are history. Deadlines and sizes of requests are left out: an
`ExtensionTick` may find any message overdue, one request of the acker stands for the
several it is split into.

## 3. The runs

Passing runs; deadlock is not checked in any of them, because every model comes
to rest when all its calls, requests or lines have been used up or, as the
system does, waits for the next one for ever.

| run | instance | what it shows |
|---|---|---|
| `token_task` | 3 calls, 2 offices with a row, channel of capacity 1, only the token endpoint fails, fair | `FlightInv`: one fetch, or queued result, or delivery per office; `OnlySuccessStrands`: callers without a fetch are left behind by a success, never by a failure; `RowKept`: a row is missing only between the delete and the insert of the one fetch; `FailureReachesAll`, `FetchesEnd`: a failed fetch reaches all who wait for its domain, no fetch is left on a full channel |
| `token_task_faults` | 3 calls, 1 office with a row, 1 without, statements fail, the process ends and restarts anywhere | `ListedAreWaiting`, `WaitersAreListed`: the channels listed are exactly those of the calls that wait, so that the task is never stuck and nobody is forgotten; `ImplementsService`: `TokenTask` refines `TokenService` |
| `subscriptions` | 1 office, 2 subscriptions, 2 calls; lost connections, crashes | `DanglesOnlyByFailure`, `DanglingStays`: only a failed fetch for its very office makes a subscription lose it, and it is for good; `StartsOrEnds`: a start gets through its four steps or ends in a panic, whatever hangs in the token task |
| `delta_sync` | all resources of up to 5 characters of 1 and 3 bytes; then calendars of up to 3 pages of up to 2 changes with lists of up to 3 elements, 2 bad answers of 3 kinds | `CutsOutTheUser`: the calendar is that of whoever stands before the first `/Events`; `CollectedInOrder`, `NothingSkipped`, `EveryPageAdvances`: stale links and the reused arrays neither skip, repeat nor go in circles; of what has been collected they touch the elements of lists only, and those only where a later page brings a list at the same place (section 4 has that) |
| `dispatch` | 1 message of each kind, 2 e-mails, 2 plugins, ids with `_`; changes, faults and restarts between the steps; one and two events per webhook call; fair | `DeliveredAsAddressed`: to whom it was for, with a token its plugin was given; `CallbackReturnsToClaimed`: an answer goes back whole to the plugin the message claimed; `MessagesEnd` |
| `sns_pages` | 3 visits, 2 sessions, 2 accounts; or 2 uploads of 1 to 3 files, a clock that may stand still, opens and copies that fail; or all configuration files of 5 lines of 10 kinds | `EntryLoggedIn`, `RefusedOnlyIfReplaced`: the cache names a session that logged in as the account, nobody is thrown out but by another login; `NoneAnsweredLate`: from the first lock on nobody is answered. `ListedOnce`: each name once, under a url of its own; `DownloadsAsUploaded`: what was listed, and no other upload wrote to, leads to what was sent under its name; `MapAsMeant`, `ReadAsMeant` against a reference that looks at the whole file |
| `spanner` | 2 readers of one transaction, 1 writer, 1 worker, at most 2 sessions open; sessions that are lost, grow old, cannot be created or begun; waits that time out; both closed at any time | `Accounted`: the counters count, the limits hold; `OnePlace`: one user, one preparation or one list, nothing listed once closed, the marks of the health checker those of its workers; `WaitsForReason`: whoever waits has neither a session nor a budget to have; `WaitsForBegin`: readers wait for one who begins; `NothingLost`: a session is lost in three ways (section 4) and in no other |
| `streams` | queries of 0, 1 and 2 rows in up to 7 pieces, packed in any way, any token, a stream that breaks any number of times, ends early, or is canceled; or a `Receive` of 2 messages, one larger than all that may be outstanding, answered at any time or never, fetches that fail, messages that expire, a context that ends | `RowsAsSent`, `EndsAsSent`: the rows as they are, once, and the end told rightly; `NothingTwice`, `BufferBounded`: nothing given out twice, no more than the limit held back; `CanceledReturns`: a call ends when its context does, whatever the server does. `KeptAlive`: of what is not settled the deadline is extended, and of nothing else; `SettledAtReturn`: when `Receive` returns all is settled and nothing runs; `ReceiveReturns`: it does return, without a tick, once all is answered or has expired |

The run `dispatch` also checks the type invariant of its module, with what belongs to
it of the tables. Those of `TokenTask`, `Registration`, `Notification`, `FileStore`, `Conf`,
`ResumableStream` and `Receive` are proved (section 5).

### Bounds, and why they are enough

* *Calls, requests, messages* are each used once. Two are needed for every
  race the models have, a third where a third party overtakes (`token_task`: two
  who share an entry and one of another office or of the empty domain;
  `sns_pages`: a check, a login and a logout; one that registers and two that ask
  the map, before and after). One message is enough
  for `dispatch`: messages write nothing another message reads.
* `lastId` is not bounded: each call starts at most one fetch, which draws one
  key.
* `ResultCap` is 1 or 2 where the code has 1000: a full channel is what can
  go wrong, and a fetch can only fill 1000 places by 1000 calls.
* *Calendars*: three pages are the first, which the code treats differently,
  one in the middle and a last one; two changes per page make a page shorter
  and longer than its predecessor. Lists of one to three elements over arrays made for two
  or three, where Go makes the first for four, fit, fit exactly and outgrow the array at their place.
  `MaxBad` = 2: two bad answers in a row
  and one after a good one. One user has a calendar: the service answers all
  others with an empty one.
* *Dispatch*: two e-mails, an account of a type nobody registered, three
  tokens. The run does not go on behind a second answer of a user, nor behind a
  new follower (`Bounds`, a `CONSTRAINT`): both are only recorded, no step reads
  them. Webhook calls carry one or two events: only the last postback counts and
  the first follow ends the call.
* *Subscriptions*: one subscription whose resource id leads back to it, one whose
  id has no `.`. Failing statements are left to `token_task_faults`: with them the
  instance is six times as large.
* *FileStore*: a clock reading is the last one or the next: what matters is
  whether two are equal.
* *Conf*: five lines are the shortest file that sets the run mode and a key in
  both sections; among the lines is a header without a name, `[ ]`.
* *Spanner*: with `MaxOpened` 2 and three holders (writer, transaction, a reader that
  begins) somebody has to wait; `MinOpened` 1 lets one of two old sessions expire;
  `MaxBurst` 1 makes a creation wait for another. Three session objects are those two
  and one that is destroyed while somebody still works on it; a fourth would be
  equal to one of them. Each goroutine takes a session once more only where the code
  goes round again.
* *Reads*: `MaxBytes` 3, where the size of a set is the number of its pieces: a result
  of seven pieces passes the limit twice. Retries are not bounded, they lead back to
  states seen before. A set without pieces is only the first of a stream (the
  metadata), and a set ends with a part of a value where the value is cut, as the
  protocol has it.
* *Receive*: two messages are one in the hands of `f` and one fetched with it or later; with
  `MaxSize` 2 and a message of size 3, which is taken as 2, one waits for the other's size,
  with `MaxCount` 2 no more than both run. `MaxExtending` 1: a request for longer deadlines
  is on its way or not; stopping waits for all of them alike. Each message is
  delivered once: a second delivery is another message, as it has another ack id.
* Symmetry is used over calls, sessions, readers and workers (`token_task_faults`, `spanner`) in
  runs of safety properties only (`NothingLost` and `ImplementsService`, conditions
  on steps, treat the members of these sets alike); never where a liveness property
  is checked.

### Fairness

`TokenTask!Fairness` is weak fairness of each goroutine's next step: the runtime
schedules a goroutine that can run; `select` picks among its ready cases at
random, so that neither requests nor results are passed over for ever; the token
endpoint and the database answer, with an error or without. Nobody is required to
call, to stop the task, or to crash. `SubFairSpec` asks for less: only the goroutine
of `init` is sure to run, so that `StartsOrEnds` says that it depends on no other.
`Dispatch!FairSpec`: the goroutine of a request runs, the insert it repeats succeeds
some time (its failures are stutters). `Transactions!FairSpec`: a goroutine that can go
on does, which includes the answers it waits for; no context ends.
`RowIterator!QueryFairness`: the steps that need neither the server nor the caller are
taken; the server may be silent for ever. `Receive!ReceiveFairness`: the goroutines run, and
a `select` that is ready in one case again and again takes it some time (strong fairness:
ticks may make other cases ready in between); requests of keep-alive and acker end; a fetch
ends once it is canceled, not before; `f` returns. Neither a tick nor an answer is promised:
`ReceiveReturns` excludes messages without an answer, and holds without any tick.

## 4. What the code does not keep

Four runs check one property each that a comment of the repository states, and TLC
finds the code to violate it. `PROJECT.json` has the quotations.

| run | property | what happens |
|---|---|---|
| `token_task_hang` | `GetOfficeTokenReturns` | a successful fetch is delivered under the empty domain: the callers of the office wait for ever, and so does everybody who joins them |
| `session_race` | `LoginStays` | a check puts back the session id a login has just replaced |
| `lists_overwritten` | `CollectedAsSent` | the changes collected to be saved share the arrays of their attendees and categories with the struct the next page is decoded into: they end up with those of later changes |
| `begin_takeover` | `TakesOver` | `begin` of a reader that got no session leaves the mark of who begins: the others wait for ever |

The passing runs say where these end: `OnlySuccessStrands` and `FailureReachesAll`
together that the hanging callers are those of successful fetches alone;
`EntryLoggedIn` that the session that wins the race is one that had logged in as that
account; `CollectedInOrder` that nothing of a collected change is lost but elements of lists, and
those only to a list at the same place of a later page; `WaitsForBegin` that readers hang after a `begin` without a session and after
no other.

More behaviour that its reader may not expect is in the actions, as the code has it,
and the properties are stated around it:

* a call that reads while a row is deleted is listed under the empty domain
  (`ReadRow`); an error made for an office without a token is overwritten before the
  call returns (update_token.go:111);
* after a failed fetch an office has a new id, its subscriptions the old one, and
  each start panics over them (`SyncAllSubcribeOfficeResource`; `DanglingStays`);
* an identifier without a `.` is taken for a domain (`Identify`);
* the stream of a query goes on without a resume token *at* the limit (`>=`, read.go:407),
  where the comment on the counter says once it "is greater than" it (read.go:244-245) and the
  diagram "exceeds" (read.go:327). `Full` has what the code does; `BufferBounded` states what
  code and comments both promise, that no more than the limit is held back before the last set,
  so that the run takes no side. The difference is one set given out earlier;
* the first page of a run is decoded and dropped, and a removed event is given the
  fields of the change decoded before it at its place (`FirstPage`, `Decoded`;
  `CollectedInOrder` excludes both);
* a registration waits for a copy of the lock it holds itself (`Get`;
  `NoneAnsweredLate` is what becomes of all others);
* an answer goes to the plugin the message claimed to be of, not to the one whose
  token it came with; a message without header or attachment is a panic; a removal of
  a plugin changes nothing; a restart puts the first tokens back (`Notify`, `Send`,
  `UserRemovePlugin`, `Restart`);
* an upload whose file cannot be created says ok beside its error, and a copy that
  fails is listed (`Create`, `Copy`);
* `takeWriteSession` lets go of a session it could not prepare (session.go:626), and
  `begin` of one whose transaction was closed meanwhile, as the error it returns is
  not the one its deferred function looks at (transaction.go:319); a worker ignores
  that the pool did not take a session back (session.go:214, 931). Such sessions stay
  open and counted until the health checker or the service drops them
  (`PrepareFails`, `BeginOk`, `GiveBack`; `NothingLost` names these three);
* `Close` of a transaction that has no session yet is a panic (`CloseTransaction`);
* whether an old session may expire is decided under one lock and done under another:
  two that expire together may leave fewer than `MinOpened` (`Expire`, `Recycle`), for
  which reason no property bounds the number of sessions from below;
* a query whose stream breaks before each token is asked for again without end
  (`Breaks`); only its context ends it (`CanceledReturns`);
* between the close of `closed` and the cancel of the puller `Next` of a stopped iterator
  still returns a message it has (`NextBuffered`; compare iterator.go:139 and 181);
* a message that expires while its acknowledgement is pending is not waited for:
  `acker.Stop` may drop the acknowledgement (`AckerStopped`; `SettledAtReturn` counts it as
  expired), and a negative answer may still be with its bundler when `Receive` returns;
* the flow control counts running calls of `f`, not messages without an answer
  (`CallReturns`; the TODO at subscription.go:330).

## 5. What is proved

Eight modules hold proofs, of every listed property for any values of the constants
that satisfy the named assumptions beside their declarations; TLC evaluates these on
the runs. No assumption bounds the number of calls, requests, sessions, pages,
pieces, files or lines.

*TokenTaskProofs*, for any sets of domains and calls, any capacity, any initial table
with unique keys and any set of faults:

* `TypeCorrect`: `Spec => []TypeOK`. `TypeOK` is inductive. The part that is not
  typing, that `office_app` stays a table with unique ids and domains, is carried
  by `Held` through `WithoutRowHeld` and `UpsertedHeld`: a delete and an upsert
  with the next key keep such a table, whoever else wrote in between.
* `ListedIffWaiting`: `Spec => [](ListedAreWaiting /\ WaitersAreListed)`. Neither
  half is inductive alone. That a waiting call is listed, and listed once, is what
  keeps the channels behind it served when its own has been; that a listed call
  waits for the domain it is listed under is what makes the deletion of the entry
  forget nobody. Together, with the types, they are inductive (`NobodyForgotten` is the
  half that matters to the callers). A frame lemma
  disposes of the steps that touch no list; `HandleRequest` and `Deliver` are
  lemmas of their own.
* `OneFetchPerOffice`: `Spec => [](FlightInv /\ SingleFlight)`. Two fetches for one office can
  only be excluded by following what a fetch turns into: `FlightInv` says that per
  named domain there is one fetch *or* one queued result *or* one delivery, and
  none of them without an entry, so that a request which finds no entry finds nothing
  under way. A step each for the fetch, its result, the request, the result taken and
  the deliveries.
* `StrandedBySuccess`: `Spec => []OnlySuccessStrands`. On top of `FlightInv` it follows
  what a fetch has in hand: either it is not marked `DELETED` or it carries the domain
  of the request (`FailureIsNamed`). The result of a failed fetch is then queued under
  that domain, and only a successful one, which names no office, leaves its callers behind.
* `RowsAreKept`: `Spec => []RowKept`. Between the select and the delete other fetches
  may write; the key read is still that of the fetch's own row or of none (`LastIsOwn`:
  a row that stays keeps its key and its domain, a new one gets a key nobody has read).
  So the row deleted is the fetch's own, which by `FlightInv` no second fetch rewrites.
* `TaskImplementsService`: `Spec => ImplementsService`, with the refinement
  mapping of `TokenTask`: asking are the calls that wait and are not in the
  delivery under way, answered are those in it and those that returned. `TakeResult`
  is the step that answers, `HandleRequest` asks, `Crash` forgets, all other steps
  stutter.

*SubscriptionsProofs*, for any offices, subscriptions and calls and any faults. The
invariants of the token task are carried into the composition by their own step
lemmas, which are stated of `[Next]_vars \/ ProcessEnds`: what the other goroutines add
to the task is that a panic of theirs ends it too.

* `TaskInTheProcess`: what the task promises it keeps in the whole process.
* `LostOnlyByFailure`: `SubSpec => []DanglesOnlyByFailure`. Not inductive: a subscription
  is only as good as the row it points to. `Rooted` says of every row of the initial table that it is
  there still, or a fetch for its office has failed; `SuccessIsUnnamed` that what a successful
  fetch has in hand names no office, so that the delete it does next hits no row with a
  domain; `LastIsOwn` and `FlightInv` of the task do the rest. A row without a domain
  is the exception the property makes: a success does delete that.
* `LostForGood`: `SubSpec => DanglingStays`, as no key is drawn twice (`KeysDrawn`).

*RegistrationProofs*, for any number of requests, sessions and accounts:

* `TypeCorrect`; `EntriesLoggedIn` and `RefusedWhenReplaced` from `LoginInv`, which adds
  to the two what a request knows between its calls: the id it has read of an account
  is, or was, one that logged in as it, and the store never takes a login back.
* `NoneAnsweredLateAlways` from `MapInv`: who has locked the map stays where it is, and
  copies made later are locked.

*TransactionsProofs*, for any sets of sessions, readers, writers and workers, any
limits and faults:

* `CountersRight`: `Spec => []Accounted`. The counters are cardinalities of sets that
  change under them; the invariant `CountInv` carries along that these sets are finite, so
  that neither `Client` nor `Session` need be. `ControlOK` says who holds a session at
  which label.
* `WaitsAreJustified`: `Spec => []WaitsForReason`, on the counters: a step that puts a
  session into a list or lowers a counter wakes everybody, the others leave the reason
  of a wait as it was.
* `SomebodyBegins`: `Spec => []WaitsForBegin`, from `BeginInv`: the mark of who begins
  is set exactly while a reader is at it, or one has got no session.
* `EachInOnePlace`: `Spec => []OnePlace`. `PlaceInv` says where a session may be: in the list of its
  kind (`PlacesInv`, `ListsInv`: none twice), in the hands of one client (`HandsInv`), with
  one worker that has marked it (`WorkersInv`), which has taken it out of the lists when it prepares it
  (`PreparingInv`). Not inductive without `ListsInv`: taking the first of a list in which
  a session is twice leaves it in the list. `Listed` counts places, so the lemmas on
  `RemoveFirst` and on duplicates come first; each kind of step is then a lemma of its own.
* `NoOtherLost`: `Spec => NothingLost`: a valid session that is somewhere before a
  step is somewhere after it, but for the three ways `Loses` names. `OneBegins` is needed
  for the third: two readers that began at a time would overwrite each other's session.

*StreamsProofs*, on both vendored streams. Of `ResumableStream`, for any length, any limit,
any packing, `StreamInv` has the parts
`Contiguous` (the queue is an unbroken run of the result), `UpTo` (it begins where the
last set given out ended and ends where the server is), `Resumable` (while the stream can be
resumed and the queue is not being emptied, that beginning is the resume token), `OnlyLast`
(a new token can only be at the end of the queue, until it is emptied), `Counted` (what is
counted is what is held back). With them:

* `NothingGivenTwice`, `BoundKept`, and `NoneHaveTokens`: the comment "none have resume
  tokens" of read.go:455 on what is thrown away is right. They are stated of
  `StreamSpec`.

Of `RowIterator`, for any results, any number of columns and whatever `Merge` is:

* `RowsOfStream`: `Spec => StreamSpec`, so the above holds of it, too.
* `RowsWhole`, `EndTold`: `Spec => []RowsAsSent`, `Spec => []EndsAsSent`. `RowInv` relates
  what has been returned to what has come: `Consumed` is how many pieces have been put to the
  row, and `CellInv` says that the rows returned, those in store and the values of the row are
  exactly the values these pieces make (`Puts`), and that `chunked` tells whether the last of
  them is whole. `PackedInv`: in a set only the last piece can be a part; `ControlInv`: how
  iterator and stream take turns and how a stream ends; `EndInv`: what is left when the
  iterator says it is done. `PutOn` is one value or part more, `AddedPuts` a whole set; `Added`
  and `Cells` are recursive functions, `AddedExist` and `CellsExist` say that there are such,
  `UpToAny` is the induction over their steps. `RowsMeant`: rows made of the values are those
  of the query (`EndedCounted`: there are as many whole values as pieces that end one). The
  assumption is `RowAssumption`: the rows of a result are, `Columns` at a time, what its pieces
  make as long as they fit, and a faulty result is one with parts that do not.

Of `Receive`, for any set of messages, finite or not, any sizes and limits and any
number of requests at a time: `AllKeptAlive`, `AllSettledAtReturn`, `CallsLimited`, from
`ReceiveInv`. `Fresh` says that what has been fetched is nobody's until `f` is called with it,
`Acked` that only acknowledged messages are on their way to the service; with both,
`KeptAlive` is inductive. `InOrder` says what each step of stopping may rely on: no fetch after
the puller is stopped, so nothing is added to what is drained; the drain closed only
when nothing is left; acker ended after keep-alive. `SettledAtReturn` follows from it and
from `KeptAlive`. `CallsCounted` relates the semaphore to the calls.

*DispatchProofs*, for any plugins, users, accounts, messages, any number of requests and
restarts at any time:

* `TypeCorrect`, from `TypeInv`, which adds the types of what a request has read.
* `DeliveredRightly`: `Spec => []DeliveredAsAddressed`. A request reads the tables one
  statement after the other while others change them. `AddressInv` says what each request has read so
  far (`RightlyRead`): the plugin a token stands for, the subscribers it has left to
  look up, the targets found. It stays true because `Audience`, whom a message may go to,
  only grows with what has ever been bound and subscribed (`TablesGrow`).
* `CallbacksReturn`: `Spec => []CallbackReturnsToClaimed`. `CallbackParts`: an id put together with
  "_" is taken apart at the first one, which is the right one as the plugin's id has none;
  `Answerable`: what is in the inbox is a message with a callback.

*NotificationProofs*, for all calendars, requests and any number of bad answers, on both
the page and the run it starts:

* `TypeCorrect`, `NoPageSkipped` and `AlwaysAdvances`. `LinkInv` relates the link the
  run follows next to the pages it has been through, `SkipInv` what has been collected to
  them; four kinds of steps are lemmas (a page, a bad answer, the call, the end).
* `InOrderAlways`: `Spec => []CollectedInOrder`. `OrderInv` says after every page what the
  property says at the end: the values collected are those of the pages read so far, in order,
  each as it was sent but for fields it was sent without, and for lists that a later page has
  been decoded into (`AsSent`). Fields it was sent without have what the reused array left there
  (`DecodedFacts`, `AppendedFacts`, `CollectedFacts`). What no list can do to another is `HeapInv`: each
  element of `track.Value` leads to an array made for its own place (`InPlace`), and the name of an array
  to be made is not in use; so a page writes only into arrays of places it brings a list for
  (`UsedInPlace`, `PlacedAsSent`), and all else that was collected stays as it was (`StaysAsSent`). That a page appended to the values is the next
  page appended to the flattened ones is `FlattenLast`. `FlattenSeq` is a recursive function:
  `IsFlattening` says what such a function satisfies, `FlatteningExists` and
  `FlatteningsAgree` that there is exactly one. They are inductions, made first-order by the least
  number (`Least`, `UpTo`) that is not in a given *set*.
* `UserCutOut`: `Spec => CutsOutTheUser`. The index is found in bytes and used for characters.
  `BytesAt`: the bytes of a string are those of its characters, one after the other
  from `Off(str, n)` on. `FoundBytes`, `FoundChars`: where a string occurs in characters it
  occurs in bytes, and the other way round only where a character begins, since no character
  is within another one (the encoding is self-synchronising: what is compared are
  pairs of a character and a position in it). `StartsCounted`: the characters that begin in the
  bytes before the index are as many as come before it.

*FilesProofs*, for any forms, any number of uploads and any configuration file:

* `TypeCorrect`, and `ListedOnceAlways` from `UploadInv`: where an upload is in its form
  (`PlacesInv`), which names it has met (`MetInv`), that its list has the first file of each of
  them that could be opened, under its own url (`OwnInv`, `DoneInv`).
* `DownloadedAsUploaded`: `Spec => []DownloadsAsUploaded`. The property only speaks of names that
  one upload has drawn; it is not inductive, as an upload writes what it has not listed
  yet. `DiskInv`: the files on the disk are exactly those that some upload lists or is
  writing; the one being written is empty when it is nobody else's (`WritingInv`), a listed one has
  what was sent, or the beginning of it when the copy failed (`WrittenInv`); an answer lists what
  the upload does. `Create` makes names of a directory, a time and a number: that different
  ones differ needs that the separator is no digit (`Sep \notin Nat`).
* `ConfTypeCorrect`, `MapAlwaysAsMeant` and `ReadAlwaysAsMeant`, of the configuration. The
  invariant says that the map is the one meant of the lines read, and that the section
  is the one that governs the next line. `CommentCut`: cutting at one mark after the
  other is cutting at the first of any; that there is a first is well-foundedness of `<`,
  no induction over the line.

Only model-checked, and why:

* liveness (`FailureReachesAll`, `FetchesEnd`, `StartsOrEnds`, `MessagesEnd`,
  `CanceledReturns`, `ReceiveReturns`) and the violated `GetOfficeTokenReturns` and `TakesOver`: fairness and
  `ENABLED` are out of the prover's reach;
* what `merge` makes of two parts (`ValueMerge` has a `RECURSIVE` operator): TLC compares it
  with the value that was cut (section 2).

Every other invariant and action property of the runs is a theorem, but for those that are there to
be violated.

## 6. What is not modelled

* *OAuth pages* of `auth.go`: they relay a request. The global `tenant`, which two
  requests may race for, decides only which token such a page shows.
* *Rooms and users* (`meeting.go`), `subscriptions` and `deleteSubscription` of
  `local.go`: single requests without state. Where their callers ask for a token
  they are the outside calls of `Subscriptions`.
* `GetOfficeTokenList`, `InsertOrUpdateSubcribe`, the conversation map of
  `sns_common.go`, `epslack.go`: without callers, or never registered.
* What a registration does after its search (the mail, the table of ids): the
  program does not get there (section 4).
* The pages that only read, the mail dialogue, logging, the bean factory (filled
  before anything is served), routes, tests, `dingding` and the data of the editor.
* *Vendored code*, which is nine tenths of the Go files: nothing of `officeapp`, `sns` or
  `ricoh/common` calls `cloud.google.com/go` or the packages of the editor. Modelled of
  it is where goroutines share state; the rest of the clients is types, conversions
  and requests without state on this side, the completion and formatting packages of
  the editor are parsers and printers that run once in one goroutine. They
  make the share of the repository's lines that is modelled small.
* Of the Spanner client: single-use and write-only transactions (they are a read-write one
  without the sharing), timestamps, keys and values, the delays between retries, and how
  `partialResultQueue` keeps its elements in a ring.
* Of the Pub/Sub client: the streaming iterator, which is switched off (iterator.go:56) and
  works on a gRPC stream of requests and responses; publishing, whose state is in a bundler that
  is not part of the repository; that a second `Receive` at a time is refused.
* A request that `Get` of officeapp repeats for as long as the answer is 401
  (default.go:293), and a removal of a plugin whose condition is malformed
  (pageController.go:93), are in the models; no property is stated of them, as the code
  promises nothing about either.
* Of the data: wording of messages, times, URLs, profiles. The JSON decoder, the
  cache, the session store, MySQL and the file system are modelled by what the code
  sees of them. A write of `io.Copy` is one step: two uploads into one file, which
  takes a clock that stands still, may in truth mix.
* `Crash` and `Restart` are in `TokenTask`, `Subscriptions` and `Dispatch`. The
  session store and the map of the registration live in memory and start empty;
  the file store keeps whole files, and nobody knows the name of one whose upload
  was cut off; the sessions of Spanner are the service's and expire there.

## 7. The plan

The order is that of importance: first the task all of `officeapp` waits for, with
its abstract specification; the composition with what depends on it; then the shared
state of `sns`; the algorithms; then the vendored clients with the most concurrency. What
is left, in order:

1. *Abstract specifications.* What the session manager promises (an account has at
   most one session) beside what it keeps; a mailbox that `Dispatch` implements.
2. *Composition.* `Subscriptions` with `DeltaSync` in the place of the choice in
   `Request`, so that a page that asks for a token in the middle of a run is one;
   `Session` with the pages of `Dispatch`.
3. *The rest.* The streaming iterator of `cloud.google.com/go/pubsub`, its promises being those
   of the polling one; `InsertOrUpdate` of `basedao.go` as the two
   statements it is, with the webhook that stores an account twice; the OAuth pages with the global
   `tenant`.

## 8. Running it

    tlc -workers 2 -config MCTokenTask.cfg MCTokenTask     # and so on, one per run
    tlapm TokenTaskProofs.tla                              # and so on, one per module of proofs

`PROJECT.json` lists components, runs, mutants, the map from definitions to source
lines, findings, hazards and theorems. The longest runs (`token_task`, `dispatch`,
`subscriptions`, `sns_pages`, `spanner`, `streams`) take one to three minutes, the proofs about twelve minutes in all.
