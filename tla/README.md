# Verification of slidge-whatsapp

slidge-whatsapp is an XMPP gateway to WhatsApp in two languages. A Go package
(`src/slidge_whatsapp/*.go`) wraps whatsmeow, the WhatsApp client library; a
Python package (`src/slidge_whatsapp/*.py`) is a plugin of slidge, the gateway
framework, and calls the Go package through gopy. whatsmeow is a library whose source
the repository carries (`src/slidge_whatsapp/vendor/go.mau.fi/whatsmeow/`): the few
things a module needs of it are modelled from that source. slidge and WhatsApp's servers
are not in the repository: what a module needs of them it models from how this code uses
them, and marks external.

## The system

Threads:

* the **asyncio loop**, one Python thread. Every Go function Python calls runs on
  it, and holds it until it returns;
* **whatsmeow's goroutines**, which call `Session.handleEvent`: the queue of
  handlers of each client, and goroutines started for single events (`Connected`,
  `LoggedOut`, `KeepAliveTimeout`). whatsmeow recovers a panic of a handler; the
  event is then lost;
* the **worker** of `Gateway.Init`, one for all sessions, which runs the closures
  of `callChan` (capacity 1024) and through them the Python handlers;
* goroutines of the session itself: QR codes, presence refresh, reconnection,
  avatars. A panic there ends the process.

| Component | State | Operations | Hard part |
|---|---|---|---|
| Event pipeline | `callChan`, the worker's call, `__connected`, `contacts.ready`, `bookmarks.ready` | `propagateEvent`, worker, `handle_event`, `login`, fills, `on_preferences` | one worker for all sessions, which may wait for the loop, which may wait for the worker |
| Session life cycle | `Session.client`, `ctx`, `presenceChan` | `Login`, `Disconnect`, `Logout`, `handleEvent(LoggedOut)`, `SendPresence` | fields read and written by two threads with no lock |
| Presence refresh | timer, `presence`, `timerStopped`, `presenceChan` | the goroutine of `Login`, `SendPresence` | a timer racing a change of presence |
| Keep-alive reconnection | the client's connection, retry interval | `handleEvent(KeepAliveTimeout)` | several retry loops at once, disconnection meanwhile |
| Pairing and device store | whatsmeow's device table, `legacy_module_data["device_id"]`, `Session.device` | `handleEvent(PairSuccess)`, `CleanupSession`, `on_wa_pair`, `unregister` | two databases and a crash between their updates |
| Groups | participants, subject, `n_participants` | `newGroup`, `newGroupEvent`, `update_whatsapp_info`, `fill` | a snapshot and later events, partial updates |
| History | `history_requested`, archive | `backfill`, `RequestMessageHistory`, `newEventFromHistory` | once per logout, duplicates |
| Addressing | none (pure) | `newActor`, `newChat`, `get_sender_lid` | phone numbers and LIDs of the same person |
| Messages | the archive of rooms | `newMessageEvent`, `newEventFromHistory`, `on_wa_message`, `SendMessage`, `getMessagePayload`, mixins | the same message live and from history; features of a text that get into each other's way |
| Attachments | temporary files | `getMessageAttachments`, `convertAttachment`, `uploadAttachment`, package `media`, `on_wa_msg_attachment` | files nobody removes; a type that is not that of the data |
| Avatars | `lastAvatarCall`, avatar ids | `RequestAvatar`, `on_wa_avatar` | goroutines that outlive their client |
| Sent dates | `AutoExpiryStore` | `add`, `is_editable`, `is_retractable` | expiry, restart |

How they interact: events go from whatsmeow through the pipeline to the Python
handlers of the other components; commands go the other way, by synchronous calls
on the loop's thread. The life cycle decides when a client exists; the pipeline's
gate decides when its events may be handled.

What makes each component correct:

* pipeline: each event handled once, in its thread's order; `__connected` resolved
  once; every event handled in the end; a call on the loop's thread returns;
* life cycle: no operation panics; when no call is under way, `client`, `ctx` and
  `presenceChan` belong to the same login; an old client's events do not end a new
  login; no connected client is forgotten;
* presence refresh: while the user is available the subscription is renewed;
  `SendPresence` returns; goroutines of ended logins end;
* reconnection: the interval stays between its bounds; a session that was
  disconnected stays so; retrying stops once connected;
* pairing: after a restart the gateway finds the device it paired; no device is
  left behind; a device in use is never cleaned up;
* groups: after all events are applied the room agrees with WhatsApp;
* history: a hole is asked for once per logout; what a room got is not shown again;
* addressing: a message is attributed to who wrote it, and shown where he did, whatever
  identifiers of his are known;
* attachments: every temporary file is removed; a file is announced as what it is;
* sent dates: a message can be corrected and retracted for as long as the code means.

## Plan

In this order, the most important behaviour first:

1. `EventPipeline`, with the abstract `EventDelivery` it implements, and
   `EventPipelineProofs` (done);
2. `SessionLifecycle`: the shared fields under concurrent calls, and
   `SessionLifecycleProofs` (done);
3. `PresenceRefresh` with `PresenceRefreshProofs` (done): the goroutine a session
   keeps for presences;
4. `Registration` with `RegistrationProofs` (done): pairing, the two databases,
   restarts;
5. `GroupSync` with `GroupSyncProofs` (done; with it when history is asked for);
6. `Media` and `Outgoing`, with `OutgoingProofs` (done): what is sent, its files and dates;
7. `Addressing` and `Incoming`, with `IncomingProofs` (done): what is received, live and
   from history, and the files that come with it.

The project keeps to a dozen runs, each on a question of its own. Three violations that
an earlier stage showed by runs (of the presence refresh, of `unregister`, of the group's
setter of a description) are told in the sections of their modules and have no run.

Abstract specifications: `EventDelivery` (each event once, in order), which the pipeline
implements. A session that is only *off* or *on*, and the paired device as one atomic fact,
would be two more; what they would say is stated by invariants instead (`Consistent` and
`OneConnection`, `Remembered`). Every invariant a run checks is proved, `StallShape` in
another form (see the end).

## EventPipeline

| State | Code |
|---|---|
| `callChan` | `Gateway.callChan`; `Capacity` is `maxConcurrentGatewayCalls` |
| `sending` | the goroutine in `propagateEvent`, its closure made and not yet in the channel |
| `worker` | the closure the goroutine of `Gateway.Init` is running |
| `coro` | the coroutine `make_sync` handed to the loop and waits for |
| `loopQ` | callbacks the loop has yet to run, first in first out |
| `loop` | whether the loop's thread is inside `GetContacts(refresh=True)` |
| `login`, `logged`, `future` | slidge's login, `Session.logged`, `Session.__connected` |
| `ready` | which of `contacts.ready` and `bookmarks.ready` are done; they stay done |
| `client`, `announced` | `Session.client` and its connection; whether its Connect event is in the channel or past it |
| `raised`, `handled` | history: how many events a thread has raised, and the last of them handled |

Kinds of event are those the gate of `handle_event` treats differently: `connect`
and `failure` (both `EventConnect`), `loggedOut`, `pair` (which stands for the QR
code too) and `message` for everything that waits for the fills. What slidge does
around `login()` is modelled from how the code uses it: `logged` is set when
`login()` returns, then the roster and the bookmarks are filled, each setting its
future; a fill that raises ends the login there.

Two simplifications. A thread dispatches only while its client is up: an event
computed before a disconnection and sent after it belongs to the life cycle.
A session's loop thread stands as one more producer, since `FetchAppState`
dispatches on the thread that calls it.

`Adverse` names what a run lets go wrong: `overtake` (an event of a connection
before its Connect event: whatsmeow dispatches `Connected` from a goroutine of its
own, after an exchange with the server), `query` (a query WhatsApp does not answer),
`logout` (before the fills are over), `refresh` (the preference that refetches the
roster).

Fairness: weak for the worker and the loop, which the runtimes never suspend for
ever; strong for `Send`, because a channel's blocked senders are woken in FIFO
order, while capacity comes and goes. Nothing the user or WhatsApp does is fair.

### Runs

| Run | Instance | Shows |
|---|---|---|
| `PipelineSafety` | 1 session, 2 threads of its client, capacity 2, 2 events per thread, roster refreshed at login, every kind, everything adverse (823k states) | `TypeOK`; `InOrder`; `ResolvedOnce`; `StallShape`: if nothing can move while events are outstanding, the worker waits for a session whose login is not past its Connect event or was given up, or the loop's thread is sending on the full channel; `Delivers`: implements `EventDelivery` |
| `PipelineLiveness` | 2 sessions, one thread each, capacity 1, 2 events per thread, nothing adverse (42k states) | `WaitsForFill`; `Forwarded`: every event of every session is handled |
| `PipelineOvertake` | 1 session, 2 threads, capacity 1, 1 event per thread | `ConnectForwarded` is violated: see Finding |

Two events per thread are enough for a second event behind a first and, with two
threads and the loop's thread, for more events than the channel holds, so senders
block, race and are let in again; a capacity of 1 or 2 instead of 1024 only makes
the full channel come sooner. Deadlock is not checked: the bound on events, and
the stalls described below, both end a behaviour.

### Finding

* `PipelineOvertake` (`session.py:120`): a message taken before the Connect event
  of its connection waits for `contacts.ready`, which is set only after `login()`
  has returned, which waits for the Connect event behind the message, and the worker
  is the same for all users.

The other stall `StallShape` names is not shown by a run of its own: a refresh on the
loop's thread (`session.go:477`, called from `session.py:481`, or from the roster fill
with `ALWAYS_SYNC_ROSTER`, `contact.py:103`) that meets a full channel waits for the
worker, which waits for the loop.

### Proofs

`EventPipelineProofs` proves, for any sessions, threads, capacity and bounds that
satisfy `PipelineAssumption`:

* `TypeCorrect`, and with it that the channel never exceeds its capacity. `Take`
  and `Dispatch` need no more than types, but `Finish` reads `worker.from`, so the
  type invariant is proved together with `LoopShape`: a coroutine exists exactly
  while the worker waits for one, and what the loop has to run is at most one
  callback and, behind it, one event;
* `ConnectedResolvedOnce`: from `LoopShape`, the coroutine that queues a callback
  runs only behind the callback of an earlier one, so it finds the future done or
  no callback queued;
* `EventsInOrder`: `InOrder` is inductive as its conjuncts stand together.
  `NothingLost` needs that the worker's event is the next one (`WorkerHasNext`),
  which needs the channel sorted (`ChannelSorted`), which needs that an event still
  being sent is the last of its thread (`SendingLast`); each action disturbs few of them;
* `ImplementsDelivery`: with those invariants a `Propagate` is a `DRaise`, `Take` a
  `DBegin`, `Finish` a `DFinish`, everything else stutters.

* `StoppedEventsWillBeFilled`: `WaitsForFill`, assuming `Benign`: of `Adverse` at most
  `refresh`, and only `connect`, `pair` and `message` raised. Its invariant `FillInv`
  follows a session along the pipeline. Nothing of it is anywhere before its login
  (`StartedFirst`); a login that is under way is not undone (`NoFailure`, `Steady`,
  `Fetching`); and no message is ahead of the Connect event of its connection, whether it
  is being sent (`SendingAfter`), in the channel (`QueuedAfter`) or at the worker
  (`WorkedAfter`), and that event, once announced, is not lost (`AnnouncedComes`). Each
  excluded adversity, and each excluded kind, breaks it by itself, as TLC shows, so that
  the theorem says what keeps the gateway from the stall `PipelineOvertake` finds;
* `StallsInTwoWays`, without assumptions: `StallShape` with the guards of the actions of
  `Progress` (`CanProgress`) in the place of `ENABLED`, which the provers cannot expand.
  It needs of the loop that a scheduled coroutine has its callback queued, and that who
  fetches the roster has the loop.

* `OnlyFetchesStall`: under `Benign` the first of the two stalls is gone, by `FillInv`: the
  session the coroutine waits for has its login past the Connect event. `NeverStalls`:
  without refreshes and `ALWAYS_SYNC_ROSTER` the second is gone too, since nothing then
  fetches the roster on the loop's thread (`Unfetched`), and the gateway can take a step
  as long as an event is in it;
* `WorkGoesDown`, whatever is adverse, for finite sets of sessions and threads: each step of
  `Progress` lowers `Work`, a natural number, which weighs an event by the stages before it
  (blocked, in the channel, at the worker) and counts the callbacks and the steps of the
  logins that are to come. So the gateway takes finitely many steps by itself between two of
  the others. With `NeverStalls` this is what `Forwarded` rests on: that it then follows
  under the fairness of `FairSpec` is not proved.

Liveness (`Forwarded`), and `StallShape` as it is stated, are checked by TLC only. That
the sessions are no goroutines is part of `PipelineAssumption`, since both are producers
and `SessionOf` tells them apart.

## SessionLifecycle

| State | Code |
|---|---|
| `client`, `ctx`, `presenceChan` | the fields of `Session`, by the number of the login that made the value; 0 is nil |
| `cancelled`, `closed` | the contexts cancelled by `ctxCancel`, the channels closed |
| `conn`, `paired`, `deleted` | of each client: connected (or reconnecting by itself), whether `Store.ID` is set, whether its store was deleted |
| `pc` | the statement each thread is at: `Python`, the goroutine that runs the handler of `LoggedOut` for client g, the goroutine started by `KeepAliveTimeout` |
| `dialled` | the client a reconnecting goroutine has read from the field |
| `crashed` | a panic outside an event handler, which ends the process |

A step is one statement that reads or writes a shared field: the check for nil, the
call on the client, `ctxCancel`, the assignment of nil, `close`. What whatsmeow does
with a nil client is modelled as it does it: `Disconnect`, `Logout` and
`SendPresence` accept one, `Connect`, `AddEventHandler` and `.Store` do not.
`Logout` is the last call of a session: slidge calls it from `unregister`.
The other methods that check `client` and `Store.ID` and then use the client
repeat `SendPresence`, which alone also uses the channel.

`Overlap` says whether calls of two threads may interleave. The code has no lock, so
they may; without it, what remains are the orders of complete calls, including
handlers that run long after the event that started them. `Adverse` adds a
remote logout that fails, a `Login` over a connected client, and keep-alive time-outs.

| Run | Instance | Shows |
|---|---|---|
| `LifecycleSequential` | 3 logins, complete calls, failing logouts and replaced clients (10k states) | `TypeOK`, `Consistent`: whatever the order of calls, a session with a client has an open channel and a live context; `LoggedOutHeard`: every unlinking is announced |
| `LifecycleConnections` | 3 logins, complete calls, keep-alive time-outs (156k states) | `OneConnection`: no client but the session's own stays connected; `OnlyStranded`: nothing panics, but for a goroutine that reconnects and finds the session disconnected |
| `LifecyclePresence` | 1 login, overlapping calls | `PresenceReturns` is violated |

Three logins let an event of the first meet the client of the third with the second
ended in between; the violation needs one. Only `LifecycleSequential` uses fairness:
a call that has begun ends and a `LoggedOut` handler that was started runs. It is
strong because without `Overlap` a goroutine has no turn while Python is in a call,
where the real one would be scheduled. What Python calls, and WhatsApp, are not fair.

Finding:

* `LifecyclePresence` (`session.go:443`): a `LoggedOut` handler between the check and
  the use makes `SendPresence` dereference nil or send on a closed channel.

`OnlyStranded` and `Consistent` are false with `Overlap`: besides `LifecyclePresence`, two
calls of `Disconnect`, by Python and by the handler of `LoggedOut`, may both pass the check
for nil and close the channel twice (`session.go:193`). No text of the repository speaks of
this, so no run does, and the runs above do not catch it. The model shows two more
consequences: a `LoggedOut` handler that runs after the next login disconnects the newer
client, which no run states; and the goroutine a keep-alive time-out starts reads `s.client`
anew after each sleep (`session.go:917`), so once the session is disconnected it calls
`Connect` on nil, where nothing recovers the panic. That is the case `OnlyStranded` names,
and it shows that there is no other as long as calls are complete.

Proofs (`SessionLifecycleProofs`, any number of logins): `LifecycleTypeCorrect` holds of
every instance. `SequentialCallsConsistent` assumes `~ Overlap` alone, so that any number of
goroutines may reconnect, and so does `OnlyReconnectingPanics`, which is `OnlyStranded`: no
`LoggedOut` event is lost (`Heard`), and the process ends only where a goroutine that
reconnects finds the client gone (`CrashStranded`). If keep-alives do not time out, nothing
panics at all (`SequentialCallsNeverPanic`). The invariant `SeqInv` says that at most one
thread is inside a call (`OneBusy`), that contexts, channels and clients are numbered no
higher than the login that made them (`Numbered`), and, for each statement a call may stand
at, what the statements before it have established (`Stage`): at `disconnect.close`, say,
the client is nil and the channel still open. `Consistent` is the stage of an idle thread,
and `Heard` is inductive because each statement of a call that may panic is guarded by its
stage; that of the goroutine, between two attempts to connect, is not.

`NoForgottenConnection` is `OneConnection`, with keep-alive time-outs and any number of
reconnecting goroutines, assuming `Settled`: calls do not overlap, `Login` finds no
connected client, and WhatsApp refuses no logout. `OneConnection` speaks of a session
with no call under way, so its invariant `ConnInv` says it at every step (`OwnUp`), and
what the statements before have cut (`Cut`): where the client is about to be replaced or
forgotten nothing is connected; where a logout is sent, a client that is connected is
paired, or the logout would fail; and a goroutine that dials has read the client the
session still has. Each of the three assumptions is needed: without it TLC finds a client
that stays connected and that no field names.

## PresenceRefresh

| State | Code |
|---|---|
| `client`, `presenceChan`, `closed` | as in `SessionLifecycle` |
| `buffer` | the one place of each `presenceChan` |
| `at`, `on` | what the goroutine of each login does, and the channel its `select` waits for: it reads the field anew each time |
| `timer`, `presence` | its `timerStopped` and `presence`; the length of the interval is left out |
| `greeting` | the handler of `Connected`, between the Connect event and its own `SendPresence` |
| `call` | Python inside `SendPresence`: sending to the channel, or to WhatsApp |
| `status` | our presence as WhatsApp knows it, which starts as unavailable with each client |

`Login` and `Disconnect` take one step here and calls of Python do not overlap
them: `SessionLifecycle` has what happens when they do. `Adverse` adds
a `Login` without a `Disconnect` (`replace`), before the earlier goroutine or handler
has ended (`linger`), a client that reconnects by itself (`reconnect`), a presence of
the adapter between the Connect event and the handler's own (`overtake`), and a presence
that WhatsApp does not get (`query`).

| Run | Instance | Shows |
|---|---|---|
| `PresenceSequential` | 3 logins, nothing adverse (3.5k states) | `TypeOK`; `Served`, `SendReturns`: `SendPresence` on the loop's thread never waits for a goroutine that has gone or listens elsewhere; `Agreement`, `RefreshersEnd`, `RefreshOnlyAvailable`, `RefreshWhenAvailable`: what the comment in `Login` promises |

Three logins let a goroutine end while the channels of the next two come and go.
What is adverse is left to `RefresherServes` below, which covers every combination. The
fairness is that of goroutines; it is strong for the ways out of a `select`, which takes
one of those ready at random, and for the timer, which keeps running while the goroutine
is elsewhere. Logins, presences and reconnections are not fair.

`RefreshWhenAvailable` is false with `reconnect`: the `Connected` handler (`session.go:861`)
tells WhatsApp we are available, and not the goroutine. If we were unavailable when the
client reconnected by itself, presences are not refreshed until the next change of presence.
With `replace`, two goroutines may wait for one channel, and a presence reaches only one of
them; no run states that, since `Login` does not say it may be called again. With `linger`
the goroutine of an earlier login may wait for the channel of the next, take a presence
meant for its goroutine and go on refreshing. `PresenceSequential` leaves all of these out
and does not catch them; `RefresherServes` includes them, and says only that the goroutine
of the current login is there as well.

Proofs (`PresenceRefreshProofs`, any number of logins, everything adverse):
`RefresherServes` is `Served`. The channels that are closed are those of earlier
logins (`Closed`), so the goroutine of the current one, whose only channel is the
current one, never meets a closed channel. `PresenceTypeCorrect` needs in
addition that who uses a channel has one (`Made`). That `SendPresence` then returns
needs fairness and is TLC's (`SendReturns`).

`RefresherAgreesWithWhatsApp` is `Agreement`, assuming that nothing is adverse; each of
the five adversities breaks it by itself. Its invariant `AgreeInv` says that the current
login has the session to itself: earlier goroutines have ended and their handlers send
nothing more (`Alone`), later ones have not begun (`Ahead`). Then one presence is on its
way at a time, and the last, in the channel or taken, is what WhatsApp knows or is
about to be told (`Agreed`): `SendPresence` sends to the channel and then to WhatsApp.

## Registration

| State | Code |
|---|---|
| `pairings`, `owner`, `phone` | the devices ever paired, numbered in their order, with the user and the phone number of each |
| `linked` | WhatsApp's own list of linked devices (external) |
| `rows` | whatsmeow's table of devices, `Gateway.container` |
| `saved`, `registered` | `legacy_module_data["device_id"]` and the users in slidge's database |
| `device` | `Session.device.ID` |
| `client`, `store` | whether `Session.client` is set, and its `Store.ID` |
| `pc`, `obsolete` | the handler of each `PairSuccess`, and `unregister` on the loop's thread: where they are, and the rows `CleanupSession` is still to delete |
| `leaver` | the user `unregister` was called for, while it cleans up |
| `events` | the `EventPairDeviceID`s between `propagateEvent` and `on_wa_pair`, which `EventPipeline` delivers once and in order |

The disk holds `linked`, `rows`, `saved` and `registered`; `Restart`, possible at any
time, keeps these and sets up the sessions again from `saved`, as `Session.__init__`
does. Pairing is four steps: whatsmeow's (row, link, `Store.ID`), the handler's
(`Session.device`, the event), the clean-up, row by row, and on the loop's thread
`on_wa_pair`. A row always has an ID here, as whatsmeow writes none without: the
branch of `CleanupSession` for invalid devices never applies. `Adverse` adds two users
of one phone (`shared`), a pairing before the handler of the last one has ended
(`linger`), and failures of WhatsApp's logout and of the table.

| Run | Instance | Shows |
|---|---|---|
| `RegistrationSafety` | 2 users, 2 phones, 2 pairings, logouts and reads of the table may fail (151k states) | `TypeOK`; `ClientHasRow`: no clean-up deletes the row of a connected session; `Remembered`: what a session uses is what a restart finds; `OneRow`: rows left by a crash are gone once the next pairing is cleaned up; `StoredInTheEnd` |

Two pairings give a user a device to forget and one to keep, or each user one. Handlers,
the clean-up of `unregister` and the event loop are fair, strongly where another user's
`unregister` holds the loop's thread in between. Logins, pairings, what is done on the
phone, and restarts are not.

Seen while modelling (`session.go:172`): unregistering without a client, or with one whose
logout fails, leaves the device linked; the row stays in the first case, since
`CleanupSession` spares the device it is given.

`ClientHasRow` is false with `shared`: the clean-up after a pairing takes every other
device of the same phone number for obsolete, also another user's (`gateway.go:121`). It
is false with `linger` too: the clean-up of an earlier pairing, still under way, may
delete the row of the next one. No text of the repository speaks of either, so no run
does; the theorem below assumes them away by name.

Proofs (`RegistrationProofs`, any users, phones and number of pairings):
`RegistrationTypeCorrect` holds whatever is adverse. `OnlySharedRowsDeleted` says, with
restarts, every failure and phones in common, assuming no `linger`, that the row of a
connected session is there, or its phone is another user's too (`Shares`).
`ClientHasRow` says nothing of the threads that delete rows, so it is not inductive. The
invariant adds that what a user's session, disk and events name are devices the user
paired (`Owned`), that of a user's pairings at most one is being handled (`OneHandler`),
what device a clean-up is for while it lasts (`Cleaning`), and that the device in use is
not among the rows it is to delete, which are of its own user or of a phone that is shared
(`Spared`). `NoRowInUseDeleted` is `ClientHasRow`, assuming `Solo`: neither `shared` nor
`linger`; without `shared` no phone ever is (`Unshared`).

`PairingsRemembered` is `Remembered`, whatever is adverse. It speaks of a user with nothing
under way; its invariant `RememberInv` says where the device is meanwhile: the last the
events and the disk tell is that of the session (`Told`), and the device of the client is
that of the session, or one whose `PairSuccess` is still to be handled (`Held`).

`OneRowPerPhone` is `OneRow`, with restarts and phones in common, assuming neither `linger`
nor `deleteFails`; with either TLC finds an old row that stays (`linger` takes three
pairings and two phones). Its invariant `TidyInv` says that a clean-up has found every
earlier row of its phone and loses none before it is deleted (`Emptying`), which needs
that the device it spares is its own: the session has that of the handler since
`PairSuccess` (`Itself`), and a client without a device has none in the table
(`Unpaired`). `StoredInTheEnd` is TLC's.

## GroupSync

| State | Code |
|---|---|
| `role`, `topic`, `linked`, `mail` | WhatsApp (external): who is in the group as what, who set its description, our device, and the notifications it keeps for the device |
| `line` | events between `handleEvent` and the Python handlers, which `EventPipeline` delivers once and in order; `Connect` and `LoggedOut` pass the gate |
| `connected` | `Session.client` and its connection |
| `fill`, `groups` | how far `login()` and `Bookmarks.fill` behind it are, and what `GetGroups` returned |
| `gate` | `bookmarks.ready`, which stays done |
| `aff`, `hats`, `subject` | the room: affiliations of the participants, the hat of the owner, the subject |
| `asked` | `MUC.history_requested` |
| `hole` | messages were missed for which no history was requested |
| `untold`, `unheard` | history: whose leaving the room cannot hear of; whether a restart lost a `LoggedOut` |

A group in full (`Fill`) and a change (`Update`) both go through
`update_whatsapp_info`. A group in full only adds and changes participants: nothing
removes those the group no longer has. An empty topic is taken
for none. Looking up who set the topic makes him a participant. Changes at WhatsApp go
to `mail` while the device is linked; an unlinking discards them. A restart loses
`line`, while slidge keeps rooms and `history_requested` in its database (external: the
attributes `serialize_extra_attributes` returns).

One group stands for all, since nothing in the code relates two. A topic is known by
its setter, which tells two topics apart whenever the room can; the setter's JID is taken
as known. A handler runs in one step: the worker waits for it. Left out: our own
participant, nicknames, avatars, `n_participants`, and what users do to groups.

`Again` says whether a process may log in again with its gate open or events of the
earlier login to handle. The code allows it and the runs leave it out: then a group
fetched before an event can be applied after it (`group.py:346`), `bookmarks.ready`
being done since the first login, and `NobodyMissing` is false until the next login. It
is false too where a device was unlinked and paired anew while events of the earlier
pairing waited: the Connect event of the earlier login answers the new one, and the old
events are applied to the group as it is now. The theorems below show that nothing else
makes it false.

| Run | Instance | Shows |
|---|---|---|
| `GroupSafety` | 2 people, 4 changes or unlinkings (2.6M states) | `TypeOK`; `NobodyMissing`, `SubjectAgrees`: once all that was told is applied, the room has everybody with the right affiliation, and the subject; `GhostsKnown`: who is in it and has gone is somebody whose leaving it could not hear of; `HoleAsked`: missed history is going to be asked for, unless a restart lost the `LoggedOut` |

Two people are the owner and one who joins, is promoted and leaves, in either part; four
changes let somebody be promoted or leave on either side of an unlinking or restart and
of a snapshot. All properties are of states, and no fairness is assumed.

That a room lists nobody else is false, and `GhostsKnown` does not say it: who set the
description and left since becomes a participant again at the next login (`group.py:196`).

Proofs (`GroupSyncProofs`, any people and number of changes): `NobodyMissedUncrossed` is
`NobodyMissing`, however often a process logs in, for behaviours in which no event is
handled between `GetGroups` and the fill (`Uncrossed`) and who pairs anew finds no event
of an earlier pairing in line (`Afresh`). TLC finds it false without either. One login per
process (`~ Again`) does both, since the gate opens at the end of the fill and no fill
follows (`FillBeforeGate`, `OneLogin`): that is `RoomMissesNobody`. The property speaks only
of the state in which nothing is under way; its invariant `GroupInv` says, for each place
where knowledge of the group waits, that the last thing told of each person there is true:
the mail (`MailIsTrue`), behind it the line (`LineIsTrue`), behind it the groups fetched
(`FetchedIsTrue`), and, if none of these speaks of him and the session is connected and
filled, the room (`RoomIsTrue`). It also needs that an unpaired device has no mail
(`NoMail`), and that no event concerns who owns the group (`OwnerUntouched`).

`SubjectUncrossed` is `SubjectAgrees`, under the same two conditions, and `GhostsUncrossed`
is `GhostsKnown`, under `Uncrossed` alone; `RoomHasItsSubject` and `GhostsAreKnown` are what
they come to with `~ Again`. They go the same way: the last change of the topic that mail
and line tell, or else what was fetched, or else the room, has the topic (`SubjectIsTrue`);
and of who is out of the group, with nothing lost of it, the last that is told is that he
left, or else he is neither in what was fetched nor in the room (`GhostsAreTold`). A topic
counts there as told of him, since who set it becomes a participant.

`GroupTypeCorrect` assumes nothing, and neither does `HolesAreAskedFor`, which is
`HoleAsked`: the property is inductive with the types, since an unlinking puts the
`LoggedOut` in line in the step that tells the device of it.

## Media and Outgoing

`Media` has no state: it is the tables of package `media` and of `convertAttachment`, by
kinds of file (`Type`), what is found out of one (`File`), the conversion `event.go` decides
on (`Target`), and the tool `Convert` runs for it (`Tool`: FFmpeg, the image codecs, MuPDF,
or none, which is an error). `Outgoing` takes the steps.

| State | Code |
|---|---|
| `now`, `dates` | the clock and `sent_msg_date_store._store` |
| `sent`, `count` | history: what this process has sent, and when; how many messages ever |
| `pc` | the running call: the media function it is in (`MediaStep`), the upload, the send, a correction or retraction; `panicked` is the end of the process |
| `asked` | history: the text to be sent, or the type told of the attachment |
| `att` | `Attachment`: its `MIME`, its data, and whether the cached `spec` describes them (`itself`), or what they were before a conversion (`source`) |
| `files`, `deferred`, `at` | temporary files this process has made; how many the running media function has deferred the removal of; whether it is writing one, or has one made and its removal not yet deferred |

A text is what `getMessagePayload` asks of it: whom it answers, a link preview, a mention,
a place. A file is a type, what a probe would tell, and a size by the limits it exceeds. A
media function takes a step for each thing that may make it return early: a file is created,
the data are written to it (`createTempFile` itself removes a file it cannot write), its
removal is deferred, and with all files made the tool runs. An early return removes what is
deferred by then, and nothing else (`Return`).
Calls run on the asyncio thread one at a time, and so does the clean-up of dates; the
clock runs on meanwhile. A restart may come at any step: it forgets `dates`, so that older
messages can be neither corrected nor retracted, as `DatesKept` says by speaking of what
*this process* has sent.

| Run | Instance | Shows |
|---|---|---|
| `OutgoingSafety` | 2 messages of any kind, clock up to 4, 1 unit for editing and 3 for retracting (399k states) | `TypeOK`; `DatesKept`: corrections and retractions are possible exactly as long as meant; `NoLeftovers`: at whichever step a media function returns, no temporary file outlives it; `SupportedConversion`: `convertAttachment` asks for no conversion `Convert` refuses; `Announced`: a type that is not the sender's word is that of the data; `PanicShape`: for which texts the process ends |

Two messages let one be cleaned up while the other is fresh; with 4 units of time, one can
be sent, pass both limits and be cleaned up. Every text and every file of the tables is
tried in both places. All properties are of states; no fairness is assumed. `panicked` is a
state of its own because a panic on a thread that called from Python ends the process.

`PanicShape` names the two dereferences of nil in `getMessagePayload`. An answer in a group
to somebody without a LID, or in a direct chat to somebody without a number, makes a plain
payload (`session.go:328`), to whose `ExtendedTextMessage`, nil, a link preview or a mention
is then written. And a place is written into the `LocationMessage`, nil, of a payload that
another feature has made (`session.go:377`). Also seen: a place with neither coordinate
positive is sent as its text (`session.go:373`); and the spec cached before a conversion goes
on describing the data (`known = "source"`), so a GIF sent as MP4 has neither
duration nor size.

Proofs (`OutgoingProofs`, any bounds, any times with editing no longer than retracting):
`PanicShape` is inductive by itself. For the others the invariant `OutInv` adds to what
they state that between calls there is no attachment and what is being converted is of a
type that has a conversion (`Staged`), from which the tables give `ConversionsExist`; and
that a date is that of its message, and is missing only once the time for retracting is
past (`Dated`), which is why a clean-up, however late, changes no answer. `NoLeftovers` speaks
of functions that have returned; `OutInv` says which files there are at each step of one
(`Tracked`): those deferred and, between its creation and its `defer`, one more.

A restart counts as the end of the files here, as it is of the function: what a process
leaves behind that ends between two of these steps is not looked at, nor is an `os.Remove`
that fails, whose error the code drops. `ffprobe` returns without `cmd.Wait` when it cannot
read the output (`media/ffmpeg.go:63`): the file goes, the process that has ended is not
waited for; processes are not modelled.

## Addressing and Incoming

`Addressing` is `newActor`, `newChat` and `__get_contact_or_participant` as operators.
A person has a phone number and a LID; the device's store maps some of one to the other
(`known`), and may or may not have our own (`ownLid`). `Incoming` applies them to each way
WhatsApp may name the chat and the people of a message.

| State | Code |
|---|---|
| `mails` | WhatsApp (external): who wrote what, in the room or to whom, oneself included, quoting or removing whose |
| `known`, `ownLid` | the device store (external) |
| `run` | processes, counted |
| `events` | history: what each arrival of a message was made into |
| `making` | the event that the goroutine of live messages, and that of history, is preparing: between `newMessageEvent` or `newEventFromHistory` and `propagateEvent` |
| `batch` | conversations of a `HistorySync` still to be gone through |
| `line`, `handling` | events in the channel; the one `on_wa_message` has begun with |
| `archive` | what slidge has archived of rooms (external), where history is looked up |
| `disk` | the events whose file lies in the temporary directory |
| `shown`, `skipped`, `interrupted` | history: what was shown, in order; files of events skipped as archived, and of events whose handler raised before the `try` that removes them |

Edits, reactions, places, polls and small files are kept in memory, and a text stands for
them. A download may fail, and so may each part of `on_wa_message`: the lookup of the sender
(`Unresolved`; of the user himself, in a note to oneself, `by_legacy_id` raises
`ContactIsUser`, `session.py:580`, and `handle_event` swallows it), what comes before the
`try` of `on_wa_msg_attachment` (`Interrupted`: `actor.online`, `convert_list`) and the
sending of the files (`SendRaises`). Everything is written before the first arrival, since
only arrivals matter; messages without a file do not raise, which would only lose them; a
history synchronisation comes while messages may still arrive. A restart loses what is in
memory, and neither the archive nor the files.

A message from history names its participant or not (`told`); one that does not is ours, or
is passed over. The user's own identifier is taken for his phone number: when a Connect
event carries an empty one (`session.go:860`), a note to oneself would be shown.

| Run | Instance | Shows |
|---|---|---|
| `IncomingSafety` | us and somebody else, 2 messages, 2 arrivals, 2 processes (3.1M states) | `TypeOK`; `LeakShape`: which files are never removed; `HistoryOnce`: history repeats nothing the room has got; `Attributed`: messages and quotes are attributed to who wrote them, and live messages shown where they were written; `Revoked`: who takes back his own message is not taken for a moderator, nor the reverse |
| `IncomingHistory` | 1 message, 1 arrival | `HistoryInItsRoom` is violated |

Two arrivals are one message twice, live and from history in each order, or a message and
its removal. Two people are the one who has the gateway and another, in a room, where either
may be named by either number, in a direct chat, or one of us alone. All properties are of
states; no fairness is assumed.

`LeakShape` names the files nobody removes, each kind by what tells it apart: those of a
process that was restarted; those of an event whose handler raised before the `try`; from
history, those of messages skipped as archived, and of participants named by their LID,
whose chat cannot be told (`session.py` returns or raises before `on_wa_msg_attachment`);
live, those of notes to oneself; and those of direct chats with another addressed by LIDs,
if his phone number was not known when the message came, or the message is ours and the
store could not tell that: neither our LID nor its mapping was there. A file of a direct
chat addressed by phone numbers, or of a room, live, is among them only for a restart or an
exception. Where the chat or the sender cannot be told the message is lost as well, and so
is one that quotes somebody known by LID alone: `Attributed` speaks of messages that are
shown. `Revoked` excepts removals that name no author, as whatsmeow's of one's own messages:
in a room they are taken for a moderator's.

Finding:

* `IncomingHistory` (`event.go:994`): `jid` is declared again in an inner scope, so
  that the chat of somebody else's message from history is made from its author's
  number, or is empty if he is known by a LID. The message is shown in a room of that name.

Proofs (`IncomingProofs`, any people, messages, arrivals and processes): the invariant
`InInv` rests on what is fixed when an event is begun. `Told` says of each event, by the
message it is of, that its chat and actors are right (`Right`): each of these follows
from `newActor` and `newChat` alone, case by case over the numbers WhatsApp may use, and is
kept, since messages and events do not change. `AttributedToAuthor` and `RemovalsAreTold`
follow for whatever of them is shown. `ShownOnce` needs in addition that what was shown in
a room, and has a body, is archived (`Archived`), and that what is being handled from
history is not (`Fresh`): nothing comes between the look-up and the end, because one event
is handled at a time. `LeaksOnlyThese` needs that a file is of a message
that has one (`Files`), so that no quote is in its way, and which events cannot be resolved,
told by how chat and sender were named when the message came (`LossRight`, part of `Right`);
whoever else lets go of a file has a kind of its own, or removes it.

## What is not modelled

* Avatars: requests are spaced by a mutex and a timer, and an answer may come twice without
  harm. The goroutine of `RequestAvatar` (`session.go:611`) uses the client after its
  check with no `recover`; `SessionLifecycle` shows that window for `SendPresence`.
* The interval of keep-alive retries, which only says how long they wait. It doubles while
  below its maximum of 300 s, and so waits 320 s once.
* The gateway's start-up and configuration, which keep no state once running.
* slidge and whatsmeow, but for what a module marks external. Hence a re-login over a login
  that is pending (`session.py:495`) and a `LoggedOut` during one (`session.py:182`).
* In groups: nicknames, avatars, `n_participants` (`group.py:201` sets it from partial
  updates), and what users do to groups.
* In messages: receipts, reactions going out, chat states, calls, formatting, the
  automatic acceptance of invitations, broadcasts, and the conversion of incoming voice
  messages, which changes no more than their type.
* What FFmpeg, MuPDF and the image codecs compute: success or failure is an outcome.
  The code around them shows that `mupdf.go:27` processes the page when reading it has
  *failed* and returns nothing when it has not, and that `GetWaveform` does not pad its
  samples to the number asked for, as its comment says it does (`media.go:478`).

Liveness under fairness, and what speaks of `ENABLED`, are checked by TLC on small instances
and proved nowhere, being out of the prover's reach: `Forwarded`, `LoggedOutHeard`,
`SendReturns`, `RefreshersEnd`, `RefreshOnlyAvailable`, `RefreshWhenAvailable`,
`StoredInTheEnd`, and `StallShape`. What `StallShape` says is proved with guards in the
place of `ENABLED` (`StallsInTwoWays`); that these guards are those of the actions, on which
that theorem rests to say the same, was seen to hold in every state of `PipelineSafety`'s
instance. Of what liveness rests on, some is proved: `NeverStalls` and `WorkGoesDown` for
`Forwarded`, `OnlyReconnectingPanics` for `LoggedOutHeard`, `RefresherServes` for
`SendReturns`. All other properties of the passing runs are theorems, under the assumptions
named with each.
