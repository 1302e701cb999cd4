--------------------------- MODULE EventPipeline ---------------------------
(***************************************************************************)
(* How an event of a WhatsApp client reaches the Python gateway.           *)
(*                                                                         *)
(* Goroutines of whatsmeow call Session.handleEvent, which pushes a        *)
(* closure on the one bounded channel of the Gateway (gateway.go callChan, *)
(* shared by all sessions).  One worker takes the closures in turn; each   *)
(* runs a coroutine on the asyncio loop and blocks until that coroutine    *)
(* ends (session.py make_sync).  The coroutine of an ordinary event waits  *)
(* until the roster and the bookmarks of its session are filled, which     *)
(* slidge does once login() has returned, which waits for a Connect event. *)
(* Go functions called from Python run on the loop's own thread.           *)
(***************************************************************************)
EXTENDS Naturals, Sequences

CONSTANTS
  Session,       \* the logged-in users' sessions
  Goroutine,     \* threads of whatsmeow that dispatch events
  Owner,         \* [Goroutine -> Session]: the session whose client runs it
  Capacity,      \* maxConcurrentGatewayCalls
  SyncRoster,    \* config.ALWAYS_SYNC_ROSTER
  Raisable,      \* the kinds of event whatsmeow raises
  Adverse,       \* what else may go against the gateway, see Adversity
  MaxRaised,     \* bound: events raised per thread
  Free,          \* the loop thread is in no Go call
  None           \* no event

Kind == {"connect", "failure", "loggedOut", "pair", "message"}

(* overtake: events of a new connection may precede its Connect event;     *)
(* query: WhatsApp may fail to answer a query; logout: a user may log out  *)
(* before the session's roster and bookmarks are filled; refresh: a user   *)
(* may change the preference that has the whole roster fetched again.      *)
Adversity == {"overtake", "query", "logout", "refresh"}

(* A session stands for the loop thread too, in a Go call made for it.     *)
Producer == Goroutine \cup Session

SessionOf(p) == IF p \in Session THEN p ELSE Owner[p]

Event == [from : Producer, n : Nat, kind : Kind]

ASSUME PipelineAssumption ==
  /\ Goroutine \cap Session = {}
  /\ Owner \in [Goroutine -> Session]
  /\ Capacity \in Nat \ {0}
  /\ SyncRoster \in BOOLEAN
  /\ Raisable \subseteq Kind
  /\ Adverse \subseteq Adversity
  /\ MaxRaised \in Nat
  /\ None \notin Event
  /\ None \notin Producer
  /\ Free \notin Session

VARIABLES
  callChan,   \* the buffered channel of closures
  sending,    \* the event each thread is blocked sending, or None
  raised,     \* events raised so far, per thread
  handled,    \* number of the last event handled, per thread
  worker,     \* the event whose closure the worker is running, or None
  coro,       \* the coroutine the worker waits for
  loopQ,      \* callbacks the loop has yet to run, in order
  loop,       \* the session whose Go call holds the loop thread, or Free
  login,      \* where slidge's login of each session is, or idle
  logged,     \* Session.logged
  future,     \* Session.__connected
  ready,      \* which of contacts.ready and bookmarks.ready are set
  client,     \* Session.client: none, or its connection is up or down
  announced   \* this connection's Connect event is in the channel or past it

goVars == <<callChan, sending, raised, handled, worker>>
pyVars == <<coro, loopQ, loop, login, logged, future, ready>>
envVars == <<client, announced>>
vars == <<goVars, pyVars, envVars>>

LoginStage == {"idle", "connecting", "contacts", "fetching", "bookmarks"}

RunEvent == [do |-> "event"]
Resolve(s, outcome) == [do |-> "resolve", session |-> s, outcome |-> outcome]

LoopItem == {RunEvent} \cup
            [do : {"resolve"}, session : Session, outcome : {"result", "error"}]

TypeOK ==
  /\ callChan \in Seq(Event) /\ Len(callChan) <= Capacity
  /\ sending \in [Producer -> Event \cup {None}]
  /\ raised \in [Producer -> Nat]
  /\ handled \in [Producer -> Nat]
  /\ worker \in Event \cup {None}
  /\ coro \in {"none", "scheduled", "waiting", "done"}
  /\ loopQ \in Seq(LoopItem)
  /\ loop \in Session \cup {Free}
  /\ login \in [Session -> LoginStage]
  /\ logged \in [Session -> BOOLEAN]
  /\ future \in [Session -> {"pending", "result", "error"}]
  /\ ready \in [Session -> SUBSET {"contacts", "bookmarks"}]
  /\ client \in [Session -> {"none", "up", "down"}]
  /\ announced \in [Session -> BOOLEAN]

Init ==
  /\ callChan = <<>>
  /\ sending = [p \in Producer |-> None]
  /\ raised = [p \in Producer |-> 0]
  /\ handled = [p \in Producer |-> 0]
  /\ worker = None
  /\ coro = "none"
  /\ loopQ = <<>>
  /\ loop = Free
  /\ login = [s \in Session |-> "idle"]
  /\ logged = [s \in Session |-> FALSE]
  /\ future = [s \in Session |-> "pending"]
  /\ ready = [s \in Session |-> {}]
  /\ client = [s \in Session |-> "none"]
  /\ announced = [s \in Session |-> FALSE]
-----------------------------------------------------------------------------
(* Go: whatsmeow's goroutines, the channel and its one worker.             *)

(* propagateEvent: the event exists, its closure is not in the channel yet. *)
Propagate(p, kind) ==
  /\ sending[p] = None
  /\ raised[p] < MaxRaised
  /\ raised' = [raised EXCEPT ![p] = @ + 1]
  /\ sending' = [sending EXCEPT ![p] = [from |-> p, n |-> raised[p] + 1, kind |-> kind]]

(* handleEvent on a goroutine of a connected client.  A refused connection *)
(* is over, and LoggedOut disconnects the session before it is propagated. *)
HandleEvent(g, kind) ==
  LET s == Owner[g] IN
  /\ client[s] = "up"
  /\ kind = "message" => announced[s] \/ "overtake" \in Adverse
  /\ Propagate(g, kind)
  /\ client' = CASE kind = "failure"   -> [client EXCEPT ![s] = "down"]
                 [] kind = "loggedOut" -> [client EXCEPT ![s] = "none"]
                 [] OTHER              -> client
  /\ UNCHANGED <<callChan, handled, worker, pyVars, announced>>

(* Variant with a fault: the bound of the channel is not respected. *)
SendUnbounded(p) ==
  /\ sending[p] # None
  /\ callChan' = Append(callChan, sending[p])
  /\ sending' = [sending EXCEPT ![p] = None]
  /\ UNCHANGED <<raised, handled, worker, pyVars, envVars>>

(* Variant with a fault: each closure is sent by a goroutine of its own, so *)
(* that a later one may get in first.                                      *)
SendDetached(p) ==
  /\ sending[p] # None
  /\ Len(callChan) < Capacity
  /\ callChan' = <<sending[p]>> \o callChan
  /\ sending' = [sending EXCEPT ![p] = None]
  /\ UNCHANGED <<raised, handled, worker, pyVars, envVars>>

(* The channel has room for the closure of p. *)
Send(p) ==
  /\ sending[p] # None
  /\ Len(callChan) < Capacity
  /\ callChan' = Append(callChan, sending[p])
  /\ sending' = [sending EXCEPT ![p] = None]
  /\ announced' = IF sending[p].kind = "connect"
                  THEN [announced EXCEPT ![SessionOf(p)] = TRUE]
                  ELSE announced
  /\ UNCHANGED <<raised, handled, worker, pyVars, client>>

(* Variant with a fault: the worker keeps the closure it has taken queued. *)
TakeTwice ==
  /\ worker = None
  /\ callChan # <<>>
  /\ worker' = Head(callChan)
  /\ coro' = "scheduled"
  /\ loopQ' = Append(loopQ, RunEvent)
  /\ UNCHANGED <<callChan, sending, raised, handled, loop, login, logged, future, ready, envVars>>

(* The worker takes a closure and calls the handler made by make_sync. *)
Take ==
  /\ worker = None
  /\ callChan # <<>>
  /\ worker' = Head(callChan)
  /\ callChan' = Tail(callChan)
  /\ coro' = "scheduled"
  /\ loopQ' = Append(loopQ, RunEvent)
  /\ UNCHANGED <<sending, raised, handled, loop, login, logged, future, ready, envVars>>

(* future.result() returns and the closure ends. *)
Finish ==
  /\ coro = "done"
  /\ handled' = [handled EXCEPT ![worker.from] = worker.n]
  /\ worker' = None
  /\ coro' = "none"
  /\ UNCHANGED <<callChan, sending, raised, loopQ, loop, login, logged, future, ready, envVars>>
-----------------------------------------------------------------------------
(* Python: one thread, so nothing below happens while a Go call holds it.  *)

(* Variant with a fault: Connect events wait for the roster too. *)
ExemptNotConnect(kind) == kind \in {"failure", "loggedOut", "pair"}

Exempt(kind) == kind \in {"connect", "failure", "loggedOut", "pair"}

Filled(s) == ready[s] = {"contacts", "bookmarks"}

(* Variant with a fault: __connected.done() is not looked at. *)
OnConnectUnchecked(s, outcome, queue) == loopQ' = Append(queue, Resolve(s, outcome))

(* on_wa_connect: queue is what the loop has left to run. *)
OnConnect(s, outcome, queue) ==
  loopQ' = IF future[s] = "pending" THEN Append(queue, Resolve(s, outcome)) ELSE queue

Dispatch(e, queue) ==
  LET s == SessionOf(e.from) IN
  /\ coro' = "done"
  /\ CASE e.kind = "connect" -> OnConnect(s, "result", queue)
       [] e.kind = "failure" -> OnConnect(s, "error", queue)
       [] OTHER              -> loopQ' = queue
  /\ logged' = IF e.kind = "loggedOut" THEN [logged EXCEPT ![s] = FALSE] ELSE logged

(* handle_event starts: it runs to its end, or stops at contacts.ready. *)
StartCoroutine ==
  /\ loop = Free
  /\ loopQ # <<>>
  /\ Head(loopQ) = RunEvent
  /\ IF Exempt(worker.kind) \/ Filled(SessionOf(worker.from))
     THEN Dispatch(worker, Tail(loopQ))
     ELSE /\ coro' = "waiting"
          /\ loopQ' = Tail(loopQ)
          /\ UNCHANGED logged
  /\ UNCHANGED <<goVars, loop, login, future, ready, envVars>>

ResumeCoroutine ==
  /\ loop = Free
  /\ coro = "waiting"
  /\ Filled(SessionOf(worker.from))
  /\ Dispatch(worker, loopQ)
  /\ UNCHANGED <<goVars, loop, login, future, ready, envVars>>

(* The callback left by on_wa_connect sets the result of __connected. *)
RunResolve ==
  /\ loop = Free
  /\ loopQ # <<>>
  /\ Head(loopQ) # RunEvent
  /\ LET r == Head(loopQ) IN future' = [future EXCEPT ![r.session] = r.outcome]
  /\ loopQ' = Tail(loopQ)
  /\ UNCHANGED <<goVars, coro, loop, login, logged, ready, envVars>>

(* login(): a fresh __connected, Session.Login in Go, then await.  login   *)
(* raises when Session.Login returns an error, before or after it has made *)
(* its client.  A callback still queued for the future that is replaced    *)
(* sets a result nobody awaits.                                            *)
Login(s) ==
  /\ loop = Free
  /\ login[s] = "idle" /\ ~ logged[s]
  /\ future' = [future EXCEPT ![s] = "pending"]
  /\ announced' = [announced EXCEPT ![s] = FALSE]
  /\ loopQ' = IF loopQ # <<>> /\ Head(loopQ) \in {Resolve(s, "result"), Resolve(s, "error")}
              THEN Tail(loopQ)
              ELSE loopQ
  /\ \/ /\ login' = [login EXCEPT ![s] = "connecting"]
        /\ client' = [client EXCEPT ![s] = "up"]
     \/ /\ client' \in {client, [client EXCEPT ![s] = "down"]}
        /\ UNCHANGED login
  /\ UNCHANGED <<goVars, coro, loop, logged, ready>>

(* The await on __connected ends, with its result or its exception. *)
LoginReturns(s) ==
  /\ loop = Free
  /\ login[s] = "connecting"
  /\ future[s] # "pending"
  /\ IF future[s] = "result"
     THEN /\ login' = [login EXCEPT ![s] = "contacts"]
          /\ logged' = [logged EXCEPT ![s] = TRUE]
     ELSE /\ login' = [login EXCEPT ![s] = "idle"]
          /\ logged' = [logged EXCEPT ![s] = FALSE]
  /\ UNCHANGED <<goVars, coro, loopQ, loop, future, ready, envVars>>

(* Roster.fill with its GetContacts, which fails once the client is gone   *)
(* and, asked to refresh, holds the loop's thread while app state is       *)
(* fetched.  A fill that raises ends the login, which is not undone.       *)
FillContacts(s) ==
  /\ loop = Free
  /\ login[s] = "contacts"
  /\ \/ /\ client[s] = "none"
        /\ login' = [login EXCEPT ![s] = "idle"]
        /\ UNCHANGED <<loop, ready>>
     \/ /\ client[s] # "none" /\ SyncRoster
        /\ login' = [login EXCEPT ![s] = "fetching"]
        /\ loop' = s
        /\ UNCHANGED ready
     \/ /\ client[s] # "none" /\ ~ SyncRoster
        /\ login' = [login EXCEPT ![s] = "bookmarks"]
        /\ ready' = [ready EXCEPT ![s] = @ \cup {"contacts"}]
        /\ UNCHANGED loop
  /\ UNCHANGED <<goVars, coro, loopQ, logged, future, envVars>>

(* on_preferences asks GetContacts for a refresh, whatever SyncRoster says. *)
Refresh(s) ==
  /\ loop = Free
  /\ logged[s] /\ login[s] = "idle" /\ client[s] # "none"
  /\ "refresh" \in Adverse
  /\ loop' = s
  /\ UNCHANGED <<goVars, coro, loopQ, login, logged, future, ready, envVars>>

(* FetchAppState dispatches a Contact event on the thread that called it. *)
FetchDispatch(s) ==
  /\ loop = s
  /\ client[s] = "up"
  /\ Propagate(s, "message")
  /\ UNCHANGED <<callChan, handled, worker, pyVars, envVars>>

FetchReturns(s) ==
  /\ loop = s
  /\ sending[s] = None
  /\ loop' = Free
  /\ IF login[s] = "fetching"
     THEN /\ login' = [login EXCEPT ![s] = "bookmarks"]
          /\ ready' = [ready EXCEPT ![s] = @ \cup {"contacts"}]
     ELSE UNCHANGED <<login, ready>>
  /\ UNCHANGED <<goVars, coro, loopQ, logged, future, envVars>>

(* Variant with a fault: bookmarks.ready is never set. *)
FillBookmarksUnready(s) ==
  /\ loop = Free
  /\ login[s] = "bookmarks"
  /\ login' = [login EXCEPT ![s] = "idle"]
  /\ UNCHANGED <<goVars, coro, loopQ, loop, logged, future, ready, envVars>>

(* Bookmarks.fill: GetGroups asks WhatsApp, and may fail. *)
FillBookmarks(s) ==
  /\ loop = Free
  /\ login[s] = "bookmarks"
  /\ login' = [login EXCEPT ![s] = "idle"]
  /\ \/ /\ client[s] = "up"
        /\ ready' = [ready EXCEPT ![s] = @ \cup {"bookmarks"}]
     \/ /\ client[s] # "up" \/ "query" \in Adverse
        /\ UNCHANGED ready
  /\ UNCHANGED <<goVars, coro, loopQ, loop, logged, future, envVars>>

(* The Logout command: logout() disconnects without unlinking the device. *)
Logout(s) ==
  /\ loop = Free
  /\ logged[s]
  /\ Filled(s) \/ "logout" \in Adverse
  /\ logged' = [logged EXCEPT ![s] = FALSE]
  /\ client' = [client EXCEPT ![s] = "none"]
  /\ UNCHANGED <<goVars, coro, loopQ, loop, login, future, ready, announced>>
-----------------------------------------------------------------------------
(* What happens by itself once work is there... *)
Progress ==
  \/ \E p \in Producer : Send(p)
  \/ Take \/ Finish
  \/ StartCoroutine \/ ResumeCoroutine \/ RunResolve
  \/ \E s \in Session : \/ LoginReturns(s)
                        \/ FillContacts(s)
                        \/ FetchReturns(s)
                        \/ FillBookmarks(s)

(* ... and what users and WhatsApp may or may not do. *)
Environment ==
  \/ \E g \in Goroutine, kind \in Raisable : HandleEvent(g, kind)
  \/ \E s \in Session : Login(s) \/ Refresh(s) \/ FetchDispatch(s) \/ Logout(s)

Next == Progress \/ Environment

(* The runtimes keep running: the worker and the loop are never preempted  *)
(* for ever, and Go wakes the senders blocked on a channel in FIFO order,  *)
(* so none of them is passed over for ever.                                *)
Fairness ==
  /\ \A p \in Producer : SF_vars(Send(p))
  /\ WF_vars(Take) /\ WF_vars(Finish)
  /\ WF_vars(StartCoroutine) /\ WF_vars(ResumeCoroutine) /\ WF_vars(RunResolve)
  /\ \A s \in Session : /\ WF_vars(LoginReturns(s))
                        /\ WF_vars(FillContacts(s))
                        /\ WF_vars(FetchReturns(s))
                        /\ WF_vars(FillBookmarks(s))

Spec == Init /\ [][Next]_vars
FairSpec == Spec /\ Fairness
-----------------------------------------------------------------------------
(* The events of a thread are numbered: those past handled[p] and not      *)
(* still being sent are in the channel or with the worker, each once, in   *)
(* order, and the worker has the next one.  This is what "no event is      *)
(* lost, repeated or reordered" means half-way through the pipeline.       *)
Sent == [p \in Producer |-> IF sending[p] = None THEN raised[p] ELSE raised[p] - 1]

HandledSent == \A p \in Producer : handled[p] <= Sent[p]

SendingLast ==
  \A p \in Producer : sending[p] # None => sending[p].from = p /\ sending[p].n = raised[p]

WorkerHasNext ==
  worker # None => /\ worker.n = handled[worker.from] + 1
                   /\ worker.n <= Sent[worker.from]

ChannelBehindWorker ==
  \A i \in DOMAIN callChan : LET e == callChan[i] IN
    /\ e.n > handled[e.from]
    /\ e.n <= Sent[e.from]
    /\ worker # None /\ worker.from = e.from => e.n > worker.n

ChannelSorted ==
  \A i, j \in DOMAIN callChan :
    i < j /\ callChan[i].from = callChan[j].from => callChan[i].n < callChan[j].n

NothingLost ==
  \A p \in Producer : \A n \in (handled[p] + 1)..Sent[p] :
    \/ worker # None /\ worker.from = p /\ worker.n = n
    \/ \E i \in DOMAIN callChan : callChan[i].from = p /\ callChan[i].n = n

InOrder ==
  /\ HandledSent /\ SendingLast
  /\ WorkerHasNext /\ ChannelBehindWorker /\ ChannelSorted
  /\ NothingLost

(* __connected is resolved once: a callback that sets it is queued only    *)
(* for a future still pending, and never two for the same session, however *)
(* many Connect events arrive (asyncio raises InvalidStateError otherwise). *)
ResolvedOnce ==
  \A i \in DOMAIN loopQ : loopQ[i] # RunEvent =>
    /\ future[loopQ[i].session] = "pending"
    /\ \A j \in DOMAIN loopQ : loopQ[j] = loopQ[i] => i = j

(* The worker and the loop agree on what runs, and the loop never has more *)
(* to run than one callback of on_wa_connect and, behind it, one event.    *)
LoopShape ==
  /\ coro = "none" <=> worker = None
  /\ coro = "waiting" => worker.kind = "message"
  /\ \A i \in DOMAIN loopQ : IF loopQ[i] = RunEvent
                            THEN i = Len(loopQ) /\ coro = "scheduled"
                            ELSE i = 1

Outstanding == worker # None \/ callChan # <<>> \/ \E p \in Producer : sending[p] # None

(* The two ways the pipeline can stop with events in it, and no third: the *)
(* coroutine waits for a session whose login is not past its Connect event *)
(* or was abandoned, or the loop's thread is sending on the full channel   *)
(* that only the loop could drain.                                         *)
HeadOfLine == /\ coro = "waiting" /\ worker.kind = "message"
              /\ login[SessionOf(worker.from)] \in {"idle", "connecting"}
LoopSends == \E s \in Session : loop = s /\ sending[s] # None /\ Len(callChan) = Capacity
StallShape == Outstanding /\ ~ ENABLED Progress => HeadOfLine \/ LoopSends

(* An event that stops at contacts.ready belongs to a session whose login  *)
(* has its Connect event already, so that it will be filled (if nothing is *)
(* Adverse and connections are not lost during login).                     *)
WaitsForFill ==
  coro = "waiting" =>
    LET s == SessionOf(worker.from) IN
    \/ Filled(s)
    \/ login[s] \in {"contacts", "fetching", "bookmarks"}
    \/ login[s] = "connecting" /\ future[s] = "result"
    \/ \E i \in DOMAIN loopQ : loopQ[i] = Resolve(s, "result")

(* Every event raised is handled in the end, whichever session it is of:   *)
(* "incoming events will be forwarded to the adapter event handler".       *)
Forwarded ==
  \A p \in Producer : \A n \in 1..MaxRaised : raised[p] >= n ~> handled[p] >= n

(* A Connect event, for which login() waits, reaches the gateway. *)
ConnectForwarded ==
  \A g \in Goroutine : \A n \in 1..MaxRaised :
    sending[g] = [from |-> g, n |-> n, kind |-> "connect"] ~> handled[g] >= n

(* The abstract specification this one implements. *)
Delivery == INSTANCE EventDelivery WITH
  Nobody <- None,
  current <- IF worker = None THEN None ELSE worker.from

Delivers == Delivery!DSpec
=============================================================================
