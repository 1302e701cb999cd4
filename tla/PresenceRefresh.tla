--------------------------- MODULE PresenceRefresh ---------------------------
(***************************************************************************)
(* The goroutine Session.Login starts to renew the subscriptions to the    *)
(* presences of contacts (session.go): it waits for its timer, or for a    *)
(* presence of our own that SendPresence puts on presenceChan, and renews  *)
(* them only while we are available.  It reads the field s.presenceChan    *)
(* anew before each wait, so it may wait for the channel of a later login. *)
(*                                                                         *)
(* Here the calls of Login and Disconnect take one step each:              *)
(* SessionLifecycle has their statements.                                  *)
(***************************************************************************)
EXTENDS Naturals

CONSTANTS
  MaxLogins,   \* bound: calls of Login
  Adverse      \* what may go against the session, see Adversity

(* replace: Login without a Disconnect, as after a refused connection;     *)
(* linger: Login while the goroutine or a Connected handler of an earlier  *)
(* one has not ended yet; reconnect: the client reconnects by itself;      *)
(* overtake: the adapter sends a presence before the Connected handler has *)
(* sent its own; query: a presence does not get to WhatsApp.               *)
Adversity == {"replace", "linger", "reconnect", "overtake", "query"}

ASSUME PresenceAssumption == MaxLogins \in Nat /\ Adverse \subseteq Adversity

Nil == 0
Gen == 1..MaxLogins
Presence == {"available", "unavailable"}
NoCall == [at |-> "none", presence |-> "available"]

VARIABLES
  client,        \* s.client, by the number of its login
  presenceChan,  \* s.presenceChan, likewise
  buffer,        \* the one place of each channel
  closed,        \* the channels that have been closed
  at,            \* what each goroutine does
  on,            \* the channel it waits for
  timer,         \* its timer, stopped once it has fired while we were unavailable
  presence,      \* what it takes our presence to be
  greeting,      \* the Connected handler of each client: not called, telling, over
  call,          \* Python's call of SendPresence
  status         \* our presence as WhatsApp knows it

chanVars == <<client, presenceChan, closed>>
goVars == <<at, on, timer, presence>>
vars == <<chanVars, buffer, goVars, greeting, call, status>>

TypeOK ==
  /\ client \in Gen \cup {Nil}
  /\ presenceChan \in Gen \cup {Nil}
  /\ closed \subseteq Gen
  /\ buffer \in [Gen -> Presence \cup {"none"}]
  /\ at \in [Gen -> {"none", "entering", "selecting", "subscribing", "ended"}]
  /\ on \in [Gen -> Gen \cup {Nil}]
  /\ timer \in [Gen -> {"running", "stopped"}]
  /\ presence \in [Gen -> Presence]
  /\ greeting \in [Gen -> {"none", "telling", "over"}]
  /\ call \in [at : {"none", "send", "tell"}, presence : Presence]
  /\ status \in Presence

Init ==
  /\ client = Nil /\ presenceChan = Nil /\ closed = {}
  /\ buffer = [g \in Gen |-> "none"]
  /\ at = [g \in Gen |-> "none"]
  /\ on = [g \in Gen |-> Nil]
  /\ timer = [g \in Gen |-> "running"]
  /\ presence = [g \in Gen |-> "available"]
  /\ greeting = [g \in Gen |-> "none"]
  /\ call = NoCall
  /\ status = "unavailable"
-----------------------------------------------------------------------------
(* The session. *)
Login ==
  /\ call = NoCall
  /\ presenceChan < MaxLogins
  /\ client # Nil => "replace" \in Adverse
  /\ "linger" \notin Adverse =>
       \A g \in 1..presenceChan : /\ g \in closed => at[g] = "ended"
                                  /\ greeting[g] # "telling"
  /\ client' = presenceChan + 1
  /\ presenceChan' = presenceChan + 1
  /\ at' = [at EXCEPT ![presenceChan + 1] = "entering"]
  /\ status' = "unavailable"
  /\ UNCHANGED <<closed, buffer, on, timer, presence, greeting, call>>

(* Variant with a fault: the channel is looked up by the client, which is   *)
(* forgotten by then.                                                      *)
DisconnectForgotten ==
  /\ call = NoCall
  /\ client # Nil
  /\ client' = Nil
  /\ closed' = closed \cup {client'}
  /\ UNCHANGED <<presenceChan, buffer, goVars, greeting, call, status>>

Disconnect ==
  /\ call = NoCall
  /\ client # Nil
  /\ client' = Nil
  /\ closed' = closed \cup {presenceChan}
  /\ UNCHANGED <<presenceChan, buffer, goVars, greeting, call, status>>

(* The Connected handler: the adapter is told, then WhatsApp. *)
Connected ==
  /\ client # Nil
  /\ greeting[client] \in {"none"} \cup (IF "reconnect" \in Adverse THEN {"over"} ELSE {})
  /\ greeting' = [greeting EXCEPT ![client] = "telling"]
  /\ UNCHANGED <<chanVars, buffer, goVars, call, status>>

(* s.client.SendPresence, on the client there is by then. *)
Greet(g) ==
  /\ greeting[g] = "telling"
  /\ greeting' = [greeting EXCEPT ![g] = "over"]
  /\ status' \in (IF client = Nil THEN {status} ELSE {"available"}) \cup
                 (IF "query" \in Adverse THEN {status} ELSE {})
  /\ UNCHANGED <<chanVars, buffer, goVars, call>>

(* SendPresence: the goroutine first, then WhatsApp.  slidge asks for it    *)
(* once the session is logged, which a Connect event starts.               *)
SendPresence(p) ==
  /\ call = NoCall
  /\ client # Nil
  /\ greeting[client] \in {"over"} \cup (IF "overtake" \in Adverse THEN {"telling"} ELSE {})
  /\ call' = [at |-> "send", presence |-> p]
  /\ UNCHANGED <<chanVars, buffer, goVars, greeting, status>>

PresenceSend ==
  /\ call.at = "send"
  /\ buffer[presenceChan] = "none"
  /\ buffer' = [buffer EXCEPT ![presenceChan] = call.presence]
  /\ call' = [call EXCEPT !.at = "tell"]
  /\ UNCHANGED <<chanVars, goVars, greeting, status>>

PresenceTell ==
  /\ call.at = "tell"
  /\ status' \in {call.presence} \cup (IF "query" \in Adverse THEN {status} ELSE {})
  /\ call' = NoCall
  /\ UNCHANGED <<chanVars, buffer, goVars, greeting>>
-----------------------------------------------------------------------------
(* The goroutine of login g. *)

(* Variant with a fault: each goroutine keeps to the channel of the first   *)
(* login.                                                                  *)
SelectFirst(g) ==
  /\ at[g] = "entering"
  /\ at' = [at EXCEPT ![g] = "selecting"]
  /\ on' = [on EXCEPT ![g] = 1]
  /\ UNCHANGED <<chanVars, buffer, timer, presence, greeting, call, status>>

Select(g) ==
  /\ at[g] = "entering"
  /\ at' = [at EXCEPT ![g] = "selecting"]
  /\ on' = [on EXCEPT ![g] = presenceChan]
  /\ UNCHANGED <<chanVars, buffer, timer, presence, greeting, call, status>>

(* Variant with a fault: the timer does not ask for our presence. *)
TickAlways(g) ==
  /\ at[g] = "selecting" /\ timer[g] = "running"
  /\ at' = [at EXCEPT ![g] = "subscribing"]
  /\ UNCHANGED <<chanVars, buffer, on, timer, presence, greeting, call, status>>

Tick(g) ==
  /\ at[g] = "selecting" /\ timer[g] = "running"
  /\ \/ /\ presence[g] = "available"
        /\ at' = [at EXCEPT ![g] = "subscribing"]
        /\ UNCHANGED timer
     \/ /\ presence[g] = "unavailable"
        /\ at' = [at EXCEPT ![g] = "entering"]
        /\ timer' = [timer EXCEPT ![g] = "stopped"]
  /\ UNCHANGED <<chanVars, buffer, on, presence, greeting, call, status>>

(* Variant with a fault: a stopped timer is left to fire by itself. *)
ReceiveQuietly(g) ==
  /\ at[g] = "selecting" /\ buffer[on[g]] # "none"
  /\ presence' = [presence EXCEPT ![g] = buffer[on[g]]]
  /\ buffer' = [buffer EXCEPT ![on[g]] = "none"]
  /\ at' = [at EXCEPT ![g] = "entering"]
  /\ UNCHANGED <<chanVars, on, timer, greeting, call, status>>

(* Variant with a fault: the new presence is not kept. *)
ReceiveForgets(g) ==
  /\ at[g] = "selecting" /\ buffer[on[g]] # "none"
  /\ buffer' = [buffer EXCEPT ![on[g]] = "none"]
  /\ at' = [at EXCEPT ![g] = "entering"]
  /\ UNCHANGED <<chanVars, on, timer, presence, greeting, call, status>>

(* Available again, with a refresh that has become due meanwhile, or not. *)
Receive(g) ==
  /\ at[g] = "selecting" /\ buffer[on[g]] # "none"
  /\ presence' = [presence EXCEPT ![g] = buffer[on[g]]]
  /\ buffer' = [buffer EXCEPT ![on[g]] = "none"]
  /\ at' = [at EXCEPT ![g] = IF timer[g] = "stopped" /\ buffer[on[g]] = "available"
                             THEN "subscribing" ELSE "entering"]
  /\ UNCHANGED <<chanVars, on, timer, greeting, call, status>>

(* Variant with a fault: the zero value a closed channel gives is taken for *)
(* a presence.                                                             *)
EndIgnored(g) ==
  /\ at[g] = "selecting" /\ on[g] \in closed /\ buffer[on[g]] = "none"
  /\ at' = [at EXCEPT ![g] = "entering"]
  /\ UNCHANGED <<chanVars, buffer, on, timer, presence, greeting, call, status>>

(* A closed channel gives what it holds first. *)
End(g) ==
  /\ at[g] = "selecting" /\ on[g] \in closed /\ buffer[on[g]] = "none"
  /\ at' = [at EXCEPT ![g] = "ended"]
  /\ UNCHANGED <<chanVars, buffer, on, timer, presence, greeting, call, status>>

(* SubscribeToPresences has returned, an error included; a new timer. *)
Subscribed(g) ==
  /\ at[g] = "subscribing"
  /\ at' = [at EXCEPT ![g] = "entering"]
  /\ timer' = [timer EXCEPT ![g] = "running"]
  /\ UNCHANGED <<chanVars, buffer, on, presence, greeting, call, status>>

Refresher(g) == Select(g) \/ Tick(g) \/ Receive(g) \/ End(g) \/ Subscribed(g)
-----------------------------------------------------------------------------
Next ==
  \/ Login \/ Disconnect
  \/ Connected \/ \E g \in Gen : Greet(g)
  \/ (\E p \in Presence : SendPresence(p)) \/ PresenceSend \/ PresenceTell
  \/ \E g \in Gen : Refresher(g)

(* Goroutines run and timers fire; a call that can go on does.  A select   *)
(* with several ways to go takes one at random, so none of them is passed  *)
(* over for ever.                                                          *)
Fairness ==
  /\ WF_vars(PresenceSend) /\ WF_vars(PresenceTell)
  /\ \A g \in Gen : /\ WF_vars(Greet(g))
                    /\ WF_vars(Select(g)) /\ WF_vars(Subscribed(g))
                    /\ SF_vars(Tick(g)) /\ SF_vars(Receive(g)) /\ SF_vars(End(g))

Spec == Init /\ [][Next]_vars
FairSpec == Spec /\ Fairness
-----------------------------------------------------------------------------
(* While there is a client, the goroutine of its login runs, and when it    *)
(* waits it waits for the channel SendPresence uses: however often logins   *)
(* come and go, a presence always finds somebody to receive it.             *)
Served ==
  client # Nil =>
    /\ presenceChan = client /\ client \notin closed
    /\ \/ at[client] \in {"entering", "subscribing"}
       \/ at[client] = "selecting" /\ on[client] = client

(* SendPresence, which holds the asyncio thread meanwhile, returns.         *)
SendReturns == call # NoCall ~> call = NoCall

(* Once no presence is under way, the goroutine of the current login knows  *)
(* our presence as WhatsApp does.                                           *)
Settled == /\ client # Nil /\ greeting[client] = "over"
           /\ call = NoCall /\ buffer[presenceChan] = "none"
Agreement == Settled => presence[client] = status

(* The goroutine of a login ends once Disconnect has closed its channel.    *)
RefreshersEnd == \A g \in Gen : g \in closed ~> at[g] = "ended"

(* "Contact presences are refreshed only if our current status is set to    *)
(* available": if we are unavailable for good, refreshes stop.              *)
Away == client # Nil /\ status = "unavailable" /\ greeting[client] = "over"
RefreshOnlyAvailable ==
  (<>[]Away) => <>[](\A g \in Gen : at[g] # "subscribing")

(* "otherwise, a refresh is queued up for whenever our status changes back  *)
(* to available": if we are available for good, they go on.                 *)
Here == client # Nil /\ status = "available" /\ greeting[client] = "over"
RefreshWhenAvailable ==
  (<>[]Here) => []<>(\E g \in Gen : at[g] = "subscribing")
=============================================================================
