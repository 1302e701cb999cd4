-------------------------- MODULE SessionLifecycle --------------------------
(***************************************************************************)
(* The fields of one Session that its operations share without a lock:     *)
(* client, ctx and presenceChan (session.go), under                        *)
(*                                                                         *)
(*   - the Python thread, which calls Login, Disconnect, Logout and        *)
(*     SendPresence one at a time;                                         *)
(*   - the goroutine in which whatsmeow dispatches LoggedOut, whose        *)
(*     handler disconnects the session;                                    *)
(*   - the goroutine that reconnects after keep-alive timeouts.            *)
(*                                                                         *)
(* A step reads or writes one field.  The clients a Session has had are    *)
(* numbered; s.client, s.ctx and s.presenceChan hold such a number.        *)
(***************************************************************************)
EXTENDS Naturals

CONSTANTS
  MaxLogins,   \* bound: calls of Login
  Overlap,     \* whether calls of several threads overlap
  Adverse      \* what else may go against the session, see Adversity

(* logoutFails: WhatsApp may refuse to unlink the device; replace: Login is *)
(* called although the client it replaces is still connected; reconnect:   *)
(* keep-alives may time out.                                               *)
Adversity == {"logoutFails", "replace", "reconnect"}

ASSUME LifecycleAssumption ==
  /\ MaxLogins \in Nat
  /\ Overlap \in BOOLEAN
  /\ Adverse \subseteq Adversity

Nil == 0
Gen == 1..MaxLogins

Python == <<"python", 0>>
LoggedOut(g) == <<"loggedOut", g>>
Reconnector(g) == <<"reconnect", g>>
Handler == {LoggedOut(g) : g \in Gen}
Background == {Reconnector(g) : g \in Gen}
Thread == {Python} \cup Handler \cup Background

VARIABLES
  logins,        \* calls of Login so far
  client,        \* s.client
  ctx,           \* s.ctx and s.ctxCancel
  presenceChan,  \* s.presenceChan
  cancelled,     \* the contexts that have been cancelled
  closed,        \* the channels that have been closed
  conn,          \* whether each client is connected, or reconnecting by itself
  paired,        \* the clients whose Store has an ID
  deleted,       \* the clients whose Store was deleted
  pc,            \* the statement each thread is at
  dialled,       \* the client a reconnecting goroutine has read
  crashed        \* a panic has ended the process

fields == <<client, ctx, presenceChan, cancelled, closed>>
remote == <<conn, paired, deleted>>
vars == <<logins, fields, remote, pc, dialled, crashed>>

Disconnecting == {"disconnect.client", "disconnect.ctx", "disconnect.nil", "disconnect.close"}
Calling == Disconnecting \cup
  {"login.client", "login.handler", "login.channel", "login.connect",
   "logout.id", "logout.remote", "logout.nil", "logout.ctx", "logout.close",
   "presence.id", "presence.send"}

Statements(t) ==
  IF t = Python THEN Calling \cup {"idle", "gone"}
  ELSE IF t \in Handler THEN Disconnecting \cup {"none", "spawned", "announced", "lost"}
  ELSE {"none", "spawned", "retry", "connect"}

TypeOK ==
  /\ logins \in 0..MaxLogins
  /\ client \in Gen \cup {Nil}
  /\ ctx \in Gen \cup {Nil}
  /\ presenceChan \in Gen \cup {Nil}
  /\ cancelled \subseteq Gen
  /\ closed \subseteq Gen
  /\ conn \in [Gen -> {"up", "down"}]
  /\ paired \subseteq Gen
  /\ deleted \subseteq Gen
  /\ DOMAIN pc = Thread
  /\ \A t \in Thread : pc[t] \in Statements(t)
  /\ dialled \in [Gen -> Gen \cup {Nil}]
  /\ crashed \in BOOLEAN

Init ==
  /\ logins = 0
  /\ client = Nil /\ ctx = Nil /\ presenceChan = Nil
  /\ cancelled = {} /\ closed = {}
  /\ conn = [g \in Gen |-> "down"]
  /\ paired = {} /\ deleted = {}
  /\ pc = [t \in Thread |-> IF t = Python THEN "idle" ELSE "none"]
  /\ dialled = [g \in Gen |-> Nil]
  /\ crashed = FALSE
-----------------------------------------------------------------------------
(* A thread is busy from the first statement of a call to its last.        *)
Busy(t) == pc[t] \in Calling \cup {"connect"}

At(t, statement) ==
  /\ ~ crashed
  /\ Overlap \/ \A u \in Thread \ {t} : ~ Busy(u)
  /\ pc[t] = statement

Goto(t, statement) == pc' = [pc EXCEPT ![t] = statement]

(* Variant with a fault: the handler of LoggedOut forgets its event. *)
ReturnSilently(t) == Goto(t, "idle")

(* The end of Disconnect: its caller is Python or the LoggedOut handler.   *)
Return(t) == Goto(t, IF t = Python THEN "idle" ELSE "announced")

(* whatsmeow recovers the panic of an event handler, whose event is lost;  *)
(* nothing recovers the others.                                            *)
Panic(t) ==
  /\ IF t \in Handler
     THEN Goto(t, "lost") /\ UNCHANGED crashed
     ELSE crashed' = TRUE /\ UNCHANGED pc
  /\ UNCHANGED <<logins, fields, remote, dialled>>

(* close(s.presenceChan), the last statement of Disconnect and of Logout. *)
CloseChannel(t, after) ==
  \/ /\ presenceChan \in closed \cup {Nil}
     /\ Panic(t)
  \/ /\ presenceChan \notin closed \cup {Nil}
     /\ closed' = closed \cup {presenceChan}
     /\ after
     /\ UNCHANGED <<logins, client, ctx, presenceChan, cancelled, remote, dialled, crashed>>

(* s.ctxCancel(nil), which is nil before the first Login. *)
CancelCtx(t, next) ==
  /\ cancelled' = cancelled \cup ({ctx} \ {Nil})
  /\ Goto(t, next)
  /\ UNCHANGED <<logins, client, ctx, presenceChan, closed, remote, dialled, crashed>>

ForgetClient(t, next) ==
  /\ client' = Nil
  /\ Goto(t, next)
  /\ UNCHANGED <<logins, ctx, presenceChan, cancelled, closed, remote, dialled, crashed>>
-----------------------------------------------------------------------------
(* Session.Disconnect, called by Python or by the handler of LoggedOut.    *)

(* Variant with a fault: Disconnect does not look whether there is a client. *)
BeginDisconnectUnchecked(t) ==
  /\ IF t = Python THEN At(t, "idle") ELSE At(t, "spawned")
  /\ Goto(t, "disconnect.client")
  /\ UNCHANGED <<logins, fields, remote, dialled, crashed>>

BeginDisconnect(t) ==
  /\ IF t = Python THEN At(t, "idle") ELSE At(t, "spawned")
  /\ IF client = Nil THEN Return(t) ELSE Goto(t, "disconnect.client")
  /\ UNCHANGED <<logins, fields, remote, dialled, crashed>>

(* Variant with a fault: the client's connection is left as it is. *)
DisconnectClientNot(t) ==
  /\ At(t, "disconnect.client")
  /\ Goto(t, "disconnect.ctx")
  /\ UNCHANGED <<logins, fields, remote, dialled, crashed>>

(* The field is read again; whatsmeow's Disconnect accepts a nil client. *)
DisconnectClient(t) ==
  /\ At(t, "disconnect.client")
  /\ conn' = [g \in Gen |-> IF g = client THEN "down" ELSE conn[g]]
  /\ Goto(t, "disconnect.ctx")
  /\ UNCHANGED <<logins, fields, paired, deleted, dialled, crashed>>

DisconnectCtx(t) == At(t, "disconnect.ctx") /\ CancelCtx(t, "disconnect.nil")

(* Variant with a fault: the client is kept. *)
DisconnectNilNot(t) ==
  /\ At(t, "disconnect.nil")
  /\ Goto(t, "disconnect.close")
  /\ UNCHANGED <<logins, fields, remote, dialled, crashed>>

DisconnectNil(t) == At(t, "disconnect.nil") /\ ForgetClient(t, "disconnect.close")
DisconnectClose(t) == At(t, "disconnect.close") /\ CloseChannel(t, Return(t))

Disconnect(t) == \/ BeginDisconnect(t) \/ DisconnectClient(t) \/ DisconnectCtx(t)
                 \/ DisconnectNil(t) \/ DisconnectClose(t)
-----------------------------------------------------------------------------
(* Session.Login.  The device of the session may be found, or a new one is *)
(* made, or the look-up fails after the context has been replaced.         *)
LoginCtx ==
  /\ At(Python, "idle")
  /\ logins < MaxLogins
  /\ client # Nil /\ conn[client] = "up" => "replace" \in Adverse
  /\ logins' = logins + 1
  /\ ctx' = logins + 1
  /\ Goto(Python, "login.client") \/ Goto(Python, "idle")
  /\ UNCHANGED <<client, presenceChan, cancelled, closed, remote, dialled, crashed>>

LoginClient ==
  /\ At(Python, "login.client")
  /\ client' = logins
  /\ paired' \in {paired, paired \cup {logins}}
  /\ Goto(Python, "login.handler")
  /\ UNCHANGED <<logins, ctx, presenceChan, cancelled, closed, conn, deleted, dialled, crashed>>

(* AddEventHandler, on the client the field holds now. *)
LoginHandler ==
  /\ At(Python, "login.handler")
  /\ \/ client = Nil /\ Panic(Python)
     \/ /\ client # Nil
        /\ Goto(Python, "login.channel")
        /\ UNCHANGED <<logins, fields, remote, dialled, crashed>>

(* Variant with a fault: a channel is made for the first login only. *)
LoginChannelOnce ==
  /\ At(Python, "login.channel")
  /\ presenceChan' = IF presenceChan = Nil THEN logins ELSE presenceChan
  /\ Goto(Python, "login.connect")
  /\ UNCHANGED <<logins, client, ctx, cancelled, closed, remote, dialled, crashed>>

LoginChannel ==
  /\ At(Python, "login.channel")
  /\ presenceChan' = logins
  /\ Goto(Python, "login.connect")
  /\ UNCHANGED <<logins, client, ctx, cancelled, closed, remote, dialled, crashed>>

LoginConnect ==
  /\ At(Python, "login.connect")
  /\ \/ client = Nil /\ Panic(Python)
     \/ /\ client # Nil
        /\ conn' \in {conn} \cup
                     (IF ctx \in cancelled THEN {} ELSE {[conn EXCEPT ![client] = "up"]})
        /\ Goto(Python, "idle")
        /\ UNCHANGED <<logins, fields, paired, deleted, dialled, crashed>>

Login == LoginCtx \/ LoginClient \/ LoginHandler \/ LoginChannel \/ LoginConnect
-----------------------------------------------------------------------------
(* Session.Logout, called when a user unregisters: the last call of all.   *)
BeginLogout ==
  /\ At(Python, "idle")
  /\ Goto(Python, IF client = Nil THEN "gone" ELSE "logout.id")
  /\ UNCHANGED <<logins, fields, remote, dialled, crashed>>

LogoutId ==
  /\ At(Python, "logout.id")
  /\ \/ client = Nil /\ Panic(Python)
     \/ /\ client # Nil
        /\ Goto(Python, IF client \in paired THEN "logout.remote" ELSE "gone")
        /\ UNCHANGED <<logins, fields, remote, dialled, crashed>>

(* client.Logout: nothing is disconnected or deleted when it fails. *)
LogoutRemote ==
  /\ At(Python, "logout.remote")
  /\ \/ /\ client \in paired /\ conn[client] = "up"
        /\ conn' = [conn EXCEPT ![client] = "down"]
        /\ paired' = paired \ {client}
        /\ deleted' = deleted \cup {client}
     \/ /\ \/ ~ (client \in paired /\ conn[client] = "up")
           \/ "logoutFails" \in Adverse
        /\ UNCHANGED remote
  /\ Goto(Python, "logout.nil")
  /\ UNCHANGED <<logins, fields, dialled, crashed>>

LogoutNil == At(Python, "logout.nil") /\ ForgetClient(Python, "logout.ctx")
LogoutCtx == At(Python, "logout.ctx") /\ CancelCtx(Python, "logout.close")
LogoutClose == At(Python, "logout.close") /\ CloseChannel(Python, Goto(Python, "gone"))

Logout == \/ BeginLogout \/ LogoutId \/ LogoutRemote
          \/ LogoutNil \/ LogoutCtx \/ LogoutClose
-----------------------------------------------------------------------------
(* Session.SendPresence, up to its send; what follows accepts a nil client. *)
BeginPresence ==
  /\ At(Python, "idle")
  /\ client # Nil
  /\ Goto(Python, "presence.id")
  /\ UNCHANGED <<logins, fields, remote, dialled, crashed>>

PresenceId ==
  /\ At(Python, "presence.id")
  /\ \/ client = Nil /\ Panic(Python)
     \/ /\ client # Nil
        /\ Goto(Python, IF client \in paired THEN "presence.send" ELSE "idle")
        /\ UNCHANGED <<logins, fields, remote, dialled, crashed>>

PresenceSend ==
  /\ At(Python, "presence.send")
  /\ \/ presenceChan \in closed /\ Panic(Python)
     \/ /\ presenceChan \notin closed
        /\ Goto(Python, "idle")
        /\ UNCHANGED <<logins, fields, remote, dialled, crashed>>

SendPresence == BeginPresence \/ PresenceId \/ PresenceSend
-----------------------------------------------------------------------------
(* The goroutine started by KeepAliveTimeout: it disconnects the client,   *)
(* then reads the field anew before each attempt to connect.               *)
ReconnectDown(g) ==
  /\ At(Reconnector(g), "spawned")
  /\ conn' = [h \in Gen |-> IF h = client THEN "down" ELSE conn[h]]
  /\ Goto(Reconnector(g), "retry")
  /\ UNCHANGED <<logins, fields, paired, deleted, dialled, crashed>>

ReconnectRead(g) ==
  /\ At(Reconnector(g), "retry")
  /\ \/ client = Nil /\ Panic(Reconnector(g))
     \/ /\ client # Nil
        /\ dialled' = [dialled EXCEPT ![g] = client]
        /\ Goto(Reconnector(g), "connect")
        /\ UNCHANGED <<logins, fields, remote, crashed>>

ReconnectConnect(g) ==
  /\ At(Reconnector(g), "connect")
  /\ \/ /\ dialled[g] \notin deleted
        /\ conn' = [conn EXCEPT ![dialled[g]] = "up"]
        /\ Goto(Reconnector(g), "none")
     \/ /\ conn[dialled[g]] = "down"
        /\ UNCHANGED conn
        /\ Goto(Reconnector(g), "retry")
  /\ dialled' = [dialled EXCEPT ![g] = Nil]
  /\ UNCHANGED <<logins, fields, paired, deleted, crashed>>

Reconnect(g) == ReconnectDown(g) \/ ReconnectRead(g) \/ ReconnectConnect(g)
-----------------------------------------------------------------------------
(* What whatsmeow and WhatsApp do to a connected client g.                 *)

(* The device was unlinked: the handler will run in its own goroutine,     *)
(* the store is deleted and the client will not reconnect by itself.       *)
Unlink(g) ==
  /\ conn[g] = "up" /\ g \in paired
  /\ pc[LoggedOut(g)] = "none"
  /\ conn' = [conn EXCEPT ![g] = "down"]
  /\ paired' = paired \ {g}
  /\ deleted' = deleted \cup {g}
  /\ Goto(LoggedOut(g), "spawned")
  /\ UNCHANGED <<logins, fields, dialled, crashed>>

Pair(g) ==
  /\ conn[g] = "up"
  /\ paired' = paired \cup {g}
  /\ UNCHANGED <<logins, fields, conn, deleted, pc, dialled, crashed>>

(* A refused connection, or a QR code nobody scanned. *)
Refuse(g) ==
  /\ conn[g] = "up"
  /\ conn' = [conn EXCEPT ![g] = "down"]
  /\ UNCHANGED <<logins, fields, paired, deleted, pc, dialled, crashed>>

KeepAliveTimeout(g) ==
  /\ conn[g] = "up" /\ "reconnect" \in Adverse
  /\ pc[Reconnector(g)] = "none"
  /\ Goto(Reconnector(g), "spawned")
  /\ UNCHANGED <<logins, fields, remote, dialled, crashed>>

WhatsApp(g) == ~ crashed /\ (Unlink(g) \/ Pair(g) \/ Refuse(g) \/ KeepAliveTimeout(g))
-----------------------------------------------------------------------------
PythonCall == Login \/ Disconnect(Python) \/ Logout \/ SendPresence

Next ==
  \/ PythonCall
  \/ \E g \in Gen : Disconnect(LoggedOut(g)) \/ Reconnect(g) \/ WhatsApp(g)

(* A call that has begun ends, and a goroutine that was started runs; what *)
(* Python calls, and when, is not fair.  The fairness is strong because a  *)
(* goroutine loses its turn, without Overlap, while Python is in a call.   *)
Fairness ==
  /\ SF_vars(pc[Python] # "idle" /\ PythonCall)
  /\ \A g \in Gen : SF_vars(Disconnect(LoggedOut(g)))

Spec == Init /\ [][Next]_vars
FairSpec == Spec /\ Fairness
-----------------------------------------------------------------------------
Quiet == \A t \in Thread : ~ Busy(t)

(* No sequence of complete calls, with handlers and goroutines as late as   *)
(* they please, closes presenceChan twice, sends on it when it is closed,   *)
(* or uses a nil client, but for one: a goroutine that reconnects finds the *)
(* session disconnected before its next attempt, which ends the process.    *)
OnlyStranded ==
  /\ crashed => client = Nil /\ \E g \in Gen : pc[Reconnector(g)] = "retry"
  /\ \A t \in Handler : pc[t] # "lost"

(* Between calls a session that has a client has what its methods use       *)
(* without checking: an open presence channel and a live context.           *)
Consistent ==
  Quiet /\ client # Nil => /\ presenceChan \notin closed \cup {Nil}
                           /\ ctx \notin cancelled \cup {Nil}

(* Between calls, no client but the session's own is connected: none was    *)
(* forgotten while its connection was up, or connected again afterwards.    *)
OneConnection == Quiet => \A g \in Gen : conn[g] = "up" => client = g

(* The adapter is told of every device that was unlinked, whatever calls    *)
(* come before the handler of LoggedOut has had its turn.                   *)
LoggedOutHeard ==
  \A g \in Gen : pc[LoggedOut(g)] = "spawned" ~> pc[LoggedOut(g)] = "announced" \/ crashed

(* SendPresence reports its failures: "An error is returned if setting      *)
(* availability fails for any reason".                                      *)
PresenceReturns == pc[Python] \in {"presence.id", "presence.send"} => ~ crashed
=============================================================================
