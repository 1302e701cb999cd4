----------------------- MODULE SessionLifecycleProofs -----------------------
(***************************************************************************)
(* Proofs about SessionLifecycle, for any number of logins: types; that    *)
(* complete calls leave the session's fields in agreement (Consistent) and *)
(* panic in one way only, or in none (NoPanic); and that no connected      *)
(* client is forgotten (OneConnection).                                    *)
(***************************************************************************)
EXTENDS SessionLifecycle, TLAPS

USE DEF Nil

(* A Login that has made no client yet has a number. *)
TypeInv == TypeOK /\ (pc[Python] = "login.client" => logins # 0)

LEMMA ThreadKinds ==
  /\ Python \in Thread
  /\ Python \notin Handler /\ Python \notin Background
  /\ \A g \in Gen : /\ LoggedOut(g) \in Thread /\ LoggedOut(g) \in Handler
                    /\ Reconnector(g) \in Thread /\ Reconnector(g) \in Background
  /\ \A t \in Background : t \notin Handler
  BY DEF Thread, Handler, Background, Python, LoggedOut, Reconnector

(* A thread that goes on to a statement of its own stays typed. *)
LEMMA GotoTyped ==
  ASSUME DOMAIN pc = Thread, \A u \in Thread : pc[u] \in Statements(u),
         NEW t \in Thread, NEW x \in Statements(t), Goto(t, x)
  PROVE  /\ DOMAIN pc' = Thread
         /\ \A u \in Thread : pc'[u] \in Statements(u)
         /\ pc'[t] = x
         /\ \A u \in Thread \ {t} : pc'[u] = pc[u]
  BY DEF Goto

LEMMA PanicTyped ==
  ASSUME TypeInv, NEW t \in Thread, Panic(t)
  PROVE  TypeInv'
  <1> USE ThreadKinds DEF TypeInv, TypeOK, Panic, fields, remote
  <1>1. CASE t \in Handler
    <2>1. Goto(t, "lost") /\ "lost" \in Statements(t)
      BY <1>1 DEF Statements
    <2>2. t # Python
      BY <1>1
    <2> QED BY <1>1, <2>1, <2>2, GotoTyped
  <1>2. CASE t \notin Handler
    BY <1>2
  <1> QED BY <1>1, <1>2

(* Disconnect is run by Python and by the handlers of LoggedOut. *)
LEMMA DisconnectTyped ==
  ASSUME TypeInv, NEW t \in Thread, t = Python \/ t \in Handler, Disconnect(t)
  PROVE  TypeInv'
  <1>1. /\ \A x \in Disconnecting : x \in Statements(t) /\ x # "login.client"
        /\ "idle" \in Statements(Python)
        /\ t \in Handler => "announced" \in Statements(t)
    BY ThreadKinds DEF Statements, Disconnecting, Calling
  <1>2. Return(t) => \E x \in Statements(t) : Goto(t, x) /\ x # "login.client"
    BY <1>1, ThreadKinds DEF Return
  <1>3. ASSUME NEW x \in Statements(t), x # "login.client", Goto(t, x), logins' = logins
        PROVE  /\ DOMAIN pc' = Thread
               /\ \A u \in Thread : pc'[u] \in Statements(u)
               /\ pc'[Python] = "login.client" => logins' # 0
    BY <1>3, GotoTyped, ThreadKinds DEF TypeInv, TypeOK
  <1>4. CASE BeginDisconnect(t)
    <2>1. \E x \in Statements(t) : Goto(t, x) /\ x # "login.client"
      BY <1>1, <1>2, <1>4 DEF BeginDisconnect, Disconnecting
    <2> QED BY <2>1, <1>3, <1>4 DEF BeginDisconnect, TypeInv, TypeOK, fields, remote
  <1>5. CASE DisconnectClient(t)
    <2>1. Goto(t, "disconnect.ctx") BY <1>5 DEF DisconnectClient
    <2> QED BY <2>1, <1>1, <1>3, <1>5 DEF DisconnectClient, Disconnecting, TypeInv, TypeOK, fields
  <1>6. CASE DisconnectCtx(t)
    <2>1. Goto(t, "disconnect.nil") BY <1>6 DEF DisconnectCtx, CancelCtx
    <2> QED BY <2>1, <1>1, <1>3, <1>6
            DEF DisconnectCtx, CancelCtx, Disconnecting, TypeInv, TypeOK, remote
  <1>7. CASE DisconnectNil(t)
    <2>1. Goto(t, "disconnect.close") BY <1>7 DEF DisconnectNil, ForgetClient
    <2> QED BY <2>1, <1>1, <1>3, <1>7
            DEF DisconnectNil, ForgetClient, Disconnecting, TypeInv, TypeOK, remote
  <1>8. CASE DisconnectClose(t)
    <2>1. CASE Panic(t)
      BY <2>1, PanicTyped
    <2>2. CASE ~ Panic(t)
      <3>1. \E x \in Statements(t) : Goto(t, x) /\ x # "login.client"
        BY <1>2, <1>8, <2>2 DEF DisconnectClose, CloseChannel
      <3> QED BY <3>1, <1>3, <1>8, <2>2
              DEF DisconnectClose, CloseChannel, TypeInv, TypeOK, remote
    <2> QED BY <2>1, <2>2
  <1> QED BY <1>4, <1>5, <1>6, <1>7, <1>8 DEF Disconnect

(* A step of Python that moves it to another statement of its own. *)
LEMMA PythonGoto ==
  ASSUME TypeInv, NEW x \in Calling \cup {"idle", "gone"}, Goto(Python, x),
         x = "login.client" => logins' # 0
  PROVE  /\ DOMAIN pc' = Thread
         /\ \A u \in Thread : pc'[u] \in Statements(u)
         /\ pc'[Python] = "login.client" => logins' # 0
  <1>1. x \in Statements(Python)
    BY DEF Statements
  <1> QED BY <1>1, GotoTyped, ThreadKinds DEF TypeInv, TypeOK

LEMMA LoginTyped == TypeInv /\ Login => TypeInv'
  <1> SUFFICES ASSUME TypeInv, Login PROVE TypeInv'
    OBVIOUS
  <1> USE LifecycleAssumption, ThreadKinds DEF Gen
  <1>1. CASE LoginCtx
    <2>1. logins' = logins + 1 /\ logins' \in 1..MaxLogins
      BY <1>1 DEF LoginCtx, TypeInv, TypeOK
    <2>2. CASE Goto(Python, "login.client")
      BY <1>1, <2>1, <2>2, PythonGoto DEF LoginCtx, TypeInv, TypeOK, remote, Calling
    <2>3. CASE Goto(Python, "idle")
      BY <1>1, <2>1, <2>3, PythonGoto DEF LoginCtx, TypeInv, TypeOK, remote
    <2> QED BY <1>1, <2>2, <2>3 DEF LoginCtx
  <1>2. CASE LoginClient
    <2>1. logins \in 1..MaxLogins
      BY <1>2 DEF LoginClient, At, TypeInv, TypeOK
    <2>2. paired' \subseteq Gen
      BY <1>2, <2>1 DEF LoginClient, TypeInv, TypeOK
    <2> QED BY <1>2, <2>1, <2>2, PythonGoto DEF LoginClient, TypeInv, TypeOK, Calling
  <1>3. CASE LoginHandler
    <2>1. CASE Panic(Python)
      BY <2>1, PanicTyped
    <2>2. CASE Goto(Python, "login.channel") /\ UNCHANGED <<logins, fields, remote, dialled, crashed>>
      BY <2>2, PythonGoto DEF TypeInv, TypeOK, fields, remote, Calling
    <2> QED BY <1>3, <2>1, <2>2 DEF LoginHandler
  <1>4. CASE LoginChannel
    BY <1>4, PythonGoto DEF LoginChannel, TypeInv, TypeOK, remote, Calling
  <1>5. CASE LoginConnect
    <2>1. CASE Panic(Python)
      BY <2>1, PanicTyped
    <2>2. CASE ~ Panic(Python)
      <3>1. conn' \in [Gen -> {"up", "down"}]
        BY <1>5, <2>2 DEF LoginConnect, TypeInv, TypeOK
      <3> QED BY <1>5, <2>2, <3>1, PythonGoto DEF LoginConnect, TypeInv, TypeOK, fields
    <2> QED BY <2>1, <2>2
  <1> QED BY <1>1, <1>2, <1>3, <1>4, <1>5 DEF Login

LEMMA LogoutTyped == TypeInv /\ Logout => TypeInv'
  <1> SUFFICES ASSUME TypeInv, Logout PROVE TypeInv'
    OBVIOUS
  <1> USE ThreadKinds DEF Calling
  <1>1. CASE BeginLogout
    BY <1>1, PythonGoto DEF BeginLogout, TypeInv, TypeOK, fields, remote
  <1>2. CASE LogoutId
    <2>1. CASE Panic(Python)
      BY <2>1, PanicTyped
    <2>2. CASE ~ Panic(Python)
      BY <1>2, <2>2, PythonGoto DEF LogoutId, TypeInv, TypeOK, fields, remote
    <2> QED BY <2>1, <2>2
  <1>3. CASE LogoutRemote
    <2>1. /\ conn' \in [Gen -> {"up", "down"}]
          /\ paired' \subseteq Gen /\ deleted' \subseteq Gen
      BY <1>3 DEF LogoutRemote, TypeInv, TypeOK, remote
    <2> QED BY <1>3, <2>1, PythonGoto DEF LogoutRemote, TypeInv, TypeOK, fields
  <1>4. CASE LogoutNil
    BY <1>4, PythonGoto DEF LogoutNil, ForgetClient, TypeInv, TypeOK, remote
  <1>5. CASE LogoutCtx
    <2>1. cancelled' \subseteq Gen
      BY <1>5 DEF LogoutCtx, CancelCtx, TypeInv, TypeOK
    <2> QED BY <1>5, <2>1, PythonGoto DEF LogoutCtx, CancelCtx, TypeInv, TypeOK, remote
  <1>6. CASE LogoutClose
    <2>1. CASE Panic(Python)
      BY <2>1, PanicTyped
    <2>2. CASE ~ Panic(Python)
      <3>1. closed' \subseteq Gen
        BY <1>6, <2>2 DEF LogoutClose, CloseChannel, TypeInv, TypeOK
      <3> QED BY <1>6, <2>2, <3>1, PythonGoto
              DEF LogoutClose, CloseChannel, TypeInv, TypeOK, remote
    <2> QED BY <2>1, <2>2
  <1> QED BY <1>1, <1>2, <1>3, <1>4, <1>5, <1>6 DEF Logout

LEMMA PresenceTyped == TypeInv /\ SendPresence => TypeInv'
  <1> SUFFICES ASSUME TypeInv, SendPresence PROVE TypeInv'
    OBVIOUS
  <1> USE ThreadKinds DEF Calling
  <1>1. CASE Panic(Python)
    BY <1>1, PanicTyped
  <1>2. CASE ~ Panic(Python)
    BY <1>2, PythonGoto
    DEF SendPresence, BeginPresence, PresenceId, PresenceSend, TypeInv, TypeOK, fields, remote
  <1> QED BY <1>1, <1>2

LEMMA ReconnectTyped ==
  ASSUME TypeInv, NEW g \in Gen, Reconnect(g)
  PROVE  TypeInv'
  <1>0. /\ {"none", "spawned", "retry", "connect"} \subseteq Statements(Reconnector(g))
        /\ Reconnector(g) \in Thread /\ Reconnector(g) # Python
    BY ThreadKinds DEF Statements
  <1>1. ASSUME NEW x \in {"none", "spawned", "retry", "connect"}, Goto(Reconnector(g), x),
               logins' = logins
        PROVE  /\ DOMAIN pc' = Thread
               /\ \A u \in Thread : pc'[u] \in Statements(u)
               /\ pc'[Python] = "login.client" => logins' # 0
    <2>1. x \in Statements(Reconnector(g))
      BY <1>0
    <2> QED BY <1>0, <1>1, <2>1, GotoTyped, ThreadKinds DEF TypeInv, TypeOK
  <1>2. CASE ReconnectDown(g)
    BY <1>1, <1>2 DEF ReconnectDown, TypeInv, TypeOK, fields
  <1>3. CASE ReconnectRead(g)
    <2>1. CASE Panic(Reconnector(g))
      BY <2>1, <1>0, PanicTyped
    <2>2. CASE ~ Panic(Reconnector(g))
      BY <1>1, <1>3, <2>2 DEF ReconnectRead, TypeInv, TypeOK, fields, remote
    <2> QED BY <2>1, <2>2
  <1>4. CASE ReconnectConnect(g)
    <2>1. conn' \in [Gen -> {"up", "down"}] /\ dialled' \in [Gen -> Gen \cup {Nil}]
      BY <1>4 DEF ReconnectConnect, TypeInv, TypeOK
    <2> QED BY <1>1, <1>4, <2>1 DEF ReconnectConnect, TypeInv, TypeOK, fields
  <1> QED BY <1>2, <1>3, <1>4 DEF Reconnect

LEMMA WhatsAppTyped ==
  ASSUME TypeInv, NEW g \in Gen, WhatsApp(g)
  PROVE  TypeInv'
  <1> USE ThreadKinds
  <1>1. CASE Unlink(g)
    <2>1. "spawned" \in Statements(LoggedOut(g)) /\ LoggedOut(g) # Python
      BY DEF Statements
    <2>2. Goto(LoggedOut(g), "spawned")
      BY <1>1 DEF Unlink
    <2>3. /\ DOMAIN pc' = Thread
          /\ \A u \in Thread : pc'[u] \in Statements(u)
          /\ pc'[Python] = pc[Python]
      BY <2>1, <2>2, GotoTyped DEF TypeInv, TypeOK
    <2> QED BY <1>1, <2>3 DEF Unlink, TypeInv, TypeOK, fields
  <1>2. CASE Pair(g)
    BY <1>2 DEF Pair, TypeInv, TypeOK, fields
  <1>3. CASE Refuse(g)
    BY <1>3 DEF Refuse, TypeInv, TypeOK, fields
  <1>4. CASE KeepAliveTimeout(g)
    <2>1. "spawned" \in Statements(Reconnector(g)) /\ Reconnector(g) # Python
      BY DEF Statements
    <2>2. Goto(Reconnector(g), "spawned")
      BY <1>4 DEF KeepAliveTimeout
    <2>3. /\ DOMAIN pc' = Thread
          /\ \A u \in Thread : pc'[u] \in Statements(u)
          /\ pc'[Python] = pc[Python]
      BY <2>1, <2>2, GotoTyped DEF TypeInv, TypeOK
    <2> QED BY <1>4, <2>3 DEF KeepAliveTimeout, TypeInv, TypeOK, fields, remote
  <1> QED BY <1>1, <1>2, <1>3, <1>4 DEF WhatsApp

LEMMA InitTyped == Init => TypeInv
  <1> SUFFICES ASSUME Init PROVE TypeInv
    OBVIOUS
  <1>1. DOMAIN pc = Thread
    BY DEF Init
  <1>2. \A t \in Thread : pc[t] = IF t = Python THEN "idle" ELSE "none"
    BY DEF Init
  <1>3. \A t \in Thread : (IF t = Python THEN "idle" ELSE "none") \in Statements(t)
    BY DEF Statements
  <1>4. pc[Python] # "login.client"
    BY <1>2, ThreadKinds
  <1>5. logins \in 0..MaxLogins
    BY LifecycleAssumption DEF Init
  <1> QED BY <1>1, <1>2, <1>3, <1>4, <1>5 DEF Init, TypeInv, TypeOK

LEMMA StepTyped == TypeInv /\ [Next]_vars => TypeInv'
  <1> SUFFICES ASSUME TypeInv, [Next]_vars PROVE TypeInv'
    OBVIOUS
  <1>1. CASE PythonCall
    BY <1>1, ThreadKinds, LoginTyped, LogoutTyped, PresenceTyped, DisconnectTyped DEF PythonCall
  <1>2. ASSUME NEW g \in Gen, Disconnect(LoggedOut(g)) PROVE TypeInv'
    BY <1>2, ThreadKinds, DisconnectTyped
  <1>3. ASSUME NEW g \in Gen, Reconnect(g) PROVE TypeInv'
    BY <1>3, ReconnectTyped
  <1>4. ASSUME NEW g \in Gen, WhatsApp(g) PROVE TypeInv'
    BY <1>4, WhatsAppTyped
  <1>5. CASE UNCHANGED vars
    BY <1>5 DEF vars, fields, remote, TypeInv, TypeOK
  <1> QED BY <1>1, <1>2, <1>3, <1>4, <1>5 DEF Next

(* TypeOK holds whether or not the calls of the threads overlap. *)
THEOREM LifecycleTypeCorrect == Spec => []TypeOK
  <1>1. TypeInv => TypeOK
    BY DEF TypeInv
  <1> QED BY <1>1, InitTyped, StepTyped, PTL DEF Spec

-----------------------------------------------------------------------------
(* Calls that do not overlap.  While no thread is in a call Consistent      *)
(* holds; the thread in a call is the only one, and Stage says what it has  *)
(* left of that.                                                            *)

Open == presenceChan \notin closed \cup {Nil}
Live == ctx \notin cancelled \cup {Nil}

Checked == {"disconnect.client", "disconnect.ctx", "logout.id", "logout.remote", "logout.nil",
            "presence.id", "presence.send", "login.connect", "connect"}
Making == {"login.client", "login.handler", "login.channel"}
Leaving == {"disconnect.close", "logout.ctx", "logout.close"}

Stage(t) ==
  /\ pc[t] \in Checked => client # Nil /\ Open /\ Live
  /\ pc[t] \in Making => presenceChan < logins /\ Live
  /\ pc[t] \in {"login.handler", "login.channel"} => client # Nil
  /\ pc[t] = "disconnect.nil" => Open
  /\ pc[t] \in Leaving => client = Nil /\ Open

(* Contexts and channels are made in turn: those in use, cancelled or       *)
(* closed are none that a later login will make.                            *)
Numbered ==
  /\ ctx = logins
  /\ presenceChan <= logins
  /\ \A g \in closed : g <= presenceChan
  /\ \A g \in cancelled : g <= logins

OneBusy == \A t, u \in Thread : Busy(t) /\ Busy(u) => t = u

(* The conjuncts of OnlyStranded. *)
Stranded == client = Nil /\ \E g \in Gen : pc[Reconnector(g)] = "retry"
CrashStranded == crashed => Stranded
Heard == \A t \in Handler : pc[t] # "lost"

SeqInv ==
  /\ TypeInv
  /\ CrashStranded /\ Heard /\ Consistent
  /\ Numbered /\ OneBusy
  /\ \A t \in Thread : Stage(t)

(* Where a step of the only thread in a call leaves the others. *)
LEMMA Turn ==
  ASSUME SeqInv, ~ Overlap, NEW t \in Thread, NEW a, At(t, a), NEW x, Goto(t, x)
  PROVE  /\ \A u \in Thread \ {t} : ~ Busy(u) /\ ~ Busy(u)' /\ Stage(u)'
         /\ pc'[t] = x
         /\ OneBusy'
         /\ Quiet' <=> x \notin Calling \cup {"connect"}
         /\ Quiet <=> a \notin Calling \cup {"connect"}
  <1>1. pc[t] = a /\ \A u \in Thread \ {t} : ~ Busy(u)
    BY DEF At
  <1>2. pc'[t] = x /\ \A u \in Thread \ {t} : pc'[u] = pc[u]
    BY DEF Goto, SeqInv, TypeInv, TypeOK
  <1>3. \A u \in Thread \ {t} : ~ Busy(u)'
    BY <1>1, <1>2 DEF Busy
  <1>4. \A u \in Thread \ {t} : Stage(u)'
    BY <1>3 DEF Busy, Stage, Calling, Checked, Making, Leaving, Disconnecting
  <1>5. OneBusy'
    BY <1>3 DEF OneBusy
  <1>6. /\ Quiet' <=> x \notin Calling \cup {"connect"}
        /\ Quiet <=> a \notin Calling \cup {"connect"}
    BY <1>1, <1>2, <1>3 DEF Quiet, Busy
  <1> QED BY <1>1, <1>2, <1>3, <1>4, <1>5, <1>6

(* What is left to show of a step that goes on to x without a panic. *)
LEMMA TurnInv ==
  ASSUME SeqInv, ~ Overlap, [Next]_vars,
         NEW t \in Thread, NEW a, At(t, a), NEW x, Goto(t, x), x # "lost", UNCHANGED crashed,
         Numbered', Stage(t)',
         x \notin Calling /\ client' # Nil => (Open /\ Live)'
  PROVE  SeqInv'
  <1>1. TypeInv'
    BY StepTyped DEF SeqInv
  <1>2. /\ \A u \in Thread \ {t} : ~ Busy(u)' /\ Stage(u)'
        /\ pc'[t] = x
        /\ OneBusy'
        /\ Quiet' <=> x \notin Calling \cup {"connect"}
    BY Turn
  <1>3. \A u \in Thread \ {t} : pc'[u] = pc[u]
    BY DEF Goto, SeqInv, TypeInv, TypeOK
  <1>4. Heard'
    BY <1>2, <1>3 DEF Heard, SeqInv, Thread
  <1>5. CrashStranded'
    BY DEF CrashStranded, At
  <1>6. Consistent'
    BY <1>2 DEF Consistent, Open, Live
  <1>7. \A u \in Thread : Stage(u)'
    BY <1>2
  <1> QED BY <1>1, <1>2, <1>4, <1>5, <1>6, <1>7 DEF SeqInv

(* A thread about to begin a call finds no other in one. *)
LEMMA IdleQuiet ==
  ASSUME SeqInv, ~ Overlap, NEW t \in Thread,
         NEW a \in {"idle", "spawned"}, At(t, a)
  PROVE  Quiet
  BY DEF At, Busy, Quiet, Calling, Disconnecting

LEMMA DisconnectSafe ==
  ASSUME SeqInv, ~ Overlap, [Next]_vars,
         NEW t \in Thread, t = Python \/ t \in Handler, Disconnect(t)
  PROVE  SeqInv'
  <1> USE ThreadKinds DEF fields
  <1>1. \A x : Return(t) => Goto(t, "idle") \/ Goto(t, "announced")
    BY DEF Return
  <1>2. CASE BeginDisconnect(t)
    <2>1. PICK a \in {"idle", "spawned"} : At(t, a)
      BY <1>2 DEF BeginDisconnect
    <2>2. Quiet /\ (client # Nil => Open /\ Live)
      BY <2>1, IdleQuiet DEF SeqInv, Consistent, Open, Live
    <2>3. Numbered'
      BY <1>2 DEF BeginDisconnect, SeqInv, Numbered
    <2>4. CASE client = Nil
      <3>1. PICK x \in {"idle", "announced"} : Goto(t, x)
        BY <1>1, <1>2, <2>4 DEF BeginDisconnect
      <3>2. Stage(t)'
        BY <3>1, <2>1, Turn DEF Stage, Checked, Making, Leaving
      <3>3. client' = Nil
        BY <1>2, <2>4 DEF BeginDisconnect
      <3> QED BY <1>2, <2>1, <2>3, <3>1, <3>2, <3>3, TurnInv DEF BeginDisconnect
    <2>5. CASE client # Nil
      <3>1. Goto(t, "disconnect.client")
        BY <1>2, <2>5 DEF BeginDisconnect
      <3>2. Stage(t)'
        BY <1>2, <2>1, <2>2, <2>5, <3>1, Turn
        DEF BeginDisconnect, Stage, Checked, Making, Leaving, Open, Live
      <3> QED BY <1>2, <2>1, <2>3, <3>1, <3>2, TurnInv
              DEF BeginDisconnect, Calling, Disconnecting
    <2> QED BY <2>4, <2>5
  <1>3. CASE DisconnectClient(t)
    <2>1. At(t, "disconnect.client") /\ Goto(t, "disconnect.ctx")
      BY <1>3 DEF DisconnectClient
    <2>2. client # Nil /\ Open /\ Live
      BY <2>1 DEF SeqInv, Stage, At, Checked
    <2>3. Stage(t)' /\ Numbered'
      BY <1>3, <2>1, <2>2, Turn
      DEF DisconnectClient, SeqInv, Numbered, Stage, Checked, Making, Leaving, Open, Live
    <2> QED BY <1>3, <2>1, <2>3, TurnInv DEF DisconnectClient, Calling, Disconnecting
  <1>4. CASE DisconnectCtx(t)
    <2>1. At(t, "disconnect.ctx") /\ Goto(t, "disconnect.nil")
      BY <1>4 DEF DisconnectCtx, CancelCtx
    <2>2. Open /\ logins \in Nat
      BY <2>1, LifecycleAssumption DEF SeqInv, TypeInv, TypeOK, Stage, At, Checked
    <2>3. Stage(t)' /\ Numbered'
      BY <1>4, <2>1, <2>2, Turn
      DEF DisconnectCtx, CancelCtx, SeqInv, Numbered, Stage, Checked, Making, Leaving, Open
    <2> QED BY <1>4, <2>1, <2>3, TurnInv DEF DisconnectCtx, CancelCtx, Calling, Disconnecting
  <1>5. CASE DisconnectNil(t)
    <2>1. At(t, "disconnect.nil") /\ Goto(t, "disconnect.close")
      BY <1>5 DEF DisconnectNil, ForgetClient
    <2>2. Open
      BY <2>1 DEF SeqInv, Stage, At
    <2>3. Stage(t)' /\ Numbered'
      BY <1>5, <2>1, <2>2, Turn
      DEF DisconnectNil, ForgetClient, SeqInv, Numbered, Stage, Checked, Making, Leaving, Open
    <2> QED BY <1>5, <2>1, <2>3, TurnInv DEF DisconnectNil, ForgetClient, Calling, Disconnecting
  <1>6. CASE DisconnectClose(t)
    <2>1. At(t, "disconnect.close")
      BY <1>6 DEF DisconnectClose
    <2>2. client = Nil /\ Open
      BY <2>1 DEF SeqInv, Stage, At, Leaving
    <2>3. PICK x \in {"idle", "announced"} : Goto(t, x)
      BY <1>1, <1>6, <2>2 DEF DisconnectClose, CloseChannel, Open
    <2>4. /\ closed' = closed \cup {presenceChan}
          /\ UNCHANGED <<logins, client, ctx, presenceChan, cancelled, crashed>>
      BY <1>6, <2>2 DEF DisconnectClose, CloseChannel, Open
    <2>5. presenceChan \in Nat
      BY DEF SeqInv, TypeInv, TypeOK, Gen
    <2>6. Stage(t)' /\ Numbered'
      BY <2>1, <2>3, <2>4, <2>5, Turn DEF SeqInv, Numbered, Stage, Checked, Making, Leaving
    <2> QED BY <2>1, <2>2, <2>3, <2>4, <2>6, TurnInv
  <1> QED BY <1>2, <1>3, <1>4, <1>5, <1>6 DEF Disconnect

LEMMA LoginSafe ==
  ASSUME SeqInv, ~ Overlap, [Next]_vars, Login
  PROVE  SeqInv'
  <1> USE ThreadKinds DEF fields
  <1>0. Python \in Thread /\ logins \in Nat /\ presenceChan \in Nat
    BY LifecycleAssumption DEF SeqInv, TypeInv, TypeOK, Gen
  <1>1. CASE LoginCtx
    <2>1. At(Python, "idle") /\ Quiet /\ (client # Nil => Open /\ Live)
      BY <1>1, IdleQuiet DEF LoginCtx, SeqInv, Consistent, Open, Live
    <2>2. PICK x \in {"idle", "login.client"} : Goto(Python, x)
      BY <1>1 DEF LoginCtx
    <2>3. Numbered' /\ presenceChan' < logins' /\ Live'
      <3>1. \A g \in cancelled : g \in Nat /\ g <= logins
        BY DEF SeqInv, Numbered, TypeInv, TypeOK, Gen
      <3> QED BY <1>0, <1>1, <3>1 DEF LoginCtx, SeqInv, Numbered, Live
    <2>4. Stage(Python)'
      BY <2>1, <2>2, <2>3, Turn DEF Stage, Checked, Making, Leaving
    <2> QED BY <1>0, <1>1, <2>1, <2>2, <2>3, <2>4, TurnInv DEF LoginCtx, Open, Calling
  <1>2. CASE LoginClient
    <2>1. At(Python, "login.client") /\ Goto(Python, "login.handler")
      BY <1>2 DEF LoginClient
    <2>2. presenceChan < logins /\ Live
      BY <2>1 DEF SeqInv, Stage, At, Making
    <2>3. Stage(Python)' /\ Numbered'
      BY <1>0, <1>2, <2>1, <2>2, Turn
      DEF LoginClient, SeqInv, Numbered, Stage, Checked, Making, Leaving, Live
    <2> QED BY <1>0, <1>2, <2>1, <2>3, TurnInv DEF LoginClient, Calling
  <1>3. CASE LoginHandler
    <2>1. At(Python, "login.handler")
      BY <1>3 DEF LoginHandler
    <2>2. presenceChan < logins /\ Live /\ client # Nil
      BY <2>1 DEF SeqInv, Stage, At, Making
    <2>3. Goto(Python, "login.channel") /\ UNCHANGED <<logins, fields, crashed>>
      BY <1>3, <2>2 DEF LoginHandler
    <2>4. Stage(Python)' /\ Numbered'
      BY <2>1, <2>2, <2>3, Turn DEF SeqInv, Numbered, Stage, Checked, Making, Leaving, Live
    <2> QED BY <1>0, <2>1, <2>3, <2>4, TurnInv DEF Calling
  <1>4. CASE LoginChannel
    <2>1. At(Python, "login.channel") /\ Goto(Python, "login.connect")
      BY <1>4 DEF LoginChannel
    <2>2. presenceChan < logins /\ Live /\ client # Nil
      BY <2>1 DEF SeqInv, Stage, At, Making
    <2>3. \A g \in closed : g \in Nat /\ g < logins
      BY <1>0, <2>2 DEF SeqInv, Numbered, TypeInv, TypeOK, Gen
    <2>4. Numbered' /\ Open' /\ Live' /\ client' # Nil
      BY <1>0, <1>4, <2>2, <2>3 DEF LoginChannel, SeqInv, Numbered, Open, Live
    <2>5. Stage(Python)'
      BY <2>1, <2>4, Turn DEF Stage, Checked, Making, Leaving
    <2> QED BY <1>0, <1>4, <2>1, <2>4, <2>5, TurnInv DEF LoginChannel, Calling
  <1>5. CASE LoginConnect
    <2>1. At(Python, "login.connect")
      BY <1>5 DEF LoginConnect
    <2>2. client # Nil /\ Open /\ Live
      BY <2>1 DEF SeqInv, Stage, At, Checked
    <2>3. Goto(Python, "idle") /\ UNCHANGED <<logins, fields, crashed>>
      BY <1>5, <2>2 DEF LoginConnect
    <2>4. Stage(Python)' /\ Numbered'
      BY <2>1, <2>2, <2>3, Turn DEF SeqInv, Numbered, Stage, Checked, Making, Leaving
    <2> QED BY <1>0, <2>1, <2>2, <2>3, <2>4, TurnInv DEF Open, Live
  <1> QED BY <1>1, <1>2, <1>3, <1>4, <1>5 DEF Login

LEMMA LogoutSafe ==
  ASSUME SeqInv, ~ Overlap, [Next]_vars, Logout
  PROVE  SeqInv'
  <1> USE ThreadKinds DEF fields, Calling
  <1>1. CASE BeginLogout
    <2>1. At(Python, "idle") /\ Quiet /\ (client # Nil => Open /\ Live)
      BY <1>1, IdleQuiet DEF BeginLogout, SeqInv, Consistent, Open, Live
    <2>2. PICK x \in {"gone", "logout.id"} :
            Goto(Python, x) /\ (x = "logout.id" => client # Nil)
      BY <1>1 DEF BeginLogout
    <2>3. Numbered' /\ Stage(Python)'
      BY <1>1, <2>1, <2>2, Turn
      DEF BeginLogout, SeqInv, Numbered, Stage, Checked, Making, Leaving, Open, Live
    <2> QED BY <1>1, <2>1, <2>2, <2>3, TurnInv DEF BeginLogout, Open, Live
  <1>2. CASE LogoutId
    <2>1. At(Python, "logout.id")
      BY <1>2 DEF LogoutId
    <2>2. client # Nil /\ Open /\ Live
      BY <2>1 DEF SeqInv, Stage, At, Checked
    <2>3. PICK x \in {"gone", "logout.remote"} :
            Goto(Python, x) /\ UNCHANGED <<logins, fields, crashed>>
      BY <1>2, <2>2 DEF LogoutId
    <2>4. Numbered' /\ Stage(Python)'
      BY <2>1, <2>2, <2>3, Turn DEF SeqInv, Numbered, Stage, Checked, Making, Leaving, Open, Live
    <2> QED BY <2>1, <2>2, <2>3, <2>4, TurnInv DEF Open, Live
  <1>3. CASE LogoutRemote
    <2>1. At(Python, "logout.remote") /\ Goto(Python, "logout.nil")
      BY <1>3 DEF LogoutRemote
    <2>2. client # Nil /\ Open /\ Live
      BY <2>1 DEF SeqInv, Stage, At, Checked
    <2>3. Numbered' /\ Stage(Python)'
      BY <1>3, <2>1, <2>2, Turn
      DEF LogoutRemote, SeqInv, Numbered, Stage, Checked, Making, Leaving, Open, Live
    <2> QED BY <1>3, <2>1, <2>3, TurnInv DEF LogoutRemote
  <1>4. CASE LogoutNil
    <2>1. At(Python, "logout.nil") /\ Goto(Python, "logout.ctx")
      BY <1>4 DEF LogoutNil, ForgetClient
    <2>2. Open
      BY <2>1 DEF SeqInv, Stage, At, Checked
    <2>3. Numbered' /\ Stage(Python)'
      BY <1>4, <2>1, <2>2, Turn
      DEF LogoutNil, ForgetClient, SeqInv, Numbered, Stage, Checked, Making, Leaving, Open
    <2> QED BY <1>4, <2>1, <2>3, TurnInv DEF LogoutNil, ForgetClient
  <1>5. CASE LogoutCtx
    <2>1. At(Python, "logout.ctx") /\ Goto(Python, "logout.close")
      BY <1>5 DEF LogoutCtx, CancelCtx
    <2>2. client = Nil /\ Open /\ logins \in Nat
      BY <2>1, LifecycleAssumption DEF SeqInv, TypeInv, TypeOK, Stage, At, Leaving
    <2>3. Numbered' /\ Stage(Python)'
      BY <1>5, <2>1, <2>2, Turn
      DEF LogoutCtx, CancelCtx, SeqInv, Numbered, Stage, Checked, Making, Leaving, Open
    <2> QED BY <1>5, <2>1, <2>3, TurnInv DEF LogoutCtx, CancelCtx
  <1>6. CASE LogoutClose
    <2>1. At(Python, "logout.close")
      BY <1>6 DEF LogoutClose
    <2>2. client = Nil /\ Open /\ presenceChan \in Nat
      BY <2>1 DEF SeqInv, TypeInv, TypeOK, Gen, Stage, At, Leaving
    <2>3. /\ Goto(Python, "gone") /\ closed' = closed \cup {presenceChan}
          /\ UNCHANGED <<logins, client, ctx, presenceChan, cancelled, crashed>>
      BY <1>6, <2>2 DEF LogoutClose, CloseChannel, Open
    <2>4. Numbered' /\ Stage(Python)'
      BY <2>1, <2>2, <2>3, Turn DEF SeqInv, Numbered, Stage, Checked, Making, Leaving
    <2> QED BY <2>1, <2>2, <2>3, <2>4, TurnInv
  <1> QED BY <1>1, <1>2, <1>3, <1>4, <1>5, <1>6 DEF Logout

LEMMA PresenceSafe ==
  ASSUME SeqInv, ~ Overlap, [Next]_vars, SendPresence
  PROVE  SeqInv'
  <1> USE ThreadKinds DEF fields, Calling
  <1>1. CASE BeginPresence
    <2>1. At(Python, "idle") /\ Goto(Python, "presence.id") /\ client # Nil
      BY <1>1 DEF BeginPresence
    <2>2. Open /\ Live
      BY <2>1, IdleQuiet DEF SeqInv, Consistent, Open, Live
    <2>3. Numbered' /\ Stage(Python)'
      BY <1>1, <2>1, <2>2, Turn
      DEF BeginPresence, SeqInv, Numbered, Stage, Checked, Making, Leaving, Open, Live
    <2> QED BY <1>1, <2>1, <2>3, TurnInv DEF BeginPresence
  <1>2. CASE PresenceId \/ PresenceSend
    <2>1. PICK a \in {"presence.id", "presence.send"} : At(Python, a)
      BY <1>2 DEF PresenceId, PresenceSend
    <2>2. client # Nil /\ Open /\ Live
      BY <2>1 DEF SeqInv, Stage, At, Checked
    <2>3. PICK x \in {"idle", "presence.send"} :
            Goto(Python, x) /\ UNCHANGED <<logins, fields, crashed>>
      BY <1>2, <2>2 DEF PresenceId, PresenceSend, Open
    <2>4. Numbered' /\ Stage(Python)'
      BY <2>1, <2>2, <2>3, Turn DEF SeqInv, Numbered, Stage, Checked, Making, Leaving, Open, Live
    <2> QED BY <2>1, <2>2, <2>3, <2>4, TurnInv DEF Open, Live
  <1> QED BY <1>1, <1>2 DEF SendPresence

(* A goroutine that reconnects touches no field, and needs a client only    *)
(* when it begins an attempt.                                               *)
LEMMA ReconnectSafe ==
  ASSUME SeqInv, ~ Overlap, [Next]_vars, NEW g \in Gen, Reconnect(g)
  PROVE  SeqInv'
  <1> DEFINE t == Reconnector(g)
  <1> USE ThreadKinds DEF fields, Calling
  <1>1. CASE ReconnectRead(g) /\ client = Nil
    <2>1. /\ UNCHANGED <<logins, fields>>
          /\ pc[t] = "retry" /\ pc' = pc
      BY <1>1 DEF ReconnectRead, Panic, At
    <2>2. TypeInv' /\ CrashStranded'
      BY <1>1, <2>1, StepTyped DEF SeqInv, CrashStranded, Stranded
    <2> QED BY <2>1, <2>2
            DEF SeqInv, Heard, Consistent, Quiet, Busy, Numbered, OneBusy, Stage, Open, Live
  <1>2. CASE ~ (ReconnectRead(g) /\ client = Nil)
    <2>1. PICK a \in {"spawned", "retry", "connect"}, x \in {"none", "retry", "connect"} :
            At(t, a) /\ Goto(t, x) /\ (x = "connect" => client # Nil)
      BY <1>2 DEF Reconnect, ReconnectDown, ReconnectRead, ReconnectConnect
    <2>2. UNCHANGED <<logins, fields, crashed>>
      BY <1>2 DEF Reconnect, ReconnectDown, ReconnectRead, ReconnectConnect
    <2>3. client # Nil => Open /\ Live
      <3>1. CASE a = "connect"
        BY <2>1, <3>1 DEF SeqInv, Stage, At, Checked
      <3>2. CASE a # "connect"
        <4>1. Quiet
          BY <2>1, <3>2 DEF At, Busy, Quiet, Disconnecting
        <4> QED BY <4>1 DEF SeqInv, Consistent, Open, Live
      <3> QED BY <3>1, <3>2
    <2>4. pc'[t] = x
      BY <2>1, Turn
    <2>5. Numbered' /\ Stage(t)'
      BY <2>1, <2>2, <2>3, <2>4
      DEF SeqInv, Numbered, Stage, Checked, Making, Leaving, Open, Live
    <2> QED BY <2>1, <2>2, <2>3, <2>5, TurnInv DEF Open, Live
  <1> QED BY <1>1, <1>2

(* WhatsApp touches no field, and starts no call. *)
LEMMA WhatsAppSafe ==
  ASSUME SeqInv, ~ Overlap, [Next]_vars, NEW g \in Gen, WhatsApp(g)
  PROVE  SeqInv'
  <1>1. TypeInv'
    BY StepTyped DEF SeqInv
  <1>2. UNCHANGED <<logins, fields, crashed>> /\ ~ crashed
    BY DEF WhatsApp, Unlink, Pair, Refuse, KeepAliveTimeout
  <1>3. \A t \in Thread :
          \/ pc'[t] = pc[t]
          \/ t \in Handler \cup Background /\ pc[t] = "none" /\ pc'[t] = "spawned"
    <2>1. CASE Unlink(g)
      <3>1. pc[LoggedOut(g)] = "none" /\ LoggedOut(g) \in Handler
        BY <2>1, ThreadKinds DEF Unlink
      <3>2. pc' = [pc EXCEPT ![LoggedOut(g)] = "spawned"]
        BY <2>1 DEF Unlink, Goto
      <3> QED BY <3>1, <3>2 DEF SeqInv, TypeInv, TypeOK
    <2>2. CASE KeepAliveTimeout(g)
      <3>1. pc[Reconnector(g)] = "none" /\ Reconnector(g) \in Background
        BY <2>2, ThreadKinds DEF KeepAliveTimeout
      <3>2. pc' = [pc EXCEPT ![Reconnector(g)] = "spawned"]
        BY <2>2 DEF KeepAliveTimeout, Goto
      <3> QED BY <3>1, <3>2 DEF SeqInv, TypeInv, TypeOK
    <2>3. CASE UNCHANGED pc
      BY <2>3
    <2> QED BY <2>1, <2>2, <2>3 DEF WhatsApp, Pair, Refuse
  <1>4. \A t \in Thread : Busy(t)' <=> Busy(t)
    BY <1>3 DEF Busy, Calling, Disconnecting
  <1>5. \A t \in Thread : Stage(t)'
    BY <1>2, <1>3 DEF Stage, SeqInv, Open, Live, Checked, Making, Leaving, fields
  <1>6. Heard' /\ CrashStranded'
    BY <1>2, <1>3 DEF Heard, CrashStranded, SeqInv, Thread
  <1>7. OneBusy' /\ Consistent' /\ Numbered'
    BY <1>2, <1>4 DEF OneBusy, Consistent, Numbered, Quiet, SeqInv, fields
  <1> QED BY <1>1, <1>5, <1>6, <1>7 DEF SeqInv

LEMMA InitSafe == Init => SeqInv
  <1> SUFFICES ASSUME Init PROVE SeqInv
    OBVIOUS
  <1>1. \A t \in Thread : pc[t] = IF t = Python THEN "idle" ELSE "none"
    BY DEF Init
  <1>2. \A t \in Thread : ~ Busy(t) /\ Stage(t) /\ pc[t] # "lost"
    BY <1>1 DEF Busy, Stage, Calling, Disconnecting, Checked, Making, Leaving
  <1>3. OneBusy /\ Heard /\ CrashStranded /\ Consistent /\ Numbered
    BY <1>2 DEF OneBusy, Heard, CrashStranded, Consistent, Numbered, Init, Thread
  <1> QED BY <1>2, <1>3, InitTyped DEF SeqInv

LEMMA StepSafe == ~ Overlap /\ SeqInv /\ [Next]_vars => SeqInv'
  <1> SUFFICES ASSUME ~ Overlap, SeqInv, [Next]_vars PROVE SeqInv'
    OBVIOUS
  <1>1. CASE PythonCall
    BY <1>1, ThreadKinds, LoginSafe, LogoutSafe, PresenceSafe, DisconnectSafe DEF PythonCall
  <1>2. ASSUME NEW g \in Gen, Disconnect(LoggedOut(g)) PROVE SeqInv'
    BY <1>2, ThreadKinds, DisconnectSafe
  <1>3. ASSUME NEW g \in Gen, Reconnect(g) PROVE SeqInv'
    BY <1>3, ReconnectSafe
  <1>4. ASSUME NEW g \in Gen, WhatsApp(g) PROVE SeqInv'
    BY <1>4, WhatsAppSafe
  <1>5. CASE UNCHANGED vars
    <2>1. TypeInv'
      BY StepTyped DEF SeqInv
    <2> QED BY <1>5, <2>1
            DEF vars, fields, SeqInv, Heard, CrashStranded, Stranded, Consistent, Numbered,
                OneBusy, Stage, Quiet, Busy, Open, Live
  <1> QED BY <1>1, <1>2, <1>3, <1>4, <1>5 DEF Next

(* Consistent: between complete calls a session that has a client has an    *)
(* open presence channel and a context that is not cancelled, whatever      *)
(* fails, whether or not a client is replaced, and however many goroutines  *)
(* reconnect it.                                                            *)
THEOREM SequentialCallsConsistent ==
  ASSUME ~ Overlap
  PROVE  Spec => []Consistent
  <1>1. SeqInv => Consistent
    BY DEF SeqInv
  <1>2. SeqInv /\ [Next]_vars => SeqInv'
    BY StepSafe
  <1> QED BY <1>1, <1>2, InitSafe, PTL DEF Spec

(* OnlyStranded: no sequence of complete calls loses a LoggedOut event or   *)
(* ends the process, but for one: the session is disconnected between two   *)
(* attempts of a goroutine that reconnects it, and that goroutine uses the  *)
(* client it finds gone.                                                    *)
THEOREM OnlyReconnectingPanics ==
  ASSUME ~ Overlap
  PROVE  Spec => []OnlyStranded
  <1>1. SeqInv => OnlyStranded
    BY DEF SeqInv, Heard, CrashStranded, Stranded, OnlyStranded
  <1>2. SeqInv /\ [Next]_vars => SeqInv'
    BY StepSafe
  <1> QED BY <1>1, <1>2, InitSafe, PTL DEF Spec

Alone == ~ Overlap /\ "reconnect" \notin Adverse
NoPanic == ~ crashed /\ Heard
NoReconnector == \A g \in Gen : pc[Reconnector(g)] = "none"

LEMMA NoReconnectorStep ==
  ASSUME TypeInv, NoReconnector, "reconnect" \notin Adverse, [Next]_vars
  PROVE  NoReconnector'
  <1>1. \A t \in {Python} \cup Handler : \A h \in Gen :
          t \in Thread /\ Reconnector(h) \in Thread /\ Reconnector(h) # t
    BY ThreadKinds DEF Thread
  <1>2. ASSUME NEW t \in {Python} \cup Handler, UNCHANGED pc \/ \E x : Goto(t, x)
        PROVE  NoReconnector'
    BY <1>1, <1>2 DEF Goto, NoReconnector, TypeInv, TypeOK
  <1>3. ASSUME NEW t \in {Python} \cup Handler, Disconnect(t)
        PROVE  UNCHANGED pc \/ \E x : Goto(t, x)
    BY <1>3 DEF Disconnect, BeginDisconnect, DisconnectClient, DisconnectCtx, DisconnectNil,
                DisconnectClose, CancelCtx, ForgetClient, CloseChannel, Panic, Return
  <1>4. ASSUME Login \/ Logout \/ SendPresence
        PROVE  UNCHANGED pc \/ \E x : Goto(Python, x)
    <2>1. CASE Login
      BY <2>1 DEF Login, LoginCtx, LoginClient, LoginHandler, LoginChannel, LoginConnect, Panic
    <2>2. CASE Logout
      BY <2>2 DEF Logout, BeginLogout, LogoutId, LogoutRemote, LogoutNil, LogoutCtx, LogoutClose,
                  ForgetClient, CancelCtx, CloseChannel, Panic
    <2>3. CASE SendPresence
      BY <2>3 DEF SendPresence, BeginPresence, PresenceId, PresenceSend, Panic
    <2> QED BY <1>4, <2>1, <2>2, <2>3
  <1>5. ASSUME NEW g \in Gen, WhatsApp(g)
        PROVE  UNCHANGED pc \/ \E x : Goto(LoggedOut(g), x)
    BY <1>5 DEF WhatsApp, Unlink, Pair, Refuse, KeepAliveTimeout
  <1>6. ASSUME NEW g \in Gen, Reconnect(g)
        PROVE  FALSE
    BY <1>6 DEF NoReconnector, Reconnect, ReconnectDown, ReconnectRead, ReconnectConnect, At
  <1>7. CASE UNCHANGED vars
    BY <1>2, <1>7 DEF vars
  <1> QED BY <1>2, <1>3, <1>4, <1>5, <1>6, <1>7, ThreadKinds DEF Next, PythonCall

(* NoPanic: complete calls in any order, the LoggedOut handlers among them, *)
(* never close the presence channel twice, send on it once it is closed, or *)
(* use a nil client, when keep-alives do not time out.                      *)
THEOREM SequentialCallsNeverPanic ==
  ASSUME Alone
  PROVE  Spec => []NoPanic
  <1>1. Init => NoReconnector
    BY ThreadKinds DEF Init, NoReconnector
  <1>2. SeqInv /\ NoReconnector /\ [Next]_vars => (SeqInv /\ NoReconnector)'
    BY StepSafe, NoReconnectorStep DEF Alone, SeqInv
  <1>3. SeqInv /\ NoReconnector => NoPanic
    BY DEF SeqInv, CrashStranded, Stranded, Heard, NoReconnector, NoPanic
  <1> QED BY <1>1, <1>2, <1>3, InitSafe, PTL DEF Spec

-----------------------------------------------------------------------------
(* Connections, with reconnecting goroutines.  Whatever moves s.client away *)
(* from a client does so once that client is down, and nothing dials then:  *)
(* Cut says what each thread in a call has made sure of, or has left to do. *)
Settled == ~ Overlap /\ Adverse \cap {"replace", "logoutFails"} = {}

AllDown == \A g \in Gen : conn[g] = "down"
OwnUp == \A g \in Gen : conn[g] = "up" => g = client

Cut(t) ==
  /\ pc[t] \in {"login.client", "disconnect.ctx", "disconnect.nil", "logout.nil"} => AllDown
  /\ pc[t] = "logout.remote" =>
       client # Nil /\ (conn[client] = "up" => client \in paired)
  /\ \A g \in Gen : t = Reconnector(g) /\ pc[t] = "connect" =>
       client # Nil /\ dialled[g] = client

ConnInv ==
  /\ TypeInv
  /\ OwnUp
  /\ \A t \in Thread : Cut(t)

(* What is left to show of a step of the only thread in a call. *)
LEMMA TurnCut ==
  ASSUME ConnInv, Settled, [Next]_vars,
         NEW t \in Thread, NEW a, At(t, a), NEW x, Goto(t, x), OwnUp', Cut(t)'
  PROVE  ConnInv'
  <1>1. TypeInv'
    BY StepTyped DEF ConnInv
  <1>2. \A u \in Thread \ {t} : ~ Busy(u) /\ pc'[u] = pc[u]
    BY DEF At, Goto, Settled, ConnInv, TypeInv, TypeOK
  <1>3. \A u \in Thread \ {t} : Cut(u)'
    BY <1>2 DEF Cut, Busy, Calling, Disconnecting
  <1> QED BY <1>1, <1>3 DEF ConnInv

(* The common case: the step leaves every connection and client alone, and  *)
(* goes on to a statement that takes nothing for granted.                   *)
Plain == {"idle", "gone", "announced", "disconnect.client", "disconnect.close",
          "login.handler", "login.channel", "login.connect", "logout.id",
          "logout.ctx", "logout.close", "presence.id", "presence.send"}

LEMMA PlainTurn ==
  ASSUME ConnInv, Settled, [Next]_vars,
         NEW t \in Thread, NEW a, At(t, a), NEW x \in Plain, Goto(t, x),
         UNCHANGED <<client, conn>>
  PROVE  ConnInv'
  <1>1. OwnUp'
    BY DEF ConnInv, OwnUp
  <1>2. pc'[t] = x
    BY DEF Goto, ConnInv, TypeInv, TypeOK
  <1>3. Cut(t)'
    BY <1>2 DEF Cut, Plain
  <1> QED BY <1>1, <1>3, TurnCut

LEMMA PanicCut ==
  ASSUME ConnInv, [Next]_vars, NEW t \in Thread, Panic(t)
  PROVE  ConnInv'
  <1>1. TypeInv'
    BY StepTyped DEF ConnInv
  <1>2. UNCHANGED <<client, conn, paired, dialled>>
    BY DEF Panic, fields, remote
  <1>3. \A u \in Thread : pc'[u] = pc[u] \/ pc'[u] = "lost"
    BY DEF Panic, Goto, ConnInv, TypeInv, TypeOK
  <1>4. OwnUp' /\ \A u \in Thread : Cut(u)'
    BY <1>2, <1>3 DEF ConnInv, OwnUp, Cut, AllDown
  <1> QED BY <1>1, <1>4 DEF ConnInv

LEMMA ReturnPlain ==
  ASSUME NEW t \in Thread, Return(t)
  PROVE  \E x \in Plain : Goto(t, x)
  BY DEF Return, Plain

LEMMA CloseCut ==
  ASSUME ConnInv, Settled, [Next]_vars, NEW t \in Thread, NEW a, At(t, a),
         CloseChannel(t, \E x \in Plain : Goto(t, x))
  PROVE  ConnInv'
  <1>1. CASE Panic(t)
    BY <1>1, PanicCut
  <1>2. CASE ~ Panic(t)
    BY <1>2, PlainTurn DEF CloseChannel, remote
  <1> QED BY <1>1, <1>2

LEMMA DisconnectCut ==
  ASSUME ConnInv, Settled, [Next]_vars,
         NEW t \in Thread, t = Python \/ t \in Handler, Disconnect(t)
  PROVE  ConnInv'
  <1> USE ThreadKinds
  <1>1. ASSUME NEW x, Goto(t, x)
        PROVE  pc'[t] = x
    BY <1>1 DEF Goto, ConnInv, TypeInv, TypeOK
  <1>2. CASE BeginDisconnect(t)
    <2>1. PICK a : At(t, a)
      BY <1>2 DEF BeginDisconnect
    <2>2. \E x \in Plain : Goto(t, x)
      BY <1>2, ReturnPlain DEF BeginDisconnect, Plain
    <2> QED BY <1>2, <2>1, <2>2, PlainTurn DEF BeginDisconnect, fields, remote
  <1>3. CASE DisconnectClient(t)
    <2>1. At(t, "disconnect.client") /\ Goto(t, "disconnect.ctx")
      BY <1>3 DEF DisconnectClient
    <2>2. AllDown'
      BY <1>3 DEF DisconnectClient, AllDown, ConnInv, OwnUp, TypeInv, TypeOK
    <2>3. OwnUp' /\ Cut(t)'
      BY <1>1, <2>1, <2>2 DEF AllDown, OwnUp, Cut
    <2> QED BY <2>1, <2>3, TurnCut
  <1>4. CASE DisconnectCtx(t)
    <2>1. /\ At(t, "disconnect.ctx") /\ Goto(t, "disconnect.nil")
          /\ UNCHANGED <<client, conn>>
      BY <1>4 DEF DisconnectCtx, CancelCtx, remote
    <2>2. AllDown'
      BY <2>1 DEF At, ConnInv, Cut, AllDown
    <2>3. OwnUp' /\ Cut(t)'
      BY <1>1, <2>1, <2>2 DEF AllDown, OwnUp, Cut
    <2> QED BY <2>1, <2>3, TurnCut
  <1>5. CASE DisconnectNil(t)
    <2>1. /\ At(t, "disconnect.nil") /\ Goto(t, "disconnect.close")
          /\ UNCHANGED conn
      BY <1>5 DEF DisconnectNil, ForgetClient, remote
    <2>2. AllDown'
      BY <2>1 DEF At, ConnInv, Cut, AllDown
    <2>3. OwnUp' /\ Cut(t)'
      BY <1>1, <2>1, <2>2 DEF AllDown, OwnUp, Cut
    <2> QED BY <2>1, <2>3, TurnCut
  <1>6. CASE DisconnectClose(t)
    <2>1. At(t, "disconnect.close") /\ CloseChannel(t, \E x \in Plain : Goto(t, x))
      BY <1>6, ReturnPlain DEF DisconnectClose, CloseChannel
    <2> QED BY <2>1, CloseCut
  <1> QED BY <1>2, <1>3, <1>4, <1>5, <1>6 DEF Disconnect

LEMMA LoginCut ==
  ASSUME ConnInv, Settled, [Next]_vars, Login
  PROVE  ConnInv'
  <1> USE ThreadKinds DEF fields, remote
  <1>0. \A x : Goto(Python, x) => pc'[Python] = x
    BY DEF Goto, ConnInv, TypeInv, TypeOK
  <1>1. CASE LoginCtx
    <2>1. At(Python, "idle") /\ UNCHANGED <<client, conn>>
      BY <1>1 DEF LoginCtx
    <2>2. CASE Goto(Python, "idle")
      BY <2>1, <2>2, PlainTurn DEF Plain
    <2>3. CASE Goto(Python, "login.client")
      <3>1. client # Nil => conn[client] # "up"
        BY <1>1 DEF LoginCtx, Settled
      <3>2. AllDown
        BY <3>1 DEF ConnInv, OwnUp, AllDown, TypeInv, TypeOK, Gen
      <3>3. AllDown' /\ OwnUp'
        BY <2>1, <3>2 DEF AllDown, OwnUp
      <3>4. Cut(Python)'
        BY <1>0, <2>3, <3>3 DEF Cut
      <3> QED BY <2>1, <2>3, <3>3, <3>4, TurnCut
    <2> QED BY <1>1, <2>2, <2>3 DEF LoginCtx
  <1>2. CASE LoginClient
    <2>1. At(Python, "login.client") /\ Goto(Python, "login.handler") /\ UNCHANGED conn
      BY <1>2 DEF LoginClient
    <2>2. OwnUp'
      BY <2>1 DEF At, ConnInv, Cut, AllDown, OwnUp
    <2>3. Cut(Python)'
      BY <1>0, <2>1 DEF Cut
    <2> QED BY <2>1, <2>2, <2>3, TurnCut
  <1>3. CASE LoginHandler
    <2>1. CASE Panic(Python)
      BY <2>1, PanicCut
    <2>2. CASE ~ Panic(Python)
      BY <1>3, <2>2, PlainTurn DEF LoginHandler, Plain
    <2> QED BY <2>1, <2>2
  <1>4. CASE LoginChannel
    BY <1>4, PlainTurn DEF LoginChannel, Plain
  <1>5. CASE LoginConnect
    <2>1. CASE Panic(Python)
      BY <2>1, PanicCut
    <2>2. CASE ~ Panic(Python)
      <3>1. At(Python, "login.connect") /\ Goto(Python, "idle") /\ UNCHANGED client
        BY <1>5, <2>2 DEF LoginConnect
      <3>2. conn' = conn \/ conn' = [conn EXCEPT ![client] = "up"]
        BY <1>5, <2>2 DEF LoginConnect
      <3>3. OwnUp'
        BY <3>1, <3>2 DEF ConnInv, OwnUp, TypeInv, TypeOK
      <3>4. Cut(Python)'
        BY <1>0, <3>1 DEF Cut
      <3> QED BY <3>1, <3>3, <3>4, TurnCut
    <2> QED BY <2>1, <2>2
  <1> QED BY <1>1, <1>2, <1>3, <1>4, <1>5 DEF Login

LEMMA LogoutCut ==
  ASSUME ConnInv, Settled, [Next]_vars, Logout
  PROVE  ConnInv'
  <1> USE ThreadKinds DEF fields, remote
  <1>0. \A x : Goto(Python, x) => pc'[Python] = x
    BY DEF Goto, ConnInv, TypeInv, TypeOK
  <1>1. CASE BeginLogout
    <2>1. \E x \in Plain : Goto(Python, x)
      BY <1>1 DEF BeginLogout, Plain
    <2> QED BY <1>1, <2>1, PlainTurn DEF BeginLogout
  <1>2. CASE LogoutId
    <2>1. CASE Panic(Python)
      BY <2>1, PanicCut
    <2>2. CASE ~ Panic(Python)
      <3>1. /\ At(Python, "logout.id") /\ client # Nil
            /\ UNCHANGED <<client, conn, paired, dialled>>
        BY <1>2, <2>2 DEF LogoutId
      <3>2. CASE client \in paired
        <4>1. Goto(Python, "logout.remote")
          BY <1>2, <2>2, <3>2 DEF LogoutId
        <4>2. OwnUp' /\ Cut(Python)'
          BY <1>0, <3>1, <3>2, <4>1 DEF ConnInv, OwnUp, Cut
        <4> QED BY <3>1, <4>1, <4>2, TurnCut
      <3>3. CASE client \notin paired
        BY <1>2, <2>2, <3>1, <3>3, PlainTurn DEF LogoutId, Plain
      <3> QED BY <3>2, <3>3
    <2> QED BY <2>1, <2>2
  <1>3. CASE LogoutRemote
    <2>1. /\ At(Python, "logout.remote") /\ Goto(Python, "logout.nil")
          /\ UNCHANGED client
      BY <1>3 DEF LogoutRemote
    <2>2. client \in Gen /\ (conn[client] = "up" => client \in paired)
      BY <2>1 DEF At, ConnInv, Cut, TypeInv, TypeOK
    <2>3. AllDown'
      <3>1. CASE conn' = [conn EXCEPT ![client] = "down"]
        BY <3>1 DEF AllDown, ConnInv, OwnUp, TypeInv, TypeOK
      <3>2. CASE conn' = conn /\ conn[client] # "up"
        BY <3>2 DEF AllDown, ConnInv, OwnUp, TypeInv, TypeOK
      <3> QED BY <1>3, <2>2, <3>1, <3>2 DEF LogoutRemote, Settled
    <2>4. OwnUp' /\ Cut(Python)'
      BY <1>0, <2>1, <2>3 DEF AllDown, OwnUp, Cut
    <2> QED BY <2>1, <2>4, TurnCut
  <1>4. CASE LogoutNil
    <2>1. /\ At(Python, "logout.nil") /\ Goto(Python, "logout.ctx")
          /\ UNCHANGED conn
      BY <1>4 DEF LogoutNil, ForgetClient
    <2>2. AllDown'
      BY <2>1 DEF At, ConnInv, Cut, AllDown
    <2>3. OwnUp' /\ Cut(Python)'
      BY <1>0, <2>1, <2>2 DEF AllDown, OwnUp, Cut
    <2> QED BY <2>1, <2>3, TurnCut
  <1>5. CASE LogoutCtx
    BY <1>5, PlainTurn DEF LogoutCtx, CancelCtx, Plain
  <1>6. CASE LogoutClose
    <2>1. At(Python, "logout.close") /\ CloseChannel(Python, \E x \in Plain : Goto(Python, x))
      BY <1>6 DEF LogoutClose, CloseChannel, Plain
    <2> QED BY <2>1, CloseCut
  <1> QED BY <1>1, <1>2, <1>3, <1>4, <1>5, <1>6 DEF Logout

LEMMA PresenceCut ==
  ASSUME ConnInv, Settled, [Next]_vars, SendPresence
  PROVE  ConnInv'
  <1> USE ThreadKinds DEF fields, remote
  <1>1. CASE Panic(Python)
    BY <1>1, PanicCut
  <1>2. CASE ~ Panic(Python)
    <2>1. PICK a : At(Python, a)
      BY DEF SendPresence, BeginPresence, PresenceId, PresenceSend
    <2>2. /\ \E x \in Plain : Goto(Python, x)
          /\ UNCHANGED <<client, conn>>
      BY <1>2 DEF SendPresence, BeginPresence, PresenceId, PresenceSend, Plain
    <2> QED BY <2>1, <2>2, PlainTurn
  <1> QED BY <1>1, <1>2

(* A reconnecting goroutine connects the client it has read, which nothing  *)
(* has replaced since.                                                      *)
LEMMA ReconnectCut ==
  ASSUME ConnInv, Settled, [Next]_vars, NEW g \in Gen, Reconnect(g)
  PROVE  ConnInv'
  <1> DEFINE t == Reconnector(g)
  <1>0. /\ t \in Thread /\ t # Python
        /\ \A h \in Gen : t = Reconnector(h) => h = g
        /\ \A x : Goto(t, x) => pc'[t] = x
    BY ThreadKinds DEF Goto, ConnInv, TypeInv, TypeOK, Reconnector
  <1> HIDE DEF t
  <1>1. CASE ReconnectDown(g)
    <2>1. At(t, "spawned") /\ Goto(t, "retry") /\ UNCHANGED client
      BY <1>1 DEF ReconnectDown, fields, t
    <2>2. OwnUp' /\ Cut(t)'
      BY <1>0, <1>1, <2>1 DEF ReconnectDown, ConnInv, OwnUp, Cut
    <2> QED BY <1>0, <2>1, <2>2, TurnCut
  <1>2. CASE ReconnectRead(g)
    <2>1. CASE Panic(t)
      BY <1>0, <2>1, PanicCut
    <2>2. CASE ~ Panic(t)
      <3>1. /\ At(t, "retry") /\ Goto(t, "connect")
            /\ client # Nil /\ dialled' = [dialled EXCEPT ![g] = client]
            /\ UNCHANGED <<client, conn>>
        BY <1>2, <2>2 DEF ReconnectRead, fields, remote, t
      <3>2. dialled'[g] = client
        BY <3>1 DEF ConnInv, TypeInv, TypeOK
      <3>3. OwnUp' /\ Cut(t)'
        BY <1>0, <3>1, <3>2 DEF ConnInv, OwnUp, Cut
      <3> QED BY <1>0, <3>1, <3>3, TurnCut
    <2> QED BY <2>1, <2>2
  <1>3. CASE ReconnectConnect(g)
    <2>1. At(t, "connect") /\ UNCHANGED client
      BY <1>3 DEF ReconnectConnect, fields, t
    <2>2. client # Nil /\ dialled[g] = client
      BY <1>0, <2>1 DEF At, ConnInv, Cut, t
    <2>3. PICK x \in {"none", "retry"} : Goto(t, x)
      BY <1>3 DEF ReconnectConnect, t
    <2>4. conn' = conn \/ conn' = [conn EXCEPT ![client] = "up"]
      BY <1>3, <2>2 DEF ReconnectConnect
    <2>5. OwnUp'
      BY <2>1, <2>4 DEF ConnInv, OwnUp, TypeInv, TypeOK
    <2>6. Cut(t)'
      BY <1>0, <2>3 DEF Cut
    <2> QED BY <1>0, <2>1, <2>3, <2>5, <2>6, TurnCut
  <1> QED BY <1>1, <1>2, <1>3 DEF Reconnect

(* WhatsApp takes connections down, and unpairs a client only with that. *)
LEMMA WhatsAppCut ==
  ASSUME ConnInv, [Next]_vars, NEW g \in Gen, WhatsApp(g)
  PROVE  ConnInv'
  <1>1. TypeInv'
    BY StepTyped DEF ConnInv
  <1>2. UNCHANGED <<client, dialled>>
    BY DEF WhatsApp, Unlink, Pair, Refuse, KeepAliveTimeout, fields
  <1>3. conn' = conn \/ conn' = [conn EXCEPT ![g] = "down"]
    BY DEF WhatsApp, Unlink, Pair, Refuse, KeepAliveTimeout, remote
  <1>4. \A h \in Gen : conn'[h] = "up" => conn[h] = "up" /\ (h \in paired => h \in paired')
    BY <1>3 DEF WhatsApp, Unlink, Pair, Refuse, KeepAliveTimeout, remote, ConnInv, TypeInv, TypeOK
  <1>5. \A h \in Gen : conn[h] = "down" => conn'[h] = "down"
    BY <1>3 DEF ConnInv, TypeInv, TypeOK
  <1>6. \A t \in Thread : pc'[t] = pc[t] \/ pc'[t] = "spawned"
    BY ThreadKinds
    DEF WhatsApp, Unlink, Pair, Refuse, KeepAliveTimeout, Goto, ConnInv, TypeInv, TypeOK
  <1>7. OwnUp' /\ \A t \in Thread : Cut(t)'
    <2>1. client # Nil => client \in Gen
      BY DEF ConnInv, TypeInv, TypeOK
    <2>2. OwnUp' /\ (AllDown => AllDown')
      BY <1>2, <1>4, <1>5 DEF ConnInv, OwnUp, AllDown
    <2>3. \A t \in Thread : Cut(t)'
      BY <1>2, <1>4, <1>6, <2>1, <2>2 DEF ConnInv, Cut
    <2> QED BY <2>2, <2>3
  <1> QED BY <1>1, <1>7 DEF ConnInv

(* OneConnection: between calls no client but the session's own is          *)
(* connected, goroutines that reconnect after keep-alive timeouts included, *)
(* when the calls do not overlap, Login is not called over a client that is *)
(* still connected, and WhatsApp does not refuse to unlink the device.      *)
THEOREM NoForgottenConnection ==
  ASSUME Settled
  PROVE  Spec => []OneConnection
  <1>1. Init => ConnInv
    <2> SUFFICES ASSUME Init PROVE ConnInv
      OBVIOUS
    <2>1. \A t \in Thread : pc[t] \in {"idle", "none"}
      BY DEF Init
    <2> QED BY <2>1, InitTyped DEF Init, ConnInv, OwnUp, Cut
  <1>2. ConnInv /\ [Next]_vars => ConnInv'
    <2> SUFFICES ASSUME ConnInv, [Next]_vars PROVE ConnInv'
      OBVIOUS
    <2>1. CASE PythonCall
      BY <2>1, ThreadKinds, LoginCut, LogoutCut, PresenceCut, DisconnectCut DEF PythonCall
    <2>2. ASSUME NEW g \in Gen, Disconnect(LoggedOut(g)) \/ Reconnect(g) \/ WhatsApp(g)
          PROVE  ConnInv'
      BY <2>2, ThreadKinds, DisconnectCut, ReconnectCut, WhatsAppCut
    <2>3. CASE UNCHANGED vars
      <3>1. TypeInv'
        BY StepTyped DEF ConnInv
      <3> QED BY <2>3, <3>1 DEF vars, fields, remote, ConnInv, OwnUp, Cut, AllDown
    <2> QED BY <2>1, <2>2, <2>3 DEF Next
  <1>3. ConnInv => OneConnection
    BY DEF ConnInv, OwnUp, OneConnection
  <1> QED BY <1>1, <1>2, <1>3, PTL DEF Spec
=============================================================================
