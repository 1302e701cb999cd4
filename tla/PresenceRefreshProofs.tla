----------------------- MODULE PresenceRefreshProofs -----------------------
(***************************************************************************)
(* Proofs about PresenceRefresh, for any number of logins and whatever is  *)
(* adverse: the types, and Served.  The channels that are closed are those *)
(* of earlier logins (Closed), so the goroutine of the current login never *)
(* finds the channel it waits for closed, and does not end.  Who uses a    *)
(* channel has one (Made).  Then, if nothing is adverse, Agreement.        *)
(***************************************************************************)
EXTENDS PresenceRefresh, TLAPS

Closed ==
  /\ closed \subseteq 1..presenceChan
  /\ client # Nil => client \notin closed

Made ==
  /\ \A g \in Gen : /\ at[g] = "selecting" => on[g] # Nil
                    /\ at[g] # "none" => presenceChan # Nil
  /\ call # NoCall => presenceChan # Nil

Inv == TypeOK /\ Closed /\ Made /\ Served

USE PresenceAssumption DEF Nil, Gen, Presence

LEMMA InitInv == Init => Inv
  BY SMT DEF Init, Inv, TypeOK, Closed, Made, Served, NoCall

LEMMA LoginInv == Inv /\ Login => Inv'
<1> SUFFICES ASSUME Inv, Login PROVE Inv'
  OBVIOUS
<1> USE DEF Login, Inv
<1>1. /\ client' = presenceChan + 1 /\ presenceChan' = presenceChan + 1
      /\ presenceChan + 1 \in Gen
  BY SMT DEF TypeOK
<1>2. TypeOK'
  BY <1>1, SMT DEF TypeOK
<1>3. Closed' /\ presenceChan + 1 \notin closed'
  BY <1>1, SMT DEF TypeOK, Closed
<1>4. at'[presenceChan + 1] = "entering"
  BY <1>1, SMT DEF TypeOK
<1>5. Made'
  BY <1>1, SMT DEF TypeOK, Made
<1> QED
  BY <1>1, <1>2, <1>3, <1>4, <1>5 DEF Served

LEMMA DisconnectInv == Inv /\ Disconnect => Inv'
<1> SUFFICES ASSUME Inv, Disconnect PROVE Inv'
  OBVIOUS
<1>1. presenceChan = client
  BY DEF Inv, Served, Disconnect
<1>2. TypeOK'
  BY <1>1, SMT DEF Inv, TypeOK, Disconnect, goVars
<1>3. Closed' /\ Served'
  BY <1>1, SMT DEF Inv, TypeOK, Closed, Served, Disconnect
<1>4. Made'
  BY DEF Inv, Made, Disconnect, goVars
<1> QED
  BY <1>2, <1>3, <1>4 DEF Inv

(* What the Connected handler and SendPresence do concerns neither the     *)
(* goroutines nor which channels there are.                                *)
LEMMA CallsInv ==
  ASSUME Inv,
         \/ Connected \/ \E g \in Gen : Greet(g)
         \/ (\E p \in Presence : SendPresence(p)) \/ PresenceSend \/ PresenceTell
  PROVE  Inv'
<1>1. Connected => TypeOK'
  BY SMT DEF Inv, TypeOK, Connected, chanVars, goVars
<1>2. ASSUME NEW g \in Gen, Greet(g) PROVE TypeOK'
  <2>1. status' \in Presence
    BY <1>2, SMT DEF Inv, TypeOK, Greet
  <2> QED
    BY <1>2, <2>1, SMT DEF Inv, TypeOK, Greet, chanVars, goVars
<1>3. ASSUME NEW p \in Presence, SendPresence(p) PROVE TypeOK'
  BY <1>3, SMT DEF Inv, TypeOK, SendPresence, chanVars, goVars
<1>4. PresenceSend => TypeOK'
  <2> SUFFICES ASSUME PresenceSend PROVE TypeOK'
    OBVIOUS
  <2>1. call.presence \in Presence
    BY DEF Inv, TypeOK
  <2>2. buffer' \in [Gen -> Presence \cup {"none"}]
    <3>1. /\ buffer \in [Gen -> Presence \cup {"none"}]
          /\ buffer' = [buffer EXCEPT ![presenceChan] = call.presence]
      BY DEF Inv, TypeOK, PresenceSend
    <3>2. call.presence \in Presence \cup {"none"}
      BY <2>1
    <3> QED
      BY <3>1, <3>2
  <2>3. call' = [at |-> "tell", presence |-> call.presence]
    <3>1. call \in [at : {"none", "send", "tell"}, presence : Presence]
      BY DEF Inv, TypeOK
    <3>2. call' = [call EXCEPT !.at = "tell"]
      BY DEF PresenceSend
    <3> QED
      BY <3>1, <3>2
  <2>4. call' \in [at : {"none", "send", "tell"}, presence : Presence]
    BY <2>1, <2>3
  <2> QED
    BY <2>2, <2>4 DEF Inv, TypeOK, PresenceSend, chanVars, goVars
<1>5. PresenceTell => TypeOK'
  <2> SUFFICES ASSUME PresenceTell PROVE TypeOK'
    OBVIOUS
  <2>1. status' \in Presence /\ call' \in [at : {"none", "send", "tell"}, presence : Presence]
    BY SMT DEF Inv, TypeOK, PresenceTell, NoCall
  <2> QED
    BY <2>1 DEF Inv, TypeOK, PresenceTell, chanVars, goVars
<1>6. UNCHANGED <<chanVars, at, on>>
  BY DEF Connected, Greet, SendPresence, PresenceSend, PresenceTell, goVars
<1>7. Closed' /\ Served'
  BY <1>6 DEF Inv, Closed, Served, chanVars
<1>8. client # Nil \/ call # NoCall \/ call' = call
  BY SMT DEF Inv, TypeOK, Connected, Greet, SendPresence, PresenceSend, PresenceTell, NoCall
<1>9. client # Nil => presenceChan # Nil
  BY DEF Inv, Served
<1>10. Made'
  BY <1>6, <1>8, <1>9 DEF Inv, Made, chanVars
<1> QED
  BY <1>1, <1>2, <1>3, <1>4, <1>5, <1>7, <1>10 DEF Inv

LEMMA RefresherInv ==
  ASSUME Inv, NEW g \in Gen, Refresher(g)
  PROVE  Inv'
<1>1. UNCHANGED chanVars
  BY DEF Refresher, Select, Tick, Receive, End, Subscribed
<1>2. Closed'
  BY <1>1 DEF Inv, Closed, chanVars
<1>3. \A h \in Gen \ {g} : at'[h] = at[h] /\ on'[h] = on[h]
  BY SMT DEF Inv, TypeOK, Refresher, Select, Tick, Receive, End, Subscribed
<1>4. CASE Select(g)
  <2>0. presenceChan \in Gen
    BY <1>4, SMT DEF Inv, TypeOK, Made, Select
  <2>1. TypeOK'
    BY <1>4, <2>0, SMT DEF Inv, TypeOK, Select, chanVars
  <2>2. at'[g] = "selecting" /\ on'[g] = presenceChan
    BY <1>4, SMT DEF Inv, TypeOK, Select
  <2>3. call' = call
    BY <1>4 DEF Select
  <2>4. Made'
    BY <1>1, <1>3, <2>0, <2>2, <2>3 DEF Inv, Made, chanVars
  <2> QED
    BY <1>1, <1>2, <1>3, <2>1, <2>2, <2>4, SMT DEF Inv, Served, TypeOK, chanVars
<1>5. CASE End(g)
  <2>1. TypeOK'
    BY <1>5, SMT DEF Inv, TypeOK, End, chanVars
  <2>2. g # client
    BY <1>5, SMT DEF Inv, Served, End
  <2>3. at'[g] = "ended" /\ at[g] = "selecting" /\ call' = call
    BY <1>5, SMT DEF Inv, TypeOK, End
  <2>4. Made'
    BY <1>1, <1>3, <2>3, SMT DEF Inv, Made, chanVars
  <2> QED
    BY <1>1, <1>2, <1>3, <2>1, <2>2, <2>4, SMT DEF Inv, Served, TypeOK, chanVars
<1>6. CASE Tick(g) \/ Receive(g) \/ Subscribed(g)
  <2>1. TypeOK'
    <3>1. Tick(g) => TypeOK'
      <4> SUFFICES ASSUME Tick(g) PROVE TypeOK'
        OBVIOUS
      <4>1. at' \in [Gen -> {"none", "entering", "selecting", "subscribing", "ended"}]
        BY DEF Inv, TypeOK, Tick
      <4>2. timer' \in [Gen -> {"running", "stopped"}]
        BY DEF Inv, TypeOK, Tick
      <4> QED
        BY <4>1, <4>2 DEF Inv, TypeOK, Tick, chanVars
    <3>2. Receive(g) => TypeOK'
      <4> SUFFICES ASSUME Receive(g) PROVE TypeOK'
        OBVIOUS
      <4>1. on[g] \in Gen /\ buffer[on[g]] \in Presence
        BY SMT DEF Inv, TypeOK, Made, Receive
      <4>2. /\ buffer' \in [Gen -> Presence \cup {"none"}]
            /\ presence' \in [Gen -> Presence]
        BY <4>1, SMT DEF Inv, TypeOK, Receive
      <4> QED
        BY <4>2, SMT DEF Inv, TypeOK, Receive, chanVars
    <3>3. Subscribed(g) => TypeOK'
      BY SMT DEF Inv, TypeOK, Subscribed, chanVars
    <3> QED
      BY <1>6, <3>1, <3>2, <3>3
  <2>2. at'[g] \in {"entering", "subscribing"}
    BY <1>6, SMT DEF Inv, TypeOK, Tick, Receive, Subscribed
  <2>3. at[g] # "none" /\ call' = call
    BY <1>6, SMT DEF Tick, Receive, Subscribed
  <2>4. Made'
    BY <1>1, <1>3, <2>2, <2>3, SMT DEF Inv, Made, chanVars
  <2> QED
    BY <1>1, <1>2, <1>3, <2>1, <2>2, <2>4, SMT DEF Inv, Served, TypeOK, chanVars
<1> QED
  BY <1>4, <1>5, <1>6 DEF Refresher

LEMMA StepInv == Inv /\ [Next]_vars => Inv'
<1> SUFFICES ASSUME Inv, [Next]_vars PROVE Inv'
  OBVIOUS
<1>1. CASE Login
  BY <1>1, LoginInv
<1>2. CASE Disconnect
  BY <1>2, DisconnectInv
<1>3. CASE \/ Connected \/ \E g \in Gen : Greet(g)
           \/ (\E p \in Presence : SendPresence(p)) \/ PresenceSend \/ PresenceTell
  BY <1>3, CallsInv
<1>4. CASE \E g \in Gen : Refresher(g)
  BY <1>4, RefresherInv
<1>5. CASE UNCHANGED vars
  BY <1>5 DEF Inv, TypeOK, Closed, Made, Served, vars, chanVars, goVars
<1> QED
  BY <1>1, <1>2, <1>3, <1>4, <1>5 DEF Next

LEMMA AlwaysInv == Spec => []Inv
  BY InitInv, StepInv, PTL DEF Spec

(* The channels, the goroutines and the call stay within their types.      *)
THEOREM PresenceTypeCorrect == Spec => []TypeOK
<1>1. Inv => TypeOK
  BY DEF Inv
<1> QED
  BY <1>1, AlwaysInv, PTL

(* While there is a client, the goroutine of its login runs, and waits for *)
(* no channel but the one SendPresence uses: the buffer of that channel is *)
(* always emptied again, so the session.go:448 send does not wait for ever. *)
THEOREM RefresherServes == Spec => []Served
<1>1. Inv => Served
  BY DEF Inv
<1> QED
  BY <1>1, AlwaysInv, PTL
-----------------------------------------------------------------------------
(* Agreement, if nothing is adverse: the session is then used by the        *)
(* goroutine and the handler of the current login alone (Alone), those of  *)
(* logins to come have not begun (Ahead), and the last presence sent, in    *)
(* the channel or kept by the goroutine, is what WhatsApp knows or is about *)
(* to be told (Agreed).                                                    *)
Alone ==
  /\ closed = IF client = Nil THEN 1..presenceChan ELSE 1..(client - 1)
  /\ \A g \in Gen : g < client => at[g] = "ended" /\ greeting[g] # "telling"

Ahead ==
  \A g \in Gen : g > presenceChan =>
    at[g] = "none" /\ greeting[g] = "none" /\ buffer[g] = "none" /\ presence[g] = "available"

Taken == IF buffer[client] = "none" THEN presence[client] ELSE buffer[client]
ToBeTold == IF call.at = "tell" THEN call.presence ELSE status

Agreed ==
  /\ client = Nil => call = NoCall
  /\ client # Nil /\ greeting[client] # "over" => call = NoCall /\ Taken = "available"
                                                  /\ buffer[client] = "none"
  /\ client # Nil /\ greeting[client] = "over" => Taken = ToBeTold

AgreeInv == Inv /\ Alone /\ Ahead /\ Agreed

(* The only goroutine that runs is the one of the current login. *)
LEMMA OneRuns ==
  ASSUME AgreeInv, client # Nil, NEW g \in Gen, at[g] \notin {"none", "ended"}
  PROVE  g = client /\ (at[g] = "selecting" => on[g] = client)
<1>1. client = presenceChan /\ client \in Gen
  BY DEF AgreeInv, Inv, Served, TypeOK
<1>2. ~ g < client /\ ~ g > client
  BY <1>1 DEF AgreeInv, Alone, Ahead
<1>3. g = client
  BY <1>1, <1>2, SMT
<1> QED
  BY <1>3 DEF AgreeInv, Inv, Served

LEMMA LoginAgrees == ASSUME Adverse = {}, AgreeInv, Login PROVE AgreeInv'
<1> DEFINE n == presenceChan + 1
<1>0. Inv'
  BY LoginInv DEF AgreeInv
<1>1. /\ client = Nil /\ call = NoCall
      /\ client' = n /\ presenceChan' = n /\ n \in Gen
      /\ UNCHANGED <<closed, buffer, presence, greeting, call>>
  BY SMT DEF Login, AgreeInv, Inv, TypeOK
<1>2. \A g \in Gen \ {n} : at'[g] = at[g]
  BY DEF Login, AgreeInv, Inv, TypeOK
<1>3. closed = 1..presenceChan
  BY <1>1 DEF AgreeInv, Alone
<1>4. \A g \in 1..presenceChan : at[g] = "ended" /\ greeting[g] # "telling"
  BY <1>3 DEF Login
<1>5. presenceChan \in Nat /\ \A g \in Gen : g < n => g \in 1..presenceChan
  BY SMT DEF AgreeInv, Inv, TypeOK
<1>6. Alone'
  <2>1. closed' = 1..(n - 1) /\ n # Nil
    BY <1>1, <1>3, <1>5, SMT
  <2>2. \A g \in Gen : g < n => at'[g] = "ended" /\ greeting[g] # "telling"
    <3>1. \A g \in Gen : g < n => g # n
      BY <1>5, SMT
    <3> QED
      BY <1>2, <1>4, <1>5, <3>1
  <2> QED
    BY <1>1, <2>1, <2>2 DEF Alone
<1>7. Ahead' /\ greeting[n] = "none" /\ buffer[n] = "none" /\ presence[n] = "available"
  <2>1. \A g \in Gen : g > n => g > presenceChan /\ g # n
    BY <1>5, SMT
  <2>2. n > presenceChan
    BY <1>5, SMT
  <2> QED
    BY <1>1, <1>2, <2>1, <2>2 DEF AgreeInv, Ahead
<1>8. Agreed'
  BY <1>1, <1>7 DEF Agreed, Taken
<1> QED
  BY <1>0, <1>6, <1>7, <1>8 DEF AgreeInv

LEMMA DisconnectAgrees == ASSUME AgreeInv, Disconnect PROVE AgreeInv'
<1>0. Inv'
  BY DisconnectInv DEF AgreeInv
<1>1. /\ client = presenceChan /\ client \in Gen /\ client' = Nil
      /\ closed' = closed \cup {presenceChan} /\ call = NoCall
      /\ UNCHANGED <<presenceChan, buffer, at, presence, greeting, call>>
  BY DEF Disconnect, goVars, AgreeInv, Inv, TypeOK, Served
<1>2. Alone'
  <2>1. closed = 1..(client - 1)
    BY <1>1 DEF AgreeInv, Alone, Disconnect
  <2>2. closed' = 1..presenceChan
    BY <1>1, <2>1, SMT
  <2>3. \A g \in Gen : ~ g < Nil
    BY SMT
  <2> QED
    BY <1>1, <2>2, <2>3 DEF Alone
<1>3. Ahead' /\ Agreed'
  BY <1>1 DEF AgreeInv, Ahead, Agreed
<1> QED
  BY <1>0, <1>2, <1>3 DEF AgreeInv

(* The handler makes us available, and the goroutine starts so; SendPresence *)
(* comes after it, and puts in the channel what it tells WhatsApp next.    *)
LEMMA CallsAgree ==
  ASSUME Adverse = {}, AgreeInv,
         \/ Connected \/ \E g \in Gen : Greet(g)
         \/ (\E p \in Presence : SendPresence(p)) \/ PresenceSend \/ PresenceTell
  PROVE  AgreeInv'
<1>0. Inv'
  BY CallsInv DEF AgreeInv
<1>1. UNCHANGED <<client, presenceChan, closed, at, presence>>
  BY DEF Connected, Greet, SendPresence, PresenceSend, PresenceTell, chanVars, goVars
<1>2. client # Nil => /\ client = presenceChan /\ client \in Gen
                      /\ \A g \in Gen : g < client \/ g = client \/ g > presenceChan
  BY SMT DEF AgreeInv, Inv, TypeOK, Served
<1>3. client = Nil => call = NoCall /\ \A g \in Gen : ~ g < client
  BY SMT DEF AgreeInv, Agreed
<1>4. CASE Connected
  <2>1. /\ client # Nil /\ greeting[client] = "none"
        /\ greeting' = [greeting EXCEPT ![client] = "telling"]
        /\ UNCHANGED <<buffer, call, status>>
    BY <1>4 DEF Connected
  <2>2. greeting'[client] = "telling" /\ \A g \in Gen \ {client} : greeting'[g] = greeting[g]
    BY <1>2, <2>1 DEF AgreeInv, Inv, TypeOK
  <2>3. ~ client < client /\ ~ client > presenceChan
    BY <1>2, <2>1, SMT
  <2>4. Alone' /\ Ahead'
    BY <1>1, <2>1, <2>2, <2>3 DEF AgreeInv, Alone, Ahead
  <2>5. Agreed'
    BY <1>1, <2>1, <2>2 DEF AgreeInv, Agreed, Taken
  <2> QED
    BY <1>0, <2>4, <2>5 DEF AgreeInv
<1>5. ASSUME NEW g \in Gen, Greet(g) PROVE AgreeInv'
  <2>1. /\ greeting[g] = "telling" /\ UNCHANGED <<buffer, call>>
        /\ greeting' = [greeting EXCEPT ![g] = "over"]
        /\ client # Nil => status' = "available"
    BY <1>5 DEF Greet
  <2>2. greeting'[g] = "over" /\ \A h \in Gen \ {g} : greeting'[h] = greeting[h]
    BY <2>1 DEF AgreeInv, Inv, TypeOK
  <2>3. client # Nil => g = client
    BY <1>2, <2>1 DEF AgreeInv, Alone, Ahead
  <2>4. ~ g > presenceChan
    BY <2>1 DEF AgreeInv, Ahead
  <2>5. Alone' /\ Ahead'
    BY <1>1, <2>1, <2>2, <2>4 DEF AgreeInv, Alone, Ahead
  <2>6. Agreed'
    BY <1>1, <2>1, <2>2, <2>3 DEF AgreeInv, Agreed, Taken, ToBeTold, NoCall
  <2> QED
    BY <1>0, <2>5, <2>6 DEF AgreeInv
<1>6. ASSUME NEW p \in Presence, SendPresence(p) PROVE AgreeInv'
  <2>1. /\ call = NoCall /\ client # Nil /\ greeting[client] = "over"
        /\ call' = [at |-> "send", presence |-> p]
        /\ UNCHANGED <<buffer, greeting, status>>
    BY <1>6 DEF SendPresence
  <2>2. Alone' /\ Ahead'
    BY <1>1, <2>1 DEF AgreeInv, Alone, Ahead
  <2>3. Agreed'
    BY <1>1, <2>1 DEF AgreeInv, Agreed, Taken, ToBeTold, NoCall
  <2> QED
    BY <1>0, <2>2, <2>3 DEF AgreeInv
<1>7. CASE PresenceSend
  <2>1. /\ call # NoCall /\ call.at = "send" /\ buffer[presenceChan] = "none"
        /\ buffer' = [buffer EXCEPT ![presenceChan] = call.presence]
        /\ call'.at = "tell" /\ call'.presence = call.presence
        /\ UNCHANGED <<greeting, status>>
    BY <1>7 DEF PresenceSend, NoCall, AgreeInv, Inv, TypeOK
  <2>2. client # Nil /\ client = presenceChan /\ client \in Gen /\ greeting[client] = "over"
    BY <1>2, <1>3, <2>1 DEF AgreeInv, Agreed
  <2>3. /\ buffer'[client] = call.presence
        /\ \A g \in Gen \ {client} : buffer'[g] = buffer[g]
    BY <2>1, <2>2 DEF AgreeInv, Inv, TypeOK
  <2>4. call.presence # "none"
    BY DEF AgreeInv, Inv, TypeOK
  <2>5. ~ client > presenceChan
    BY <2>2, SMT
  <2>6. Alone' /\ Ahead'
    BY <1>1, <2>1, <2>3, <2>5 DEF AgreeInv, Alone, Ahead
  <2>7. Agreed'
    BY <1>1, <2>1, <2>2, <2>3, <2>4 DEF Agreed, Taken, ToBeTold
  <2> QED
    BY <1>0, <2>6, <2>7 DEF AgreeInv
<1>8. CASE PresenceTell
  <2>1. /\ call # NoCall /\ call.at = "tell" /\ status' = call.presence
        /\ call' = NoCall /\ UNCHANGED <<buffer, greeting>>
    BY <1>8 DEF PresenceTell, NoCall
  <2>2. Alone' /\ Ahead'
    BY <1>1, <2>1 DEF AgreeInv, Alone, Ahead
  <2>3. Agreed'
    BY <1>1, <2>1 DEF AgreeInv, Agreed, Taken, ToBeTold, NoCall
  <2> QED
    BY <1>0, <2>2, <2>3 DEF AgreeInv
<1> QED
  BY <1>4, <1>5, <1>6, <1>7, <1>8

LEMMA RefresherAgrees == ASSUME AgreeInv, NEW g \in Gen, Refresher(g) PROVE AgreeInv'
<1>0. Inv'
  BY RefresherInv DEF AgreeInv
<1>1. UNCHANGED <<client, presenceChan, closed, greeting, call, status>>
  BY DEF Refresher, Select, Tick, Receive, End, Subscribed, chanVars
<1>2. at[g] \notin {"none", "ended"} /\ \A h \in Gen \ {g} : at'[h] = at[h]
  BY DEF Refresher, Select, Tick, Receive, End, Subscribed, AgreeInv, Inv, TypeOK
<1>3. Alone'
  BY <1>1, <1>2 DEF AgreeInv, Alone
<1>4. CASE Receive(g)
  <2>1. /\ at[g] = "selecting" /\ buffer[on[g]] # "none" /\ on[g] \in Gen
        /\ presence' = [presence EXCEPT ![g] = buffer[on[g]]]
        /\ buffer' = [buffer EXCEPT ![on[g]] = "none"]
    BY <1>4 DEF Receive, AgreeInv, Inv, TypeOK, Made
  <2>2. /\ presence'[g] = buffer[on[g]] /\ \A h \in Gen \ {g} : presence'[h] = presence[h]
        /\ buffer'[on[g]] = "none" /\ \A h \in Gen \ {on[g]} : buffer'[h] = buffer[h]
    BY <2>1 DEF AgreeInv, Inv, TypeOK
  <2>3. client # Nil => g = client /\ on[g] = client
    BY <1>2, <2>1, OneRuns
  <2>4. Ahead'
    BY <1>1, <1>2, <2>2 DEF AgreeInv, Ahead
  <2>5. Agreed'
    BY <1>1, <2>1, <2>2, <2>3 DEF AgreeInv, Agreed, Taken, ToBeTold
  <2> QED
    BY <1>0, <1>3, <2>4, <2>5 DEF AgreeInv
<1>5. CASE Select(g) \/ Tick(g) \/ End(g) \/ Subscribed(g)
  <2>1. UNCHANGED <<buffer, presence>>
    BY <1>5 DEF Select, Tick, End, Subscribed
  <2>2. Ahead' /\ Agreed'
    BY <1>1, <1>2, <2>1 DEF AgreeInv, Ahead, Agreed, Taken, ToBeTold
  <2> QED
    BY <1>0, <1>3, <2>2 DEF AgreeInv
<1> QED
  BY <1>4, <1>5 DEF Refresher

LEMMA StepAgrees == ASSUME Adverse = {} PROVE AgreeInv /\ [Next]_vars => AgreeInv'
<1> SUFFICES ASSUME AgreeInv, [Next]_vars PROVE AgreeInv'
  OBVIOUS
<1>1. CASE UNCHANGED vars
  <2>1. Inv'
    BY StepInv DEF AgreeInv
  <2> QED
    BY <1>1, <2>1 DEF AgreeInv, Alone, Ahead, Agreed, Taken, ToBeTold, vars, chanVars, goVars
<1> QED
  BY <1>1, LoginAgrees, DisconnectAgrees, CallsAgree, RefresherAgrees DEF Next

(* If nothing is adverse, the goroutine of the current login takes our      *)
(* presence to be what WhatsApp knows, whenever no presence is on its way:  *)
(* SendPresence tells both, in the same order, and the goroutine is there   *)
(* from the beginning with the presence the handler sends.                 *)
THEOREM RefresherAgreesWithWhatsApp == ASSUME Adverse = {} PROVE Spec => []Agreement
<1>1. Init => AgreeInv
  <2>1. ASSUME Init PROVE Alone /\ Ahead /\ Agreed
    BY <2>1, SMT DEF Init, Alone, Ahead, Agreed
  <2> QED
    BY <2>1, InitInv DEF AgreeInv
<1>2. AgreeInv => Agreement
  BY DEF AgreeInv, Inv, Served, Agreed, Agreement, Settled, Taken, ToBeTold, NoCall
<1> QED
  BY <1>1, <1>2, StepAgrees, PTL DEF Spec
=============================================================================
