------------------------- MODULE RegistrationProofs -------------------------
(***************************************************************************)
(* Proofs about Registration, for any users, phones and number of          *)
(* pairings: the types; that a pairing that is over is remembered          *)
(* (Remembered), whatever is adverse; and, if no user pairs again before   *)
(* the handler of the last pairing has ended, that a clean-up deletes the  *)
(* row of a device in use only if another user has paired its phone, so    *)
(* never where phones are not shared (ClientHasRow), and that it leaves no *)
(* row of an earlier device (OneRow), where rows can be deleted.           *)
(*                                                                         *)
(* ClientHasRow: a session only ever holds devices of its own user         *)
(* (Owned), so what a clean-up finds obsolete belongs to its own user, or  *)
(* is of a phone that another user shares (Shares).  Of its own user it    *)
(* spares the device the session holds (Spared), which cannot change       *)
(* meanwhile, because only the handler of a pairing changes it and there   *)
(* is one at a time (OneHandler).                                          *)
(***************************************************************************)
EXTENDS Registration, SequenceTheorems, TLAPS

USE RegistrationAssumption DEF None, Loop, Device, Thread

Known == 1..pairings
Mine(u) == {d \in Known : owner[d] = u}
Busy(d) == pc[d] \in {"success", "clean", "delete"}

Owned ==
  /\ rows \subseteq Known
  /\ \A u \in Users :
       /\ saved[u] \in Mine(u) \cup {None}
       /\ device[u] \in Mine(u) \cup {None}
       /\ store[u] \in Mine(u) \cup {None}
       /\ \A i \in 1..Len(events[u]) : events[u][i] \in Mine(u)

Idle ==
  /\ \A d \in Device \ Known : pc[d] = "idle"
  /\ \A t \in Thread : obsolete[t] # {} => pc[t] = "delete"
  /\ leaver = {} => pc[Loop] = "idle"
  /\ leaver = {} \/ \E u \in Users : leaver = {u} /\ saved[u] # None

(* Another user has paired with the phone of d. *)
Shares(d) == \E e \in Known : phone[e] = phone[d] /\ owner[e] # owner[d]

OneHandler == \A d, e \in Known : Busy(d) /\ Busy(e) /\ owner[d] = owner[e] => d = e

Cleaning ==
  \A d \in Known : pc[d] = "clean" =>
    /\ device[owner[d]] # None
    /\ store[owner[d]] \in {None, device[owner[d]]}

Spared ==
  /\ \A t \in Known : \A d \in obsolete[t] :
       /\ d \in Known \ {device[owner[t]], store[owner[t]]}
       /\ owner[d] = owner[t] \/ Shares(d)
  /\ \A d \in obsolete[Loop] : d \in Known /\ (owner[d] \in leaver \/ Shares(d))

InRows ==
  \A u \in registered \ leaver : store[u] \in rows \cup {None} \/ Shares(store[u])

-----------------------------------------------------------------------------
LEMMA InitType == Init => TypeOK
<1> SUFFICES ASSUME Init PROVE TypeOK
  OBVIOUS
<1>1. owner \in Seq(Users) /\ Len(owner) = 0
  BY DEF Init
<1>2. phone \in Seq(Phones) /\ Len(phone) = 0
  BY DEF Init
<1>3. events \in [Users -> Seq(Device)]
  BY DEF Init
<1> QED
  BY <1>1, <1>2, <1>3, SMT DEF Init, TypeOK

LEMMA LoginType == ASSUME TypeOK, NEW u \in Users, Login(u) PROVE TypeOK'
<1>1. store' \in [Users -> Device \cup {None}]
  BY SMT DEF TypeOK, Login
<1> QED
  BY <1>1, SMT DEF TypeOK, Login, pairingVars, durable, threads

LEMMA NoClientType ==
  ASSUME TypeOK, NEW u \in Users, NoClient(u)
  PROVE  client' \subseteq Users /\ store' \in [Users -> Device \cup {None}]
  BY SMT DEF TypeOK, NoClient

LEMMA DisconnectType == ASSUME TypeOK, NEW u \in Users, Disconnect(u) PROVE TypeOK'
  BY NoClientType, SMT DEF TypeOK, Disconnect, pairingVars, durable, threads

LEMMA LoggedOutType == ASSUME TypeOK, NEW u \in Users, LoggedOut(u) PROVE TypeOK'
<1>1. rows' \subseteq Device
  BY DEF TypeOK, LoggedOut
<1>2. client' \subseteq Users /\ store' \in [Users -> Device \cup {None}]
  BY NoClientType DEF LoggedOut
<1> QED
  BY <1>1, <1>2, SMT DEF TypeOK, LoggedOut, pairingVars, threads

LEMMA UnlinkType == ASSUME TypeOK, NEW d \in Device, Unlink(d) PROVE TypeOK'
  BY SMT DEF TypeOK, Unlink, pairingVars, session, threads

LEMMA PairDeviceType ==
  ASSUME TypeOK, NEW u \in Users, NEW p \in Phones, PairDevice(u, p)
  PROVE  TypeOK'
<1>1. pairings' = pairings + 1 /\ pairings + 1 \in Device
  BY SMT DEF TypeOK, PairDevice
<1>2. /\ owner' \in Seq(Users) /\ Len(owner') = pairings'
      /\ phone' \in Seq(Phones) /\ Len(phone') = pairings'
  BY <1>1, AppendProperties, SMT DEF TypeOK, PairDevice
<1>3. /\ linked' \subseteq Device /\ rows' \subseteq Device
      /\ store' \in [Users -> Device \cup {None}]
      /\ pc' \in [Thread -> {"idle", "success", "clean", "delete", "done"}]
  BY <1>1, SMT DEF TypeOK, PairDevice
<1>4. pairings' \in 0..MaxPairings
  BY <1>1, SMT
<1>5. /\ saved' \in [Users -> Device \cup {None}] /\ registered' \subseteq Users
      /\ device' \in [Users -> Device \cup {None}] /\ client' \subseteq Users
      /\ obsolete' \in [Thread -> SUBSET Device] /\ leaver' \in SUBSET Users
      /\ events' \in [Users -> Seq(Device)]
  BY DEF TypeOK, PairDevice
<1> QED
  BY <1>2, <1>3, <1>4, <1>5 DEF TypeOK

LEMMA GotoType ==
  ASSUME TypeOK, NEW t \in Thread, NEW step \in {"idle", "success", "clean", "delete", "done"},
         Goto(t, step)
  PROVE  pc' \in [Thread -> {"idle", "success", "clean", "delete", "done"}]
  BY SMT DEF TypeOK, Goto

LEMMA PairSuccessType == ASSUME TypeOK, NEW d \in Device, PairSuccess(d) PROVE TypeOK'
<1>1. owner[d] \in Users
  BY SMT DEF TypeOK, PairSuccess
<1>2. pc' \in [Thread -> {"idle", "success", "clean", "delete", "done"}]
  BY GotoType DEF PairSuccess
<1>3. CASE store[owner[d]] = None
  BY <1>2, <1>3, SMT DEF TypeOK, PairSuccess, pairingVars, durable
<1>4. CASE store[owner[d]] # None
  <2>1. store[owner[d]] \in Device
    BY <1>1, <1>4, SMT DEF TypeOK
  <2>2. device' \in [Users -> Device \cup {None}]
    <3>1. device' = [device EXCEPT ![owner[d]] = store[owner[d]]]
      BY <1>4 DEF PairSuccess
    <3> QED
      BY <2>1, <3>1 DEF TypeOK
  <2>3. Append(events[owner[d]], store[owner[d]]) \in Seq(Device)
    BY <1>1, <2>1, AppendProperties, SMT DEF TypeOK
  <2>4. events' \in [Users -> Seq(Device)]
    <3>1. events' = [events EXCEPT ![owner[d]] = Append(events[owner[d]], store[owner[d]])]
      BY <1>1, <1>4 DEF PairSuccess, TypeOK
    <3> QED
      BY <2>3, <3>1 DEF TypeOK
  <2>5. UNCHANGED <<pairings, owner, phone, linked, rows, saved, registered,
                    client, store, obsolete, leaver>>
    BY DEF PairSuccess, pairingVars, durable
  <2> QED
    BY <1>2, <2>2, <2>4, <2>5 DEF TypeOK
<1> QED
  BY <1>3, <1>4

LEMMA HandlePairType == ASSUME TypeOK, NEW u \in Users, HandlePair(u) PROVE TypeOK'
<1>1. events[u] \in Seq(Device) /\ events[u] # <<>>
  BY SMT DEF TypeOK, HandlePair
<1>2. Head(events[u]) \in Device /\ Tail(events[u]) \in Seq(Device)
  BY <1>1, HeadTailProperties
<1>3. events' \in [Users -> Seq(Device)]
  BY <1>2, SMT DEF TypeOK, HandlePair
<1>4. saved' \in [Users -> Device \cup {None}]
  BY <1>2, SMT DEF TypeOK, HandlePair
<1> QED
  BY <1>3, <1>4, SMT DEF TypeOK, HandlePair, pairingVars, session, threads

LEMMA CleanupType ==
  ASSUME TypeOK, NEW t \in Thread, NEW id,
         ReadDevices(t, id) \/ DeleteRow(t) \/ EndCleanup(t)
  PROVE  TypeOK'
<1>1. CASE ReadDevices(t, id)
  <2>1. pc' \in [Thread -> {"idle", "success", "clean", "delete", "done"}]
    BY <1>1, GotoType DEF ReadDevices
  <2>2. obsolete' \in [Thread -> SUBSET Device]
    <3>1. Obsolete(id) \in SUBSET Device
      BY DEF TypeOK, Obsolete
    <3>2. obsolete' \in {obsolete, [obsolete EXCEPT ![t] = Obsolete(id)]}
      BY <1>1 DEF ReadDevices
    <3> QED
      BY <3>1, <3>2 DEF TypeOK
  <2> QED
    BY <1>1, <2>1, <2>2, SMT DEF TypeOK, ReadDevices, pairingVars, durable, session
<1>2. CASE DeleteRow(t)
  <2>1. obsolete' \in [Thread -> SUBSET Device] /\ rows' \subseteq Device
    BY <1>2, SMT DEF DeleteRow, TypeOK
  <2> QED
    BY <1>2, <2>1, SMT DEF TypeOK, DeleteRow, pairingVars, session
<1>3. CASE EndCleanup(t)
  <2>1. pc' \in [Thread -> {"idle", "success", "clean", "delete", "done"}]
    BY <1>3, GotoType DEF EndCleanup
  <2> QED
    BY <1>3, <2>1, SMT DEF TypeOK, EndCleanup, pairingVars, durable, session
<1> QED
  BY <1>1, <1>2, <1>3

LEMMA LeaveType ==
  ASSUME TypeOK, NEW u \in Users, Leave(u)
  PROVE  registered' \subseteq Users /\ saved' \in [Users -> Device \cup {None}]
  BY SMT DEF TypeOK, Leave

LEMMA AfterLogoutType ==
  ASSUME TypeOK, NEW u \in Users, AfterLogout(u)
  PROVE  /\ registered' \subseteq Users /\ saved' \in [Users -> Device \cup {None}]
         /\ pc' \in [Thread -> {"idle", "success", "clean", "delete", "done"}]
         /\ leaver' \in SUBSET Users
<1>1. CASE saved[u] = None
  BY <1>1, LeaveType DEF TypeOK, AfterLogout
<1>2. CASE saved[u] # None
  <2>1. Goto(Loop, "clean") /\ leaver' = {u} /\ UNCHANGED <<saved, registered>>
    BY <1>2 DEF AfterLogout
  <2>2. pc' \in [Thread -> {"idle", "success", "clean", "delete", "done"}]
    BY <2>1, GotoType
  <2> QED
    BY <2>1, <2>2 DEF TypeOK
<1> QED
  BY <1>1, <1>2

LEMMA UnregisterType == ASSUME TypeOK, NEW u \in Users, Unregister(u) PROVE TypeOK'
<1> DEFINE Rest == /\ registered' \subseteq Users /\ saved' \in [Users -> Device \cup {None}]
                   /\ pc' \in [Thread -> {"idle", "success", "clean", "delete", "done"}]
                   /\ leaver' \in SUBSET Users
                   /\ linked' \subseteq Device /\ rows' \subseteq Device
                   /\ client' \subseteq Users /\ store' \in [Users -> Device \cup {None}]
<1>1. CASE NoClient(u) /\ AfterLogout(u) /\ linked' = linked \ {store[u]} /\ rows' = rows \ {store[u]}
  <2>1. Rest
    BY <1>1, NoClientType, AfterLogoutType DEF TypeOK
  <2> QED
    BY <2>1, SMT DEF TypeOK, Unregister, pairingVars
<1>2. CASE NoClient(u) /\ Leave(u) /\ UNCHANGED <<linked, rows, pc, leaver>>
  <2>1. Rest
    BY <1>2, NoClientType, LeaveType DEF TypeOK
  <2> QED
    BY <2>1, SMT DEF TypeOK, Unregister, pairingVars
<1>3. CASE AfterLogout(u) /\ UNCHANGED <<linked, rows, client, store>>
  <2>1. Rest
    BY <1>3, AfterLogoutType DEF TypeOK
  <2> QED
    BY <2>1, SMT DEF TypeOK, Unregister, pairingVars
<1> QED
  BY <1>1, <1>2, <1>3 DEF Unregister

LEMMA EndUnregisterType == ASSUME TypeOK, NEW u \in Users, EndUnregister(u) PROVE TypeOK'
<1>1. /\ registered' \subseteq Users /\ saved' \in [Users -> Device \cup {None}]
      /\ pc' \in [Thread -> {"idle", "success", "clean", "delete", "done"}]
  BY LeaveType, GotoType DEF EndUnregister
<1> QED
  BY <1>1, SMT DEF TypeOK, EndUnregister, pairingVars, session

LEMMA RestartType == ASSUME TypeOK, Restart PROVE TypeOK'
<1>1. events' \in [Users -> Seq(Device)]
  <2>1. <<>> \in Seq(Device)
    BY EmptySeq
  <2> QED
    BY <2>1 DEF Restart
<1> QED
  BY <1>1, SMT DEF TypeOK, Restart, pairingVars, durable

LEMMA StepType == TypeOK /\ [Next]_vars => TypeOK'
<1> SUFFICES ASSUME TypeOK, [Next]_vars PROVE TypeOK'
  OBVIOUS
<1>1. ASSUME NEW u \in Users,
             \/ Login(u) \/ Disconnect(u) \/ (\E p \in Phones : PairDevice(u, p))
             \/ LoggedOut(u) \/ HandlePair(u) \/ Unregister(u)
      PROVE  TypeOK'
  BY <1>1, LoginType, DisconnectType, PairDeviceType, LoggedOutType, HandlePairType, UnregisterType
<1>2. ASSUME NEW u \in Users, Unregistering(u) PROVE TypeOK'
  <2>1. Loop \in Thread
    OBVIOUS
  <2> QED
    BY <1>2, <2>1, CleanupType, EndUnregisterType DEF Unregistering
<1>3. ASSUME NEW d \in Device, Unlink(d) \/ Handler(d) PROVE TypeOK'
  <2>1. d \in Thread
    OBVIOUS
  <2> QED
    BY <1>3, <2>1, UnlinkType, PairSuccessType, CleanupType DEF Handler
<1>4. CASE UNCHANGED vars
  BY <1>4 DEF TypeOK, vars, pairingVars, durable, session, threads
<1> QED
  BY <1>1, <1>2, <1>3, <1>4, RestartType DEF Next

(* Every reachable state of the two databases, the sessions and the        *)
(* threads is of its type.                                                 *)
THEOREM RegistrationTypeCorrect == Spec => []TypeOK
  BY InitType, StepType, PTL DEF Spec
-----------------------------------------------------------------------------
Inv == TypeOK /\ Owned /\ Idle /\ OneHandler /\ Cleaning /\ Spared /\ InRows

LEMMA InitInv == Init => Inv
<1> SUFFICES ASSUME Init PROVE Inv
  OBVIOUS
<1>1. TypeOK
  BY InitType
<1>2. \A u \in Users : events[u] = <<>> /\ Len(events[u]) = 0
  BY DEF Init
<1>3. Owned
  BY <1>2, SMT DEF Init, Owned, Known, Mine
<1>4. Idle /\ OneHandler /\ Cleaning /\ Spared /\ InRows
  BY SMT DEF Init, Idle, OneHandler, Cleaning, Spared, InRows, Shares, Known, Mine
<1> QED
  BY <1>1, <1>3, <1>4 DEF Inv

(* The clients of a user's session come and go; devices of others stay.    *)
LEMMA LoginInv == ASSUME Inv, NEW u \in Users, Login(u) PROVE Inv'
<1>0. TypeOK'
  BY LoginType DEF Inv
<1>1. /\ \A v \in Users \ {u} : store'[v] = store[v]
      /\ store'[u] \in {None, device[u]} /\ store'[u] \in rows \cup {None}
  BY SMT DEF Inv, TypeOK, Login
<1>2. UNCHANGED <<pairings, owner, phone, rows, saved, registered, device, pc, obsolete, leaver, events>>
  BY DEF Login, pairingVars, durable, threads
<1>3. Owned'
  BY <1>1, <1>2, SMT DEF Inv, Owned, Known, Mine
<1>4. Idle' /\ OneHandler'
  BY <1>2 DEF Inv, Idle, OneHandler, Known, Busy
<1>5. \A d \in Known : owner[d] \in Users
  BY SMT DEF Inv, TypeOK, Known
<1>6. Cleaning'
  BY <1>1, <1>2, <1>5, SMT DEF Inv, Cleaning, Known
<1>7. Spared'
  BY <1>1, <1>2, <1>5, SMT DEF Inv, Spared, Shares, Known
<1>8. InRows'
  <2>1. \A v \in registered \ leaver :
          v \in Users /\ (store[v] \in rows \cup {None} \/ Shares(store[v]))
    BY DEF Inv, InRows, TypeOK
  <2>2. \A d : Shares(d) => Shares(d)'
    BY <1>2 DEF Shares, Known
  <2> QED
    BY <1>1, <1>2, <2>1, <2>2 DEF InRows
<1> QED
  BY <1>0, <1>3, <1>4, <1>6, <1>7, <1>8 DEF Inv

(* A session without a client disturbs nothing, nor does the loss of the   *)
(* row its client had.                                                     *)
LEMMA NoClientKeeps ==
  ASSUME Inv, NEW u \in Users, NoClient(u),
         UNCHANGED <<pairings, owner, phone, device>>,
         rows' = rows \ {store[u]} \/ rows' = rows,
         registered' \subseteq registered
  PROVE  /\ \A v \in Users : store'[v] = IF v = u THEN None ELSE store[v]
         /\ rows' \subseteq Known
         /\ leaver' = leaver \/ leaver = {} => InRows'
<1>1. \A v \in Users : store'[v] = IF v = u THEN None ELSE store[v]
  BY SMT DEF Inv, TypeOK, NoClient
<1>2. rows' \subseteq Known
  BY DEF Inv, Owned
<1>3. \A v \in Users \ {u} : store[v] # None => store[v] # store[u]
  BY SMT DEF Inv, Owned, Mine
<1>4. ASSUME leaver' = leaver \/ leaver = {}, NEW v \in registered' \ leaver'
      PROVE  store'[v] \in rows' \cup {None} \/ Shares(store[v])'
  <2>1. v \in registered \ leaver /\ v \in Users
    BY <1>4 DEF Inv, TypeOK
  <2>2. store[v] \in rows \cup {None} \/ Shares(store[v])
    BY <2>1 DEF Inv, InRows
  <2>3. \A d : Shares(d) => Shares(d)'
    BY DEF Shares, Known
  <2>4. CASE v = u
    BY <1>1, <2>1, <2>4
  <2>5. CASE v # u
    <3>1. store'[v] = store[v]
      BY <1>1, <2>1, <2>5
    <3>2. store[v] \in rows \cup {None} => store[v] \in rows' \cup {None}
      BY <1>3, <2>1, <2>5
    <3>3. Shares(store[v]) => Shares(store[v])'
      BY <2>3, <3>1 DEF Shares
    <3> QED
      BY <2>2, <3>1, <3>2, <3>3
  <2> QED
    BY <2>4, <2>5
<1> QED
  BY <1>1, <1>2, <1>4 DEF InRows

LEMMA ClientGoneInv ==
  ASSUME Inv, NEW u \in Users, Disconnect(u) \/ LoggedOut(u)
  PROVE  Inv'
<1>0. TypeOK'
  BY DisconnectType, LoggedOutType DEF Inv
<1>1. /\ NoClient(u)
      /\ rows' = rows \ {store[u]} \/ rows' = rows
      /\ UNCHANGED <<pairings, owner, phone, saved, registered, device, pc, obsolete, leaver, events>>
  BY DEF Disconnect, LoggedOut, pairingVars, durable, threads
<1>2. /\ \A v \in Users : store'[v] = IF v = u THEN None ELSE store[v]
      /\ rows' \subseteq Known
      /\ InRows'
  BY <1>1, NoClientKeeps
<1>3. Owned'
  BY <1>1, <1>2, SMT DEF Inv, Owned, Known, Mine
<1>4. Idle' /\ OneHandler'
  BY <1>1 DEF Inv, Idle, OneHandler, Known, Busy
<1>5. \A d \in Known : owner[d] \in Users
  BY SMT DEF Inv, TypeOK, Known
<1>6. Cleaning'
  BY <1>1, <1>2, <1>5, SMT DEF Inv, Cleaning, Known
<1>7. Spared'
  BY <1>1, <1>2, <1>5, SMT DEF Inv, Spared, Shares, Known
<1> QED
  BY <1>0, <1>2, <1>3, <1>4, <1>6, <1>7 DEF Inv

LEMMA UnlinkInv == ASSUME Inv, NEW d \in Device, Unlink(d) PROVE Inv'
<1>1. TypeOK'
  BY UnlinkType DEF Inv
<1> QED
  BY <1>1 DEF Inv, Owned, Idle, OneHandler, Cleaning, Spared, InRows, Shares,
              Known, Mine, Busy, Unlink, pairingVars, session, threads

(* No clean-up of the new device's user is under way.  A phone that is     *)
(* shared stays so.                                                        *)
LEMMA PairDeviceInv ==
  ASSUME "linger" \notin Adverse, Inv, NEW u \in Users, NEW p \in Phones, PairDevice(u, p)
  PROVE  Inv'
<1> DEFINE n == pairings + 1
<1>0. TypeOK'
  BY PairDeviceType DEF Inv
<1>1. /\ pairings' = n /\ n \in Device /\ n \notin Known
      /\ Known' = Known \cup {n}
  BY SMT DEF Inv, TypeOK, PairDevice, Known
<1>2. /\ \A d \in Known : owner'[d] = owner[d] /\ phone'[d] = phone[d] /\ owner[d] \in Users
      /\ owner'[n] = u /\ phone'[n] = p
  BY <1>1, AppendProperties, SMT DEF Inv, TypeOK, PairDevice, Known
<1>3. /\ \A d \in Thread \ {n} : pc'[d] = pc[d]
      /\ pc'[n] = "success"
      /\ \A v \in Users : store'[v] = IF v = u THEN n ELSE store[v]
      /\ rows' = rows \cup {n}
  BY <1>1, SMT DEF Inv, TypeOK, PairDevice
<1>4. UNCHANGED <<saved, registered, device, obsolete, leaver, events>>
  BY DEF PairDevice
<1>5. /\ \A d \in Known : owner[d] = u => ~ Busy(d)
      /\ \A d \in Known : d # n /\ pc'[d] = pc[d]
  <2>1. Pairing(u) = {}
    BY DEF PairDevice
  <2>2. \A d \in Known : owner[d] = u => ~ Busy(d)
    BY <2>1 DEF Pairing, Known, Busy
  <2>3. \A d \in Known : d \in Thread /\ d # n
    BY <1>1, SMT DEF Inv, TypeOK, Known
  <2> QED
    BY <1>3, <2>2, <2>3
<1>6. pc[n] = "idle" /\ obsolete[n] = {}
  BY <1>1, SMT DEF Inv, Idle
<1>7. Owned'
  BY <1>1, <1>2, <1>3, <1>4, SMT DEF Inv, Owned, Mine
<1>8. Idle'
  BY <1>1, <1>3, <1>4, <1>6, SMT DEF Inv, Idle
<1>9. \A d \in Known : Shares(d) => Shares(d)'
  BY <1>1, <1>2 DEF Shares
<1>10. OneHandler'
  <2>1. \A d, e \in Known : Busy(d) /\ Busy(e) /\ owner[d] = owner[e] => d = e
    BY DEF Inv, OneHandler
  <2>2. \A d \in Known : Busy(d)' <=> Busy(d)
    BY <1>5 DEF Busy
  <2> QED
    BY <1>1, <1>2, <1>5, <2>1, <2>2 DEF OneHandler
<1>11. Cleaning'
  <2>1. ASSUME NEW d \in Known, pc'[d] = "clean"
        PROVE  /\ owner'[d] \in Users \ {u}
               /\ device[owner[d]] # None /\ store[owner[d]] \in {None, device[owner[d]]}
    BY <1>2, <1>5, <2>1 DEF Inv, Cleaning, Busy
  <2> QED
    BY <1>1, <1>2, <1>3, <1>4, <2>1, SMT DEF Cleaning
<1>12. Spared'
  <2>1. \A t \in Known : obsolete[t] # {} => Busy(t)
    BY SMT DEF Inv, Idle, Busy, Known, TypeOK
  <2>2. ASSUME NEW t \in Known, NEW d \in obsolete[t]
        PROVE  /\ d \in Known /\ d # device'[owner'[t]] /\ d # store'[owner'[t]]
               /\ owner'[d] = owner'[t] \/ Shares(d)'
    <3>1. /\ d \in Known \ {device[owner[t]], store[owner[t]]}
          /\ owner[d] = owner[t] \/ Shares(d)
      BY DEF Inv, Spared
    <3>2. owner[t] \in Users \ {u}
      BY <1>2, <1>5, <2>1, <2>2
    <3> QED
      BY <1>2, <1>3, <1>4, <1>9, <3>1, <3>2
  <2>3. \A t \in Known' : \A d \in obsolete'[t] :
          /\ d \in Known' \ {device'[owner'[t]], store'[owner'[t]]}
          /\ owner'[d] = owner'[t] \/ Shares(d)'
    BY <1>1, <1>4, <1>6, <2>2
  <2>4. \A d \in obsolete[Loop] : d \in Known' /\ (owner'[d] \in leaver \/ Shares(d)')
    <3>1. \A d \in obsolete[Loop] : d \in Known /\ (owner[d] \in leaver \/ Shares(d))
      BY DEF Inv, Spared
    <3> QED
      BY <1>1, <1>2, <1>9, <3>1
  <2> QED
    BY <1>4, <2>3, <2>4 DEF Spared
<1>13. InRows'
  <2> SUFFICES ASSUME NEW v \in registered \ leaver
               PROVE  store'[v] \in rows' \cup {None} \/ Shares(store[v])'
    BY <1>4 DEF InRows
  <2>1. v \in Users /\ (store[v] \in rows \cup {None} \/ Shares(store[v]))
    BY DEF Inv, InRows, TypeOK
  <2>2. store[v] \in Known \cup {None}
    BY <2>1 DEF Inv, Owned, Mine
  <2>3. CASE v = u
    BY <1>3, <2>1, <2>3
  <2>4. CASE v # u
    <3>1. store'[v] = store[v]
      BY <1>3, <2>1, <2>4
    <3>2. CASE store[v] \in rows \cup {None}
      BY <1>3, <3>1, <3>2
    <3>3. CASE store[v] \in Known /\ Shares(store[v])
      <4>1. Shares(store[v])'
        BY <1>9, <3>1, <3>3 DEF Shares
      <4> QED
        BY <4>1
    <3> QED
      BY <2>1, <2>2, <3>2, <3>3
  <2> QED
    BY <2>3, <2>4
<1> QED
  BY <1>0, <1>7, <1>8, <1>10, <1>11, <1>12, <1>13 DEF Inv

(* Only here does the session's device change: no clean-up of this user's  *)
(* is under way, for this handler is the only one.                         *)
LEMMA PairSuccessInv == ASSUME Inv, NEW d \in Device, PairSuccess(d) PROVE Inv'
<1> DEFINE u == owner[d]
<1>0. TypeOK'
  BY PairSuccessType DEF Inv
<1>1. UNCHANGED <<pairings, owner, phone, rows, saved, registered, store, obsolete, leaver>>
  BY DEF PairSuccess, pairingVars, durable
<1>2. d \in Known /\ pc[d] = "success" /\ u \in Users /\ d \in Thread /\ d # Loop
  BY SMT DEF Inv, TypeOK, PairSuccess, Known
<1>3. \A e \in Known : owner[e] \in Users /\ e \in Thread /\ e # Loop
  BY SMT DEF Inv, TypeOK, Known
<1>4. \E step \in {"idle", "clean"} : pc' = [pc EXCEPT ![d] = step]
  BY DEF PairSuccess, Goto
<1>5. (\A t \in Thread \ {d} : pc'[t] = pc[t]) /\ pc'[d] \in {"idle", "clean"}
  BY <1>2, <1>4 DEF Inv, TypeOK
<1>6. Idle' /\ OneHandler' /\ InRows'
  <2>1. Idle'
    <3>1. \A e \in Device \ Known : e \in Thread /\ e # d
      BY <1>2
    <3>2. obsolete[d] = {}
      BY <1>2 DEF Inv, Idle
    <3> QED
      BY <1>1, <1>2, <1>5, <3>1, <3>2 DEF Inv, Idle, Known
  <2>2. \A e \in Known : Busy(e)' => Busy(e)
    BY <1>2, <1>3, <1>5 DEF Busy
  <2>3. OneHandler' /\ InRows'
    BY <1>1, <2>2 DEF Inv, OneHandler, InRows, Shares, Known
  <2> QED
    BY <2>1, <2>3
<1>7. CASE store[u] = None
  <2>1. UNCHANGED <<device, events>> /\ Goto(d, "idle")
    BY <1>7 DEF PairSuccess
  <2>2. pc'[d] = "idle"
    BY <1>2, <2>1 DEF Inv, TypeOK, Goto
  <2>3. Owned' /\ Spared'
    BY <1>1, <2>1 DEF Inv, Owned, Spared, Shares, Known, Mine
  <2>4. Cleaning'
    BY <1>1, <1>3, <1>5, <2>1, <2>2 DEF Inv, Cleaning, Known
  <2> QED
    BY <1>0, <1>6, <2>3, <2>4 DEF Inv
<1>8. CASE store[u] # None
  <2>1. /\ device' = [device EXCEPT ![u] = store[u]]
        /\ events' = [events EXCEPT ![u] = Append(events[u], store[u])]
        /\ Goto(d, "clean")
    BY <1>2, <1>8 DEF PairSuccess, Inv, TypeOK
  <2>2. /\ \A v \in Users : device'[v] = IF v = u THEN store[u] ELSE device[v]
        /\ \A v \in Users \ {u} : events'[v] = events[v]
        /\ events'[u] = Append(events[u], store[u])
    BY <1>2, <2>1 DEF Inv, TypeOK
  <2>3. store[u] \in Mine(u)
    BY <1>2, <1>8 DEF Inv, Owned
  <2>4. \A i \in 1..Len(events'[u]) : events'[u][i] \in Mine(u)
    <3>1. events[u] \in Seq(Device) /\ store[u] \in Device
      BY <1>2, <1>8 DEF Inv, TypeOK
    <3>2. \A i \in 1..Len(events[u]) : events[u][i] \in Mine(u)
      BY <1>2 DEF Inv, Owned
    <3>3. /\ Len(events'[u]) = Len(events[u]) + 1
          /\ \A i \in 1..Len(events[u]) : events'[u][i] = events[u][i]
          /\ events'[u][Len(events[u]) + 1] = store[u]
      BY <2>2, <3>1, AppendProperties
    <3>4. Len(events[u]) \in Nat
      BY <3>1, LenProperties
    <3>5. ASSUME NEW i \in 1..Len(events'[u])
          PROVE  events'[u][i] \in Mine(u)
      <4>1. i \in 1..Len(events[u]) \/ i = Len(events[u]) + 1
        BY <3>3, <3>4
      <4>2. CASE i \in 1..Len(events[u])
        <5>1. events'[u][i] = events[u][i] /\ events[u][i] \in Mine(u)
          BY <3>2, <3>3, <4>2, Zenon
        <5> QED
          BY <5>1, Zenon
      <4>3. CASE i = Len(events[u]) + 1
        <5>1. events'[u][i] = store[u]
          BY <3>3, <4>3, Zenon
        <5> QED
          BY <2>3, <5>1, Zenon
      <4> QED
        BY <4>1, <4>2, <4>3, Zenon
    <3> QED
      BY <3>5, Zenon
  <2>5. Owned'
    <3> SUFFICES ASSUME NEW v \in Users
                 PROVE  /\ device'[v] \in Mine(v) \cup {None}
                        /\ \A i \in 1..Len(events'[v]) : events'[v][i] \in Mine(v)
      BY <1>1 DEF Inv, Owned, Known, Mine
    <3>1. /\ device[v] \in Mine(v) \cup {None}
          /\ \A i \in 1..Len(events[v]) : events[v][i] \in Mine(v)
      BY DEF Inv, Owned
    <3>2. CASE v = u
      BY <2>2, <2>3, <2>4, <3>2
    <3>3. CASE v # u
      BY <2>2, <3>1, <3>3
    <3> QED
      BY <3>2, <3>3
  <2>6. \A e \in Known : Busy(e) /\ owner[e] = u => e = d
    BY <1>2 DEF Inv, OneHandler, Busy
  <2>7. Cleaning'
    <3> SUFFICES ASSUME NEW e \in Known, pc'[e] = "clean"
                 PROVE  device'[owner[e]] # None /\ store[owner[e]] \in {None, device'[owner[e]]}
      BY <1>1 DEF Cleaning, Known
    <3>1. CASE e = d
      BY <1>2, <1>8, <2>2, <3>1
    <3>2. CASE e # d
      <4>1. pc[e] = "clean" /\ owner[e] # u /\ owner[e] \in Users
        BY <1>3, <1>5, <2>6, <3>2 DEF Busy
      <4> QED
        BY <2>2, <4>1 DEF Inv, Cleaning
    <3> QED
      BY <3>1, <3>2
  <2>8. \A t \in Known : owner[t] = u => obsolete[t] = {}
    BY <1>2, <1>3, <2>6 DEF Inv, Idle, Busy
  <2>9. Spared'
    <3>1. \A t \in Known : \A e \in obsolete[t] : device'[owner[t]] = device[owner[t]]
      BY <1>3, <2>2, <2>8
    <3> QED
      BY <1>1, <3>1 DEF Inv, Spared, Shares, Known
  <2> QED
    BY <1>0, <1>6, <2>5, <2>7, <2>9 DEF Inv
<1> QED
  BY <1>7, <1>8

LEMMA HandlePairInv == ASSUME Inv, NEW u \in Users, HandlePair(u) PROVE Inv'
<1>0. TypeOK'
  BY HandlePairType DEF Inv
<1>1. /\ UNCHANGED <<pairings, owner, phone, rows, registered, device, store, pc, obsolete, leaver>>
      /\ leaver = {}
  BY DEF HandlePair, LoopIsFree, pairingVars, session, threads
<1>2. /\ events[u] \in Seq(Device) /\ events[u] # <<>>
      /\ events' = [events EXCEPT ![u] = Tail(events[u])]
      /\ saved' = [saved EXCEPT ![u] = IF u \in registered THEN Head(events[u]) ELSE saved[u]]
  BY DEF Inv, TypeOK, HandlePair
<1>3. \A i \in 1..Len(events[u]) : events[u][i] \in Mine(u)
  BY DEF Inv, Owned
<1>4. /\ Head(events[u]) \in Mine(u)
      /\ \A i \in 1..Len(Tail(events[u])) : Tail(events[u])[i] \in Mine(u)
  BY <1>2, <1>3, HeadTailProperties, SMT
<1>5. /\ \A v \in Users : events'[v] = IF v = u THEN Tail(events[u]) ELSE events[v]
      /\ \A v \in Users \ {u} : saved'[v] = saved[v]
      /\ saved'[u] \in {saved[u], Head(events[u])}
  BY <1>2 DEF Inv, TypeOK
<1>6. Owned'
  <2> SUFFICES ASSUME NEW v \in Users
               PROVE  /\ saved'[v] \in Mine(v) \cup {None}
                      /\ \A i \in 1..Len(events'[v]) : events'[v][i] \in Mine(v)
    BY <1>1 DEF Inv, Owned, Known, Mine
  <2>1. /\ saved[v] \in Mine(v) \cup {None}
        /\ \A i \in 1..Len(events[v]) : events[v][i] \in Mine(v)
    BY DEF Inv, Owned
  <2> QED
    BY <1>4, <1>5, <2>1
<1>7. Idle' /\ OneHandler' /\ Cleaning' /\ Spared' /\ InRows'
  BY <1>1 DEF Inv, Idle, OneHandler, Cleaning, Spared, InRows, Shares, Known, Mine, Busy
<1> QED
  BY <1>0, <1>6, <1>7 DEF Inv
-----------------------------------------------------------------------------
(* What a clean-up finds obsolete is of the user of the device it spares,  *)
(* or of a phone that another user shares.                                 *)
LEMMA ObsoleteOfUser ==
  ASSUME Inv, NEW id \in Known
  PROVE  \A d \in Obsolete(id) : d \in Known \ {id} /\ (owner[d] = owner[id] \/ Shares(d))
  BY DEF Inv, Owned, Shares, Obsolete

LEMMA ReadDevicesKeeps ==
  ASSUME Inv, NEW t \in Thread, NEW id, ReadDevices(t, id)
  PROVE  /\ UNCHANGED <<pairings, owner, phone, rows, saved, registered, device, store, leaver, events>>
         /\ pc[t] = "clean"
         /\ \A e \in Thread \ {t} : pc'[e] = pc[e] /\ obsolete'[e] = obsolete[e]
         /\ \/ pc'[t] = "delete" /\ obsolete'[t] = Obsolete(id)
            \/ pc'[t] = "idle" /\ obsolete'[t] = {}
         /\ Owned' /\ InRows'
<1>1. /\ UNCHANGED <<pairings, owner, phone, rows, saved, registered, device, store, leaver, events>>
      /\ pc[t] = "clean"
  BY DEF ReadDevices, pairingVars, durable, session
<1>2. obsolete[t] = {}
  BY <1>1 DEF Inv, Idle
<1>3. \/ pc' = [pc EXCEPT ![t] = "delete"] /\ obsolete' = [obsolete EXCEPT ![t] = Obsolete(id)]
      \/ pc' = [pc EXCEPT ![t] = "idle"] /\ obsolete' = obsolete
  BY DEF ReadDevices, Goto
<1>4. /\ \A e \in Thread \ {t} : pc'[e] = pc[e] /\ obsolete'[e] = obsolete[e]
      /\ \/ pc'[t] = "delete" /\ obsolete'[t] = Obsolete(id)
         \/ pc'[t] = "idle" /\ obsolete'[t] = {}
  BY <1>2, <1>3 DEF Inv, TypeOK
<1>5. Owned' /\ InRows'
  BY <1>1 DEF Inv, Owned, InRows, Shares, Known, Mine
<1> QED
  BY <1>1, <1>4, <1>5

LEMMA HandlerReadsInv ==
  ASSUME Inv, NEW d \in Known, ReadDevices(d, device[owner[d]])
  PROVE  Inv'
<1> DEFINE u == owner[d]
           id == device[u]
<1>1. d \in Thread /\ d # Loop /\ u \in Users
  BY SMT DEF Inv, TypeOK, Known
<1>2. TypeOK'
  BY <1>1, CleanupType DEF Inv
<1>3. /\ UNCHANGED <<pairings, owner, phone, rows, saved, registered, device, store, leaver, events>>
      /\ pc[d] = "clean"
      /\ \A e \in Thread \ {d} : pc'[e] = pc[e] /\ obsolete'[e] = obsolete[e]
      /\ \/ pc'[d] = "delete" /\ obsolete'[d] = Obsolete(id)
         \/ pc'[d] = "idle" /\ obsolete'[d] = {}
      /\ Owned' /\ InRows'
  BY <1>1, ReadDevicesKeeps
<1>4. id \in Mine(u) /\ store[u] \in {None, id}
  BY <1>1, <1>3 DEF Inv, Owned, Cleaning
<1>5. \A e \in Known : e \in Thread /\ e # Loop
  BY SMT DEF Inv, TypeOK, Known
<1>6. Idle'
  <2>1. \A e \in Device \ Known : e \in Thread \ {d}
    OBVIOUS
  <2> QED
    BY <1>1, <1>3, <2>1 DEF Inv, Idle, Known
<1>7. OneHandler'
  <2>1. \A e \in Known : Busy(e)' => Busy(e)
    BY <1>3, <1>5 DEF Busy
  <2> QED
    BY <1>3, <2>1 DEF Inv, OneHandler, Known
<1>8. Cleaning'
  BY <1>3, <1>5 DEF Inv, Cleaning, Known
<1>9. Spared'
  <2>1. \A e \in Obsolete(id) : e \in Known \ {id, store[u]} /\ (owner[e] = u \/ Shares(e))
    <3>1. id \in Known /\ owner[id] = u /\ None \notin Known
      BY <1>4, SMT DEF Mine, Known, Inv, TypeOK
    <3> QED
      BY <1>4, <3>1, ObsoleteOfUser DEF Mine
  <2>2. obsolete'[Loop] = obsolete[Loop]
    BY <1>1, <1>3
  <2>3. \A t \in Known : \A e \in obsolete'[t] :
          /\ e \in Known \ {device[owner[t]], store[owner[t]]}
          /\ owner[e] = owner[t] \/ Shares(e)
    <3> SUFFICES ASSUME NEW t \in Known, NEW e \in obsolete'[t]
                 PROVE  /\ e \in Known \ {device[owner[t]], store[owner[t]]}
                        /\ owner[e] = owner[t] \/ Shares(e)
      OBVIOUS
    <3>1. CASE t = d
      BY <1>3, <2>1, <3>1
    <3>2. CASE t # d
      BY <1>3, <1>5, <3>2 DEF Inv, Spared
    <3> QED
      BY <3>1, <3>2
  <2> QED
    BY <1>3, <2>2, <2>3 DEF Inv, Spared, Shares, Known
<1> QED
  BY <1>2, <1>3, <1>6, <1>7, <1>8, <1>9 DEF Inv

LEMMA LoopReadsInv ==
  ASSUME Inv, NEW u \in Users, leaver = {u}, ReadDevices(Loop, saved[u])
  PROVE  Inv'
<1>1. Loop \in Thread
  OBVIOUS
<1>2. TypeOK'
  BY <1>1, CleanupType DEF Inv
<1>3. /\ UNCHANGED <<pairings, owner, phone, rows, saved, registered, device, store, leaver, events>>
      /\ pc[Loop] = "clean"
      /\ \A e \in Thread \ {Loop} : pc'[e] = pc[e] /\ obsolete'[e] = obsolete[e]
      /\ \/ pc'[Loop] = "delete" /\ obsolete'[Loop] = Obsolete(saved[u])
         \/ pc'[Loop] = "idle" /\ obsolete'[Loop] = {}
      /\ Owned' /\ InRows'
  BY <1>1, ReadDevicesKeeps
<1>4. saved[u] \in Mine(u)
  BY DEF Inv, Idle, Owned
<1>5. \A e \in Device : e \in Thread \ {Loop}
  BY SMT
<1>6. \A e \in Known : e \in Device
  BY SMT DEF Inv, TypeOK, Known
<1>7. Idle'
  BY <1>3, <1>5 DEF Inv, Idle, Known
<1>8. OneHandler' /\ Cleaning'
  BY <1>3, <1>5, <1>6 DEF Inv, OneHandler, Cleaning, Known, Busy
<1>9. Spared'
  <2>1. \A e \in Obsolete(saved[u]) : e \in Known /\ (owner[e] = u \/ Shares(e))
    BY <1>4, ObsoleteOfUser DEF Mine
  <2>2. \A t \in Known : obsolete'[t] = obsolete[t]
    BY <1>3, <1>5, <1>6
  <2> QED
    BY <1>3, <2>1, <2>2 DEF Inv, Spared, Shares, Known
<1> QED
  BY <1>2, <1>3, <1>7, <1>8, <1>9 DEF Inv

(* Who deletes a row deletes one of its own user's, not in use, or of a    *)
(* phone that is shared.                                                   *)
LEMMA DeleteRowInv == ASSUME Inv, NEW t \in Thread, DeleteRow(t) PROVE Inv'
<1>1. TypeOK'
  BY CleanupType DEF Inv
<1>2. PICK d \in obsolete[t] :
        /\ obsolete' = [obsolete EXCEPT ![t] = obsolete[t] \ {d}]
        /\ rows' = rows \ {d} \/ rows' = rows
  BY DEF DeleteRow, Inv, TypeOK
<1>3. UNCHANGED <<pairings, owner, phone, saved, registered, device, store, pc, leaver, events>>
  BY DEF DeleteRow, pairingVars, session
<1>4. \A e \in Thread : obsolete'[e] \subseteq obsolete[e]
  BY <1>2 DEF Inv, TypeOK
<1>5. \A e \in Known : e \in Thread
  BY SMT DEF Inv, TypeOK, Known
<1>6. Owned' /\ OneHandler' /\ Cleaning'
  <2>1. rows' \subseteq Known
    BY <1>2 DEF Inv, Owned
  <2>2. Owned'
    BY <1>3, <2>1 DEF Inv, Owned, Known, Mine
  <2>3. OneHandler' /\ Cleaning'
    BY <1>3 DEF Inv, OneHandler, Cleaning, Known, Busy
  <2> QED
    BY <2>2, <2>3
<1>7. Idle'
  BY <1>3, <1>4 DEF Inv, Idle, Known
<1>8. Spared'
  BY <1>3, <1>4, <1>5 DEF Inv, Spared, Shares, Known
<1>9. InRows'
  <2> SUFFICES ASSUME NEW v \in registered \ leaver, ~ Shares(store[v])
               PROVE  store[v] \in rows' \cup {None}
    BY <1>3 DEF InRows, Shares, Known
  <2>1. v \in Users /\ store[v] \in rows \cup {None}
    BY DEF Inv, TypeOK, InRows
  <2>2. ASSUME store[v] # None PROVE store[v] # d
    <3>1. store[v] \in Mine(v)
      BY <2>1, <2>2 DEF Inv, Owned
    <3>2. CASE t = Loop
      BY <3>1, <3>2 DEF Inv, Spared, Mine
    <3>3. CASE t # Loop
      <4>1. t \in Known
        BY <3>3 DEF Inv, Idle
      <4>2. d # store[owner[t]] /\ (owner[d] = owner[t] \/ Shares(d))
        BY <4>1 DEF Inv, Spared
      <4> QED
        BY <3>1, <4>2 DEF Mine
    <3> QED
      BY <3>2, <3>3
  <2> QED
    BY <1>2, <2>1, <2>2
<1> QED
  BY <1>1, <1>6, <1>7, <1>8, <1>9 DEF Inv

LEMMA EndCleanupInv == ASSUME Inv, NEW d \in Device, EndCleanup(d) PROVE Inv'
<1>1. TypeOK' /\ d \in Thread /\ d # Loop
  BY CleanupType, SMT DEF Inv
<1>2. /\ pc' = [pc EXCEPT ![d] = "done"] /\ pc[d] = "delete" /\ obsolete[d] = {}
      /\ UNCHANGED <<pairings, owner, phone, rows, saved, registered, device, store, obsolete, leaver, events>>
  BY DEF EndCleanup, Goto, pairingVars, durable, session
<1>3. (\A t \in Thread \ {d} : pc'[t] = pc[t]) /\ pc'[d] = "done"
  BY <1>1, <1>2 DEF Inv, TypeOK
<1>4. \A e \in Known : e \in Thread
  BY SMT DEF Inv, TypeOK, Known
<1>5. Owned' /\ Spared' /\ InRows'
  BY <1>2 DEF Inv, Owned, Spared, InRows, Shares, Known, Mine
<1>6. Idle'
  <2>1. \A e \in Device \ Known : e # d
    BY <1>2 DEF Inv, Idle
  <2> QED
    BY <1>1, <1>2, <1>3, <2>1 DEF Inv, Idle, Known
<1>7. OneHandler' /\ Cleaning'
  <2>1. \A e \in Known : (Busy(e)' => Busy(e)) /\ (pc'[e] = "clean" => pc[e] = "clean")
    BY <1>3, <1>4 DEF Busy
  <2> QED
    BY <1>2, <2>1 DEF Inv, OneHandler, Cleaning, Known
<1> QED
  BY <1>1, <1>5, <1>6, <1>7 DEF Inv
-----------------------------------------------------------------------------
(* A step of unregister takes things away, and the handlers go on as before. *)
LEMMA TakingAwayInv ==
  ASSUME Inv, TypeOK', InRows', NEW u \in Users,
         UNCHANGED <<pairings, owner, phone, device, obsolete, events>>,
         obsolete[Loop] = {},
         rows' \subseteq rows,
         \A v \in Users : store'[v] \in {store[v], None} /\ saved'[v] \in {saved[v], None},
         \A d \in Device : pc'[d] = pc[d],
         \/ leaver' = {} /\ pc'[Loop] = "idle"
         \/ leaver' = {u} /\ saved'[u] # None
  PROVE  Inv'
<1>1. \A d \in Known : d \in Device /\ owner[d] \in Users
  BY SMT DEF Inv, TypeOK, Known
<1>2. Owned'
  <2>1. rows' \subseteq Known
    BY DEF Inv, Owned
  <2>2. ASSUME NEW v \in Users PROVE saved'[v] \in Mine(v) \cup {None} /\ store'[v] \in Mine(v) \cup {None}
    BY DEF Inv, Owned
  <2> QED
    BY <2>1, <2>2 DEF Inv, Owned, Known, Mine
<1>3. Idle'
  <2>1. \A t \in Thread : t = Loop \/ t \in Device
    BY SMT
  <2> QED
    BY <2>1 DEF Inv, Idle, Known
<1>4. OneHandler'
  BY <1>1 DEF Inv, OneHandler, Known, Busy
<1>5. Cleaning'
  BY <1>1 DEF Inv, Cleaning, Known
<1>6. Spared'
  <2>1. ASSUME NEW t \in Known, NEW d \in obsolete[t]
        PROVE  /\ d \in Known \ {device[owner[t]], store'[owner[t]]}
               /\ owner[d] = owner[t] \/ Shares(d)
    <3>1. /\ d \in Known \ {device[owner[t]], store[owner[t]]}
          /\ owner[d] = owner[t] \/ Shares(d)
      BY DEF Inv, Spared
    <3>2. d # None
      BY <3>1, SMT DEF Inv, TypeOK, Known
    <3> QED
      BY <1>1, <3>1, <3>2
  <2> QED
    BY <2>1 DEF Spared, Shares, Known
<1> QED
  BY <1>2, <1>3, <1>4, <1>5, <1>6 DEF Inv

LEMMA UnregisterInv == ASSUME Inv, NEW u \in Users, Unregister(u) PROVE Inv'
<1>1. TypeOK'
  BY UnregisterType DEF Inv
<1>2. /\ leaver = {} /\ pc[Loop] = "idle" /\ obsolete[Loop] = {}
      /\ UNCHANGED <<pairings, owner, phone, device, obsolete, events>>
  BY DEF Unregister, LoopIsFree, pairingVars, Inv, Idle
<1>3. \/ Leave(u) /\ UNCHANGED <<pc, leaver>>
      \/ saved[u] # None /\ leaver' = {u} /\ Goto(Loop, "clean") /\ UNCHANGED <<saved, registered>>
  BY DEF Unregister, AfterLogout
<1>4. /\ registered' \subseteq registered
      /\ \A v \in Users : saved'[v] \in {saved[v], None}
      /\ \A d \in Device : pc'[d] = pc[d]
      /\ \/ leaver' = {} /\ pc'[Loop] = "idle"
         \/ leaver' = {u} /\ saved'[u] # None
  <2>1. CASE Leave(u) /\ UNCHANGED <<pc, leaver>>
    BY <1>2, <2>1 DEF Leave, Inv, TypeOK
  <2>2. CASE saved[u] # None /\ leaver' = {u} /\ Goto(Loop, "clean") /\ UNCHANGED <<saved, registered>>
    <3>1. \A d \in Device : d # Loop /\ d \in Thread
      BY SMT
    <3> QED
      BY <2>2, <3>1 DEF Goto, Inv, TypeOK
  <2> QED
    BY <1>3, <2>1, <2>2
<1>5. /\ rows' \subseteq rows /\ InRows'
      /\ \A v \in Users : store'[v] \in {store[v], None}
  <2>1. CASE NoClient(u) /\ (rows' = rows \ {store[u]} \/ rows' = rows)
    BY <1>2, <1>4, <2>1, NoClientKeeps
  <2>2. CASE UNCHANGED <<rows, store>>
    BY <1>2, <1>4, <2>2 DEF Inv, InRows, Shares, Known
  <2> QED
    BY <2>1, <2>2 DEF Unregister
<1> QED
  BY <1>1, <1>2, <1>4, <1>5, TakingAwayInv

LEMMA EndUnregisterInv == ASSUME Inv, NEW u \in Users, EndUnregister(u) PROVE Inv'
<1>1. TypeOK'
  BY EndUnregisterType DEF Inv
<1>2. /\ UNCHANGED <<pairings, owner, phone, rows, device, store, obsolete, events>>
      /\ leaver = {u} /\ leaver' = {} /\ Goto(Loop, "idle") /\ Leave(u)
  BY DEF EndUnregister, pairingVars, session
<1>3. obsolete[Loop] = {}
  BY DEF EndUnregister, Inv, Idle
<1>4. \A d \in Device : d # Loop /\ d \in Thread
  BY SMT
<1>5. (\A d \in Device : pc'[d] = pc[d]) /\ pc'[Loop] = "idle"
  BY <1>2, <1>4 DEF Goto, Inv, TypeOK
<1>6. \A v \in Users : saved'[v] \in {saved[v], None}
  BY <1>2 DEF Leave, Inv, TypeOK
<1>7. InRows'
  BY <1>2 DEF Leave, Inv, InRows, Shares, Known
<1> QED
  BY <1>1, <1>2, <1>3, <1>5, <1>6, <1>7, TakingAwayInv

LEMMA RestartInv == ASSUME Inv, Restart PROVE Inv'
<1>1. TypeOK'
  BY RestartType DEF Inv
<1>2. \A u \in Users : events'[u] = <<>> /\ store'[u] = None /\ device'[u] = saved[u]
  BY DEF Restart
<1>3. /\ UNCHANGED <<pairings, owner, phone, rows, saved, registered>>
      /\ leaver' = {} /\ \A t \in Thread : pc'[t] = "idle" /\ obsolete'[t] = {}
  BY DEF Restart, pairingVars, durable
<1>4. Owned'
  <2>1. \A u \in Users : \A i \in 1..Len(events'[u]) : events'[u][i] \in Mine(u)
    <3>1. Len(<<>>) = 0
      OBVIOUS
    <3>2. 1..0 = {}
      BY SMT
    <3> QED
      BY <1>2, <3>1, <3>2
  <2> QED
    BY <1>2, <1>3, <2>1 DEF Inv, Owned, Known, Mine
<1>5. \A d \in Known : d \in Thread
  BY SMT DEF Inv, TypeOK, Known
<1>6. Idle' /\ OneHandler' /\ Cleaning' /\ Spared'
  BY <1>3, <1>5 DEF Inv, Idle, OneHandler, Cleaning, Spared, Shares, Known, Busy
<1>7. InRows'
  BY <1>2, <1>3 DEF Inv, TypeOK, InRows
<1> QED
  BY <1>1, <1>4, <1>6, <1>7 DEF Inv

LEMMA StepInv == ASSUME "linger" \notin Adverse PROVE Inv /\ [Next]_vars => Inv'
<1> SUFFICES ASSUME Inv, [Next]_vars PROVE Inv'
  OBVIOUS
<1>1. ASSUME NEW u \in Users,
             \/ Login(u) \/ Disconnect(u) \/ (\E p \in Phones : PairDevice(u, p))
             \/ LoggedOut(u) \/ HandlePair(u) \/ Unregister(u)
      PROVE  Inv'
  BY <1>1, LoginInv, ClientGoneInv, PairDeviceInv, HandlePairInv, UnregisterInv
<1>2. ASSUME NEW u \in Users, Unregistering(u) PROVE Inv'
  <2>1. Loop \in Thread
    OBVIOUS
  <2> QED
    BY <1>2, <2>1, LoopReadsInv, DeleteRowInv, EndUnregisterInv DEF Unregistering
<1>3. ASSUME NEW d \in Device, Unlink(d) \/ Handler(d) PROVE Inv'
  <2>1. d \in Thread
    OBVIOUS
  <2> QED
    BY <1>3, <2>1, UnlinkInv, PairSuccessInv, HandlerReadsInv, DeleteRowInv, EndCleanupInv
       DEF Handler, Known
<1>4. CASE UNCHANGED vars
  BY <1>4 DEF Inv, TypeOK, Owned, Idle, OneHandler, Cleaning, Spared, InRows, Shares,
              Known, Mine, Busy, vars, pairingVars, durable, session, threads
<1> QED
  BY <1>1, <1>2, <1>3, <1>4, RestartInv DEF Next

(* A row that is missing under a session has been deleted for the sake of   *)
(* another user, who paired the same phone: as long as no user pairs again *)
(* while CleanupSession is still under way for them, the row of a device a *)
(* session is connected with is there, or its phone is another user's too. *)
THEOREM OnlySharedRowsDeleted ==
  ASSUME "linger" \notin Adverse
  PROVE  Spec => [](\A u \in Active : store[u] \in rows \/ Shares(store[u]))
<1>1. Inv => \A u \in Active : store[u] \in rows \/ Shares(store[u])
  BY DEF Inv, InRows, Active
<1> QED
  BY <1>1, InitInv, StepInv, PTL DEF Spec

Solo == Adverse \cap {"shared", "linger"} = {}

Unshared == \A d \in Known : ~ Shares(d)

LEMMA StepUnshared ==
  ASSUME Solo PROVE TypeOK /\ Unshared /\ [Next]_vars => Unshared'
<1> SUFFICES ASSUME TypeOK, Unshared, [Next]_vars PROVE Unshared'
  OBVIOUS
<1>1. CASE UNCHANGED pairingVars
  BY <1>1 DEF Unshared, Shares, Known, pairingVars
<1>2. ASSUME NEW u \in Users, NEW p \in Phones, PairDevice(u, p) PROVE Unshared'
  <2>1. "shared" \notin Adverse
    BY DEF Solo
  <2>2. \A d \in Known : phone[d] = p => owner[d] = u
    BY <1>2, <2>1 DEF PairDevice, Known
  <2>3. /\ pairings' = pairings + 1 /\ Known' = Known \cup {pairings'}
        /\ \A d \in Known : owner'[d] = owner[d] /\ phone'[d] = phone[d]
        /\ owner'[pairings'] = u /\ phone'[pairings'] = p
    BY <1>2, AppendProperties, SMT DEF TypeOK, PairDevice, Known
  <2>4. \A d, e \in Known : phone[e] = phone[d] => owner[e] = owner[d]
    BY DEF Unshared, Shares
  <2>5. \A d, e \in Known' : phone'[e] = phone'[d] => owner'[e] = owner'[d]
    BY <2>2, <2>3, <2>4
  <2> QED
    BY <2>5 DEF Unshared, Shares
<1>3. CASE Next /\ ~ \E u \in Users, p \in Phones : PairDevice(u, p)
  BY <1>1, <1>3 DEF Next, Login, Disconnect, LoggedOut, HandlePair, Unregister, Unregistering,
     EndUnregister, ReadDevices, DeleteRow, EndCleanup, Unlink, Handler, PairSuccess, Restart
<1>4. CASE UNCHANGED vars
  BY <1>1, <1>4 DEF vars
<1> QED
  BY <1>2, <1>3, <1>4

(* No clean-up deletes the row of a device a session is connected with, and *)
(* no session connects with a device that has none, wherever the process   *)
(* has been restarted: as long as users do not share a phone, nor pair     *)
(* again while CleanupSession is still under way for them.                 *)
THEOREM NoRowInUseDeleted == ASSUME Solo PROVE Spec => []ClientHasRow
<1>1. "linger" \notin Adverse
  BY DEF Solo
<1>2. Init => Unshared
  BY SMT DEF Init, Unshared, Known
<1>3. Inv /\ Unshared => ClientHasRow
  <2> SUFFICES ASSUME Inv, Unshared, NEW u \in Active PROVE store[u] \in rows
    BY DEF ClientHasRow
  <2>1. store[u] \in rows \/ Shares(store[u])
    BY DEF Inv, InRows, Active
  <2>2. store[u] \in Known
    BY DEF Inv, TypeOK, Owned, Mine, Active
  <2> QED
    BY <2>1, <2>2 DEF Unshared
<1>4. Inv => TypeOK
  BY DEF Inv
<1> QED
  BY <1>1, <1>2, <1>3, <1>4, InitInv, StepInv, StepUnshared, PTL DEF Spec
-----------------------------------------------------------------------------
(* Most steps pair nothing: they take rows, clients and users away, or give *)
(* a client the device its session has, if it has a row.                   *)
Quiet ==
  /\ UNCHANGED <<pairings, owner, phone, device, events>>
  /\ rows' \subseteq rows
  /\ registered' \subseteq registered
  /\ \A u \in registered' : saved'[u] = saved[u]
  /\ \A u \in Users : saved'[u] \in {saved[u], None}
  /\ \A u \in Users : store'[u] \in {store[u], None, device[u]}
  /\ \A u \in client' : store'[u] = None => (u \in client /\ store[u] = None) \/ device[u] \notin rows
  /\ \A u \in Users : store'[u] \in {store[u], None} \/ device[u] \in rows
  /\ \A d \in Device : pc'[d] = pc[d] /\ obsolete'[d] = obsolete[d]

LEMMA ClientQuiet ==
  ASSUME TypeOK, NEW u \in Users, Login(u) \/ Disconnect(u) \/ LoggedOut(u)
  PROVE  Quiet
<1>1. CASE Login(u)
  <2>1. /\ UNCHANGED <<pairings, owner, phone, rows, saved, registered, device, pc, obsolete, events>>
        /\ store' = [store EXCEPT ![u] = IF device[u] \in rows THEN device[u] ELSE None]
        /\ client' = client \cup {u}
    BY <1>1 DEF Login, pairingVars, durable, threads
  <2>2. \A v \in Users : store'[v] = IF v # u THEN store[v]
                                     ELSE IF device[u] \in rows THEN device[u] ELSE None
    BY <2>1 DEF TypeOK
  <2>3. \A v \in client' : store'[v] = None => (v \in client /\ store[v] = None) \/ device[v] \notin rows
    <3>1. None \notin rows
      BY SMT DEF TypeOK
    <3> QED
      BY <2>1, <2>2, <3>1 DEF TypeOK
  <2> QED
    BY <2>1, <2>2, <2>3 DEF Quiet
<1>2. CASE Disconnect(u) \/ LoggedOut(u)
  <2>1. /\ UNCHANGED <<pairings, owner, phone, saved, registered, device, pc, obsolete, events>>
        /\ rows' \subseteq rows /\ NoClient(u)
    BY <1>2 DEF Disconnect, LoggedOut, pairingVars, durable, threads
  <2>2. /\ \A v \in Users : store'[v] = IF v = u THEN None ELSE store[v]
        /\ client' = client \ {u}
    BY <2>1 DEF NoClient, TypeOK
  <2> QED
    BY <2>1, <2>2 DEF Quiet, TypeOK
<1> QED
  BY <1>1, <1>2

LEMMA UnregisterQuiet == ASSUME TypeOK, NEW u \in Users, Unregister(u) PROVE Quiet
<1>1. UNCHANGED <<pairings, owner, phone, device, obsolete, events>> /\ rows' \subseteq rows
  BY DEF Unregister, pairingVars
<1>2. \/ Leave(u) /\ UNCHANGED <<pc, leaver>>
      \/ Goto(Loop, "clean") /\ UNCHANGED <<saved, registered>>
  BY DEF Unregister, AfterLogout
<1>3. \A d \in Device : d # Loop /\ d \in Thread
  BY SMT
<1>4. /\ registered' \subseteq registered
      /\ \A v \in registered' : saved'[v] = saved[v]
      /\ \A v \in Users : saved'[v] \in {saved[v], None}
      /\ \A d \in Device : pc'[d] = pc[d]
  BY <1>2, <1>3 DEF Leave, Goto, TypeOK
<1>5. NoClient(u) \/ UNCHANGED <<client, store>>
  BY DEF Unregister
<1>6. /\ \A v \in Users : store'[v] \in {store[v], None}
      /\ \A v \in client' : v \in client /\ store'[v] = store[v]
  BY <1>5 DEF NoClient, TypeOK
<1> QED
  BY <1>1, <1>4, <1>6 DEF Quiet

LEMMA UnregisteringQuiet == ASSUME TypeOK, NEW u \in Users, Unregistering(u) PROVE Quiet
<1>1. UNCHANGED <<pairings, owner, phone, device, client, store, events>>
  BY DEF Unregistering, ReadDevices, DeleteRow, EndUnregister, pairingVars, session
<1>2. rows' \subseteq rows
  BY DEF Unregistering, ReadDevices, DeleteRow, EndUnregister, durable
<1>3. UNCHANGED <<saved, registered>> \/ Leave(u)
  BY DEF Unregistering, ReadDevices, DeleteRow, EndUnregister, durable
<1>4. \A d \in Device : d # Loop /\ d \in Thread
  BY SMT
<1>5. \A d \in Device : pc'[d] = pc[d] /\ obsolete'[d] = obsolete[d]
  BY <1>4 DEF Unregistering, ReadDevices, DeleteRow, EndUnregister, Goto, TypeOK
<1>6. /\ registered' \subseteq registered
      /\ \A v \in registered' : saved'[v] = saved[v]
      /\ \A v \in Users : saved'[v] \in {saved[v], None}
  BY <1>3 DEF Leave, TypeOK
<1> QED
  BY <1>1, <1>2, <1>5, <1>6 DEF Quiet, TypeOK

LEMMA QuietSteps ==
  ASSUME TypeOK,
         \/ \E u \in Users : \/ Login(u) \/ Disconnect(u) \/ LoggedOut(u)
                             \/ Unregister(u) \/ Unregistering(u)
         \/ \E d \in Device : Unlink(d)
         \/ UNCHANGED vars
  PROVE  Quiet
<1>1. ASSUME NEW d \in Device, Unlink(d) PROVE Quiet
  BY <1>1 DEF Unlink, pairingVars, session, threads, Quiet, TypeOK
<1>2. CASE UNCHANGED vars
  BY <1>2 DEF vars, pairingVars, durable, session, threads, Quiet, TypeOK
<1> QED
  BY <1>1, <1>2, ClientQuiet, UnregisterQuiet, UnregisteringQuiet

(* A handler that cleans up changes its own step and takes rows away.      *)
LEMMA CleanupSteps ==
  ASSUME TypeOK, NEW t \in Device, NEW id, ReadDevices(t, id) \/ DeleteRow(t) \/ EndCleanup(t)
  PROVE  /\ UNCHANGED <<pairings, owner, phone, saved, registered, device, client, store, events>>
         /\ rows' \subseteq rows
         /\ pc[t] \in {"clean", "delete"} /\ pc'[t] # "success"
         /\ \A e \in Device \ {t} : pc'[e] = pc[e] /\ obsolete'[e] = obsolete[e]
<1>1. /\ UNCHANGED <<pairings, owner, phone, saved, registered, device, client, store, events>>
      /\ rows' \subseteq rows
      /\ pc[t] \in {"clean", "delete"}
  BY DEF ReadDevices, DeleteRow, EndCleanup, pairingVars, durable, session
<1>2. t \in Thread
  OBVIOUS
<1>3. pc'[t] # "success" /\ \A e \in Device \ {t} : pc'[e] = pc[e] /\ obsolete'[e] = obsolete[e]
  BY <1>1, <1>2 DEF ReadDevices, DeleteRow, EndCleanup, Goto, TypeOK
<1> QED
  BY <1>1, <1>3
-----------------------------------------------------------------------------
(* What Python will have been told in the end is the device of the session *)
(* (Told), and the device of the client is that of the session or one whose *)
(* PairSuccess has still to be handled (Held).                             *)
Latest(u) == IF events[u] = <<>> THEN saved[u] ELSE events[u][Len(events[u])]
Told == \A u \in registered : Latest(u) = device[u]
Held ==
  \A u \in Users : store[u] # None =>
    store[u] = device[u] \/ \E d \in Known : owner[d] = u /\ pc[d] = "success"

RememberInv == TypeOK /\ Told /\ Held

LEMMA LastOfTail ==
  ASSUME NEW S, NEW s \in Seq(S), s # <<>>
  PROVE  /\ Tail(s) = <<>> => Head(s) = s[Len(s)]
         /\ Tail(s) # <<>> => Tail(s)[Len(Tail(s))] = s[Len(s)]
<1>1. Len(s) \in Nat \ {0}
  BY EmptySeq, SMT
<1>2. /\ Tail(s) \in Seq(S) /\ Len(Tail(s)) = Len(s) - 1
      /\ \A i \in 1..(Len(s) - 1) : Tail(s)[i] = s[i + 1]
      /\ Head(s) = s[1]
  BY HeadTailProperties, SMT
<1>3. CASE Len(s) = 1
  <2>1. Len(Tail(s)) = 0
    BY <1>2, <1>3, SMT
  <2>2. Tail(s) = <<>>
    BY <1>2, <2>1, EmptySeq
  <2> QED
    BY <1>2, <1>3, <2>2
<1>4. CASE Len(s) # 1
  BY <1>1, <1>2, <1>4, SMT
<1> QED
  BY <1>3, <1>4

LEMMA InitRemembers == Init => RememberInv
  BY InitType DEF Init, RememberInv, Told, Held, Latest

LEMMA QuietRemembers == ASSUME RememberInv, Quiet PROVE Told' /\ Held'
<1>1. Told'
  BY DEF RememberInv, Quiet, Told, Latest
<1>2. \A d \in Known : d \in Device
  BY SMT DEF RememberInv, TypeOK, Known
<1>3. Held'
  BY <1>2 DEF RememberInv, Quiet, Held, Known
<1> QED
  BY <1>1, <1>3

LEMMA CleanupRemembers ==
  ASSUME RememberInv, NEW t \in Device, NEW id, ReadDevices(t, id) \/ DeleteRow(t) \/ EndCleanup(t)
  PROVE  Told' /\ Held'
<1>1. /\ UNCHANGED <<pairings, owner, saved, registered, device, store, events>>
      /\ pc[t] # "success"
      /\ \A e \in Device \ {t} : pc'[e] = pc[e]
  BY CleanupSteps DEF RememberInv
<1>2. \A d \in Known : d \in Device
  BY SMT DEF RememberInv, TypeOK, Known
<1> QED
  BY <1>1, <1>2 DEF RememberInv, Told, Held, Latest, Known

LEMMA PairDeviceRemembers ==
  ASSUME RememberInv, NEW u \in Users, NEW p \in Phones, PairDevice(u, p)
  PROVE  Told' /\ Held'
<1> DEFINE n == pairings + 1
<1>1. /\ n \in Device /\ n \notin Known /\ Known' = Known \cup {n}
      /\ \A d \in Known : d \in Device
  BY SMT DEF RememberInv, TypeOK, PairDevice, Known
<1>2. (\A d \in Known : owner'[d] = owner[d]) /\ owner'[n] = u
  BY <1>1, AppendProperties, SMT DEF RememberInv, TypeOK, PairDevice, Known
<1>3. /\ \A d \in Known : pc'[d] = pc[d]
      /\ pc'[n] = "success"
      /\ \A v \in Users \ {u} : store'[v] = store[v]
  BY <1>1, SMT DEF RememberInv, TypeOK, PairDevice
<1>4. UNCHANGED <<saved, registered, device, events>>
  BY DEF PairDevice
<1> QED
  BY <1>1, <1>2, <1>3, <1>4 DEF RememberInv, Told, Held, Latest

(* The device of the moment, and not that of the pairing, is told; what the *)
(* client holds is then what the session has.                              *)
LEMMA PairSuccessRemembers ==
  ASSUME RememberInv, NEW d \in Device, PairSuccess(d) PROVE Told' /\ Held'
<1> DEFINE u == owner[d]
<1>1. /\ UNCHANGED <<pairings, owner, saved, registered, store>>
      /\ d \in Known /\ pc[d] = "success"
  BY DEF PairSuccess, pairingVars, durable, Known
<1>2. u \in Users /\ \A e \in Known : e \in Thread
  BY <1>1, SMT DEF RememberInv, TypeOK, Known
<1>3. \A e \in Known \ {d} : pc'[e] = pc[e]
  BY <1>1, <1>2 DEF PairSuccess, Goto, RememberInv, TypeOK
<1>4. ASSUME NEW v \in Users \ {u}, store[v] # None
      PROVE  store[v] = device[v] \/ \E e \in Known : owner[e] = v /\ pc'[e] = "success"
  BY <1>1, <1>3, <1>4 DEF RememberInv, Held
<1>5. CASE store[u] = None
  <2>1. UNCHANGED <<device, events>>
    BY <1>5 DEF PairSuccess
  <2>2. Told'
    BY <1>1, <2>1 DEF RememberInv, Told, Latest
  <2>3. Held'
    BY <1>1, <1>4, <1>5, <2>1 DEF Held, Known
  <2> QED
    BY <2>2, <2>3
<1>6. CASE store[u] # None
  <2>1. /\ \A v \in Users : device'[v] = IF v = u THEN store[u] ELSE device[v]
        /\ \A v \in Users \ {u} : events'[v] = events[v]
        /\ events'[u] = Append(events[u], store[u])
    BY <1>2, <1>6 DEF PairSuccess, RememberInv, TypeOK
  <2>2. events[u] \in Seq(Device) /\ store[u] \in Device
    BY <1>2, <1>6 DEF RememberInv, TypeOK
  <2>3. Latest(u)' = store[u]
    <3>1. events'[u] # <<>> /\ events'[u][Len(events'[u])] = store[u]
      BY <2>1, <2>2, AppendProperties, SMT
    <3> QED
      BY <1>1, <3>1 DEF Latest
  <2>4. Told'
    <3>1. \A v \in registered \ {u} : v \in Users /\ Latest(v)' = Latest(v)
      BY <1>1, <2>1 DEF Latest, RememberInv, TypeOK
    <3> QED
      BY <1>1, <1>2, <2>1, <2>3, <3>1 DEF RememberInv, Told
  <2>5. Held'
    BY <1>1, <1>4, <2>1 DEF Held, Known
  <2> QED
    BY <2>4, <2>5
<1> QED
  BY <1>5, <1>6

LEMMA HandlePairRemembers ==
  ASSUME RememberInv, NEW u \in Users, HandlePair(u) PROVE Told' /\ Held'
<1>1. UNCHANGED <<pairings, owner, registered, device, store, pc>>
  BY DEF HandlePair, pairingVars, session, threads
<1>2. /\ events[u] \in Seq(Device) /\ events[u] # <<>>
      /\ \A v \in Users : events'[v] = IF v = u THEN Tail(events[u]) ELSE events[v]
      /\ \A v \in Users \ {u} : saved'[v] = saved[v]
      /\ u \in registered => saved'[u] = Head(events[u])
  BY DEF HandlePair, RememberInv, TypeOK
<1>3. u \in registered => Latest(u)' = Latest(u)
  <2>1. /\ Tail(events[u]) = <<>> => Head(events[u]) = events[u][Len(events[u])]
        /\ Tail(events[u]) # <<>> =>
             Tail(events[u])[Len(Tail(events[u]))] = events[u][Len(events[u])]
    BY <1>2, LastOfTail
  <2> QED
    BY <1>2, <2>1 DEF Latest
<1>4. \A v \in registered \ {u} : v \in Users /\ Latest(v)' = Latest(v)
  BY <1>2 DEF Latest, RememberInv, TypeOK
<1>5. Told'
  BY <1>1, <1>3, <1>4 DEF RememberInv, Told
<1>6. Held'
  BY <1>1 DEF RememberInv, Held, Known
<1> QED
  BY <1>5, <1>6

LEMMA StepRemembers == RememberInv /\ [Next]_vars => RememberInv'
<1> SUFFICES ASSUME RememberInv, [Next]_vars PROVE RememberInv'
  OBVIOUS
<1>1. TypeOK'
  BY StepType DEF RememberInv
<1>2. CASE Quiet
  BY <1>1, <1>2, QuietRemembers DEF RememberInv
<1>3. ASSUME NEW u \in Users, (\E p \in Phones : PairDevice(u, p)) \/ HandlePair(u) PROVE RememberInv'
  BY <1>1, <1>3, PairDeviceRemembers, HandlePairRemembers DEF RememberInv
<1>4. ASSUME NEW d \in Device, Handler(d) PROVE RememberInv'
  BY <1>1, <1>4, PairSuccessRemembers, CleanupRemembers DEF RememberInv, Handler
<1>5. CASE Restart
  <2>1. /\ registered' = registered
        /\ \A u \in Users : events'[u] = <<>> /\ store'[u] = None /\ device'[u] = saved[u] /\ saved'[u] = saved[u]
    BY <1>5 DEF Restart, durable
  <2> QED
    BY <1>1, <2>1 DEF RememberInv, Told, Held, Latest, TypeOK
<1> QED
  BY <1>2, <1>3, <1>4, <1>5, QuietSteps DEF Next, RememberInv

(* When the pairings of a user are over and told, the device its client     *)
(* uses is the one on the disk and the one of the session, whatever goes    *)
(* against the users: phones in common, a pairing begun before the last    *)
(* was handled, calls that fail, restarts.                                 *)
THEOREM PairingsRemembered == Spec => []Remembered
<1>1. RememberInv => Remembered
  <2> SUFFICES ASSUME RememberInv, NEW u \in Active, Pairing(u) = {}, events[u] = <<>>
               PROVE  saved[u] = store[u] /\ device[u] = store[u]
    BY DEF Remembered
  <2>1. u \in registered /\ u \in Users /\ store[u] # None
    BY DEF Active, RememberInv, TypeOK
  <2>2. store[u] = device[u]
    BY <2>1 DEF RememberInv, Held, Pairing, Known
  <2> QED
    BY <2>1, <2>2 DEF RememberInv, Told, Latest
<1> QED
  BY <1>1, InitRemembers, StepRemembers, PTL DEF Spec
-----------------------------------------------------------------------------
(* What is known of devices is of devices that were paired.                *)
Paired ==
  /\ rows \subseteq Known
  /\ \A u \in Users : {saved[u], device[u], store[u]} \subseteq Known \cup {None}
  /\ \A u \in Users : \A i \in 1..Len(events[u]) : events[u][i] \in Known
  /\ \A d \in Device \ Known : pc[d] = "idle"

(* A client without a device has found no row for that of its session; the *)
(* handler of a pairing finds its own device, or none, in the client, and  *)
(* from then on in the session; so it leaves its own row and deletes, one  *)
(* by one, those of earlier devices of the same phone.                     *)
Unpaired == \A u \in client : store[u] = None => device[u] \notin rows

Itself ==
  \A d \in Known :
    /\ pc[d] = "success" => device[owner[d]] \notin rows /\ store[owner[d]] \in {None, d}
    /\ pc[d] \in {"clean", "delete"} => device[owner[d]] = d

Earlier(d) == {e \in rows : phone[e] = phone[d] /\ e < d}

Emptying ==
  \A d \in Known :
    /\ pc[d] = "delete" => Earlier(d) \subseteq obsolete[d]
    /\ pc[d] = "done" => Earlier(d) = {}

TidyInv == TypeOK /\ Paired /\ OneHandler /\ Unpaired /\ Itself /\ Emptying

LEMMA InitTidy == Init => TidyInv
<1> SUFFICES ASSUME Init PROVE TidyInv
  OBVIOUS
<1>1. TypeOK
  BY InitType
<1>2. Known = {}
  BY SMT DEF Init, Known
<1>3. \A u \in Users : Len(events[u]) = 0
  BY DEF Init
<1>4. Paired
  BY <1>3, SMT DEF Init, Paired
<1>5. OneHandler /\ Unpaired /\ Itself /\ Emptying
  BY <1>2 DEF Init, OneHandler, Unpaired, Itself, Emptying
<1> QED
  BY <1>1, <1>4, <1>5 DEF TidyInv

LEMMA AppendWithin ==
  ASSUME NEW S, NEW s \in Seq(S), NEW e \in S, NEW K, e \in K, \A i \in 1..Len(s) : s[i] \in K
  PROVE  \A i \in 1..Len(Append(s, e)) : Append(s, e)[i] \in K
  BY AppendProperties, SMT

LEMMA KnownDevices ==
  ASSUME TypeOK
  PROVE  /\ Known \subseteq Device /\ None \notin Known /\ None \notin rows
         /\ \A d \in Known : owner[d] \in Users
  BY SMT DEF TypeOK, Known

LEMMA QuietTidy == ASSUME TidyInv, TypeOK', Quiet PROVE TidyInv'
<1>1. /\ Known \subseteq Device /\ None \notin rows
      /\ \A d \in Known : owner[d] \in Users
  BY KnownDevices DEF TidyInv
<1>2. Paired'
  BY DEF TidyInv, Paired, Quiet, Known
<1>3. OneHandler'
  BY <1>1 DEF TidyInv, OneHandler, Quiet, Known, Busy
<1>4. Unpaired'
  BY DEF TidyInv, Unpaired, Quiet
<1>5. Itself'
  BY <1>1 DEF TidyInv, Itself, Quiet, Known
<1>6. Emptying'
  <2>1. \A d \in Known : Earlier(d)' \subseteq Earlier(d)
    BY DEF Quiet, Earlier
  <2> QED
    BY <1>1, <2>1 DEF TidyInv, Emptying, Quiet, Known
<1> QED
  BY <1>2, <1>3, <1>4, <1>5, <1>6 DEF TidyInv

(* No handler of this user's is under way: the session may hold anything.  *)
LEMMA PairDeviceTidy ==
  ASSUME "linger" \notin Adverse, TidyInv, NEW u \in Users, NEW p \in Phones, PairDevice(u, p)
  PROVE  TidyInv'
<1> DEFINE n == pairings + 1
<1>0. TypeOK'
  BY PairDeviceType DEF TidyInv
<1>1. /\ n \in Device /\ n \notin Known /\ n # None /\ Known' = Known \cup {n}
      /\ \A d \in Known : d < n /\ d \in Device /\ owner[d] \in Users
  BY SMT DEF TidyInv, TypeOK, PairDevice, Known
<1>2. /\ \A d \in Known : owner'[d] = owner[d] /\ phone'[d] = phone[d]
      /\ owner'[n] = u
  BY <1>1, AppendProperties, SMT DEF TidyInv, TypeOK, PairDevice, Known
<1>3. /\ \A d \in Device \ {n} : pc'[d] = pc[d]
      /\ pc'[n] = "success"
      /\ \A v \in Users : store'[v] = IF v = u THEN n ELSE store[v]
      /\ rows' = rows \cup {n}
      /\ UNCHANGED <<saved, device, client, obsolete, events>>
      /\ u \in client /\ store[u] = None
  BY <1>1, SMT DEF TidyInv, TypeOK, PairDevice
<1>4. \A d \in Known : owner[d] = u => ~ Busy(d)
  BY DEF PairDevice, Pairing, Known, Busy
<1>5. Paired'
  BY <1>1, <1>3 DEF TidyInv, Paired
<1>6. \A v \in Users : device[v] # n
  BY <1>1 DEF TidyInv, Paired
<1>7. OneHandler'
  <2>1. \A d \in Known : Busy(d)' <=> Busy(d)
    BY <1>1, <1>3 DEF Busy
  <2> QED
    BY <1>1, <1>2, <1>4, <2>1 DEF TidyInv, OneHandler
<1>8. Unpaired'
  BY <1>1, <1>3, <1>6 DEF TidyInv, TypeOK, Unpaired
<1>9. Itself'
  <2>1. device'[u] \notin rows'
    BY <1>3, <1>6 DEF TidyInv, Unpaired
  <2>2. ASSUME NEW d \in Known, owner[d] # u
        PROVE  /\ pc'[d] = "success" => device[owner[d]] \notin rows' /\ store'[owner[d]] \in {None, d}
               /\ pc'[d] \in {"clean", "delete"} => device[owner[d]] = d
    BY <1>1, <1>3, <1>6, <2>2 DEF TidyInv, Itself
  <2>3. ASSUME NEW d \in Known, owner[d] = u
        PROVE  pc'[d] \notin {"success", "clean", "delete"}
    BY <1>1, <1>3, <1>4, <2>3 DEF Busy
  <2> QED
    BY <1>1, <1>2, <1>3, <2>1, <2>2, <2>3 DEF Itself
<1>10. Emptying'
  <2>1. \A d \in Known : Earlier(d)' = Earlier(d)
    <3>1. \A d \in Known : d \in Nat /\ ~ n < d
      BY <1>1, SMT DEF Known
    <3>2. rows \subseteq Known
      BY DEF TidyInv, Paired
    <3> QED
      BY <1>2, <1>3, <3>1, <3>2 DEF Earlier
  <2> QED
    BY <1>1, <1>3, <2>1 DEF TidyInv, Emptying
<1> QED
  BY <1>0, <1>5, <1>7, <1>8, <1>9, <1>10 DEF TidyInv

(* The session gets the device that was paired.                            *)
LEMMA PairSuccessTidy == ASSUME TidyInv, NEW d \in Device, PairSuccess(d) PROVE TidyInv'
<1> DEFINE u == owner[d]
<1>0. TypeOK'
  BY PairSuccessType DEF TidyInv
<1>1. /\ UNCHANGED <<pairings, owner, phone, rows, saved, client, store, obsolete>>
      /\ d \in Known /\ pc[d] = "success"
  BY DEF PairSuccess, pairingVars, durable, Known
<1>2. /\ Known \subseteq Device /\ None \notin Known /\ u \in Users
      /\ \A e \in Known : owner[e] \in Users
  BY <1>1, KnownDevices DEF TidyInv
<1>3. \A e \in Device \ {d} : pc'[e] = pc[e]
  BY DEF PairSuccess, Goto, TidyInv, TypeOK
<1>4. pc'[d] = IF store[u] = None THEN "idle" ELSE "clean"
  BY <1>2 DEF PairSuccess, Goto, TidyInv, TypeOK
<1>5. \A v \in Users : device'[v] = IF v = u /\ store[u] # None THEN store[u] ELSE device[v]
  BY <1>2 DEF PairSuccess, TidyInv, TypeOK
<1>6. store[u] \in {None, d}
  BY <1>1 DEF TidyInv, Itself
<1>7. Paired'
  <2>1. \A v \in Users \ {u} : events'[v] = events[v]
    BY DEF PairSuccess, TidyInv, TypeOK
  <2>2. \A i \in 1..Len(events'[u]) : events'[u][i] \in Known
    <3>1. events[u] \in Seq(Device) /\ \A i \in 1..Len(events[u]) : events[u][i] \in Known
      BY <1>2 DEF TidyInv, TypeOK, Paired
    <3>2. CASE store[u] = None
      BY <3>1, <3>2 DEF PairSuccess
    <3>3. CASE store[u] # None
      <4>1. events'[u] = Append(events[u], d) /\ d \in Device
        BY <1>2, <1>6, <3>3 DEF PairSuccess, TidyInv, TypeOK
      <4> QED
        BY <1>1, <3>1, <4>1, AppendWithin
    <3> QED
      BY <3>2, <3>3
  <2>3. \A v \in Users : \A i \in 1..Len(events'[v]) : events'[v][i] \in Known
    BY <2>1, <2>2 DEF TidyInv, Paired
  <2>4. \A v \in Users : device'[v] \in Known \cup {None}
    BY <1>1, <1>5, <1>6 DEF TidyInv, Paired
  <2> QED
    BY <1>1, <1>3, <2>3, <2>4 DEF TidyInv, Paired, Known
<1>8. \A e \in Known \ {d} : Busy(e) => owner[e] # u
  BY <1>1 DEF TidyInv, OneHandler, Busy
<1>9. OneHandler'
  <2>1. \A e \in Known : Busy(e)' => Busy(e)
    BY <1>1, <1>2, <1>3 DEF Busy
  <2> QED
    BY <1>1, <2>1 DEF TidyInv, OneHandler, Known
<1>10. Unpaired'
  BY <1>1, <1>5 DEF TidyInv, TypeOK, Unpaired
<1>11. Itself'
  <2>1. ASSUME NEW e \in Known \ {d}, Busy(e)
        PROVE  pc'[e] = pc[e] /\ device'[owner[e]] = device[owner[e]]
    BY <1>2, <1>3, <1>5, <1>8, <2>1
  <2>2. \A e \in Known \ {d} : pc'[e] = pc[e]
    BY <1>2, <1>3
  <2>3. pc'[d] # "success" /\ (pc'[d] \in {"clean", "delete"} => device'[u] = d)
    BY <1>2, <1>4, <1>5, <1>6
  <2> QED
    BY <1>1, <2>1, <2>2, <2>3 DEF TidyInv, Itself, Known, Busy
<1>12. Emptying'
  <2>1. \A e \in Known : Earlier(e)' = Earlier(e)
    BY <1>1 DEF Earlier
  <2> QED
    BY <1>1, <1>2, <1>3, <1>4, <2>1 DEF TidyInv, Emptying, Known
<1> QED
  BY <1>0, <1>7, <1>9, <1>10, <1>11, <1>12 DEF TidyInv

LEMMA HandlePairTidy == ASSUME TidyInv, NEW u \in Users, HandlePair(u) PROVE TidyInv'
<1>0. TypeOK'
  BY HandlePairType DEF TidyInv
<1>1. UNCHANGED <<pairings, owner, phone, rows, device, client, store, pc, obsolete>>
  BY DEF HandlePair, pairingVars, session, threads
<1>2. /\ events[u] \in Seq(Device) /\ events[u] # <<>>
      /\ \A v \in Users : events'[v] = IF v = u THEN Tail(events[u]) ELSE events[v]
      /\ \A v \in Users : saved'[v] \in {saved[v]} \cup (IF v = u THEN {Head(events[u])} ELSE {})
  BY DEF HandlePair, TidyInv, TypeOK
<1>3. \A i \in 1..Len(events[u]) : events[u][i] \in Known
  BY DEF TidyInv, Paired
<1>4. /\ Head(events[u]) \in Known
      /\ \A i \in 1..Len(Tail(events[u])) : Tail(events[u])[i] \in Known
  BY <1>2, <1>3, HeadTailProperties, SMT
<1>5. Paired'
  <2>1. \A v \in Users : saved'[v] \in Known \cup {None}
    BY <1>2, <1>4 DEF TidyInv, Paired
  <2>2. \A v \in Users : \A i \in 1..Len(events'[v]) : events'[v][i] \in Known
    BY <1>2, <1>4 DEF TidyInv, Paired
  <2> QED
    BY <1>1, <2>1, <2>2 DEF TidyInv, Paired, Known
<1>6. OneHandler' /\ Unpaired' /\ Itself' /\ Emptying'
  BY <1>1 DEF TidyInv, OneHandler, Unpaired, Itself, Emptying, Earlier, Known, Busy
<1> QED
  BY <1>0, <1>5, <1>6 DEF TidyInv

(* The clean-up finds every earlier row, and has deleted it when it ends.  *)
LEMMA CleanupEmpties ==
  ASSUME "deleteFails" \notin Adverse, TidyInv, NEW t \in Known,
         ReadDevices(t, device[owner[t]]) \/ DeleteRow(t) \/ EndCleanup(t)
  PROVE  /\ pc'[t] \in {"delete", "done", "idle"}
         /\ pc'[t] = "delete" => Earlier(t)' \subseteq obsolete'[t]
         /\ pc'[t] = "done" => Earlier(t)' = {}
<1>1. t \in Device /\ t \in Thread
  BY KnownDevices DEF TidyInv
<1>2. CASE ReadDevices(t, device[owner[t]])
  <2>1. phone' = phone /\ rows' = rows
    BY <1>2 DEF ReadDevices, pairingVars, durable
  <2>2. device[owner[t]] = t
    BY <1>2 DEF ReadDevices, TidyInv, Itself
  <2>3. \A e \in Earlier(t) : e # t
    BY SMT DEF Earlier, TidyInv, TypeOK, Known
  <2>4. Earlier(t)' \subseteq Obsolete(t)
    BY <2>1, <2>3 DEF Earlier, Obsolete
  <2>5. \/ pc'[t] = "delete" /\ obsolete'[t] = Obsolete(t)
        \/ pc'[t] = "idle"
    BY <1>1, <1>2, <2>2 DEF ReadDevices, Goto, TidyInv, TypeOK
  <2> QED
    BY <2>4, <2>5
<1>3. CASE DeleteRow(t)
  <2>1. PICK d \in obsolete[t] : obsolete' = [obsolete EXCEPT ![t] = @ \ {d}] /\ rows' = rows \ {d}
    BY <1>3 DEF DeleteRow
  <2>2. obsolete'[t] = obsolete[t] \ {d}
    BY <1>1, <2>1 DEF TidyInv, TypeOK
  <2>3. phone' = phone /\ pc' = pc /\ pc[t] = "delete"
    BY <1>3 DEF DeleteRow, pairingVars
  <2>4. Earlier(t)' \subseteq Earlier(t) \ {d}
    BY <2>1, <2>3 DEF Earlier
  <2> QED
    BY <2>2, <2>3, <2>4 DEF TidyInv, Emptying
<1>4. CASE EndCleanup(t)
  <2>1. pc'[t] = "done"
    BY <1>1, <1>4 DEF EndCleanup, Goto, TidyInv, TypeOK
  <2>2. Earlier(t)' = Earlier(t)
    BY <1>4 DEF EndCleanup, pairingVars, durable, Earlier
  <2> QED
    BY <1>4, <2>1, <2>2 DEF EndCleanup, TidyInv, Emptying
<1> QED
  BY <1>2, <1>3, <1>4

LEMMA CleanupTidy ==
  ASSUME "deleteFails" \notin Adverse, TidyInv, NEW t \in Known,
         ReadDevices(t, device[owner[t]]) \/ DeleteRow(t) \/ EndCleanup(t)
  PROVE  TidyInv'
<1>1. t \in Device /\ t \in Thread /\ Known \subseteq Device
  BY KnownDevices DEF TidyInv
<1>2. TypeOK'
  BY <1>1, CleanupType DEF TidyInv
<1>3. /\ UNCHANGED <<pairings, owner, phone, saved, device, client, store, events>>
      /\ rows' \subseteq rows
      /\ pc[t] \in {"clean", "delete"} /\ pc'[t] # "success"
      /\ \A e \in Device \ {t} : pc'[e] = pc[e] /\ obsolete'[e] = obsolete[e]
  BY <1>1, CleanupSteps DEF TidyInv
<1>4. Paired' /\ Unpaired'
  BY <1>1, <1>3 DEF TidyInv, Paired, Unpaired, Known
<1>5. OneHandler'
  <2>1. \A e \in Known : Busy(e)' => Busy(e)
    BY <1>1, <1>3 DEF Busy
  <2> QED
    BY <1>3, <2>1 DEF TidyInv, OneHandler, Known
<1>6. Itself'
  BY <1>1, <1>3 DEF TidyInv, Itself, Known
<1>7. Emptying'
  <2>1. \A e \in Known : Earlier(e)' \subseteq Earlier(e)
    BY <1>3 DEF Earlier
  <2>2. \A e \in Known \ {t} : pc'[e] = pc[e] /\ obsolete'[e] = obsolete[e]
    BY <1>1, <1>3
  <2>3. /\ pc'[t] = "delete" => Earlier(t)' \subseteq obsolete'[t]
        /\ pc'[t] = "done" => Earlier(t)' = {}
    BY CleanupEmpties
  <2> QED
    BY <1>3, <2>1, <2>2, <2>3 DEF TidyInv, Emptying, Known
<1> QED
  BY <1>2, <1>4, <1>5, <1>6, <1>7 DEF TidyInv

LEMMA RestartTidy == ASSUME TidyInv, Restart PROVE TidyInv'
<1>1. TypeOK'
  BY RestartType DEF TidyInv
<1>2. /\ UNCHANGED <<pairings, owner, phone, rows, saved>> /\ client' = {}
      /\ \A u \in Users : events'[u] = <<>> /\ store'[u] = None /\ device'[u] = saved[u]
      /\ \A d \in Device : pc'[d] = "idle"
  BY DEF Restart, pairingVars, durable
<1>3. 1..Len(<<>>) = {}
  BY SMT
<1>4. Paired'
  BY <1>2, <1>3 DEF TidyInv, Paired, Known
<1>5. Known \subseteq Device
  BY KnownDevices DEF TidyInv
<1>6. OneHandler' /\ Unpaired' /\ Itself' /\ Emptying'
  BY <1>2, <1>5 DEF OneHandler, Unpaired, Itself, Emptying, Known, Busy
<1> QED
  BY <1>1, <1>4, <1>6 DEF TidyInv

LEMMA StepTidy ==
  ASSUME Adverse \cap {"linger", "deleteFails"} = {}
  PROVE  TidyInv /\ [Next]_vars => TidyInv'
<1> SUFFICES ASSUME TidyInv, [Next]_vars PROVE TidyInv'
  OBVIOUS
<1>1. CASE Quiet
  <2>1. TypeOK'
    BY StepType DEF TidyInv
  <2> QED
    BY <1>1, <2>1, QuietTidy
<1>2. ASSUME NEW u \in Users, (\E p \in Phones : PairDevice(u, p)) \/ HandlePair(u) PROVE TidyInv'
  BY <1>2, PairDeviceTidy, HandlePairTidy
<1>3. ASSUME NEW d \in Device, Handler(d) PROVE TidyInv'
  <2>1. PairSuccess(d) \/ d \in Known
    <3>1. pc[d] # "idle" => d \in Known
      BY DEF TidyInv, Paired
    <3> QED
      BY <1>3, <3>1 DEF Handler, DeleteRow, EndCleanup, Known
  <2> QED
    BY <1>3, <2>1, PairSuccessTidy, CleanupTidy DEF Handler
<1> QED
  BY <1>1, <1>2, <1>3, RestartTidy, QuietSteps DEF Next, TidyInv

(* Once the clean-up of a pairing has ended no row of an earlier device of *)
(* the phone is left, even if another user paired it, if rows can be       *)
(* deleted and no user pairs again before the handler has ended.           *)
THEOREM OneRowPerPhone ==
  ASSUME Adverse \cap {"linger", "deleteFails"} = {} PROVE Spec => []OneRow
<1>1. TidyInv => OneRow
  <2> SUFFICES ASSUME TidyInv, NEW d \in rows, NEW e \in rows, pc[d] = "done", phone[e] = phone[d]
               PROVE  e >= d
    BY DEF OneRow
  <2>1. d \in Known /\ e \in Known
    BY DEF TidyInv, Paired
  <2>2. ~ e < d
    BY <2>1 DEF TidyInv, Emptying, Earlier
  <2> QED
    BY <2>1, <2>2, SMT DEF Known, TidyInv, TypeOK
<1> QED
  BY <1>1, InitTidy, StepTidy, PTL DEF Spec
=============================================================================
