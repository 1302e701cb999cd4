---------------------------- MODULE Registration ----------------------------
(***************************************************************************)
(* What is known of a paired device, and where: WhatsApp's list of linked  *)
(* devices, whatsmeow's table of devices, the device_id slidge stores for  *)
(* a user, Session.device and the Store of the session's client.  Pairing  *)
(* fills them one after the other, on three threads; a restart keeps only  *)
(* the first three.                                                        *)
(***************************************************************************)
EXTENDS Naturals, Sequences

CONSTANTS
  Users,
  Phones,
  MaxPairings,   \* bound: devices that are ever paired
  Adverse        \* what may go against the users, see Adversity

(* shared: two users pair with the same phone; linger: a user pairs again  *)
(* before the handler of an earlier PairSuccess has ended; logoutFails:    *)
(* WhatsApp may refuse to unlink; readFails, deleteFails: the device table *)
(* may not be read, or a row not deleted.                                  *)
Adversity == {"shared", "linger", "logoutFails", "readFails", "deleteFails"}

ASSUME RegistrationAssumption ==
  /\ MaxPairings \in Nat
  /\ Adverse \subseteq Adversity

None == 0
Device == 1..MaxPairings   \* numbered as they are paired
Loop == 0                  \* asyncio's thread; the other threads are
Thread == {Loop} \cup Device   \* the handlers of each device's PairSuccess

VARIABLES
  pairings,    \* devices paired so far
  owner,       \* the user of each of them
  phone,       \* and its phone
  linked,      \* the devices WhatsApp lists as linked
  rows,        \* the devices in whatsmeow's table
  saved,       \* legacy_module_data["device_id"] of each user
  registered,  \* the users slidge knows
  device,      \* Session.device.ID
  client,      \* the users whose Session has a client
  store,       \* its Store.ID
  pc,          \* what each thread is doing
  obsolete,    \* the rows it is about to delete
  leaver,      \* the user the loop is unregistering
  events       \* each user's EventPairDeviceIDs on their way to Python

pairingVars == <<pairings, owner, phone>>
durable == <<linked, rows, saved, registered>>
session == <<device, client, store>>
threads == <<pc, obsolete, leaver>>
vars == <<pairingVars, durable, session, threads, events>>

TypeOK ==
  /\ pairings \in 0..MaxPairings
  /\ owner \in Seq(Users) /\ Len(owner) = pairings
  /\ phone \in Seq(Phones) /\ Len(phone) = pairings
  /\ linked \subseteq Device
  /\ rows \subseteq Device
  /\ saved \in [Users -> Device \cup {None}]
  /\ registered \subseteq Users
  /\ device \in [Users -> Device \cup {None}]
  /\ client \subseteq Users
  /\ store \in [Users -> Device \cup {None}]
  /\ pc \in [Thread -> {"idle", "success", "clean", "delete", "done"}]
  /\ obsolete \in [Thread -> SUBSET Device]
  /\ leaver \in SUBSET Users
  /\ events \in [Users -> Seq(Device)]

Init ==
  /\ pairings = 0 /\ owner = <<>> /\ phone = <<>>
  /\ linked = {} /\ rows = {}
  /\ saved = [u \in Users |-> None]
  /\ registered = Users
  /\ device = saved
  /\ client = {}
  /\ store = [u \in Users |-> None]
  /\ pc = [t \in Thread |-> "idle"]
  /\ obsolete = [t \in Thread |-> {}]
  /\ leaver = {}
  /\ events = [u \in Users |-> <<>>]
-----------------------------------------------------------------------------
(* What Python calls: its thread has no other call under way.              *)
LoopIsFree == leaver = {}

Pairing(u) == {d \in 1..pairings : owner[d] = u /\ pc[d] \in {"success", "clean", "delete"}}

Goto(t, step) == pc' = [pc EXCEPT ![t] = step]

NoClient(u) ==
  /\ client' = client \ {u}
  /\ store' = [store EXCEPT ![u] = None]

(* The device is looked up; if there is none any more, a new one will be.  *)
Login(u) ==
  /\ LoopIsFree
  /\ u \in registered \ client
  /\ client' = client \cup {u}
  /\ store' = [store EXCEPT ![u] = IF device[u] \in rows THEN device[u] ELSE None]
  /\ UNCHANGED <<pairingVars, durable, device, threads, events>>

Disconnect(u) ==
  /\ LoopIsFree
  /\ u \in client
  /\ NoClient(u)
  /\ UNCHANGED <<pairingVars, durable, device, threads, events>>

(* whatsmeow, once the user has scanned the code or typed it in: the device *)
(* is saved and linked, and PairSuccess is about to be handled.  A pairing *)
(* that fails after the device was saved deletes it again, and is left out. *)
PairDevice(u, p) ==
  /\ u \in client /\ store[u] = None
  /\ pairings < MaxPairings
  /\ "shared" \notin Adverse => \A d \in 1..pairings : phone[d] = p => owner[d] = u
  /\ "linger" \notin Adverse => Pairing(u) = {}
  /\ pairings' = pairings + 1
  /\ owner' = Append(owner, u)
  /\ phone' = Append(phone, p)
  /\ linked' = linked \cup {pairings'}
  /\ rows' = rows \cup {pairings'}
  /\ store' = [store EXCEPT ![u] = pairings']
  /\ pc' = [pc EXCEPT ![pairings'] = "success"]
  /\ UNCHANGED <<saved, registered, device, client, obsolete, leaver, events>>

(* The user removes the device on the phone; a client learns of it.        *)
Unlink(d) ==
  /\ d \in linked
  /\ linked' = linked \ {d}
  /\ UNCHANGED <<pairingVars, rows, saved, registered, session, threads, events>>

(* whatsmeow deletes the device, and the handler of LoggedOut disconnects.  *)
LoggedOut(u) ==
  /\ store[u] \notin linked \cup {None}
  /\ rows' = rows \ {store[u]}
  /\ NoClient(u)
  /\ UNCHANGED <<pairingVars, linked, saved, registered, device, threads, events>>
-----------------------------------------------------------------------------
(* handleEvent for PairSuccess.  The client and its Store are those of the *)
(* moment: without a client it panics, which whatsmeow recovers; without   *)
(* an ID it gives up.                                                      *)

(* Variant with a fault: the event is raised before the device is known. *)
PairSuccessSwapped(d) ==
  LET u == owner[d] IN
  /\ d \in 1..pairings /\ pc[d] = "success"
  /\ store[u] # None
  /\ device' = [device EXCEPT ![u] = store[u]]
  /\ events' = [events EXCEPT ![u] = Append(@, device[u])]
  /\ Goto(d, "clean")
  /\ UNCHANGED <<pairingVars, durable, client, store, obsolete, leaver>>

PairSuccess(d) ==
  LET u == owner[d] IN
  /\ d \in 1..pairings /\ pc[d] = "success"
  /\ IF store[u] = None THEN Goto(d, "idle") /\ UNCHANGED <<device, events>>
     ELSE /\ device' = [device EXCEPT ![u] = store[u]]
          /\ events' = [events EXCEPT ![u] = Append(@, store[u])]
          /\ Goto(d, "clean")
  /\ UNCHANGED <<pairingVars, durable, client, store, obsolete, leaver>>

(* Variant with a fault: the first device of a user is kept. *)
HandlePairOnce(u) ==
  /\ LoopIsFree
  /\ events[u] # <<>>
  /\ saved' = [saved EXCEPT ![u] = IF @ = None THEN Head(events[u]) ELSE @]
  /\ events' = [events EXCEPT ![u] = Tail(@)]
  /\ UNCHANGED <<pairingVars, linked, rows, registered, session, threads>>

(* on_wa_pair. *)
HandlePair(u) ==
  /\ LoopIsFree
  /\ events[u] # <<>>
  /\ saved' = [saved EXCEPT ![u] = IF u \in registered THEN Head(events[u]) ELSE @]
  /\ events' = [events EXCEPT ![u] = Tail(@)]
  /\ UNCHANGED <<pairingVars, linked, rows, registered, session, threads>>
-----------------------------------------------------------------------------
(* Variant with a fault: the device itself is not spared. *)
ObsoleteAll(id) == {d \in rows : phone[d] = phone[id]}

(* Variant with a fault: nothing is found obsolete. *)
ObsoleteNone(id) == {d \in rows : d = id} \ {id}

(* CleanupSession(id) on thread t: the table is read once, then the rows    *)
(* are deleted one by one; the errors of Delete are ignored.               *)
Obsolete(id) == {d \in rows : phone[d] = phone[id] /\ d # id}

ReadDevices(t, id) ==
  /\ pc[t] = "clean"
  /\ \/ obsolete' = [obsolete EXCEPT ![t] = Obsolete(id)] /\ Goto(t, "delete")
     \/ "readFails" \in Adverse /\ Goto(t, "idle") /\ UNCHANGED obsolete
  /\ UNCHANGED <<pairingVars, durable, session, leaver, events>>

DeleteRow(t) ==
  /\ pc[t] = "delete"
  /\ \E d \in obsolete[t] :
       /\ obsolete' = [obsolete EXCEPT ![t] = @ \ {d}]
       /\ rows' \in {rows \ {d}} \cup (IF "deleteFails" \in Adverse THEN {rows} ELSE {})
  /\ UNCHANGED <<pairingVars, linked, saved, registered, session, pc, leaver, events>>

EndCleanup(d) ==
  /\ pc[d] = "delete" /\ obsolete[d] = {}
  /\ Goto(d, "done")
  /\ UNCHANGED <<pairingVars, durable, session, obsolete, leaver, events>>

Handler(d) ==
  \/ PairSuccess(d)
  \/ d \in 1..pairings /\ ReadDevices(d, device[owner[d]])
  \/ DeleteRow(d) \/ EndCleanup(d)
-----------------------------------------------------------------------------
(* Gateway.unregister: Logout, CleanupSession with the device_id, if there *)
(* is one, and slidge forgets the user.  An error of Logout is raised past *)
(* CleanupSession; without a paired client Logout returns at once.         *)
Leave(u) ==
  /\ registered' = registered \ {u}
  /\ saved' = [saved EXCEPT ![u] = None]

(* What follows Logout, unless it has raised an error. *)
AfterLogout(u) ==
  IF saved[u] = None THEN Leave(u) /\ UNCHANGED <<pc, leaver>>
  ELSE leaver' = {u} /\ Goto(Loop, "clean") /\ UNCHANGED <<saved, registered>>

Unregister(u) ==
  /\ LoopIsFree
  /\ u \in registered
  /\ \/ /\ store[u] \in linked
        /\ linked' = linked \ {store[u]}
        /\ rows' = rows \ {store[u]}
        /\ NoClient(u)
        /\ AfterLogout(u)
     \/ /\ store[u] # None
        /\ store[u] \notin linked \/ "logoutFails" \in Adverse
        /\ NoClient(u)
        /\ Leave(u)
        /\ UNCHANGED <<linked, rows, pc, leaver>>
     \/ /\ store[u] = None
        /\ AfterLogout(u)
        /\ UNCHANGED <<linked, rows, client, store>>
  /\ UNCHANGED <<pairingVars, device, obsolete, events>>

EndUnregister(u) ==
  /\ leaver = {u}
  /\ \/ pc[Loop] = "delete" /\ obsolete[Loop] = {}
     \/ pc[Loop] = "idle"   \* CleanupSession has failed
  /\ Goto(Loop, "idle")
  /\ leaver' = {}
  /\ Leave(u)
  /\ UNCHANGED <<pairingVars, linked, rows, session, obsolete, events>>

Unregistering(u) ==
  \/ leaver = {u} /\ ReadDevices(Loop, saved[u])
  \/ leaver = {u} /\ DeleteRow(Loop)
  \/ EndUnregister(u)
-----------------------------------------------------------------------------
(* The process ends, by a crash or not, and starts again. *)
Restart ==
  /\ device' = saved
  /\ client' = {}
  /\ pc' = [t \in Thread |-> "idle"]
  /\ obsolete' = [t \in Thread |-> {}]
  /\ leaver' = {}
  /\ events' = [u \in Users |-> <<>>]
  /\ store' = [u \in Users |-> None]
  /\ UNCHANGED <<pairingVars, durable>>

Next ==
  \/ \E u \in Users : \/ Login(u) \/ Disconnect(u)
                      \/ (\E p \in Phones : PairDevice(u, p))
                      \/ LoggedOut(u) \/ HandlePair(u)
                      \/ Unregister(u) \/ Unregistering(u)
  \/ \E d \in Device : Unlink(d) \/ Handler(d)
  \/ Restart

(* The handlers, the loop and a call that has begun go on. *)
Fairness ==
  /\ \A d \in Device : WF_vars(Handler(d))
  /\ \A u \in Users : SF_vars(HandlePair(u)) /\ WF_vars(Unregistering(u))

Spec == Init /\ [][Next]_vars
FairSpec == Spec /\ Fairness
-----------------------------------------------------------------------------
(* A session that is connected with a device, and not being unregistered,  *)
(* has the row of that device: no clean-up deletes what is in use, and no   *)
(* login uses what was deleted.                                            *)
Active == {u \in registered \ leaver : store[u] # None}
ClientHasRow == \A u \in Active : store[u] \in rows

(* Once nothing of a pairing is under way, the device a session is         *)
(* connected with is the one a restart would look up: it is on the disk,   *)
(* and the session agrees.                                                 *)
Remembered ==
  \A u \in Active : Pairing(u) = {} /\ events[u] = <<>> =>
    saved[u] = store[u] /\ device[u] = store[u]

(* After the clean-up of a pairing, devices of the same phone that were left *)
(* before, by a crash say, are gone: the table has its own device alone,   *)
(* or a later one has come.                                                *)
OneRow ==
  \A d, e \in rows : pc[d] = "done" /\ phone[e] = phone[d] => e >= d

(* A device a session goes on using is stored in the end.                  *)
StoredInTheEnd ==
  \A d \in Device :
    pc[d] = "success" ~> \A u \in Active : store[u] = d => saved[u] = d
=============================================================================
