------------------------------ MODULE GroupSync ------------------------------
(***************************************************************************)
(* How the room slidge keeps for a group follows WhatsApp: at each login   *)
(* GetGroups returns every group in full, and newGroupEvent tells of       *)
(* changes; update_whatsapp_info (group.py) applies both alike.  Changes   *)
(* made while we are away wait at WhatsApp, unless the device is unlinked; *)
(* events on their way through the gateway are lost when it restarts.      *)
(*                                                                         *)
(* One group stands for all.  Our own participant, nicknames and avatars   *)
(* are left out; a topic is known by who set it.                           *)
(***************************************************************************)
EXTENDS Naturals, Sequences

CONSTANTS
  Person,
  Nobody,
  MaxChanges,   \* bound: what happens at WhatsApp, changes and unlinkings
  Again         \* whether a process may log in again, its gate open or with
                \* events of the earlier login to handle

ASSUME GroupAssumption ==
  /\ MaxChanges \in Nat
  /\ Again \in BOOLEAN
  /\ Nobody \notin Person

Role == {"out", "member", "admin", "owner"}
Affiliation == {"none", "member", "owner"}
Action == {"add", "remove", "promote", "demote"}
Connect == [act |-> "connect", who |-> Nobody]
LoggedOut == [act |-> "logged out", who |-> Nobody]
GroupEvent == [act : Action, who : Person] \cup [act : {"topic"}, who : Person \cup {Nobody}]
Event == GroupEvent \cup {Connect, LoggedOut}   \* the gate lets the last two pass

VARIABLES
  role,       \* WhatsApp: who is in the group, as what
  topic,      \* who set its description, Nobody if it is empty
  changes,    \* changes so far
  linked,     \* our device: linked, unlinked and not aware of it, or not paired
  mail,       \* events that wait at WhatsApp
  line,       \* events in the gateway, not handled yet
  connected,  \* Session.client is connected
  fill,       \* login() waits for Connect; Bookmarks.fill is to call GetGroups; it has
  groups,     \* what GetGroups returned
  gate,       \* bookmarks.ready
  aff,        \* the room: affiliation of each participant
  hats,       \* those with the hat of the owner
  subject,    \* its subject, by who set it
  asked,      \* MUC.history_requested
  hole,       \* messages were missed that no history was requested for
  untold,     \* history: those whose leaving the room is not going to hear of
  unheard     \* history: a LoggedOut event was lost in a restart

whatsapp == <<role, topic, changes, linked>>
queues == <<mail, line>>
session == <<connected, fill, groups, gate>>
room == <<aff, hats, subject>>
history == <<asked, hole, unheard>>
vars == <<whatsapp, queues, session, room, history, untold>>

Group == [role : [Person -> Role], topic : Person \cup {Nobody}]

TypeOK ==
  /\ role \in [Person -> Role]
  /\ topic \in Person \cup {Nobody}
  /\ changes \in 0..MaxChanges
  /\ linked \in {"linked", "unlinked", "unpaired"}
  /\ mail \in Seq(Event) /\ line \in Seq(Event)
  /\ connected \in BOOLEAN
  /\ fill \in {"none", "login", "due", "fetched"}
  /\ groups \in Group
  /\ gate \in BOOLEAN
  /\ aff \in [Person -> Affiliation]
  /\ hats \subseteq Person
  /\ subject \in Person \cup {Nobody}
  /\ asked \in BOOLEAN /\ hole \in BOOLEAN /\ unheard \in BOOLEAN
  /\ untold \subseteq Person

Init ==
  /\ \E creator \in Person : role = [p \in Person |-> IF p = creator THEN "owner" ELSE "out"]
  /\ topic = Nobody
  /\ changes = 0
  /\ linked = "unpaired"
  /\ mail = <<>> /\ line = <<>>
  /\ connected = FALSE
  /\ fill = "none"
  /\ groups = [role |-> role, topic |-> topic]
  /\ gate = FALSE
  /\ aff = [p \in Person |-> "none"]
  /\ hats = {}
  /\ subject = Nobody
  /\ asked = FALSE /\ hole = FALSE /\ unheard = FALSE
  /\ untold = {}
-----------------------------------------------------------------------------
(* At WhatsApp.  A linked device is told of each change, now or later.      *)
Happens == changes < MaxChanges /\ changes' = changes + 1

Tell(e) == mail' = IF linked = "linked" THEN Append(mail, e) ELSE mail

Removed(events) == {p \in Person : \E i \in 1..Len(events) : events[i] = [act |-> "remove", who |-> p]}

Becomes(p, act, r) ==
  /\ role' = [role EXCEPT ![p] = r]
  /\ Tell([act |-> act, who |-> p])

Change(p) ==
  /\ Happens
  /\ \/ role[p] = "out" /\ Becomes(p, "add", "member") /\ untold' = untold \ {p}
     \/ role[p] = "member" /\ Becomes(p, "promote", "admin") /\ UNCHANGED untold
     \/ role[p] = "admin" /\ Becomes(p, "demote", "member") /\ UNCHANGED untold
     \/ /\ role[p] # "out"
        /\ Becomes(p, "remove", "out")
        /\ untold' = IF linked = "linked" THEN untold ELSE untold \cup {p}
  /\ UNCHANGED <<topic, linked, line, session, room, history>>

(* By p, or emptied by somebody. *)
ChangeTopic(p) ==
  /\ Happens
  /\ p \in {q \in Person : role[q] # "out"} \cup {Nobody}
  /\ topic' = p
  /\ Tell([act |-> "topic", who |-> p])
  /\ UNCHANGED <<role, linked, line, session, room, history, untold>>

Unlink ==
  /\ Happens
  /\ linked = "linked"
  /\ linked' = "unlinked"
  /\ mail' = <<>>
  /\ untold' = untold \cup Removed(mail)
  /\ hole' = TRUE
  /\ UNCHANGED <<role, topic, line, session, room, asked, unheard>>
-----------------------------------------------------------------------------
(* The session. *)
MayLogin ==
  /\ ~ connected /\ fill = "none"
  /\ Again \/ (~ gate /\ line = <<>>)

(* Session.login, with a new pairing if there is no device. *)
Login ==
  /\ MayLogin
  /\ linked # "unlinked"
  /\ linked' = "linked"
  /\ connected' = TRUE
  /\ fill' = "login"
  /\ line' = Append(line, Connect)
  /\ UNCHANGED <<role, topic, changes, mail, groups, gate, room, history, untold>>

Down ==
  /\ connected' = FALSE
  /\ fill' = IF fill = "fetched" THEN fill ELSE "none"

Disconnect ==
  /\ connected
  /\ Down
  /\ UNCHANGED <<whatsapp, queues, groups, gate, room, history, untold>>

(* An unlinked device learns of it, and forgets its pairing. *)
Refuse ==
  /\ linked = "unlinked"
  /\ connected \/ MayLogin
  /\ linked' = "unpaired"
  /\ line' = Append(line, LoggedOut)
  /\ Down
  /\ UNCHANGED <<role, topic, changes, mail, groups, gate, room, history, untold>>

Deliver ==
  /\ connected /\ linked = "linked"
  /\ mail # <<>>
  /\ line' = Append(line, Head(mail))
  /\ mail' = Tail(mail)
  /\ UNCHANGED <<whatsapp, session, room, history, untold>>

(* The process ends and starts again; what slidge stores of a room stays.  *)
Restart ==
  /\ connected' = FALSE
  /\ fill' = "none"
  /\ gate' = FALSE
  /\ line' = <<>>
  /\ untold' = untold \cup Removed(line)
  /\ unheard' = (unheard \/ \E i \in 1..Len(line) : line[i] = LoggedOut)
  /\ UNCHANGED <<whatsapp, mail, groups, room, asked, hole>>
-----------------------------------------------------------------------------
(* Bookmarks.fill, after login. *)
GetGroups ==
  /\ fill = "due" /\ linked = "linked"
  /\ groups' = [role |-> role, topic |-> topic]
  /\ fill' = "fetched"
  /\ UNCHANGED <<whatsapp, queues, connected, gate, room, history, untold>>

(* Variant with a fault: admins are not made owners. *)
AffiliatedAlike(r) == r

Affiliated(r) == IF r \in {"admin", "owner"} THEN "owner" ELSE "member"

(* Who sets a topic is made a participant, if he is none, and first of all. *)
WithSetter(p) == IF p = Nobody \/ aff[p] # "none" THEN aff ELSE [aff EXCEPT ![p] = "member"]

(* Variant with a fault: participants who are known already are skipped.   *)
FillOnce ==
  /\ fill = "fetched"
  /\ LET present == {p \in Person : groups.role[p] # "out"} IN
     /\ aff' = [p \in Person |-> IF p \in present /\ aff[p] = "none" THEN Affiliated(groups.role[p]) ELSE WithSetter(groups.topic)[p]]
     /\ hats' = hats \cup {p \in present : groups.role[p] = "owner"}
     /\ untold' = untold \cup ({groups.topic} \ (present \cup {Nobody}))
  /\ subject' = IF groups.topic = Nobody THEN subject ELSE groups.topic
  /\ fill' = "none"
  /\ gate' = TRUE
  /\ UNCHANGED <<whatsapp, queues, connected, groups, history>>

(* update_whatsapp_info with a group in full. *)
Fill ==
  /\ fill = "fetched"
  /\ LET present == {p \in Person : groups.role[p] # "out"} IN
     /\ aff' = [p \in Person |-> IF p \in present THEN Affiliated(groups.role[p]) ELSE WithSetter(groups.topic)[p]]
     /\ hats' = hats \cup {p \in present : groups.role[p] = "owner"}
     /\ untold' = untold \cup ({groups.topic} \ (present \cup {Nobody}))
  /\ subject' = IF groups.topic = Nobody THEN subject ELSE groups.topic
  /\ fill' = "none"
  /\ gate' = TRUE
  /\ UNCHANGED <<whatsapp, queues, connected, groups, history>>

(* update_whatsapp_info with a change; an empty topic is taken for none. *)
Update(e) ==
  CASE e.act = "add" -> aff' = [aff EXCEPT ![e.who] = "member"] /\ UNCHANGED <<hats, subject>>
    [] e.act = "demote" -> aff' = [aff EXCEPT ![e.who] = "member"] /\ UNCHANGED <<hats, subject>>
    [] e.act = "promote" -> aff' = [aff EXCEPT ![e.who] = "owner"] /\ UNCHANGED <<hats, subject>>
    [] e.act = "remove" -> /\ aff' = [aff EXCEPT ![e.who] = "none"]
                           /\ hats' = hats \ {e.who}
                           /\ UNCHANGED subject
    [] e.act = "topic" -> /\ aff' = WithSetter(e.who)
                          /\ subject' = IF e.who = Nobody THEN subject ELSE e.who
                          /\ UNCHANGED hats

(* Variant with a fault: the event does not wait for bookmarks.ready. *)
HandleGroupAtOnce ==
  /\ line # <<>> /\ Head(line) \in GroupEvent
  /\ Update(Head(line))
  /\ line' = Tail(line)
  /\ UNCHANGED <<whatsapp, mail, session, history, untold>>

HandleGroup ==
  /\ line # <<>> /\ Head(line) \in GroupEvent
  /\ gate
  /\ Update(Head(line))
  /\ line' = Tail(line)
  /\ UNCHANGED <<whatsapp, mail, session, history, untold>>

(* on_wa_connect: login() returns, if it waits. *)
HandleConnect ==
  /\ line # <<>> /\ Head(line) = Connect
  /\ fill' = IF fill = "login" THEN "due" ELSE fill
  /\ line' = Tail(line)
  /\ UNCHANGED <<whatsapp, mail, connected, groups, gate, room, history, untold>>

(* Variant with a fault: history_requested is left alone. *)
HandleLoggedOutOnly ==
  /\ line # <<>> /\ Head(line) = LoggedOut
  /\ unheard' = FALSE
  /\ line' = Tail(line)
  /\ UNCHANGED <<whatsapp, mail, session, room, asked, hole, untold>>

(* on_wa_logged_out. *)
HandleLoggedOut ==
  /\ line # <<>> /\ Head(line) = LoggedOut
  /\ asked' = FALSE
  /\ unheard' = FALSE
  /\ line' = Tail(line)
  /\ UNCHANGED <<whatsapp, mail, session, room, hole, untold>>

(* MUC.backfill, called by slidge; if the request fails nothing changes. *)
Backfill ==
  /\ connected /\ gate /\ linked = "linked"
  /\ ~ asked
  /\ asked' = TRUE
  /\ hole' = FALSE
  /\ UNCHANGED <<whatsapp, queues, session, room, unheard, untold>>

Next ==
  \/ \E p \in Person : Change(p)
  \/ \E p \in Person \cup {Nobody} : ChangeTopic(p)
  \/ Unlink \/ Login \/ Disconnect \/ Refuse \/ Deliver \/ Restart
  \/ GetGroups \/ Fill \/ HandleGroup \/ HandleConnect
  \/ HandleLoggedOut \/ Backfill

Spec == Init /\ [][Next]_vars
-----------------------------------------------------------------------------
(* All that was told is applied. *)
Quiet == connected /\ linked = "linked" /\ gate /\ fill = "none" /\ mail = <<>> /\ line = <<>>

(* Then the room has everybody who is in the group, as what he is there,   *)
(* whatever was lost in restarts and while the device was unlinked.        *)
NobodyMissing ==
  Quiet => \A p \in Person : role[p] # "out" =>
    /\ aff[p] = Affiliated(role[p])
    /\ role[p] = "owner" => p \in hats

(* And it has its subject, unless that was emptied. *)
SubjectAgrees == Quiet /\ topic # Nobody => subject = topic

(* Those it lists and who have gone are those whose leaving it could not    *)
(* hear of, or who had left when their topic was applied.                  *)
GhostsKnown == Quiet => \A p \in Person : role[p] = "out" /\ aff[p] # "none" => p \in untold

(* A hole is going to be asked for: "When we are logged out, the initial    *)
(* history sync may not completely cover the hole between logout and       *)
(* re-pair, so we want to request more history".                           *)
HoleAsked ==
  hole /\ asked =>
    \/ linked = "unlinked"
    \/ \E i \in 1..Len(line) : line[i] = LoggedOut
    \/ unheard
=============================================================================
