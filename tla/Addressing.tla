----------------------------- MODULE Addressing -----------------------------
(***************************************************************************)
(* Who acts, and where: what event.go makes of WhatsApp's identifiers, and *)
(* session.py of what event.go gives it.  A person has a phone number and  *)
(* an anonymous number (LID); the device's store maps some of the one to   *)
(* the other.  No state: `known' are the people whose mapping is stored,   *)
(* `ownLid' tells whether the store knows our own LID.                     *)
(***************************************************************************)
EXTENDS Naturals, Sequences

CONSTANTS Person, Me, Room, Nobody

ASSUME PeopleAssumption == Me \in Person /\ Room \notin Person /\ Nobody \notin Person \cup {Room}

Phone(p) == [server |-> "phone", user |-> p]
Hidden(p) == [server |-> "hidden", user |-> p]
Group == [server |-> "group", user |-> Room]
NoId == [server |-> "none", user |-> Nobody]
Id == [server : {"phone", "hidden"}, user : Person] \cup {Group, NoId}

Actor == [jid : Person \cup {Nobody}, lid : Person \cup {Nobody}, isMe : BOOLEAN]
Chat == [jid : Person \cup {Room, Nobody}, isGroup : BOOLEAN]
NoActor == [jid |-> Nobody, lid |-> Nobody, isMe |-> FALSE]
NoChat == [jid |-> Nobody, isGroup |-> FALSE]

(* The first of two identifiers that is of the server given. *)
First(server, primary, alt) ==
  CASE primary.server = server -> primary.user
    [] primary.server # server /\ alt.server = server -> alt.user
    [] OTHER -> Nobody

(* The LID decides over the phone number whether it is us: with our own    *)
(* LID not stored, somebody known by both is never us.                     *)
newActor(primary, alt, known, ownLid) ==
  LET phone == First("phone", primary, alt)
      anon == First("hidden", primary, alt)
      jid == IF phone = Nobody /\ anon \in known THEN anon ELSE phone
      lid == IF anon = Nobody /\ phone \in known THEN phone ELSE anon
      isMe == IF lid # Nobody THEN lid = Me /\ ownLid ELSE jid = Me
  IN [jid |-> IF isMe THEN Me ELSE jid,
      lid |-> IF isMe /\ ownLid THEN Me ELSE lid,
      isMe |-> isMe]

newChat(id, isGroup, known) ==
  CASE id.server \in {"phone", "group"} -> [jid |-> id.user, isGroup |-> isGroup]
    [] id.server = "hidden" /\ ~ isGroup /\ id.user \in known -> [jid |-> id.user, isGroup |-> FALSE]
    [] OTHER -> NoChat

(* __get_contact_or_participant: the participant of a room, or a contact.  *)
(* Somebody else's messages in a direct chat are the contact's, ours are   *)
(* carbons.  We are no contact of our own: our notes to ourselves raise    *)
(* ContactIsUser, which handle_event swallows.                             *)
Resolvable(chat, actor) == ~ chat.isGroup => actor.jid # Nobody /\ chat.jid \notin {Nobody, Me}

Resolve(chat, actor) ==
  [in |-> chat.jid,
   by |-> CASE actor.isMe -> Me
            [] ~ actor.isMe /\ ~ chat.isGroup -> chat.jid
            [] ~ actor.isMe /\ chat.isGroup /\ actor.jid # Nobody -> actor.jid
            [] OTHER -> actor.lid]
=============================================================================
