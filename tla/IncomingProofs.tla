---------------------------- MODULE IncomingProofs ----------------------------
(***************************************************************************)
(* Proofs about Incoming, for any people, any number of messages, arrivals *)
(* and restarts.                                                           *)
(***************************************************************************)
EXTENDS Incoming, FiniteSetTheorems, TLAPS

-----------------------------------------------------------------------------
(* Identifiers. *)

(* However somebody is addressed, what is known of him afterwards is his,  *)
(* something is known, and only we are taken for ourselves.                *)
LEMMA ActorIsHim ==
  ASSUME NEW p \in Person, NEW primary, NEW alt, NEW learnt, ownLid \in BOOLEAN,
         \/ primary \in {Phone(p), Hidden(p)} /\ alt \in {NoId, Phone(p), Hidden(p)}
         \/ primary \in {NoId, Hidden(p)} /\ alt = Phone(p)
  PROVE  /\ newActor(primary, alt, learnt, ownLid) \in Actor
         /\ newActor(primary, alt, learnt, ownLid).jid \in {p, Nobody}
         /\ newActor(primary, alt, learnt, ownLid).lid \in {p, Nobody}
         /\ \/ newActor(primary, alt, learnt, ownLid).jid = p
            \/ newActor(primary, alt, learnt, ownLid).lid = p
         /\ newActor(primary, alt, learnt, ownLid).isMe => p = Me
<1> DEFINE phone == First("phone", primary, alt)
           anon == First("hidden", primary, alt)
           jid == IF phone = Nobody /\ anon \in learnt THEN anon ELSE phone
           lid == IF anon = Nobody /\ phone \in learnt THEN phone ELSE anon
           isMe == IF lid # Nobody THEN lid = Me /\ ownLid ELSE jid = Me
<1>1. /\ phone \in {p, Nobody} /\ anon \in {p, Nobody}
      /\ phone = p \/ anon = p
  BY DEF First, Phone, Hidden, NoId
<1>2. newActor(primary, alt, learnt, ownLid) =
        [jid |-> IF isMe THEN Me ELSE jid, lid |-> IF isMe /\ ownLid THEN Me ELSE lid, isMe |-> isMe]
  BY DEF newActor
<1>3. Me \in Person /\ Nobody \notin Person
  BY PeopleAssumption
<1> HIDE DEF phone, anon
<1>4. jid \in {p, Nobody} /\ lid \in {p, Nobody} /\ (jid = p \/ lid = p) /\ (isMe => p = Me) /\ isMe \in BOOLEAN
  BY <1>1, <1>3
<1> HIDE DEF jid, lid, isMe
<1> QED  BY <1>2, <1>3, <1>4 DEF Actor

(* The phone number is known if it was told, or can be looked up, or is    *)
(* our own and our LID is recognised.                                      *)
LEMMA PhoneIsKnown ==
  ASSUME NEW p \in Person, NEW server \in {"phone", "hidden"}, NEW alt \in {NoId, Other(server, p)},
         NEW learnt, ownLid \in BOOLEAN
  PROVE  newActor(Address(server, p), alt, learnt, ownLid).jid =
           IF server = "phone" \/ alt # NoId \/ p \in learnt \/ (p = Me /\ ownLid) THEN p ELSE Nobody
<1>0. Me \in Person /\ Nobody \notin Person
  BY PeopleAssumption
<1>1. CASE server = "phone"
  <2>1. First("phone", Address(server, p), alt) = p
    BY <1>1 DEF First, Address, Phone
  <2>2. First("hidden", Address(server, p), alt) \in {p, Nobody}
    BY <1>1 DEF First, Address, Other, Phone, Hidden, NoId
  <2> QED  BY <1>0, <1>1, <2>1, <2>2 DEF newActor
<1>2. CASE server = "hidden"
  <2>1. First("hidden", Address(server, p), alt) = p
    BY <1>2 DEF First, Address, Hidden
  <2>2. First("phone", Address(server, p), alt) = IF alt # NoId THEN p ELSE Nobody
    BY <1>2 DEF First, Address, Other, Phone, Hidden, NoId
  <2> QED  BY <1>0, <1>2, <2>1, <2>2 DEF newActor
<1> QED  BY <1>1, <1>2

LEMMA ChatFields ==
  ASSUME NEW jid \in Person \cup {Room, Nobody}, NEW isGroup \in BOOLEAN
  PROVE  /\ [jid |-> jid, isGroup |-> isGroup] \in Chat
         /\ [jid |-> jid, isGroup |-> isGroup].jid = jid
         /\ [jid |-> jid, isGroup |-> isGroup].isGroup = isGroup
  BY DEF Chat

(* What a live message says of its chat. *)
LEMMA LiveChat ==
  ASSUME NEW p \in Person, NEW server \in {"phone", "hidden"}, NEW learnt
  PROVE  /\ newChat(Group, TRUE, learnt) = [jid |-> Room, isGroup |-> TRUE]
         /\ newChat(Address(server, p), FALSE, learnt) =
              IF server = "phone" \/ p \in learnt THEN [jid |-> p, isGroup |-> FALSE] ELSE NoChat
  BY DEF newChat, Group, Address, Phone, Hidden

(* And one from history of its room. *)
LEMMA HistoryChat ==
  ASSUME NEW p \in Person, NEW server \in {"phone", "hidden"}, NEW known2
  PROVE  /\ newChat(Group, TRUE, known2) = [jid |-> Room, isGroup |-> TRUE]
         /\ newChat(Address(server, p), TRUE, known2) =
              IF server = "phone" THEN [jid |-> p, isGroup |-> TRUE] ELSE NoChat
  BY DEF newChat, Group, Address, Phone, Hidden

-----------------------------------------------------------------------------
(* One event, and the message it is of. *)

(* What people may write. *)
Sensible(mail) ==
  /\ mail.in # Room => mail.by \in {Me, mail.in}
  /\ mail.in # Room /\ mail.origin # Nobody => mail.origin \in {Me, mail.in}
  /\ mail.kind = "revoke" => mail.origin \in Person /\ (mail.in # Room => mail.by = mail.origin)

Quoting(mail, e) == mail.kind = "text" /\ e.origin # NoActor

(* What the event must say, if it is to be shown right. *)
HereRight(mail, e) ==
  /\ e.via = "history" => mail.in = Room /\ (Resolvable(e.chat, e.actor) => e.chat.isGroup)
  /\ e.via = "live" => /\ e.chat.isGroup <=> mail.in = Room
                       /\ Resolvable(e.chat, e.actor) => e.chat.jid = mail.in
AuthorRight(mail, e) == Resolvable(e.chat, e.actor) => Resolve(e.chat, e.actor).by = mail.by
QuoteRight(mail, e) ==
  Quoting(mail, e) /\ Resolvable(e.chat, e.actor) /\ Resolvable(e.chat, e.origin) =>
    (IF e.origin.jid = Me THEN Me ELSE Resolve(e.chat, e.origin).by) = mail.origin
RevokeRight(mail, e) ==
  mail.kind = "revoke" /\ e.via = "live" =>
    /\ mail.by = mail.origin => ~ Moderates(e) \/ e.origin = NoActor
    /\ mail.by # mail.origin => Moderates(e) \/ (e.actor.jid = Nobody /\ e.origin.jid = Nobody)

(* Which events cannot be shown. *)
LossRight(mail, e) ==
  ~ Resolvable(e.chat, e.actor) =>
    /\ e.via = "history" => e.from.server = "hidden"
    /\ e.via = "live" =>
         \/ mail.in = Me
         \/ /\ mail.in \notin {Me, Room} /\ e.from.server = "hidden"
            /\ mail.in \notin e.learnt \/ (mail.by = Me /\ Me \notin e.learnt /\ ~ ownLid)

Right(mail, e) ==
  HereRight(mail, e) /\ AuthorRight(mail, e) /\ QuoteRight(mail, e) /\ RevokeRight(mail, e) /\ LossRight(mail, e)

(* The author of what is quoted or removed, once he is named. *)
LEMMA AuthorIsHim ==
  ASSUME NEW mail, NEW server \in {"phone", "hidden"}, NEW learnt, NEW named \in BOOLEAN, ownLid \in BOOLEAN,
         mail.origin \in Person \/ mail.origin = Nobody
  PROVE  LET o == Author(mail, server, learnt, named) IN
         /\ o \in Actor
         /\ mail.origin = Nobody \/ ~ named => o = NoActor
         /\ mail.origin \in Person /\ named =>
              /\ o.jid = IF server = "phone" \/ mail.origin \in learnt \/ (mail.origin = Me /\ ownLid)
                         THEN mail.origin ELSE Nobody
              /\ o.lid \in {mail.origin, Nobody} /\ (o.jid = mail.origin \/ o.lid = mail.origin)
              /\ o.isMe => mail.origin = Me
<1> DEFINE o == Author(mail, server, learnt, named)
<1>1. mail.origin \in Person \cup {Nobody} /\ Nobody \notin Person
  BY PeopleAssumption
<1>2. CASE mail.origin = Nobody \/ ~ named
  <2>1. o = NoActor
    BY <1>2 DEF Author
  <2>2. NoActor \in Actor
    BY DEF NoActor, Actor
  <2> QED  BY <1>1, <1>2, <2>1, <2>2
<1>3. CASE mail.origin \in Person /\ named
  <2>1. o = newActor(Address(server, mail.origin), NoId, learnt, ownLid)
    BY <1>1, <1>3 DEF Author
  <2>2. Address(server, mail.origin) \in {Phone(mail.origin), Hidden(mail.origin)}
    BY DEF Address
  <2> DEFINE p == mail.origin
             primary == Address(server, p)
  <2>a. p \in Person /\ NoId \in {NoId, Phone(p), Hidden(p)} /\ NoId \in {NoId, Other(server, p)}
    BY <1>3
  <2> HIDE DEF p, primary
  <2>b. o = newActor(primary, NoId, learnt, ownLid) /\ primary \in {Phone(p), Hidden(p)} /\ primary = Address(server, p)
    BY <2>1, <2>2 DEF p, primary
  <2>3. /\ o \in Actor /\ o.jid \in {mail.origin, Nobody} /\ o.lid \in {mail.origin, Nobody}
        /\ o.jid = mail.origin \/ o.lid = mail.origin
        /\ o.isMe => mail.origin = Me
    <3>1. /\ newActor(primary, NoId, learnt, ownLid) \in Actor
          /\ newActor(primary, NoId, learnt, ownLid).jid \in {p, Nobody}
          /\ newActor(primary, NoId, learnt, ownLid).lid \in {p, Nobody}
          /\ \/ newActor(primary, NoId, learnt, ownLid).jid = p
             \/ newActor(primary, NoId, learnt, ownLid).lid = p
          /\ newActor(primary, NoId, learnt, ownLid).isMe => p = Me
      BY <2>a, <2>b, ActorIsHim
    <3> QED  BY <2>b, <3>1 DEF p
  <2>4. o.jid = IF server = "phone" \/ mail.origin \in learnt \/ (mail.origin = Me /\ ownLid)
                THEN mail.origin ELSE Nobody
    <3>1. newActor(Address(server, p), NoId, learnt, ownLid).jid =
            IF server = "phone" \/ NoId # NoId \/ p \in learnt \/ (p = Me /\ ownLid) THEN p ELSE Nobody
      BY <2>a, PhoneIsKnown
    <3> QED  BY <2>b, <3>1 DEF p
  <2> QED  BY <1>1, <1>3, <2>3, <2>4
<1> QED  BY <1>1, <1>2, <1>3

(* The chat of a live message. *)
LEMMA ChatOfLive ==
  ASSUME NEW mail \in Mail, NEW server \in {"phone", "hidden"}, NEW learnt
  PROVE  LET chat == newChat(IF mail.in = Room THEN Group ELSE Address(server, mail.in), mail.in = Room, learnt) IN
         /\ chat \in Chat
         /\ chat.isGroup <=> mail.in = Room
         /\ \/ chat.jid = mail.in
            \/ chat.jid = Nobody /\ server = "hidden" /\ mail.in \notin learnt /\ mail.in # Room
<1> DEFINE chat == newChat(IF mail.in = Room THEN Group ELSE Address(server, mail.in), mail.in = Room, learnt)
<1>1. mail.in \in Person \cup {Room}
  BY DEF Mail
<1>2. CASE mail.in = Room
  <2>1. (mail.in = Room) = TRUE
    BY <1>2
  <2>2. chat = newChat(Group, TRUE, learnt)
    BY <1>2, <2>1
  <2>3. newChat(Group, TRUE, learnt) = [jid |-> Room, isGroup |-> TRUE]
    BY DEF newChat, Group
  <2>4. chat \in Chat /\ chat.isGroup = TRUE /\ chat.jid = mail.in
    BY <1>2, <2>2, <2>3, ChatFields
  <2> QED  BY <1>2, <2>4
<1>3. CASE mail.in # Room
  <2>1. (mail.in = Room) = FALSE /\ mail.in \in Person
    BY <1>1, <1>3
  <2>2. chat = newChat(Address(server, mail.in), FALSE, learnt)
    BY <1>3, <2>1
  <2>3. newChat(Address(server, mail.in), FALSE, learnt) =
          IF server = "phone" \/ mail.in \in learnt THEN [jid |-> mail.in, isGroup |-> FALSE] ELSE NoChat
    BY DEF newChat, Address, Phone, Hidden
  <2>4. /\ chat \in Chat /\ chat.isGroup = FALSE
        /\ chat.jid = mail.in \/ (chat.jid = Nobody /\ server = "hidden" /\ mail.in \notin learnt)
    BY <2>1, <2>2, <2>3, ChatFields DEF NoChat
  <2> QED  BY <1>3, <2>4
<1> QED  BY <1>2, <1>3

(* The author a removal from history does not name. *)
LEMMA AuthorFromHistory ==
  ASSUME NEW mail \in Mail, NEW server \in {"phone", "hidden"}, NEW learnt, ownLid \in BOOLEAN
  PROVE  LET o == Author(mail, server, learnt, mail.kind # "revoke") IN
         /\ o \in Actor
         /\ mail.origin = Nobody \/ mail.kind = "revoke" => o = NoActor
         /\ mail.origin \in Person /\ mail.kind # "revoke" =>
              /\ o.jid \in {mail.origin, Nobody} /\ o.lid \in {mail.origin, Nobody}
              /\ o.jid = mail.origin \/ o.lid = mail.origin
              /\ o.isMe => mail.origin = Me
<1>1. mail.origin \in Person \/ mail.origin = Nobody
  BY DEF Mail
<1>2. PICK named \in BOOLEAN : named <=> mail.kind # "revoke"
  OBVIOUS
<1>3. Author(mail, server, learnt, mail.kind # "revoke") = Author(mail, server, learnt, named)
  BY <1>2 DEF Author
<1> DEFINE o == Author(mail, server, learnt, named)
<1>4. /\ o \in Actor
      /\ mail.origin = Nobody \/ ~ named => o = NoActor
      /\ mail.origin \in Person /\ named =>
           /\ o.jid = IF server = "phone" \/ mail.origin \in learnt \/ (mail.origin = Me /\ ownLid)
                      THEN mail.origin ELSE Nobody
           /\ o.lid \in {mail.origin, Nobody} /\ (o.jid = mail.origin \/ o.lid = mail.origin)
           /\ o.isMe => mail.origin = Me
  BY <1>1, AuthorIsHim
<1> QED  BY <1>1, <1>2, <1>3, <1>4

(* A live message, in terms of what is known of chat, sender and author.   *)
LEMMA LiveRight ==
  ASSUME NEW mail \in Mail, Sensible(mail), NEW server \in {"phone", "hidden"}, NEW alt \in BOOLEAN,
         NEW named \in BOOLEAN, ~ named => mail.kind = "revoke" /\ mail.by = mail.origin,
         NEW learnt, alt => (IF mail.in = Room THEN mail.by ELSE mail.in) \in learnt, ownLid \in BOOLEAN,
         NEW e, e.via = "live", e.from.server = server, e.learnt = learnt,
         e.actor.isMe <=> mail.by = Me,
         e.actor.jid = IF server = "phone" \/ (alt /\ (mail.in = Room \/ mail.by # Me)) \/ mail.by \in learnt
                          \/ (mail.by = Me /\ ownLid) THEN mail.by ELSE Nobody,
         e.actor.jid = mail.by \/ e.actor.lid = mail.by,
         e.chat.isGroup <=> mail.in = Room,
         \/ e.chat.jid = mail.in
         \/ e.chat.jid = Nobody /\ server = "hidden" /\ mail.in \notin learnt /\ mail.in # Room,
         mail.origin = Nobody \/ ~ named => e.origin = NoActor,
         mail.origin \in Person /\ named =>
           /\ e.origin.jid = IF server = "phone" \/ mail.origin \in learnt \/ (mail.origin = Me /\ ownLid)
                             THEN mail.origin ELSE Nobody
           /\ e.origin.lid \in {mail.origin, Nobody}
           /\ e.origin.jid = mail.origin \/ e.origin.lid = mail.origin
           /\ e.origin.isMe => mail.origin = Me
  PROVE  Right(mail, e)
<1>1. /\ mail.by \in Person /\ mail.in \in Person \cup {Room} /\ mail.origin \in Person \cup {Nobody}
      /\ Me \in Person /\ Room \notin Person /\ Nobody \notin Person /\ Nobody # Room
  BY PeopleAssumption DEF Mail
<1>4. Resolvable(e.chat, e.actor) <=> (e.chat.isGroup \/ (e.actor.jid # Nobody /\ e.chat.jid \notin {Nobody, Me}))
  BY DEF Resolvable
<1>5. HereRight(mail, e)
  BY <1>4 DEF HereRight
<1>6. AuthorRight(mail, e)
  BY <1>1, <1>4 DEF AuthorRight, Resolve, Sensible
<1>7. QuoteRight(mail, e)
  BY <1>1 DEF QuoteRight, Quoting, Resolvable, Resolve, Sensible
<1>8. RevokeRight(mail, e)
  BY <1>1 DEF RevokeRight, Moderates, Sensible
<1>9. LossRight(mail, e)
  BY <1>1, <1>4 DEF LossRight, Sensible
<1> QED  BY <1>5, <1>6, <1>7, <1>8, <1>9 DEF Right

(* The same of one from history. *)
LEMMA HistoryRight ==
  ASSUME NEW mail \in Mail, mail.in = Room, NEW server \in {"phone", "hidden"}, ownLid \in BOOLEAN,
         NEW told \in BOOLEAN, told \/ mail.by = Me, NEW learnt,
         NEW e, e.via = "history",
         e.from = IF told THEN Address(server, mail.by) ELSE NoId,
         e.actor = IF told THEN newActor(Address(server, mail.by), NoId, learnt, ownLid)
                           ELSE newActor(IF ownLid THEN Hidden(Me) ELSE NoId, Phone(Me), learnt, ownLid),
         e.chat = newChat(IF told THEN Address(server, mail.by) ELSE Group, TRUE, learnt),
         e.origin = Author(mail, server, learnt, mail.kind # "revoke")
  PROVE  Right(mail, e) /\ e.chat \in Chat /\ e.actor \in Actor /\ e.origin \in Actor
<1>1. /\ mail.by \in Person /\ mail.origin \in Person \cup {Nobody}
      /\ Me \in Person /\ Room \notin Person /\ Nobody \notin Person /\ Nobody # Room
  BY PeopleAssumption DEF Mail
<1>2. /\ e.actor \in Actor
      /\ e.actor.jid \in {mail.by, Nobody}
      /\ e.actor.jid = mail.by \/ e.actor.lid = mail.by
      /\ e.actor.isMe => mail.by = Me
  <2>1. Address(server, mail.by) \in {Phone(mail.by), Hidden(mail.by)}
    BY DEF Address
  <2> HIDE DEF Actor
  <2>2. CASE told
    BY <1>1, <2>1, <2>2, ActorIsHim
  <2>3. CASE ~ told
    BY <1>1, <2>3, ActorIsHim
  <2> QED  BY <2>2, <2>3
<1>3. e.chat \in {[jid |-> Room, isGroup |-> TRUE], [jid |-> mail.by, isGroup |-> TRUE]}
      \/ (e.chat = NoChat /\ e.from.server = "hidden")
  <2>1. CASE ~ told
    <3>1. e.chat = newChat(Group, TRUE, learnt)
      BY <2>1
    <3> QED  BY <1>1, <3>1, HistoryChat
  <2>2. CASE told
    <3>1. e.chat = newChat(Address(server, mail.by), TRUE, learnt)
      BY <2>2
    <3>2. e.chat = IF server = "phone" THEN [jid |-> mail.by, isGroup |-> TRUE] ELSE NoChat
      BY <1>1, <3>1, HistoryChat
    <3>3. e.from.server = server
      BY <2>2 DEF Address, Phone, Hidden
    <3> QED  BY <3>2, <3>3
  <2> QED  BY <2>1, <2>2
<1>4. /\ e.chat \in Chat
      /\ e.chat.isGroup = TRUE \/ (e.chat.jid = Nobody /\ e.chat.isGroup = FALSE /\ e.from.server = "hidden")
  <2>1. NoChat \in Chat /\ NoChat.jid = Nobody /\ NoChat.isGroup = FALSE
    BY ChatFields DEF NoChat
  <2>2. \A jid \in Person \cup {Room, Nobody} :
          [jid |-> jid, isGroup |-> TRUE] \in Chat /\ [jid |-> jid, isGroup |-> TRUE].isGroup = TRUE
    BY ChatFields
  <2>3. CASE e.chat = NoChat /\ e.from.server = "hidden"
    BY <2>1, <2>3
  <2>4. CASE e.chat \in {[jid |-> Room, isGroup |-> TRUE], [jid |-> mail.by, isGroup |-> TRUE]}
    <3>1. \E jid \in Person \cup {Room, Nobody} : e.chat = [jid |-> jid, isGroup |-> TRUE]
      BY <1>1, <2>4
    <3> QED  BY <2>2, <3>1
  <2> QED  BY <1>3, <2>3, <2>4
<1> DEFINE o == e.origin
<1>5. /\ o \in Actor
      /\ mail.origin = Nobody \/ mail.kind = "revoke" => o = NoActor
      /\ mail.origin \in Person /\ mail.kind # "revoke" =>
           /\ o.lid \in {mail.origin, Nobody} /\ (o.jid = mail.origin \/ o.lid = mail.origin)
           /\ o.jid \in {mail.origin, Nobody}
           /\ o.isMe => mail.origin = Me
  BY AuthorFromHistory
<1>6. HereRight(mail, e) /\ LossRight(mail, e) /\ RevokeRight(mail, e)
  BY <1>4 DEF HereRight, LossRight, RevokeRight, Resolvable
<1>7. AuthorRight(mail, e)
  BY <1>1, <1>2, <1>4 DEF AuthorRight, Resolve, Resolvable
<1>8. QuoteRight(mail, e)
  BY <1>1, <1>4, <1>5 DEF QuoteRight, Quoting, Resolvable, Resolve
<1> QED  BY <1>2, <1>4, <1>5, <1>6, <1>7, <1>8 DEF Right

(* The sender of a live message, but for WhatsApp's word on who is us.     *)
LEMMA ActorOfLive ==
  ASSUME NEW p \in Person, NEW server \in {"phone", "hidden"}, NEW other \in {NoId, Other(server, p)},
         NEW learnt, ownLid \in BOOLEAN
  PROVE  LET b == newActor(Address(server, p), other, learnt, ownLid) IN
         /\ b \in Actor
         /\ b.jid = IF server = "phone" \/ other # NoId \/ p \in learnt \/ (p = Me /\ ownLid) THEN p ELSE Nobody
         /\ b.jid = p \/ b.lid = p
<1> DEFINE b == newActor(Address(server, p), other, learnt, ownLid)
<1>1. Address(server, p) \in {Phone(p), Hidden(p)} /\ other \in {NoId, Phone(p), Hidden(p)}
  BY DEF Address, Other
<1>2. b \in Actor /\ (b.jid = p \/ b.lid = p)
  BY <1>1, ActorIsHim
<1>3. b.jid = IF server = "phone" \/ other # NoId \/ p \in learnt \/ (p = Me /\ ownLid) THEN p ELSE Nobody
  BY PhoneIsKnown
<1> QED  BY <1>2, <1>3, Zenon DEF b

-----------------------------------------------------------------------------
(* Sequences. *)

LEMMA AppendFacts ==
  ASSUME NEW S, NEW s \in Seq(S), NEW e \in S
  PROVE  /\ Append(s, e) \in Seq(S) /\ Len(Append(s, e)) = Len(s) + 1
         /\ Len(s) + 1 \notin DOMAIN s
         /\ DOMAIN Append(s, e) = DOMAIN s \cup {Len(s) + 1}
         /\ Append(s, e)[Len(s) + 1] = e
         /\ \A i \in DOMAIN s : Append(s, e)[i] = s[i]
  OBVIOUS

LEMMA TailFacts ==
  ASSUME NEW S, NEW s \in Seq(S), s # << >>
  PROVE  /\ Tail(s) \in Seq(S)
         /\ \A i \in DOMAIN Tail(s) : \E j \in DOMAIN s : Tail(s)[i] = s[j]
         /\ \E j \in DOMAIN s : Head(s) = s[j]
         /\ \A i \in DOMAIN s : s[i] = Head(s) \/ \E j \in DOMAIN Tail(s) : Tail(s)[j] = s[i]
<1>1. /\ Tail(s) \in Seq(S) /\ DOMAIN s = 1..Len(s) /\ Len(s) \in Nat /\ Len(s) >= 1 /\ Head(s) = s[1]
      /\ DOMAIN Tail(s) = 1..(Len(s) - 1)
      /\ \A i \in 1..(Len(s) - 1) : Tail(s)[i] = s[i + 1]
  OBVIOUS
<1>2. ASSUME NEW i \in DOMAIN s, i # 1 PROVE \E j \in DOMAIN Tail(s) : Tail(s)[j] = s[i]
  <2>1. i - 1 \in 1..(Len(s) - 1) /\ (i - 1) + 1 = i
    BY <1>1, <1>2
  <2> QED  BY <1>1, <2>1
<1> QED  BY <1>1, <1>2

-----------------------------------------------------------------------------
(* The inductive invariant. *)

Event == [m : Nat, via : Thread, from : Id, chat : Chat, actor : Actor, origin : Actor, learnt : SUBSET Person,
          run : 1..MaxRuns]

Typed ==
  /\ mails \in Seq(Mail) /\ Len(mails) <= MaxMails
  /\ known \subseteq Person /\ ownLid \in BOOLEAN /\ run \in 1..MaxRuns
  /\ events \in Seq(Event) /\ Len(events) <= MaxEvents
  /\ \A n \in DOMAIN events : events[n].m \in DOMAIN mails
  /\ making \in [Thread -> Nat] /\ \A t \in Thread : making[t] \in {0} \cup DOMAIN events
  /\ batch \subseteq DOMAIN mails /\ archive \subseteq DOMAIN mails
  /\ line \in Seq(Nat) /\ \A i \in DOMAIN line : line[i] \in DOMAIN events
  /\ shown \in Seq(Nat) /\ \A i \in DOMAIN shown : shown[i] \in DOMAIN events
  /\ handling = {} \/ \E n \in DOMAIN events : handling = {n}
  /\ disk \subseteq DOMAIN events /\ skipped \subseteq DOMAIN events /\ interrupted \subseteq DOMAIN events

(* Messages and events say what they should.                               *)
Told ==
  /\ \A m \in DOMAIN mails : Sensible(mails[m])
  /\ \A m \in batch : mails[m].in = Room
  /\ \A n \in DOMAIN events : Right(mails[events[n].m], events[n]) /\ events[n].run <= run

(* A room has what was shown in it, and what is handled from history has   *)
(* not been in the archive.                                                *)
Archived ==
  \A i \in DOMAIN shown :
    LET e == events[shown[i]] IN mails[e.m].in = Room /\ mails[e.m].kind # "revoke" => e.m \in archive
Fresh ==
  \A n \in handling : events[n].chat.isGroup /\ events[n].via = "history" => LegacyId(n) \notin archive

ShownRight == \A i \in DOMAIN shown : Shows(shown[i])
Files == \A n \in disk : HasFile(n)

InInv == Typed /\ Told /\ Archived /\ Fresh /\ HistoryOnce /\ ShownRight /\ Files /\ LeakShape

LEMMA InInit == Init => InInv
<1> SUFFICES ASSUME Init PROVE InInv
  OBVIOUS
<1>1. /\ DOMAIN mails = {} /\ DOMAIN events = {} /\ DOMAIN line = {} /\ DOMAIN shown = {}
      /\ batch = {} /\ handling = {} /\ disk = {} /\ archive = {} /\ skipped = {} /\ interrupted = {}
  BY DEF Init
<1>2. /\ mails \in Seq(Mail) /\ events \in Seq(Event) /\ line \in Seq(Nat) /\ shown \in Seq(Nat)
      /\ Len(mails) = 0 /\ Len(events) = 0
  BY DEF Init
<1>3. making \in [Thread -> Nat] /\ \A t \in Thread : making[t] = 0
  BY DEF Init
<1>4. MaxMails \in Nat /\ MaxEvents \in Nat /\ run \in 1..MaxRuns /\ known \subseteq Person
  BY BoundsAssumption, PeopleAssumption DEF Init
<1>5. Typed
  BY <1>1, <1>2, <1>3, <1>4 DEF Typed, Init
<1>6. Told /\ Archived /\ Fresh /\ HistoryOnce /\ ShownRight /\ Files /\ LeakShape
  BY <1>1 DEF Told, Archived, Fresh, HistoryOnce, ShownRight, Files, LeakShape
<1> QED  BY <1>5, <1>6 DEF InInv

-----------------------------------------------------------------------------
(* Steps that neither write a message nor begin an event. *)

(* With the events as they are, each says of the messages what it said.    *)
LEMMA ToldOn ==
  ASSUME InInv, UNCHANGED <<mails, ownLid, events>>, run' \in 1..MaxRuns, run <= run',
         \A m \in batch' : mails[m].in = Room
  PROVE  Told'
<1>1. \A n \in DOMAIN events : events[n].run \in Int /\ run \in Int /\ run' \in Int
  <2>1. events \in Seq(Event) /\ run \in 1..MaxRuns
    BY DEF InInv, Typed
  <2>2. \A n \in DOMAIN events : events[n] \in Event
    BY <2>1
  <2>3. \A n \in DOMAIN events : events[n].run \in 1..MaxRuns
    BY <2>2 DEF Event
  <2> QED  BY <2>1, <2>3
<1>2. \A n \in DOMAIN events : events[n].run <= run'
  BY <1>1 DEF InInv, Told
<1>3. \A n \in DOMAIN events : Right(mails[events[n].m], events[n]) => Right(mails[events[n].m], events[n])'
  BY DEF Right, HereRight, AuthorRight, QuoteRight, RevokeRight, LossRight
<1> QED  BY <1>2, <1>3 DEF InInv, Told

LEMMA ShownOn ==
  ASSUME InInv, UNCHANGED <<mails, events, shown>>, archive \subseteq archive'
  PROVE  Archived' /\ HistoryOnce' /\ ShownRight'
<1>1. Archived' /\ HistoryOnce'
  BY DEF InInv, Archived, HistoryOnce
<1>2. ShownRight'
  BY DEF InInv, ShownRight, Shows, Quotes
<1> QED  BY <1>1, <1>2

LEMMA FreshOn ==
  ASSUME InInv, UNCHANGED <<mails, events, archive>>, handling' \subseteq handling
  PROVE  Fresh'
  BY DEF InInv, Fresh, LegacyId

LEMMA FilesOn ==
  ASSUME InInv, UNCHANGED <<mails, events>>, disk' \subseteq disk
  PROVE  Files'
  BY DEF InInv, Files, HasFile

LEMMA LeakOn ==
  ASSUME InInv, UNCHANGED <<mails, ownLid, events, run>>, archive \subseteq archive',
         skipped \subseteq skipped', interrupted \subseteq interrupted', disk' \ Owned' \subseteq disk \ Owned
  PROVE  LeakShape'
  BY DEF InInv, LeakShape

LEMMA RestartInv == InInv /\ Restart => InInv'
<1> SUFFICES ASSUME InInv, Restart PROVE InInv'
  OBVIOUS
<1>1. /\ run < MaxRuns /\ run' = run + 1
      /\ making' = [t \in Thread |-> 0] /\ batch' = {} /\ line' = << >> /\ handling' = {}
      /\ UNCHANGED <<mails, known, ownLid, events, archive, disk, shown, skipped, interrupted>>
  BY DEF Restart, past
<1>2. run \in 1..MaxRuns /\ MaxRuns \in Nat
  BY BoundsAssumption DEF InInv, Typed
<1>3. run' \in 1..MaxRuns /\ run <= run' /\ run < run'
  BY <1>1, <1>2
<1>4. Typed'
  <2>1. making' \in [Thread -> Nat] /\ \A t \in Thread : making'[t] = 0
    BY <1>1
  <2>2. line' \in Seq(Nat) /\ DOMAIN line' = {}
    BY <1>1
  <2> QED  BY <1>1, <1>3, <2>1, <2>2 DEF InInv, Typed
<1>5. LeakShape'
  <2>1. ASSUME NEW n \in disk PROVE events[n].run < run'
    <3>1. n \in DOMAIN events /\ events \in Seq(Event)
      BY DEF InInv, Typed
    <3>2. events[n] \in Event
      BY <3>1
    <3>3. events[n].run <= run
      BY <3>1 DEF InInv, Told
    <3>4. events[n].run \in 1..MaxRuns
      BY <3>2 DEF Event
    <3> QED  BY <1>2, <1>3, <3>3, <3>4
  <2> QED  BY <1>1, <2>1 DEF LeakShape
<1>6. Told' /\ Archived' /\ HistoryOnce' /\ ShownRight' /\ Fresh' /\ Files'
  BY <1>1, <1>3, ToldOn, ShownOn, FreshOn, FilesOn
<1> QED  BY <1>4, <1>5, <1>6 DEF InInv

(* Messages of a synchronisation come, or go. *)
LEMMA FewerLeft ==
  ASSUME InInv, \A m \in batch' : m \in DOMAIN mails /\ mails[m].in = Room,
         UNCHANGED <<mails, known, ownLid, run, events, making, line, handling, archive, disk, shown, skipped, interrupted>>
  PROVE  InInv'
<1>1. /\ \A m \in batch' : m \in DOMAIN mails /\ mails[m].in = Room
      /\ UNCHANGED <<mails, known, ownLid, run, events, making, line, handling, archive, disk, shown, skipped, interrupted>>
  OBVIOUS
<1>2. Typed' /\ run' \in 1..MaxRuns /\ run <= run'
  <2>1. Typed' /\ run \in 1..MaxRuns
    BY <1>1 DEF InInv, Typed
  <2> QED  BY <1>1, <2>1, BoundsAssumption
<1>3. LeakShape'
  <2>1. Owned' = Owned
    BY <1>1 DEF Owned
  <2> QED  BY <1>1, <2>1, LeakOn
<1>4. Told' /\ Archived' /\ HistoryOnce' /\ ShownRight' /\ Fresh' /\ Files'
  BY <1>1, <1>2, ToldOn, ShownOn, FreshOn, FilesOn
<1> QED  BY <1>2, <1>3, <1>4 DEF InInv

LEMMA BatchInv == InInv /\ (HistorySync \/ LoseRest) => InInv'
<1> SUFFICES ASSUME InInv, HistorySync \/ LoseRest PROVE InInv'
  OBVIOUS
<1>1. /\ \A m \in batch' : m \in DOMAIN mails /\ mails[m].in = Room
      /\ UNCHANGED <<mails, known, ownLid, run, events, making, line, handling, archive, disk, shown, skipped, interrupted>>
  BY DEF HistorySync, LoseRest, past
<1> QED  BY <1>1, FewerLeft

(* Steps of the threads and of Python that show nothing: types, events in  *)
(* hand and files are what is left to look at.                             *)
LEMMA NothingShown ==
  ASSUME InInv, UNCHANGED <<mails, known, ownLid, run, events, batch, archive, shown>>,
         making' \in [Thread -> Nat], \A t \in Thread : making'[t] \in {0} \cup DOMAIN events,
         line' \in Seq(Nat), \A i \in DOMAIN line' : line'[i] \in DOMAIN events,
         handling' = {} \/ \E n \in DOMAIN events : handling' = {n},
         disk' \subseteq DOMAIN events, skipped' \subseteq DOMAIN events, interrupted' \subseteq DOMAIN events,
         Files', Fresh', LeakShape'
  PROVE  InInv'
<1>1. Typed' /\ run' \in 1..MaxRuns
  BY DEF InInv, Typed
<1>2. run <= run' /\ \A m \in batch' : mails[m].in = Room
  BY <1>1 DEF InInv, Told
<1>3. Told' /\ Archived' /\ HistoryOnce' /\ ShownRight'
  BY <1>1, <1>2, ToldOn, ShownOn
<1> QED  BY <1>1, <1>3 DEF InInv

(* The types, spelled out for what these steps read.                       *)
LEMMA InHand ==
  ASSUME InInv
  PROVE  /\ making \in [Thread -> Nat] /\ \A t \in Thread : making[t] \in {0} \cup DOMAIN events
         /\ line \in Seq(Nat) /\ \A i \in DOMAIN line : line[i] \in DOMAIN events
         /\ handling = {} \/ \E n \in DOMAIN events : handling = {n}
         /\ disk \subseteq DOMAIN events /\ skipped \subseteq DOMAIN events /\ interrupted \subseteq DOMAIN events
  BY DEF InInv, Typed

LEMMA CreateFileInv == ASSUME InInv, NEW t \in Thread, CreateFile(t) PROVE InInv'
<1>1. /\ making[t] # 0 /\ HasFile(making[t]) /\ disk' = disk \cup {making[t]}
      /\ UNCHANGED <<mails, known, ownLid, run, events, making, batch, line, handling, archive, shown, skipped, interrupted>>
  BY DEF CreateFile, past
<1>2. disk' \subseteq DOMAIN events
  BY <1>1, InHand
<1>3. Files'
  BY <1>1 DEF InInv, Files, HasFile
<1>4. LeakShape'
  <2>1. Owned' = Owned /\ making[t] \in Owned
    BY <1>1 DEF Owned
  <2>2. disk' \ Owned' \subseteq disk \ Owned
    BY <1>1, <2>1
  <2> QED  BY <1>1, <2>2, LeakOn
<1>5. Fresh'
  BY <1>1, FreshOn
<1> QED  BY <1>1, <1>2, <1>3, <1>4, <1>5, InHand, NothingShown

LEMMA DownloadFailsInv == ASSUME InInv, NEW t \in Thread, DownloadFails(t) PROVE InInv'
<1>1. /\ disk' = disk \ {making[t]} /\ making' = [making EXCEPT ![t] = 0]
      /\ UNCHANGED <<mails, known, ownLid, run, events, batch, line, handling, archive, shown, skipped, interrupted>>
  BY DEF DownloadFails, past
<1>2. /\ making' \in [Thread -> Nat] /\ \A u \in Thread : making'[u] = IF u = t THEN 0 ELSE making[u]
  BY <1>1, InHand
<1>3. \A u \in Thread : making'[u] \in {0} \cup DOMAIN events
  BY <1>2, InHand
<1>4. LeakShape'
  <2>1. \A n \in Owned : n = making[t] \/ n \in Owned'
    BY <1>1, <1>2 DEF Owned
  <2> QED  BY <1>1, <2>1, LeakOn
<1>5. Fresh' /\ Files' /\ disk' \subseteq DOMAIN events
  BY <1>1, FreshOn, FilesOn, InHand
<1> QED  BY <1>1, <1>2, <1>3, <1>4, <1>5, InHand, NothingShown

LEMMA PropagateInv == ASSUME InInv, NEW t \in Thread, Propagate(t) PROVE InInv'
<1>1. /\ making[t] # 0 /\ line' = Append(line, making[t]) /\ making' = [making EXCEPT ![t] = 0]
      /\ UNCHANGED <<mails, known, ownLid, run, events, batch, handling, archive, disk, shown, skipped, interrupted>>
  BY DEF Propagate, past
<1>2. /\ making' \in [Thread -> Nat] /\ \A u \in Thread : making'[u] = IF u = t THEN 0 ELSE making[u]
  BY <1>1, InHand
<1>3. \A u \in Thread : making'[u] \in {0} \cup DOMAIN events
  BY <1>2, InHand
<1>4. making[t] \in Nat /\ making[t] \in DOMAIN events /\ line \in Seq(Nat)
  BY <1>1, InHand
<1>5. /\ line' \in Seq(Nat) /\ DOMAIN line' = DOMAIN line \cup {Len(line) + 1}
      /\ line'[Len(line) + 1] = making[t] /\ \A i \in DOMAIN line : line'[i] = line[i]
  BY <1>1, <1>4, AppendFacts
<1>6. \A i \in DOMAIN line' : line'[i] \in DOMAIN events
  BY <1>4, <1>5, InHand
<1>7. LeakShape'
  <2>1. \A n \in Owned : n \in Owned'
    BY <1>1, <1>2, <1>5 DEF Owned
  <2> QED  BY <1>1, <2>1, LeakOn
<1>8. Fresh' /\ Files' /\ disk' \subseteq DOMAIN events
  BY <1>1, FreshOn, FilesOn, InHand
<1> QED  BY <1>1, <1>2, <1>3, <1>5, <1>6, <1>7, <1>8, InHand, NothingShown

(* What is passed over is in the archive; what is begun with is not.       *)
LEMMA TakeInv == InInv /\ Take => InInv'
<1> SUFFICES ASSUME InInv, Take PROVE InInv'
  OBVIOUS
<1> DEFINE n == Head(line)
<1>1. /\ line # << >> /\ handling = {} /\ line' = Tail(line)
      /\ handling' = IF Skipped(n) THEN {} ELSE {n}
      /\ skipped' = IF Skipped(n) THEN skipped \cup ({n} \cap disk) ELSE skipped
      /\ UNCHANGED <<mails, known, ownLid, run, events, making, batch, archive, disk, shown, interrupted>>
  BY DEF Take
<1>2. /\ line' \in Seq(Nat)
      /\ \A i \in DOMAIN line' : \E j \in DOMAIN line : line'[i] = line[j]
      /\ \E j \in DOMAIN line : n = line[j]
      /\ \A i \in DOMAIN line : line[i] = n \/ \E j \in DOMAIN line' : line'[j] = line[i]
  BY <1>1, InHand, TailFacts
<1> HIDE DEF n
<1>3. n \in DOMAIN events /\ \A i \in DOMAIN line' : line'[i] \in DOMAIN events
  BY <1>2, InHand
<1>4. handling' = {} \/ \E k \in DOMAIN events : handling' = {k}
  BY <1>1, <1>3
<1>5. Fresh'
  BY <1>1 DEF Fresh, Skipped, LegacyId
<1>6. LeakShape'
  <2>1. \A k \in Owned : k = n \/ k \in Owned'
    BY <1>1, <1>2 DEF Owned
  <2>2. CASE ~ Skipped(n)
    <3>1. n \in Owned'
      BY <1>1, <2>2 DEF Owned
    <3> QED  BY <1>1, <2>1, <3>1, LeakOn
  <2>3. CASE Skipped(n)
    <3>1. n \in disk => events[n].via = "history" /\ events[n].m \in archive /\ n \in skipped'
      BY <1>1, <2>3 DEF Skipped, LegacyId, InInv, Files, HasFile
    <3> QED  BY <1>1, <2>1, <3>1 DEF LeakShape, InInv
  <2> QED  BY <2>2, <2>3
<1>7. Files' /\ disk' \subseteq DOMAIN events /\ skipped' \subseteq DOMAIN events
  BY <1>1, FilesOn, InHand
<1> QED  BY <1>1, <1>2, <1>3, <1>4, <1>5, <1>6, <1>7, InHand, NothingShown

(* The handler gives up an event it has begun with: what becomes of its    *)
(* file is left to show.                                                   *)
LEMMA GiveUp ==
  ASSUME InInv, NEW n \in DOMAIN events, handling' = handling \ {n}, n \in handling, disk' \subseteq disk,
         interrupted \subseteq interrupted', interrupted' \subseteq DOMAIN events,
         UNCHANGED <<mails, known, ownLid, run, events, making, batch, line, archive, shown, skipped>>,
         n \in disk' =>
           LET e == events[n]
               mail == mails[e.m]
           IN \/ n \in interrupted'
              \/ e.via = "history" /\ e.from.server = "hidden"
              \/ e.via = "live" /\ mail.in = Me
              \/ /\ e.via = "live" /\ mail.in \notin {Me, Room} /\ e.from.server = "hidden"
                 /\ mail.in \notin e.learnt \/ (mail.by = Me /\ Me \notin e.learnt /\ ~ ownLid)
  PROVE  InInv'
<1>1. handling' = {}
  BY InHand
<1>2. \A k \in Owned : k = n \/ k \in Owned'
  BY DEF Owned
<1>3. LeakShape'
  BY <1>2 DEF LeakShape, InInv
<1>4. Fresh' /\ Files' /\ disk' \subseteq DOMAIN events
  BY FreshOn, FilesOn, InHand
<1> QED  BY <1>1, <1>3, <1>4, InHand, NothingShown

(* A file that stays is of an event that cannot be resolved. *)
LEMMA UnresolvedInv == ASSUME InInv, NEW n \in DOMAIN events, Unresolved(n) PROVE InInv'
<1>1. /\ n \in handling /\ handling' = handling \ {n} /\ ~ Shows(n)
      /\ UNCHANGED <<mails, known, ownLid, run, events, making, batch, line, archive, disk, shown, skipped, interrupted>>
  BY DEF Unresolved, past
<1> DEFINE e == events[n]
           mail == mails[e.m]
<1>2. n \in disk => ~ Resolvable(e.chat, e.actor)
  BY <1>1 DEF Shows, Quotes, InInv, Files, HasFile
<1>3. Right(mail, e) /\ e.via \in Thread
  <2>1. e \in Event
    BY DEF InInv, Typed
  <2> QED  BY <2>1 DEF InInv, Told, Event
<1>4. n \in disk =>
        \/ e.via = "history" /\ e.from.server = "hidden"
        \/ e.via = "live" /\ mail.in = Me
        \/ /\ e.via = "live" /\ mail.in \notin {Me, Room} /\ e.from.server = "hidden"
           /\ mail.in \notin e.learnt \/ (mail.by = Me /\ Me \notin e.learnt /\ ~ ownLid)
  BY <1>2, <1>3 DEF Right, LossRight, Thread
<1> HIDE DEF e, mail
<1> QED  BY <1>1, <1>4, InHand, GiveUp DEF e, mail

LEMMA InterruptedInv == ASSUME InInv, NEW n \in DOMAIN events, Interrupted(n) PROVE InInv'
<1>1. /\ n \in handling /\ handling' = handling \ {n} /\ interrupted' = interrupted \cup ({n} \cap disk)
      /\ UNCHANGED <<mails, known, ownLid, run, events, making, batch, line, archive, disk, shown, skipped>>
  BY DEF Interrupted
<1> QED  BY <1>1, InHand, GiveUp

LEMMA SendRaisesInv == ASSUME InInv, NEW n \in DOMAIN events, SendRaises(n) PROVE InInv'
<1>1. /\ n \in handling /\ handling' = handling \ {n} /\ disk' = disk \ {n}
      /\ UNCHANGED <<mails, known, ownLid, run, events, making, batch, line, archive, shown, skipped, interrupted>>
  BY DEF SendRaises, past
<1> QED  BY <1>1, InHand, GiveUp

(* What is shown is in its room and, from history, for the first time.     *)
LEMMA ShowInv == ASSUME InInv, NEW n \in DOMAIN events, Show(n) PROVE InInv'
<1> DEFINE e == events[n]
           mail == mails[e.m]
<1>1. /\ n \in handling /\ Shows(n) /\ shown' = Append(shown, n)
      /\ archive' = IF e.chat.isGroup /\ mail.kind # "revoke" THEN archive \cup {e.m} ELSE archive
      /\ disk' = disk \ {n} /\ handling' = handling \ {n}
      /\ UNCHANGED <<mails, known, ownLid, run, events, making, batch, line, skipped, interrupted>>
  BY DEF Show, past
<1>2. handling' = {}
  BY <1>1, InHand
<1>3. shown \in Seq(Nat) /\ n \in Nat /\ e.m \in DOMAIN mails /\ archive \subseteq DOMAIN mails
      /\ run \in 1..MaxRuns /\ MaxRuns \in Nat
  BY BoundsAssumption DEF InInv, Typed
<1>4. /\ shown' \in Seq(Nat) /\ DOMAIN shown' = DOMAIN shown \cup {Len(shown) + 1}
      /\ Len(shown) + 1 \notin DOMAIN shown
      /\ shown'[Len(shown) + 1] = n /\ \A i \in DOMAIN shown : shown'[i] = shown[i]
  BY <1>1, <1>3, AppendFacts
<1>5. \A k \in DOMAIN events : Shows(k) => (events[k].chat.isGroup <=> mails[events[k].m].in = Room)
  <2> SUFFICES ASSUME NEW k \in DOMAIN events, Shows(k)
               PROVE  events[k].chat.isGroup <=> mails[events[k].m].in = Room
    OBVIOUS
  <2>1. events[k] \in Event
    BY DEF InInv, Typed
  <2>2. HereRight(mails[events[k].m], events[k]) /\ events[k].via \in Thread
    BY <2>1 DEF InInv, Told, Right, Event
  <2> QED  BY <2>2 DEF HereRight, Thread, Shows
<1>6. archive \subseteq archive' /\ archive' \subseteq DOMAIN mails
  BY <1>1, <1>3
<1>7. Archived'
  <2> SUFFICES ASSUME NEW i \in DOMAIN shown', mails[events[shown'[i]].m].in = Room,
                      mails[events[shown'[i]].m].kind # "revoke"
               PROVE  events[shown'[i]].m \in archive'
    BY <1>1 DEF Archived
  <2>1. CASE i \in DOMAIN shown
    <3>1. shown'[i] = shown[i]
      BY <1>4, <2>1
    <3>2. events[shown[i]].m \in archive
      BY <2>1, <3>1 DEF InInv, Archived
    <3> QED  BY <1>6, <3>1, <3>2
  <2>2. CASE i = Len(shown) + 1
    <3>1. shown'[i] = n /\ events[n].chat.isGroup
      BY <1>1, <1>4, <1>5, <2>2
    <3> QED  BY <1>1, <3>1
  <2> QED  BY <1>4, <2>1, <2>2
<1>8. HistoryOnce'
  <2> SUFFICES ASSUME NEW i \in DOMAIN shown', NEW j \in DOMAIN shown', i < j,
                      events[shown'[i]].m = events[shown'[j]].m,
                      mails[events[shown'[j]].m].kind # "revoke",
                      events[shown'[j]].via = "history"
               PROVE  FALSE
    BY <1>1 DEF HistoryOnce
  <2>0. DOMAIN shown = 1..Len(shown) /\ Len(shown) \in Nat
    BY <1>3
  <2>1. i \in DOMAIN shown
    BY <1>4, <2>0
  <2>2. CASE j \in DOMAIN shown
    BY <1>4, <2>1, <2>2 DEF InInv, HistoryOnce
  <2>3. CASE j = Len(shown) + 1
    <3>1. shown'[j] = n /\ shown'[i] = shown[i]
      BY <1>4, <2>1, <2>3
    <3>2. e.m \notin archive
      <4>1. e.chat.isGroup
        <5>1. HereRight(mail, e)
          BY DEF InInv, Told, Right
        <5> QED  BY <1>1, <3>1, <5>1 DEF HereRight, Shows
      <4> QED  BY <1>1, <3>1, <4>1 DEF InInv, Fresh, LegacyId
    <3>3. mail.in = Room
      <4>1. HereRight(mail, e)
        BY DEF InInv, Told, Right
      <4> QED  BY <3>1, <4>1 DEF HereRight
    <3>4. e.m \in archive
      BY <2>1, <3>1, <3>3 DEF InInv, Archived
    <3> QED  BY <3>2, <3>4
  <2> QED  BY <1>4, <2>2, <2>3
<1>9. ShownRight'
  <2>1. \A i \in DOMAIN shown' : Shows(shown'[i])
    BY <1>1, <1>4 DEF InInv, ShownRight
  <2> QED  BY <1>1, <2>1 DEF ShownRight, Shows, Quotes
<1>10. LeakShape'
  <2>1. \A k \in Owned : k = n \/ k \in Owned'
    BY <1>1 DEF Owned
  <2> QED  BY <1>1, <1>6, <2>1, LeakOn
<1>11. Typed'
  <2>1. \A i \in DOMAIN shown' : shown'[i] \in DOMAIN events
    BY <1>4 DEF InInv, Typed
  <2>2. disk' \subseteq DOMAIN events
    BY <1>1, InHand
  <2> QED  BY <1>1, <1>2, <1>4, <1>6, <2>1, <2>2 DEF InInv, Typed
<1>12. Told' /\ Files' /\ Fresh'
  <2>1. run' \in 1..MaxRuns /\ run <= run' /\ \A m \in batch' : mails[m].in = Room
    BY <1>1, <1>3 DEF InInv, Told
  <2>2. disk' \subseteq disk
    BY <1>1
  <2> QED  BY <1>1, <1>2, <2>1, <2>2, ToldOn, FilesOn DEF Fresh
<1> QED  BY <1>7, <1>8, <1>9, <1>10, <1>11, <1>12 DEF InInv

-----------------------------------------------------------------------------
(* Messages are written before there are events. *)

LEMMA WriteInv == ASSUME InInv, NEW mail \in Mail, Write(mail) PROVE InInv'
<1>1. /\ Len(mails) < MaxMails /\ events = << >> /\ batch = {} /\ mails' = Append(mails, mail)
      /\ UNCHANGED <<known, ownLid, run, events, making, batch, line, handling, archive, disk, shown, skipped, interrupted>>
  BY DEF Write, gateway, past
<1>2. DOMAIN events = {}
  BY <1>1
<1>3. disk = {} /\ handling = {} /\ DOMAIN shown = {}
  BY <1>2 DEF InInv, Typed
<1>4. mails \in Seq(Mail) /\ Len(mails) \in Nat /\ MaxMails \in Nat
  BY BoundsAssumption DEF InInv, Typed
<1>5. /\ mails' \in Seq(Mail) /\ Len(mails') = Len(mails) + 1
      /\ DOMAIN mails' = DOMAIN mails \cup {Len(mails) + 1}
      /\ mails'[Len(mails) + 1] = mail /\ \A m \in DOMAIN mails : mails'[m] = mails[m]
  BY <1>1, <1>4, AppendFacts
<1>6. Sensible(mail)
  <2>1. /\ mail.in # Room => mail.by \in {Me, mail.in}
        /\ mail.origin # Nobody /\ mail.in # Room => mail.origin \in {Me, mail.in}
    BY DEF Write
  <2>2. ASSUME mail.kind = "revoke"
        PROVE  mail.origin \in Person /\ (mail.in # Room => mail.by = mail.origin)
    <3>1. mails # << >> /\ mail.origin = mails[1].by /\ (mail.in # Room => mail.by = mail.origin)
      BY <2>2 DEF Write
    <3>2. mails[1] \in Mail
      BY <1>4, <3>1
    <3> QED  BY <3>1, <3>2 DEF Mail
  <2> QED  BY <2>1, <2>2 DEF Sensible
<1>7. Typed'
  <2>1. Len(mails') <= MaxMails
    BY <1>1, <1>4, <1>5
  <2> QED  BY <1>1, <1>2, <1>3, <1>5, <2>1 DEF InInv, Typed
<1>8. Told'
  BY <1>1, <1>2, <1>5, <1>6 DEF InInv, Told
<1>9. Archived' /\ Fresh' /\ HistoryOnce' /\ ShownRight' /\ Files' /\ LeakShape'
  BY <1>1, <1>3 DEF Archived, Fresh, HistoryOnce, ShownRight, Files, LeakShape
<1> QED  BY <1>7, <1>8, <1>9 DEF InInv

-----------------------------------------------------------------------------
(* An event is begun with. *)

LEMMA BeginInv ==
  ASSUME InInv, NEW t \in Thread, NEW e \in Event, e.m \in DOMAIN mails, e.run = run,
         Right(mails[e.m], e), making[t] = 0, Len(events) < MaxEvents,
         events' = Append(events, e), making' = [making EXCEPT ![t] = Len(events')],
         known' \subseteq Person, batch' \subseteq batch,
         UNCHANGED <<mails, ownLid, run, line, handling, archive, disk, shown, skipped, interrupted>>
  PROVE  InInv'
<1>1. events \in Seq(Event) /\ Len(events) \in Nat /\ MaxEvents \in Nat /\ run \in Int
  BY BoundsAssumption DEF InInv, Typed
<1>2. /\ events' \in Seq(Event) /\ Len(events') = Len(events) + 1
      /\ DOMAIN events' = DOMAIN events \cup {Len(events) + 1} /\ Len(events) + 1 \notin DOMAIN events
      /\ events'[Len(events) + 1] = e /\ \A n \in DOMAIN events : events'[n] = events[n]
  BY <1>1, AppendFacts
<1>3. /\ making' \in [Thread -> Nat] /\ making'[t] = Len(events) + 1
      /\ \A u \in Thread : u # t => making'[u] = making[u]
  BY <1>1, <1>2, InHand
<1>4. Typed'
  <2>1. Len(events') <= MaxEvents
    BY <1>1, <1>2
  <2>2. \A n \in DOMAIN events' : events'[n].m \in DOMAIN mails
    BY <1>2 DEF InInv, Typed
  <2>3. \A u \in Thread : making'[u] \in {0} \cup DOMAIN events'
    BY <1>2, <1>3, InHand
  <2> QED  BY <1>2, <1>3, <2>1, <2>2, <2>3 DEF InInv, Typed
<1>5. Told'
  <2>1. \A n \in DOMAIN events' : Right(mails[events'[n].m], events'[n]) /\ events'[n].run <= run
    BY <1>1, <1>2 DEF InInv, Told
  <2>2. ASSUME NEW n, Right(mails[events'[n].m], events'[n])
        PROVE  Right(mails[events[n].m], events[n])'
    BY <2>2 DEF Right, HereRight, AuthorRight, QuoteRight, RevokeRight, LossRight
  <2> QED  BY <2>1, <2>2 DEF InInv, Told
<1>6. \A i \in DOMAIN shown : shown[i] \in DOMAIN events
  BY DEF InInv, Typed
<1>7. Archived' /\ HistoryOnce'
  BY <1>2, <1>6 DEF InInv, Archived, HistoryOnce
<1>8. ShownRight'
  BY <1>2, <1>6 DEF InInv, ShownRight, Shows, Quotes
<1>9. Fresh' /\ Files'
  BY <1>2, InHand DEF InInv, Fresh, LegacyId, Files, HasFile
<1>10. LeakShape'
  <2>1. \A n \in disk : n \in Owned => n \in Owned'
    <3>1. \A n \in disk : n # 0
      BY <1>1, InHand
    <3> QED  BY <1>3, <3>1 DEF Owned
  <2> QED  BY <1>2, <2>1, InHand DEF InInv, LeakShape
<1> QED  BY <1>4, <1>5, <1>7, <1>8, <1>9, <1>10 DEF InInv

LEMMA ReceiveInv ==
  ASSUME InInv, NEW m \in DOMAIN mails, NEW server \in {"phone", "hidden"}, NEW alt \in BOOLEAN,
         NEW named \in BOOLEAN, Receive(m, server, alt, named)
  PROVE  InInv'
<1> DEFINE mail == mails[m]
           room == mail.in = Room
           learnt == IF alt THEN known \cup {IF room THEN mail.by ELSE mail.in} ELSE known
           tells == alt /\ (room \/ mail.by # Me)
           other == IF tells THEN Other(server, mail.by) ELSE NoId
           chat == newChat(IF room THEN Group ELSE Address(server, mail.in), room, learnt)
           bare == newActor(Address(server, mail.by), other, learnt, ownLid)
           actor == [bare EXCEPT !.isMe = (mail.by = Me)]
           origin == Author(mail, server, learnt, named)
           from == Address(server, mail.by)
           e == [m |-> m, via |-> "live", from |-> from, chat |-> chat, actor |-> actor, origin |-> origin,
                 learnt |-> learnt, run |-> run]
<1>1. /\ making["live"] = 0 /\ known' = learnt /\ Len(events) < MaxEvents
      /\ ~ named => mail.kind = "revoke" /\ mail.by = mail.origin
      /\ events' = Append(events, e) /\ making' = [making EXCEPT !["live"] = Len(events')]
      /\ UNCHANGED <<mails, ownLid, run, batch, line, handling, archive, disk, shown, skipped, interrupted>>
  BY DEF Receive, Begin, past
<1>2. mail \in Mail /\ Sensible(mail) /\ known \subseteq Person /\ ownLid \in BOOLEAN /\ run \in 1..MaxRuns /\ m \in Nat
  BY DEF InInv, Typed, Told
<1>3. /\ chat \in Chat
      /\ chat.isGroup <=> mail.in = Room
      /\ \/ chat.jid = mail.in
         \/ chat.jid = Nobody /\ server = "hidden" /\ mail.in \notin learnt /\ mail.in # Room
  <2> HIDE DEF mail, learnt
  <2> QED  BY <1>2, ChatOfLive DEF room
<1>4. other \in {NoId, Other(server, mail.by)} /\ (other # NoId <=> tells)
  BY DEF Other, NoId, Phone, Hidden
<1>5. /\ actor \in Actor
      /\ actor.isMe <=> mail.by = Me
      /\ actor.jid = IF server = "phone" \/ other # NoId \/ mail.by \in learnt \/ (mail.by = Me /\ ownLid)
                     THEN mail.by ELSE Nobody
      /\ actor.jid = mail.by \/ actor.lid = mail.by
  <2>1. /\ bare \in Actor
        /\ bare.jid = IF server = "phone" \/ other # NoId \/ mail.by \in learnt \/ (mail.by = Me /\ ownLid)
                      THEN mail.by ELSE Nobody
        /\ bare.jid = mail.by \/ bare.lid = mail.by
    <3> DEFINE p == mail.by
    <3>1. p \in Person /\ other \in {NoId, Other(server, p)} /\ ownLid \in BOOLEAN
      BY <1>2, <1>4 DEF Mail
    <3> HIDE DEF mail, learnt, other, p
    <3>2. \A x : /\ newActor(Address(server, p), other, x, ownLid) \in Actor
                 /\ newActor(Address(server, p), other, x, ownLid).jid =
                      IF server = "phone" \/ other # NoId \/ p \in x \/ (p = Me /\ ownLid) THEN p ELSE Nobody
                 /\ \/ newActor(Address(server, p), other, x, ownLid).jid = p
                    \/ newActor(Address(server, p), other, x, ownLid).lid = p
      BY <3>1, ActorOfLive
    <3> QED  BY <3>2 DEF p
  <2> HIDE DEF mail, learnt, other, bare
  <2>2. actor \in Actor /\ actor.jid = bare.jid /\ actor.lid = bare.lid /\ actor.isMe = (mail.by = Me)
    BY <2>1 DEF Actor
  <2> HIDE DEF actor
  <2> QED  BY <2>1, <2>2
<1>6. /\ origin \in Actor
      /\ mail.origin = Nobody \/ ~ named => origin = NoActor
      /\ mail.origin \in Person /\ named =>
           /\ origin.jid = IF server = "phone" \/ mail.origin \in learnt \/ (mail.origin = Me /\ ownLid)
                           THEN mail.origin ELSE Nobody
           /\ origin.lid \in {mail.origin, Nobody}
           /\ origin.jid = mail.origin \/ origin.lid = mail.origin
           /\ origin.isMe => mail.origin = Me
  <2>1. mail.origin \in Person \/ mail.origin = Nobody
    BY <1>2 DEF Mail
  <2> HIDE DEF mail, learnt
  <2> QED  BY <1>2, <2>1, AuthorIsHim
<1>7. known' \subseteq Person
  <2>1. mail.by \in Person /\ mail.in \in Person \cup {Room}
    BY <1>2 DEF Mail
  <2> QED  BY <1>1, <1>2, <2>1
<1>8. e \in Event /\ from.server = server
  <2>1. mail.by \in Person
    BY <1>2 DEF Mail
  <2>2. from \in Id /\ from.server = server
    <3> HIDE DEF mail
    <3> QED  BY <2>1 DEF Address, Id, Phone, Hidden
  <2>3. learnt \subseteq Person
    BY <1>1, <1>7
  <2> HIDE DEF chat, actor, origin, from, learnt
  <2> QED  BY <1>2, <1>3, <1>5, <1>6, <2>2, <2>3 DEF Event, Thread
<1>9. Right(mail, e)
  <2>1. ~ named => mail.kind = "revoke" /\ mail.by = mail.origin
    BY <1>1
  <2>2. alt => (IF mail.in = Room THEN mail.by ELSE mail.in) \in learnt
    OBVIOUS
  <2>3. other # NoId <=> alt /\ (mail.in = Room \/ mail.by # Me)
    BY <1>4
  <2> HIDE DEF mail, room, learnt, tells, other, chat, actor, origin, from
  <2>4. e.via = "live" /\ e.from = from /\ e.learnt = learnt /\ e.chat = chat /\ e.actor = actor /\ e.origin = origin
    OBVIOUS
  <2>5. e.from.server = server
    BY <1>8, <2>4
  <2> HIDE DEF e
  <2>6. /\ e.actor.isMe <=> mail.by = Me
        /\ e.actor.jid = mail.by \/ e.actor.lid = mail.by
    BY <1>5, <2>4
  <2>7. e.actor.jid = IF server = "phone" \/ (alt /\ (mail.in = Room \/ mail.by # Me)) \/ mail.by \in learnt
                         \/ (mail.by = Me /\ ownLid) THEN mail.by ELSE Nobody
    BY <1>5, <2>3, <2>4
  <2>8. /\ e.chat.isGroup <=> mail.in = Room
        /\ \/ e.chat.jid = mail.in
           \/ e.chat.jid = Nobody /\ server = "hidden" /\ mail.in \notin learnt /\ mail.in # Room
    BY <1>3, <2>4
  <2>9. /\ mail.origin = Nobody \/ ~ named => e.origin = NoActor
        /\ mail.origin \in Person /\ named =>
             /\ e.origin.jid = IF server = "phone" \/ mail.origin \in learnt \/ (mail.origin = Me /\ ownLid)
                               THEN mail.origin ELSE Nobody
             /\ e.origin.lid \in {mail.origin, Nobody}
             /\ e.origin.jid = mail.origin \/ e.origin.lid = mail.origin
             /\ e.origin.isMe => mail.origin = Me
    BY <1>6, <2>4
  <2>10. e.via = "live" /\ e.learnt = learnt /\ mail \in Mail /\ Sensible(mail) /\ ownLid \in BOOLEAN
    BY <1>2, <2>4
  <2> QED  BY ONLY <2>1, <2>2, <2>5, <2>6, <2>7, <2>8, <2>9, <2>10, LiveRight
<1>10. e.m = m /\ e.run = run
  OBVIOUS
<1>11. "live" \in Thread
  BY DEF Thread
<1> HIDE DEF e, mail, learnt
<1> QED  BY <1>1, <1>7, <1>8, <1>9, <1>10, <1>11, BeginInv DEF mail

LEMMA FromHistoryInv ==
  ASSUME InInv, NEW m \in DOMAIN mails, NEW server \in {"phone", "hidden"}, NEW told \in BOOLEAN,
         FromHistory(m, server, told)
  PROVE  InInv'
<1> DEFINE mail == mails[m]
           from == IF told THEN Address(server, mail.by) ELSE NoId
           chat == newChat(IF told THEN from ELSE Group, TRUE, known)
           actor == IF told THEN newActor(from, NoId, known, ownLid)
                            ELSE newActor(IF ownLid THEN Hidden(Me) ELSE NoId, Phone(Me), known, ownLid)
           origin == Author(mail, server, known, mail.kind # "revoke")
           e == [m |-> m, via |-> "history", from |-> from, chat |-> chat, actor |-> actor, origin |-> origin,
                 learnt |-> known, run |-> run]
<1>1. /\ making["history"] = 0 /\ m \in batch /\ batch' = batch \ {m}
      /\ UNCHANGED <<mails, known, ownLid, run, line, handling, archive, disk, shown, skipped, interrupted>>
      /\ IF told \/ mail.by = Me
         THEN /\ Len(events) < MaxEvents /\ events' = Append(events, e)
              /\ making' = [making EXCEPT !["history"] = Len(events')]
         ELSE UNCHANGED <<events, making>>
  BY DEF FromHistory, Begin, past
<1>2. mail \in Mail /\ mail.in = Room /\ known \subseteq Person /\ ownLid \in BOOLEAN /\ run \in 1..MaxRuns /\ m \in Nat
  BY <1>1 DEF InInv, Typed, Told
<1>3. CASE ~ (told \/ mail.by = Me)
  <2>1. \A k \in batch' : k \in DOMAIN mails /\ mails[k].in = Room
    BY <1>1 DEF InInv, Typed, Told
  <2> HIDE DEF mail, e
  <2> QED  BY <1>1, <1>3, <2>1, FewerLeft
<1>4. ASSUME told \/ mail.by = Me PROVE Right(mail, e) /\ e.chat \in Chat /\ e.actor \in Actor /\ e.origin \in Actor
  <2>1. e.via = "history" /\ e.from = from /\ e.chat = chat /\ e.actor = actor /\ e.origin = origin
    OBVIOUS
  <2>2. /\ e.actor = IF told THEN newActor(Address(server, mail.by), NoId, known, ownLid)
                      ELSE newActor(IF ownLid THEN Hidden(Me) ELSE NoId, Phone(Me), known, ownLid)
        /\ e.chat = newChat(IF told THEN Address(server, mail.by) ELSE Group, TRUE, known)
    BY <2>1
  <2> HIDE DEF e, mail
  <2> QED  BY <1>2, <1>4, <2>1, <2>2, HistoryRight
<1>5. ASSUME told \/ mail.by = Me PROVE e \in Event /\ e.m = m /\ e.run = run
  <2>1. e.m = m /\ e.run = run /\ e.chat = chat /\ e.actor = actor /\ e.origin = origin
    OBVIOUS
  <2>2. chat \in Chat /\ actor \in Actor /\ origin \in Actor
    BY <1>4, <1>5, <2>1
  <2>3. from \in Id
    BY <1>2 DEF Mail, Id, Address, Phone, Hidden
  <2> HIDE DEF chat, actor, origin, from
  <2> QED  BY <1>2, <2>1, <2>2, <2>3 DEF Event, Thread
<1>6. "history" \in Thread /\ known' \subseteq Person /\ batch' \subseteq batch
  BY <1>1, <1>2 DEF Thread
<1>7. CASE told \/ mail.by = Me
  <2> HIDE DEF e
  <2>1. events' = Append(events, e) /\ making' = [making EXCEPT !["history"] = Len(events')] /\ Len(events) < MaxEvents
    BY <1>1, <1>7
  <2> HIDE DEF mail
  <2> QED  BY <1>1, <1>4, <1>5, <1>6, <1>7, <2>1, BeginInv DEF mail
<1> QED  BY <1>3, <1>7

-----------------------------------------------------------------------------

LEMMA InNext == InInv /\ [Next]_vars => InInv'
<1> SUFFICES ASSUME InInv, [Next]_vars PROVE InInv'
  OBVIOUS
<1>1. CASE UNCHANGED vars
  <2>1. UNCHANGED <<mails, known, ownLid, run, events, making, batch, line, handling, archive, disk, shown,
                    skipped, interrupted>>
    BY <1>1 DEF vars
  <2>2. Fresh' /\ Files'
    BY <2>1, FreshOn, FilesOn
  <2>3. Owned' = Owned
    BY <2>1 DEF Owned
  <2>4. LeakShape'
    BY <2>1, <2>3, LeakOn
  <2> QED  BY <2>1, <2>2, <2>4, InHand, NothingShown
<1>2. CASE \E m \in DOMAIN mails :
             \/ \E server \in {"phone", "hidden"}, alt, named \in BOOLEAN : Receive(m, server, alt, named)
             \/ \E server \in {"phone", "hidden"}, told \in BOOLEAN : FromHistory(m, server, told)
  BY <1>2, ReceiveInv, FromHistoryInv
<1> QED
  BY <1>1, <1>2, WriteInv, RestartInv, BatchInv, TakeInv, CreateFileInv, DownloadFailsInv, PropagateInv,
     ShowInv, UnresolvedInv, InterruptedInv, SendRaisesInv DEF Next

LEMMA InAlways == Spec => []InInv
  BY InInit, InNext, PTL DEF Spec

(* Every reachable state is of its type; one event is handled at a time.   *)
THEOREM IncomingTypeCorrect == Spec => []TypeOK
<1>1. ASSUME InInv PROVE TypeOK
  <2>1. \A m \in DOMAIN mails : mails[m] \in Mail
    BY <1>1 DEF InInv, Typed
  <2>2. \A n \in DOMAIN events :
          events[n] \in [m : DOMAIN mails, via : Thread, from : Id, chat : Chat, actor : Actor, origin : Actor,
                         learnt : SUBSET Person, run : 1..MaxRuns]
    <3>1. \A n \in DOMAIN events : events[n] \in Event /\ events[n].m \in DOMAIN mails
      BY <1>1 DEF InInv, Typed
    <3> QED  BY <3>1 DEF Event
  <2>3. handling \subseteq DOMAIN events /\ Cardinality(handling) <= 1
    <3>1. handling = {} \/ \E n \in DOMAIN events : handling = {n}
      BY <1>1, InHand
    <3>2. Cardinality({}) = 0
      BY FS_EmptySet
    <3>3. CASE handling = {}
      BY <3>2, <3>3
    <3>4. ASSUME NEW n \in DOMAIN events, handling = {n} PROVE Cardinality(handling) <= 1
      <4>1. Cardinality({n}) = 1
        BY FS_Singleton
      <4> QED  BY <3>4, <4>1
    <3> QED  BY <3>1, <3>3, <3>4
  <2> QED  BY <1>1, <2>1, <2>2, <2>3 DEF InInv, Typed, TypeOK
<1> QED  BY <1>1, InAlways, PTL

(* Whatever fails and whenever the process is restarted, files without an  *)
(* owner are those LeakShape names, and no others.                         *)
THEOREM LeaksOnlyThese == Spec => []LeakShape
<1>1. InInv => LeakShape
  BY DEF InInv
<1> QED  BY <1>1, InAlways, PTL

(* A message with a body is not shown again from history.                  *)
THEOREM ShownOnce == Spec => []HistoryOnce
<1>1. InInv => HistoryOnce
  BY DEF InInv
<1> QED  BY <1>1, InAlways, PTL

(* Whatever numbers WhatsApp uses and the store can map: what is shown is  *)
(* attributed to who wrote it, and a live message shown where it was.      *)
THEOREM AttributedToAuthor == Spec => []Attributed
<1>1. ASSUME InInv, NEW i \in DOMAIN shown
      PROVE  LET e == events[shown[i]]
                 mail == mails[e.m]
             IN /\ Resolve(e.chat, e.actor).by = mail.by
                /\ e.via = "live" => Resolve(e.chat, e.actor).in = mail.in
                /\ Quotes(shown[i]) => (IF e.origin.jid = Me THEN Me ELSE Resolve(e.chat, e.origin).by) = mail.origin
  <2> DEFINE n == shown[i]
             e == events[n]
             mail == mails[e.m]
  <2>1. Right(mail, e) /\ Shows(n)
    BY <1>1 DEF InInv, Typed, Told, ShownRight
  <2>2. Resolve(e.chat, e.actor).in = e.chat.jid
    BY DEF Resolve
  <2> QED  BY <2>1, <2>2 DEF Right, HereRight, AuthorRight, QuoteRight, Quoting, Shows, Quotes
<1>2. InInv => Attributed
  BY <1>1 DEF Attributed
<1> QED  BY <1>2, InAlways, PTL

(* A live removal is the author's own or a moderator's, as it was.         *)
THEOREM RemovalsAreTold == Spec => []Revoked
<1>1. ASSUME InInv, NEW i \in DOMAIN shown
      PROVE  RevokeRight(mails[events[shown[i]].m], events[shown[i]])
  BY <1>1 DEF InInv, Typed, Told, Right
<1>2. InInv => Revoked
  BY <1>1 DEF Revoked, RevokeRight
<1> QED  BY <1>2, InAlways, PTL

=============================================================================
