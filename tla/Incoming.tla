------------------------------ MODULE Incoming ------------------------------
(***************************************************************************)
(* Messages from WhatsApp: live, in a goroutine of whatsmeow's, and from   *)
(* history, in another (session.go, event.go); both download files into    *)
(* the temporary directory and queue events for the one Python handler     *)
(* (session.py), which shows them and removes the files.  How the queue    *)
(* works belongs to EventPipeline: here it is a sequence.                  *)
(***************************************************************************)
EXTENDS Addressing, FiniteSets

CONSTANTS
  MaxMails,     \* bound: messages written
  MaxEvents,    \* bound: times one of them gets to the gateway
  MaxRuns       \* bound: processes

ASSUME BoundsAssumption == {MaxMails, MaxEvents, MaxRuns} \subseteq Nat \ {0}

Thread == {"live", "history"}

(* A message as it is written: in the room or to one person, which may be  *)
(* oneself; a text that may quote somebody, a file that is not kept in     *)
(* memory, or the removal of the first message, of which `origin' is the   *)
(* author.  Edits, reactions, places, polls and small files are kept in    *)
(* memory and go the way of texts, which stand for them.                   *)
Mail == [by : Person, in : Person \cup {Room}, kind : {"text", "file", "revoke"},
         origin : Person \cup {Nobody}]

VARIABLES
  mails,     \* WhatsApp: the messages there are
  known,     \* the device store: whose LID and phone number it can map
  ownLid,    \* the device store: whether it has our own LID
  run,       \* the process, counted
  events,    \* what became of each arrival of a message, in order
  making,    \* thread -> the event it is preparing, or 0
  batch,     \* messages left in the history synchronisation
  line,      \* events propagated and not yet taken
  handling,  \* events the Python handler has begun with
  archive,   \* messages in the archive of rooms
  disk,      \* events whose file is in the temporary directory
  shown,     \* events that were shown, in order
  skipped,   \* history variable: files of events found in the archive
  interrupted \* history variable: files of events whose handler raised too early

vars == <<mails, known, ownLid, run, events, making, batch, line, handling, archive, disk, shown, skipped, interrupted>>
gateway == <<making, batch, line, handling, archive, disk, shown>>
past == <<skipped, interrupted>>

(* Our own LID is stored with its mapping, when it is.                     *)
Init ==
  /\ mails = << >> /\ run = 1
  /\ ownLid \in BOOLEAN /\ known = IF ownLid THEN {Me} ELSE {}
  /\ events = << >> /\ making = [t \in Thread |-> 0] /\ batch = {}
  /\ line = << >> /\ handling = {} /\ archive = {} /\ disk = {} /\ shown = << >>
  /\ skipped = {} /\ interrupted = {}

HasFile(n) == mails[events[n].m].kind = "file"

-----------------------------------------------------------------------------
(* WhatsApp, and the process. *)

(* Bounds: all is written before the first arrives; rooms, direct chats,   *)
(* notes to ourselves, the order being of no account; only the first text  *)
(* quotes.                                                                 *)
Write(mail) ==
  /\ Len(mails) < MaxMails /\ events = << >> /\ batch = {} /\ run = 1
  /\ mail.in = Room => \A m \in DOMAIN mails : mails[m].in = Room
  /\ mail.in # Me => \A m \in DOMAIN mails : mails[m].in # Me
  /\ mail.in # Room => mail.by \in {Me, mail.in}
  /\ mail.kind = "file" => mail.origin = Nobody
  /\ mail.kind = "text" => mails = << >> \/ mail.origin = Nobody
  /\ mail.kind = "revoke" => /\ mails # << >> /\ mails[1].kind # "revoke"
                             /\ mail.in = mails[1].in /\ mail.origin = mails[1].by
                             /\ mail.in # Room => mail.by = mail.origin
  /\ mail.origin # Nobody /\ mail.in # Room => mail.origin \in {Me, mail.in}
  /\ mails' = Append(mails, mail)
  /\ UNCHANGED <<known, ownLid, run, events, gateway, past>>

(* Whatever is in memory is lost; the archive and the files are not.       *)
(* Bound: there is something to lose.                                      *)
Restart ==
  /\ batch # {} \/ line # << >> \/ handling # {} \/ \E t \in Thread : making[t] # 0
  /\ run < MaxRuns /\ run' = run + 1
  /\ making' = [t \in Thread |-> 0] /\ batch' = {} /\ line' = << >> /\ handling' = {}
  /\ UNCHANGED <<mails, known, ownLid, events, archive, disk, shown, past>>

-----------------------------------------------------------------------------
(* Go: from a message to an event. *)

Address(server, p) == IF server = "hidden" THEN Hidden(p) ELSE Phone(p)
Other(server, p) == IF server = "hidden" THEN Phone(p) ELSE Hidden(p)

Begin(thread, m, from, chat, actor, origin, learnt) ==
  /\ Len(events) < MaxEvents
  /\ events' = Append(events, [m |-> m, via |-> thread, from |-> from, chat |-> chat, actor |-> actor,
                               origin |-> origin, learnt |-> learnt, run |-> run])
  /\ making' = [making EXCEPT ![thread] = Len(events')]

(* Who wrote what a message quotes or removes.  WhatsApp need not name him *)
(* in the removal of one's own message: whatsmeow does not.                *)
Author(mail, server, learnt, named) ==
  IF mail.origin = Nobody \/ ~ named THEN NoActor ELSE newActor(Address(server, mail.origin), NoId, learnt, ownLid)

(* Variant with a fault: whether it is from us is left to newActor. *)
ReceiveUnmarked(m, server, alt, named) ==
  LET mail == mails[m]
      learnt == IF alt THEN known \cup {IF mail.in = Room THEN mail.by ELSE mail.in} ELSE known
      tells == alt /\ (mail.in = Room \/ mail.by # Me)
      actor == newActor(Address(server, mail.by), IF tells THEN Other(server, mail.by) ELSE NoId, learnt, ownLid)
  IN /\ making["live"] = 0
     /\ ~ named => mail.kind = "revoke" /\ mail.by = mail.origin
     /\ known' = learnt
     /\ Begin("live", m, Address(server, mail.by),
              newChat(IF mail.in = Room THEN Group ELSE Address(server, mail.in), mail.in = Room, learnt),
              actor,
              Author(mail, server, learnt, named), learnt)
     /\ UNCHANGED <<mails, ownLid, run, batch, line, handling, archive, disk, shown, past>>

(* newMessageEvent.  WhatsApp addresses a chat by one kind of number and   *)
(* may tell the other, which whatsmeow stores before it dispatches the     *)
(* message.  Whether it is from us is WhatsApp's word.                     *)
Receive(m, server, alt, named) ==
  LET mail == mails[m]
      learnt == IF alt THEN known \cup {IF mail.in = Room THEN mail.by ELSE mail.in} ELSE known
      tells == alt /\ (mail.in = Room \/ mail.by # Me)
      actor == newActor(Address(server, mail.by), IF tells THEN Other(server, mail.by) ELSE NoId, learnt, ownLid)
  IN /\ making["live"] = 0
     /\ ~ named => mail.kind = "revoke" /\ mail.by = mail.origin
     /\ known' = learnt
     /\ Begin("live", m, Address(server, mail.by),
              newChat(IF mail.in = Room THEN Group ELSE Address(server, mail.in), mail.in = Room, learnt),
              [actor EXCEPT !.isMe = (mail.by = Me)],
              Author(mail, server, learnt, named), learnt)
     /\ UNCHANGED <<mails, ownLid, run, batch, line, handling, archive, disk, shown, past>>

(* A synchronisation brings messages of conversations at once; what is not *)
(* from a room newEventFromHistory passes over.  Bound: while messages may *)
(* still get to the gateway.                                               *)
HistorySync ==
  /\ batch = {} /\ making["history"] = 0 /\ Len(events) < MaxEvents
  /\ batch' \in (SUBSET {m \in DOMAIN mails : mails[m].in = Room}) \ {{}}
  /\ UNCHANGED <<mails, known, ownLid, run, events, making, line, handling, archive, disk, shown, past>>

(* newEventFromHistory, for rooms.  The chat of a message that names its   *)
(* participant is made from his identifier, of our own that does not from  *)
(* the room's; whose message another is nobody can tell.  A removal names  *)
(* no author.                                                              *)
FromHistory(m, server, told) ==
  LET mail == mails[m]
      participant == IF told THEN Address(server, mail.by) ELSE NoId
      actor == IF told THEN newActor(participant, NoId, known, ownLid)
                       ELSE newActor(IF ownLid THEN Hidden(Me) ELSE NoId, Phone(Me), known, ownLid)
      chat == newChat(IF told THEN participant ELSE Group, TRUE, known)
      origin == Author(mail, server, known, mail.kind # "revoke")
  IN /\ m \in batch /\ making["history"] = 0
     /\ batch' = batch \ {m}
     /\ IF told \/ mail.by = Me THEN Begin("history", m, participant, chat, actor, origin, known)
                               ELSE UNCHANGED <<events, making>>
     /\ UNCHANGED <<mails, known, ownLid, run, line, handling, archive, disk, shown, past>>

(* After a Disconnect there is no client, and the handler panics at the    *)
(* next message of a room; whatsmeow recovers it: the rest is lost.        *)
LoseRest ==
  /\ making["history"] = 0 /\ batch # {}
  /\ batch' = {}
  /\ UNCHANGED <<mails, known, ownLid, run, events, making, line, handling, archive, disk, shown, past>>

(* getMessageAttachments: a file too large for memory, or of unknown size. *)
CreateFile(t) ==
  /\ making[t] # 0 /\ HasFile(making[t]) /\ making[t] \notin disk
  /\ disk' = disk \cup {making[t]}
  /\ UNCHANGED <<mails, known, ownLid, run, events, making, batch, line, handling, archive, shown, past>>

(* Variant with a fault: the file stays when the download fails. *)
DownloadFailsOnly(t) ==
  /\ making[t] # 0 /\ HasFile(making[t])
  /\ making' = [making EXCEPT ![t] = 0]
  /\ UNCHANGED <<mails, known, ownLid, run, events, batch, line, handling, archive, disk, shown, past>>

DownloadFails(t) ==
  /\ making[t] # 0 /\ HasFile(making[t])
  /\ disk' = disk \ {making[t]}
  /\ making' = [making EXCEPT ![t] = 0]
  /\ UNCHANGED <<mails, known, ownLid, run, events, batch, line, handling, archive, shown, past>>

Propagate(t) ==
  /\ making[t] # 0 /\ (HasFile(making[t]) => making[t] \in disk)
  /\ line' = Append(line, making[t])
  /\ making' = [making EXCEPT ![t] = 0]
  /\ UNCHANGED <<mails, known, ownLid, run, events, batch, handling, archive, disk, shown, past>>

-----------------------------------------------------------------------------
(* Python: on_wa_message. *)

(* A removal carries the identifier of what it removes. *)
LegacyId(n) == IF mails[events[n].m].kind = "revoke" THEN 1 ELSE events[n].m

(* Variant with a fault: only texts are looked up in the archive. *)
SkippedText(n) ==
  /\ events[n].chat.isGroup /\ events[n].via = "history"
  /\ mails[events[n].m].kind = "text" /\ LegacyId(n) \in archive

Skipped(n) == events[n].chat.isGroup /\ events[n].via = "history" /\ LegacyId(n) \in archive

(* Variant with a fault: the next event is begun with while one waits. *)
TakeEager ==
  /\ line # << >>
  /\ line' = Tail(line)
  /\ handling' = IF Skipped(Head(line)) THEN handling ELSE handling \cup {Head(line)}
  /\ skipped' = IF Skipped(Head(line)) THEN skipped \cup ({Head(line)} \cap disk) ELSE skipped
  /\ UNCHANGED <<mails, known, ownLid, run, events, making, batch, archive, disk, shown, interrupted>>

(* The worker takes no event before the handler of the last has returned. *)
Take ==
  /\ line # << >> /\ handling = {}
  /\ line' = Tail(line)
  /\ handling' = IF Skipped(Head(line)) THEN {} ELSE {Head(line)}
  /\ skipped' = IF Skipped(Head(line)) THEN skipped \cup ({Head(line)} \cap disk) ELSE skipped
  /\ UNCHANGED <<mails, known, ownLid, run, events, making, batch, archive, disk, shown, interrupted>>

(* __get_reply_to: an author who is not us must be resolved as well. *)
Quotes(n) == mails[events[n].m].kind = "text" /\ events[n].origin # NoActor
Shows(n) ==
  /\ Resolvable(events[n].chat, events[n].actor)
  /\ Quotes(n) => Resolvable(events[n].chat, events[n].origin)

Show(n) ==
  /\ n \in handling /\ Shows(n)
  /\ shown' = Append(shown, n)
  /\ archive' = IF events[n].chat.isGroup /\ mails[events[n].m].kind # "revoke" THEN archive \cup {events[n].m} ELSE archive
  /\ disk' = disk \ {n}
  /\ handling' = handling \ {n}
  /\ UNCHANGED <<mails, known, ownLid, run, events, making, batch, line, past>>

(* The sender, or who is quoted, cannot be resolved.                       *)
Unresolved(n) ==
  /\ n \in handling /\ ~ Shows(n)
  /\ handling' = handling \ {n}
  /\ UNCHANGED <<mails, known, ownLid, run, events, making, batch, line, archive, disk, shown, past>>

(* An exception before on_wa_msg_attachment gets to its try: the presence  *)
(* of the sender, the conversion of the attachments.  Bound: messages      *)
(* without a file, which only get lost, do not raise.                      *)
Interrupted(n) ==
  /\ n \in handling /\ Shows(n) /\ HasFile(n)
  /\ interrupted' = interrupted \cup ({n} \cap disk)
  /\ handling' = handling \ {n}
  /\ UNCHANGED <<mails, known, ownLid, run, events, making, batch, line, archive, disk, shown, skipped>>

(* An exception from sending the files, which are removed all the same. *)
SendRaises(n) ==
  /\ n \in handling /\ Shows(n) /\ HasFile(n)
  /\ disk' = disk \ {n}
  /\ handling' = handling \ {n}
  /\ UNCHANGED <<mails, known, ownLid, run, events, making, batch, line, archive, shown, past>>

(* Variant with a fault: whose message it was is told by whether it is ours. *)
ModeratesMine(e) == e.chat.isGroup /\ e.origin.isMe # e.actor.isMe

(* on_wa_msg_revoke: a participant takes back his own message, or removes  *)
(* somebody else's.                                                        *)
Moderates(e) == e.chat.isGroup /\ e.origin.jid # e.actor.jid

Next ==
  \/ \E mail \in Mail : Write(mail)
  \/ Restart \/ HistorySync \/ LoseRest \/ Take
  \/ \E m \in DOMAIN mails :
       \/ \E server \in {"phone", "hidden"}, alt, named \in BOOLEAN : Receive(m, server, alt, named)
       \/ \E server \in {"phone", "hidden"}, told \in BOOLEAN : FromHistory(m, server, told)
  \/ \E t \in Thread : CreateFile(t) \/ DownloadFails(t) \/ Propagate(t)
  \/ \E n \in DOMAIN events : Show(n) \/ Unresolved(n) \/ Interrupted(n) \/ SendRaises(n)

Spec == Init /\ [][Next]_vars

-----------------------------------------------------------------------------

TypeOK ==
  /\ Len(mails) <= MaxMails /\ \A m \in DOMAIN mails : mails[m] \in Mail
  /\ known \subseteq Person /\ ownLid \in BOOLEAN /\ run \in 1..MaxRuns
  /\ Len(events) <= MaxEvents
  /\ \A n \in DOMAIN events :
       events[n] \in [m : DOMAIN mails, via : Thread, from : Id, chat : Chat, actor : Actor, origin : Actor,
                    learnt : SUBSET Person, run : 1..MaxRuns]
  /\ \A t \in Thread : making[t] \in {0} \cup DOMAIN events
  /\ batch \subseteq DOMAIN mails /\ archive \subseteq DOMAIN mails
  /\ \A i \in DOMAIN line : line[i] \in DOMAIN events
  /\ \A i \in DOMAIN shown : shown[i] \in DOMAIN events
  /\ handling \subseteq DOMAIN events /\ Cardinality(handling) <= 1
  /\ disk \cup skipped \cup interrupted \subseteq DOMAIN events

(* Temporary files (event.go, on_wa_msg_attachment): a file is removed by  *)
(* whoever has it, whichever step fails.  Those nobody is left to remove   *)
(* are from before a restart; of an event whose handler raised before it   *)
(* sent them; from history, of a message skipped as archived, or of a      *)
(* participant named by his LID; live, of a note to ourselves, or of a     *)
(* chat with another named by LIDs, if his phone number was not known when *)
(* the message came, or it is ours and neither number of ours was.         *)
Owned == {making[t] : t \in Thread} \cup {line[i] : i \in DOMAIN line} \cup handling
LeakShape ==
  \A n \in disk \ Owned :
    LET e == events[n]
        mail == mails[e.m]
        byLid == e.from.server = "hidden"
    IN \/ e.run < run
       \/ n \in interrupted
       \/ e.via = "history" /\ (byLid \/ (n \in skipped /\ e.m \in archive))
       \/ e.via = "live" /\ mail.in = Me
       \/ /\ e.via = "live" /\ mail.in \notin {Me, Room} /\ byLid
          /\ mail.in \notin e.learnt \/ (mail.by = Me /\ Me \notin e.learnt /\ ~ ownLid)

(* on_wa_message: a message with a body that the room has got, live or     *)
(* from history, is never shown again from history, however often          *)
(* WhatsApp sends it and in whatever order the threads run.                *)
HistoryOnce ==
  \A i, j \in DOMAIN shown :
    LET e == events[shown[j]] IN
      i < j /\ events[shown[i]].m = e.m /\ mails[e.m].kind # "revoke" => e.via # "history"

(* newActor, newChat, __get_contact_or_participant: by whichever numbers   *)
(* WhatsApp names the chat and its people, and whatever of them the store  *)
(* can map by then, a live message is shown where it was written, and any  *)
(* message and any quote in it is attributed to who wrote it.              *)
Attributed ==
  \A i \in DOMAIN shown :
    LET e == events[shown[i]]
        mail == mails[e.m]
    IN /\ Resolve(e.chat, e.actor).by = mail.by
       /\ e.via = "live" => Resolve(e.chat, e.actor).in = mail.in
       /\ Quotes(shown[i]) => (IF e.origin.jid = Me THEN Me ELSE Resolve(e.chat, e.origin).by) = mail.origin

(* on_wa_msg_revoke, live: who takes back his own message is not taken for *)
(* a moderator, unless the removal names no author; and a moderator for    *)
(* the author only in rooms that know neither of the two by a number.      *)
Revoked ==
  \A i \in DOMAIN shown :
    LET e == events[shown[i]]
        mail == mails[e.m]
    IN mail.kind = "revoke" /\ e.via = "live" =>
         /\ mail.by = mail.origin => ~ Moderates(e) \/ e.origin = NoActor
         /\ mail.by # mail.origin => \/ Moderates(e)
                                     \/ e.actor.jid = Nobody /\ e.origin.jid = Nobody

(* newEventFromHistory handles messages of rooms (event.go:961-963, "only  *)
(* events related to group-chats will be handled"): what is shown of one   *)
(* is shown in the room it was written in.                                 *)
HistoryInItsRoom ==
  \A i \in DOMAIN shown :
    LET e == events[shown[i]] IN e.via = "history" => Resolve(e.chat, e.actor).in = mails[e.m].in

=============================================================================
