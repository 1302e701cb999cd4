------------------------------ MODULE Outgoing ------------------------------
(***************************************************************************)
(* What a user sends: texts, attachments, corrections and retractions,     *)
(* from the Python handler (mixins.py) through Session.SendMessage         *)
(* (session.go), the preparation of an attachment (event.go) and its       *)
(* temporary files (package media), to the date kept by AutoExpiryStore    *)
(* (session.py).  Calls run on the asyncio thread, one at a time; time     *)
(* passes meanwhile, and the process may be restarted at any moment.       *)
(***************************************************************************)
EXTENDS Media, Integers, FiniteSets

CONSTANTS
  MaxSent,      \* bound: messages sent
  MaxNow,       \* bound: the clock
  EditTime,     \* AutoExpiryStore._MAXIMUM_EDIT_TIME, 20 minutes
  RetractTime   \* AutoExpiryStore._MAXIMUM_RETRACT_TIME, 2 days

ASSUME BoundsAssumption == MaxSent \in Nat /\ MaxNow \in Nat
ASSUME TimesAssumption == EditTime \in Nat /\ RetractTime \in Nat /\ EditTime <= RetractTime

Message == 1..MaxSent

(* A text: who it answers ("unnamed": no participant can be told), whether *)
(* it has a link with a preview, mentions somebody, or is a place.         *)
Text == [reply : {"none", "named", "unnamed"}, preview : BOOLEAN, mention : BOOLEAN,
         location : {"none", "positive", "negative"}]

(* A file: the type the sender's server tells, and what it really is.      *)
Attachment == [mime : Mime \cup {""}, file : File]

NoFile == [type |-> "other", codec |-> "other", picture |-> FALSE, animated |-> FALSE, size |-> 0]
Empty == [mime |-> "", file |-> NoFile, known |-> "nothing"]
NoText == [reply |-> "none", preview |-> FALSE, mention |-> FALSE, location |-> "none"]
Nothing == [text |-> NoText, mime |-> ""]

VARIABLES
  now,     \* the clock
  dates,   \* sent_msg_date_store: message -> when it was added
  sent,    \* messages SendMessage has succeeded for in this process, with the time
  count,   \* messages sent so far
  pc,      \* where the running call is
  asked,   \* the text being sent, or the type told of the attachment
  att,     \* the attachment: its type, its data, and what metadata is cached
  files,   \* temporary files there are: 1 is the first a media function made
  deferred,\* removals the running media function has deferred, of 1..deferred
  at       \* the next file is there, "writing" its data or "made"; or "ready"

vars == <<now, dates, sent, count, pc, asked, att, files, deferred, at>>
store == <<now, dates, sent, count>>
temp == <<files, deferred, at>>

MediaStep == {"probe", "convert", "describe", "waveform", "thumbnail"}

Init ==
  /\ now = 0 /\ dates = << >> /\ sent = << >> /\ count = 0
  /\ pc = "idle" /\ asked = Nothing /\ att = Empty
  /\ files = {} /\ deferred = 0 /\ at = "ready"

-----------------------------------------------------------------------------
(* AutoExpiryStore. *)

IsNewerThan(m, delta) == m \in DOMAIN dates /\ now < dates[m] + delta
IsEditable(m) == IsNewerThan(m, EditTime)
IsRetractable(m) == IsNewerThan(m, RetractTime)

(* Variant with a fault: dates are forgotten once editing is over. *)
CleanupEarly ==
  /\ pc = "idle"
  /\ LET kept == {m \in DOMAIN dates : now <= dates[m] + EditTime} IN dates' = [m \in kept |-> dates[m]]
  /\ UNCHANGED <<now, sent, count, pc, asked, att, temp>>

(* _cleanup, from a task of the loop: never within a call. *)
Cleanup ==
  /\ pc = "idle"
  /\ LET kept == {m \in DOMAIN dates : now <= dates[m] + RetractTime} IN dates' = [m \in kept |-> dates[m]]
  /\ UNCHANGED <<now, sent, count, pc, asked, att, temp>>

Tick == now < MaxNow /\ now' = now + 1 /\ UNCHANGED <<dates, sent, count, pc, asked, att, temp>>

(* A new process knows no dates.  What lies in the temporary directory     *)
(* stays there, and is not counted any more.                               *)
Restart ==
  /\ dates' = << >> /\ sent' = << >>
  /\ pc' = "idle" /\ asked' = Nothing /\ att' = Empty
  /\ files' = {} /\ deferred' = 0 /\ at' = "ready"
  /\ UNCHANGED <<now, count>>

-----------------------------------------------------------------------------
(* The end of a call: back in Python, with or without an exception. *)

Failed == pc' = "idle" /\ asked' = Nothing /\ att' = Empty /\ UNCHANGED <<store, temp>>

Succeeded ==
  /\ count' = count + 1
  /\ LET known == DOMAIN dates \cup {count'} IN
       /\ dates' = [m \in known |-> IF m = count' THEN now ELSE dates[m]]
       /\ sent' = [m \in DOMAIN sent \cup {count'} |-> IF m = count' THEN now ELSE sent[m]]
  /\ pc' = "idle" /\ asked' = Nothing /\ att' = Empty
  /\ UNCHANGED <<now, temp>>

(* client.SendMessage, then sent_msg_date_store.add. *)
Send == pc = "send" /\ count < MaxSent /\ (Succeeded \/ Failed)

-----------------------------------------------------------------------------
(* Texts.  The payload takes a form from the first feature it meets; later *)
(* features write to the part they need, which may not be there.           *)

Quoted(t) == CASE t.reply = "none" -> "nil" [] t.reply = "named" -> "extended" [] OTHER -> "plain"

(* Variant with a fault: a mention expects to find a payload. *)
MakesExtendedPreview(t) == t.preview

(* A preview, or a mention, makes an extended text if there is nothing yet. *)
MakesExtended(t) == t.preview \/ t.mention

(* getMessagePayload; "panic" dereferences a nil pointer. *)
Payload(t) ==
  LET text == IF MakesExtended(t) /\ Quoted(t) = "nil" THEN "extended" ELSE Quoted(t)
      writes == t.preview \/ t.mention
  IN IF writes /\ text # "extended" THEN "panic"
     ELSE IF t.location # "positive" THEN IF text = "nil" THEN "plain" ELSE text
     ELSE IF text = "nil" THEN "location" ELSE "panic"

(* A panic in a call from Python ends the process. *)
SendText(t) ==
  /\ pc = "idle" /\ count < MaxSent
  /\ pc' = IF Payload(t) = "panic" THEN "panicked" ELSE "send"
  /\ asked' = [Nothing EXCEPT !.text = t]
  /\ UNCHANGED <<now, dates, sent, count, att, temp>>

(* _on_correct and on_retract ask the store first; nothing is added after. *)
Amend(m) ==
  /\ pc = "idle"
  /\ IsEditable(m) \/ IsRetractable(m)
  /\ pc' = "amend"
  /\ UNCHANGED <<now, dates, sent, count, asked, att, temp>>

Amended == pc = "amend" /\ Failed

-----------------------------------------------------------------------------
(* Attachments. *)

(* uploadAttachment begins with convertAttachment: a type nobody told is   *)
(* the detected one, and what cannot be converted is uploaded as it is.    *)
SendFile(a) ==
  /\ pc = "idle" /\ count < MaxSent
  /\ asked' = [Nothing EXCEPT !.mime = a.mime]
  /\ att' = [mime |-> IF a.mime \in {"", "octet"} /\ a.file.type # "other" THEN a.file.type ELSE a.mime,
             file |-> a.file, known |-> "nothing"]
  /\ pc' = IF a.file.type \notin Convertible \/ TooLarge(a.file) THEN "upload"
           ELSE IF a.file.type \in Probed THEN "probe" ELSE "convert"
  /\ UNCHANGED <<now, dates, sent, count, temp>>

Conversion == Target(att.file, att.known # "nothing")

(* Temporary files a media function creates before it runs its tool: one   *)
(* for ffprobe to read, two for ffmpeg, none for what is done in memory.   *)
ProbeFiles(f) == IF f.type \in Image \cup {"gif", "pdf"} THEN 0 ELSE 1
ToolFiles(tool) == IF tool = "ffmpeg" THEN 2 ELSE 0
Needed ==
  CASE pc = "probe" -> ProbeFiles(att.file)
    [] pc = "convert" -> ToolFiles(Tool(Conversion.from, Conversion.to))
    [] pc = "describe" -> IF att.known # "nothing" THEN 0 ELSE ProbeFiles(att.file)
    [] pc = "waveform" -> 1
    [] pc = "thumbnail" -> ToolFiles(Tool(att.file.type, "jpeg"))
    [] OTHER -> 0

(* Variant with a fault: the file is made again when it is there. *)
CreateTempFileAgain ==
  /\ pc \in MediaStep /\ at = "ready" /\ Needed > 0
  /\ files' = files \cup {deferred + 1}
  /\ at' = IF deferred = 0 /\ att.file.size > 0 THEN "writing" ELSE "made"
  /\ UNCHANGED <<store, pc, asked, att, deferred>>

(* os.CreateTemp: data, if any, are written to the first file; the second  *)
(* is for ffmpeg to write.                                                 *)
CreateTempFile ==
  /\ pc \in MediaStep /\ at = "ready" /\ deferred < Needed
  /\ files' = files \cup {deferred + 1}
  /\ at' = IF deferred = 0 /\ att.file.size > 0 THEN "writing" ELSE "made"
  /\ UNCHANGED <<store, pc, asked, att, deferred>>

Written == at = "writing" /\ at' = "made" /\ UNCHANGED <<store, pc, asked, att, files, deferred>>

(* createTempFile has returned a name: its removal is deferred. *)
Defer ==
  /\ at = "made" /\ at' = "ready" /\ deferred' = deferred + 1
  /\ UNCHANGED <<store, pc, asked, att, files>>

(* GetSpec in convertAttachment: metadata is kept with the attachment, and *)
(* what is lossless is not touched.                                        *)
Probe(ok) ==
  LET lossless == ok /\ att.file.type = "m4a" /\ att.file.codec = "alac" IN
    /\ pc = "probe"
    /\ att' = [att EXCEPT !.known = IF ok THEN "itself" ELSE "nothing",
                          !.mime = IF lossless THEN "octet" ELSE att.mime]
    /\ pc' = IF lossless THEN "upload" ELSE "convert"

(* Variant with a fault: the type is set before the conversion is tried. *)
ConvertAnyway(ok) ==
  /\ pc = "convert"
  /\ att' = IF ok THEN [mime |-> Conversion.to, known |-> "nothing",
                        file |-> [NoFile EXCEPT !.type = Base(Conversion.to), !.size = 1]]
            ELSE [att EXCEPT !.mime = Conversion.to]
  /\ pc' = "upload"

(* media.Convert and what convertAttachment makes of its result.  The      *)
(* metadata goes on describing what the data were before.                  *)
Convert(ok) ==
  /\ pc = "convert"
  /\ ok => Tool(Conversion.from, Conversion.to) # "none"
  /\ att' = IF ~ ok THEN att
            ELSE [mime |-> Conversion.to,
                  file |-> [type |-> Base(Conversion.to), codec |-> IF Conversion.to = "voice" THEN "opus" ELSE "other",
                            picture |-> Base(Conversion.to) \in Video, animated |-> FALSE, size |-> 1],
                  known |-> IF att.known = "nothing" THEN "nothing" ELSE "source"]
  /\ pc' = "upload"

(* client.Upload, and which message is made of the attachment. *)
Upload ==
  /\ pc = "upload" /\ att.file.size > 0
  /\ pc' = CASE MediaType(att.mime) = "image" -> "thumbnail"
             [] MediaType(att.mime) \in {"audio", "video"} \/ att.mime = "pdf" -> "describe"
             [] OTHER -> "send"
  /\ UNCHANGED <<now, dates, sent, count, asked, att, temp>>

UploadFails == pc = "upload" /\ Failed

(* GetSpec for the message: what is cached, or a probe of the data. *)
Describe(ok) ==
  /\ pc = "describe"
  /\ att.known # "nothing" => ok
  /\ att' = IF ok /\ att.known = "nothing" THEN [att EXCEPT !.known = "itself"] ELSE att
  /\ pc' = CASE MediaType(att.mime) # "audio" -> "thumbnail"
             [] att.mime = "voice" /\ ok -> "waveform"
             [] OTHER -> "send"

(* GetWaveform, and Convert for the thumbnail: failures are only logged. *)
Waveform(ok) == pc = "waveform" /\ pc' = "send" /\ att' = att
Thumbnail(ok) == pc = "thumbnail" /\ (ok => Tool(att.file.type, "jpeg") # "none") /\ pc' = "send" /\ att' = att

(* A media function returns, and the files given are removed. *)
Return(ok, gone) ==
  /\ Probe(ok) \/ Convert(ok) \/ Describe(ok) \/ Waveform(ok) \/ Thumbnail(ok)
  /\ files' = files \ gone /\ deferred' = 0 /\ at' = "ready"
  /\ UNCHANGED <<store, asked>>

(* Variant with a fault: the file that cannot be written stays. *)
WriteFailsLeft == at = "writing" /\ Return(FALSE, 1..deferred)

(* createTempFile removes the file it cannot write, whose removal is not   *)
(* deferred yet, and the function returns.                                 *)
WriteFails == at = "writing" /\ Return(FALSE, 1..(deferred + 1))

(* Before the first file, at the creation of any, or at its tool: what is  *)
(* deferred is removed, and nothing else.                                  *)
MediaReturns == at = "ready" /\ \E ok \in BOOLEAN : (ok => deferred = Needed) /\ Return(ok, 1..deferred)

Next ==
  \/ Tick \/ Cleanup \/ Restart
  \/ \E t \in Text : SendText(t)
  \/ \E a \in Attachment : SendFile(a)
  \/ \E m \in Message : Amend(m)
  \/ Amended \/ CreateTempFile \/ Written \/ WriteFails \/ Defer \/ MediaReturns
  \/ Upload \/ UploadFails \/ Send

Spec == Init /\ [][Next]_vars

-----------------------------------------------------------------------------

TypeOK ==
  /\ now \in 0..MaxNow /\ count \in 0..MaxSent
  /\ DOMAIN dates \subseteq Message /\ \A m \in DOMAIN dates : dates[m] \in 0..MaxNow
  /\ DOMAIN sent \subseteq Message /\ \A m \in DOMAIN sent : sent[m] \in 0..MaxNow
  /\ pc \in MediaStep \cup {"idle", "upload", "send", "amend", "panicked"}
  /\ asked \in [text : Text, mime : Mime \cup {""}]
  /\ att \in [mime : Mime \cup {""}, file : File, known : {"nothing", "itself", "source"}]
  /\ files \subseteq 1..2 /\ deferred \in 0..2 /\ at \in {"ready", "writing", "made"}

(* AutoExpiryStore: a message this process has sent may be corrected and   *)
(* retracted for as long as the code means to allow it, however often and  *)
(* late the clean-up runs; of messages it has not sent it knows nothing.   *)
DatesKept ==
  /\ DOMAIN dates \subseteq DOMAIN sent
  /\ \A m \in DOMAIN sent :
       /\ now < sent[m] + EditTime => IsEditable(m)
       /\ now < sent[m] + RetractTime => IsRetractable(m)
       /\ now >= sent[m] + RetractTime => ~ IsRetractable(m)

(* convertAudioVideo, getAudioVideoSpec, GetWaveform, createTempFile: at   *)
(* whichever of their steps a media function fails, with no, one or two    *)
(* files made, written or deferred by then, there is no temporary file     *)
(* once it has returned.                                                   *)
NoLeftovers == pc \notin MediaStep \/ (at = "ready" /\ deferred = 0) => files = {}

(* convertAttachment decides on no conversion that Convert then refuses,   *)
(* and none whose result is not shown as an image, a video or a sound.     *)
SupportedConversion ==
  pc = "convert" =>
    /\ Tool(Conversion.from, Conversion.to) # "none"
    /\ MediaType(Conversion.to) # "document"

(* convertAttachment and uploadAttachment: a type that is not the sender's *)
(* own word is that of the data, save for lossless audio, which is         *)
(* disguised on purpose; and what we make a voice message is Opus.         *)
Announced ==
  /\ att.mime # asked.mime =>
       \/ Base(att.mime) = att.file.type
       \/ att.mime = "octet" /\ att.file.codec = "alac"
  /\ att.mime = "voice" /\ asked.mime # "voice" => att.file.codec = "opus"

(* getMessagePayload panics, and ends the process, for two kinds of text   *)
(* only: an answer to nobody it can name, with a link or a mention; and a  *)
(* place together with anything else.                                      *)
PanicShape ==
  pc = "panicked" =>
    \/ asked.text.reply = "unnamed" /\ (asked.text.preview \/ asked.text.mention)
    \/ asked.text.location = "positive" /\ (asked.text.reply # "none" \/ asked.text.preview \/ asked.text.mention)

=============================================================================
