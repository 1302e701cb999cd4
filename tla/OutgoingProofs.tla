---------------------------- MODULE OutgoingProofs ----------------------------
(***************************************************************************)
(* Proofs about Outgoing, for any number of messages, any clock and any    *)
(* times AutoExpiryStore allows, as long as editing ends no later than     *)
(* retracting (TimesAssumption).                                           *)
(***************************************************************************)
EXTENDS Outgoing, TLAPS

-----------------------------------------------------------------------------
(* The conversion tables. *)

(* event.go decides on conversions media.go knows, to four types, and      *)
(* whatever it learns of the file.                                         *)
LEMMA Targets ==
  ASSUME NEW f \in File, f.type \in Convertible, NEW known \in BOOLEAN
  PROVE  /\ Target(f, known).to \in {"jpeg", "mp4", "voice", "m4a"}
         /\ Tool(Target(f, known).from, Target(f, known).to) # "none"
         /\ MediaType(Target(f, known).to) # "document"
<1>1. /\ f.type \in {"ogg", "m4a", "mp4", "webm", "png", "webp", "gif"}
      /\ f.picture \in BOOLEAN /\ f.animated \in BOOLEAN
  BY DEF File, Convertible, Audio, Video, Image, Type
<1>2. CASE f.type \in {"png", "webp"}
  <2>1. Target(f, known) = [from |-> f.type, to |-> "jpeg"]
    BY <1>2 DEF Target, Video
  <2> QED  BY <1>2, <2>1 DEF Tool, MediaType, Base, Audio, Video, Image
<1>3. CASE f.type = "gif"
  <2>1. Target(f, known) = [from |-> "gif", to |-> IF known /\ f.animated THEN "mp4" ELSE "jpeg"]
    BY <1>3 DEF Target, Video
  <2> QED  BY <1>3, <2>1 DEF Tool, MediaType, Base, Audio, Video, Image
<1>4. CASE f.type = "m4a"
  <2>1. Target(f, known) = [from |-> "m4a", to |-> "voice"]
    BY <1>4 DEF Target, Video
  <2> QED  BY <1>4, <2>1 DEF Tool, MediaType, Base, Audio, Video, Image
<1>5. CASE f.type = "ogg"
  <2>1. Target(f, known) = [from |-> "ogg", to |-> IF known /\ f.codec = "opus" THEN "voice" ELSE "m4a"]
    BY <1>5 DEF Target, Video
  <2> QED  BY <1>5, <2>1 DEF Tool, MediaType, Base, Audio, Video, Image
<1>6. CASE f.type \in Video
  <2>1. f.type \in {"mp4", "webm"}
    BY <1>6 DEF Video
  <2>2. Target(f, known) = IF known /\ ~ f.picture THEN [from |-> "m4a", to |-> "voice"] ELSE [from |-> f.type, to |-> "mp4"]
    BY <2>1, <1>6 DEF Target
  <2> QED  BY <2>1, <2>2 DEF Tool, MediaType, Base, Audio, Video, Image
<1> QED  BY <1>1, <1>2, <1>3, <1>4, <1>5, <1>6 DEF Video

(* No media function has more than two files. *)
LEMMA NeededBound == Needed \in 0..2
<1>1. ProbeFiles(att.file) \in 0..1
  BY DEF ProbeFiles
<1>2. \A tool : ToolFiles(tool) \in {0, 2}
  BY DEF ToolFiles
<1> QED  BY <1>1, <1>2 DEF Needed

LEMMA NeededNext == Needed' \in 0..2
<1>1. ProbeFiles(att'.file) \in 0..1
  BY DEF ProbeFiles
<1>2. \A tool : ToolFiles(tool) \in {0, 2}
  BY DEF ToolFiles
<1> QED  BY <1>1, <1>2 DEF Needed

-----------------------------------------------------------------------------
(* The inductive invariant. *)

(* Between calls there is no attachment; one that is converted is of a     *)
(* type with a conversion.                                                 *)
Staged ==
  /\ pc = "idle" => att = Empty /\ asked = Nothing
  /\ pc \in {"probe", "convert"} => att.file.type \in Convertible

(* The dates are those of the messages sent, and only what is too old to   *)
(* be retracted has been forgotten.                                        *)
Dated ==
  /\ DOMAIN dates \subseteq DOMAIN sent
  /\ \A m \in DOMAIN dates : dates[m] = sent[m]
  /\ \A m \in DOMAIN sent : m \in DOMAIN dates \/ now > sent[m] + RetractTime

(* A file is one whose removal is deferred, or the one that is being made; *)
(* and a media function makes no more than it needs.                       *)
NoTemp == files = {} /\ deferred = 0 /\ at = "ready"
TempTyped == files \subseteq 1..2 /\ deferred \in 0..2 /\ at \in {"ready", "writing", "made"}
Tracked ==
  /\ deferred <= Needed
  /\ at = "ready" => files \subseteq 1..deferred
  /\ at # "ready" => deferred < Needed /\ files \subseteq 1..(deferred + 1)

OutInv == TypeOK /\ Staged /\ Tracked /\ Announced /\ Dated

(* The part of it that is about the running call. *)
CallOK ==
  /\ pc \in MediaStep \cup {"idle", "upload", "send", "amend", "panicked"}
  /\ asked \in [text : Text, mime : Mime \cup {""}]
  /\ att \in [mime : Mime \cup {""}, file : File, known : {"nothing", "itself", "source"}]
  /\ TempTyped /\ Staged /\ Tracked /\ Announced

LEMMA EmptyTyped ==
  /\ Nothing \in [text : Text, mime : Mime \cup {""}]
  /\ Empty \in [mime : Mime \cup {""}, file : File, known : {"nothing", "itself", "source"}]
<1>1. NoFile \in File
  BY DEF NoFile, File, Type, Audio, Video, Image
<1> QED  BY <1>1 DEF Empty, Nothing, NoText, Text

LEMMA OutInit == Init => OutInv
<1> SUFFICES ASSUME Init PROVE OutInv
  OBVIOUS
<1>1. DOMAIN dates = {} /\ DOMAIN sent = {}
  BY DEF Init
<1>2. now \in 0..MaxNow /\ count \in 0..MaxSent /\ files \subseteq 1..2 /\ deferred \in 0..2
  BY BoundsAssumption DEF Init
<1>3. TypeOK
  BY <1>1, <1>2, EmptyTyped DEF Init, TypeOK
<1>4. Staged /\ Announced /\ Dated
  BY <1>1 DEF Init, Staged, Announced, Dated, Empty, Nothing
<1>5. Tracked
  BY NeededBound DEF Init, Tracked
<1> QED  BY <1>3, <1>4, <1>5 DEF OutInv

(* Without files nothing is left over, wherever the call is. *)
LEMMA NoneLeft ==
  ASSUME NoTemp'
  PROVE  Tracked' /\ TempTyped'
<1>1. 0 <= Needed'
  BY NeededNext
<1>2. Tracked'
  BY <1>1 DEF NoTemp, Tracked
<1>3. TempTyped'
  BY DEF NoTemp, TempTyped
<1> QED  BY <1>2, <1>3

(* What the invariant says of clock, dates and count, in numbers.          *)
LEMMA Stored ==
  ASSUME OutInv
  PROVE  /\ now \in Nat /\ now <= MaxNow /\ MaxNow \in Nat /\ MaxSent \in Nat
         /\ count \in Nat /\ count <= MaxSent
         /\ DOMAIN dates \subseteq Message /\ \A m \in DOMAIN dates : dates[m] \in Nat /\ dates[m] <= MaxNow
         /\ DOMAIN sent \subseteq Message /\ \A m \in DOMAIN sent : sent[m] \in Nat /\ sent[m] <= MaxNow
<1>1. /\ now \in 0..MaxNow /\ count \in 0..MaxSent
      /\ DOMAIN dates \subseteq Message /\ \A m \in DOMAIN dates : dates[m] \in 0..MaxNow
      /\ DOMAIN sent \subseteq Message /\ \A m \in DOMAIN sent : sent[m] \in 0..MaxNow
  BY DEF OutInv, TypeOK
<1> QED  BY <1>1, BoundsAssumption

-----------------------------------------------------------------------------
(* Steps of AutoExpiryStore and the clock leave the call alone.            *)

LEMMA CallUntouched ==
  ASSUME OutInv, UNCHANGED <<pc, asked, att, temp>>
  PROVE  CallOK'
<1>1. Staged' /\ Announced'
  BY DEF OutInv, Staged, Announced
<1>2. UNCHANGED <<files, deferred, at>> /\ Needed' = Needed
  BY DEF temp, Needed, Conversion
<1>3. Tracked' /\ TempTyped'
  BY <1>2 DEF OutInv, TypeOK, Tracked, TempTyped
<1> QED  BY <1>1, <1>3 DEF OutInv, TypeOK, CallOK

(* Steps of a call but the last leave the dates alone.                     *)
LEMMA StoreUntouched ==
  ASSUME OutInv, UNCHANGED store
  PROVE  /\ Dated'
         /\ now' \in 0..MaxNow /\ count' \in 0..MaxSent
         /\ DOMAIN dates' \subseteq Message /\ \A m \in DOMAIN dates' : dates'[m] \in 0..MaxNow
         /\ DOMAIN sent' \subseteq Message /\ \A m \in DOMAIN sent' : sent'[m] \in 0..MaxNow
<1>1. Dated'
  BY DEF OutInv, Dated, store
<1> QED  BY <1>1 DEF OutInv, TypeOK, store

(* A call that ends leaves nothing.                                        *)
LEMMA CallEnds ==
  ASSUME pc' = "idle", asked' = Nothing, att' = Empty, NoTemp'
  PROVE  CallOK'
<1>1. Staged' /\ Announced'
  BY DEF Staged, Announced, Empty, Nothing
<1>2. pc' \in MediaStep \cup {"idle", "upload", "send", "amend", "panicked"}
  OBVIOUS
<1> QED  BY <1>1, <1>2, NoneLeft, EmptyTyped, Zenon DEF CallOK

(* Outside media functions there are no temporary files.                   *)
LEMMA NoFiles ==
  ASSUME OutInv, pc \notin MediaStep
  PROVE  NoTemp
<1>1. Needed = 0
  BY DEF Needed, MediaStep
<1>2. Tracked /\ deferred \in 0..2
  BY DEF OutInv, TypeOK
<1>3. deferred = 0 /\ at = "ready"
  BY <1>1, <1>2 DEF Tracked
<1>4. files \subseteq 1..0
  BY <1>2, <1>3 DEF Tracked
<1> QED  BY <1>3, <1>4 DEF NoTemp

LEMMA TickInv == OutInv /\ Tick => OutInv'
<1> SUFFICES ASSUME OutInv, Tick PROVE OutInv'
  OBVIOUS
<1>1. UNCHANGED <<pc, asked, att, temp, dates, sent, count>> /\ now' = now + 1 /\ now < MaxNow
  BY DEF Tick
<1>2. now' \in 0..MaxNow
  BY <1>1, Stored
<1>3. Dated'
  <2>1. \A m \in DOMAIN sent : now > sent[m] + RetractTime => now + 1 > sent[m] + RetractTime
    BY Stored, TimesAssumption
  <2> QED  BY <1>1, <2>1 DEF OutInv, Dated
<1>4. TypeOK'
  BY <1>1, <1>2, CallUntouched DEF CallOK, TempTyped, OutInv, TypeOK
<1> QED  BY <1>1, <1>3, <1>4, CallUntouched DEF CallOK, OutInv

(* The clean-up forgets what is too old to be retracted.                   *)
LEMMA CleanupInv == OutInv /\ Cleanup => OutInv'
<1> SUFFICES ASSUME OutInv, Cleanup PROVE OutInv'
  OBVIOUS
<1>1. UNCHANGED <<pc, asked, att, temp, now, sent, count>>
  BY DEF Cleanup
<1>2. PICK kept : /\ kept = {m \in DOMAIN dates : now <= dates[m] + RetractTime}
                  /\ dates' = [m \in kept |-> dates[m]]
  BY DEF Cleanup
<1>3. DOMAIN dates' = kept /\ \A m \in kept : dates'[m] = dates[m]
  BY <1>2
<1>4. \A m \in DOMAIN dates : m \notin kept => now > sent[m] + RetractTime
  <2>1. \A m \in DOMAIN dates : dates[m] = sent[m]
    BY DEF OutInv, Dated
  <2> QED  BY <1>2, <2>1, Stored, TimesAssumption
<1>5. Dated'
  BY <1>1, <1>2, <1>3, <1>4 DEF OutInv, Dated
<1>6. TypeOK'
  BY <1>1, <1>2, <1>3, CallUntouched DEF CallOK, TempTyped, OutInv, TypeOK
<1> QED  BY <1>1, <1>5, <1>6, CallUntouched DEF CallOK, OutInv

LEMMA RestartInv == OutInv /\ Restart => OutInv'
<1> SUFFICES ASSUME OutInv, Restart PROVE OutInv'
  OBVIOUS
<1>1. DOMAIN dates' = {} /\ DOMAIN sent' = {}
  BY DEF Restart
<1>2. Dated'
  BY <1>1 DEF Dated
<1>3. CallOK'
  BY CallEnds DEF Restart, NoTemp
<1>4. TypeOK'
  BY <1>1, <1>3 DEF CallOK, TempTyped, Restart, OutInv, TypeOK
<1> QED  BY <1>2, <1>3, <1>4 DEF CallOK, OutInv

(* A call that fails changes no date.                                      *)
LEMMA FailedInv == OutInv /\ pc \notin MediaStep /\ Failed => OutInv'
<1> SUFFICES ASSUME OutInv, pc \notin MediaStep, Failed PROVE OutInv'
  OBVIOUS
<1>1. CallOK' /\ UNCHANGED store
  BY NoFiles, CallEnds DEF Failed, NoTemp, temp
<1>2. TypeOK'
  BY <1>1, StoreUntouched DEF CallOK, TempTyped, TypeOK
<1> QED  BY <1>1, <1>2, StoreUntouched DEF CallOK, OutInv

(* A message that is sent is dated now.                                    *)
LEMMA SendInv == OutInv /\ Send => OutInv'
<1> SUFFICES ASSUME OutInv, Send, Succeeded PROVE OutInv'
  BY FailedInv DEF Send, MediaStep
<1>1. /\ count' = count + 1 /\ count' \in Message /\ count' \in 0..MaxSent /\ now' = now
  <2>1. count < MaxSent /\ count' = count + 1 /\ now' = now
    BY DEF Send, Succeeded
  <2> QED  BY <2>1, Stored DEF Message
<1>2. /\ DOMAIN dates' = DOMAIN dates \cup {count'}
      /\ \A m \in DOMAIN dates' : dates'[m] = IF m = count' THEN now ELSE dates[m]
      /\ DOMAIN sent' = DOMAIN sent \cup {count'}
      /\ \A m \in DOMAIN sent' : sent'[m] = IF m = count' THEN now ELSE sent[m]
  BY DEF Succeeded
<1>3. Dated'
  BY <1>1, <1>2 DEF OutInv, Dated
<1>4. CallOK'
  BY NoFiles, CallEnds DEF Send, MediaStep, Succeeded, NoTemp, temp
<1>5. TypeOK'
  BY <1>1, <1>2, <1>4 DEF CallOK, TempTyped, OutInv, TypeOK
<1> QED  BY <1>3, <1>4, <1>5 DEF CallOK, OutInv

-----------------------------------------------------------------------------
(* Steps within a call. *)

LEMMA WithinCall == OutInv /\ UNCHANGED store /\ CallOK' => OutInv'
<1> SUFFICES ASSUME OutInv, UNCHANGED store, CallOK' PROVE OutInv'
  OBVIOUS
<1>1. TypeOK'
  BY StoreUntouched DEF CallOK, TempTyped, TypeOK
<1> QED  BY <1>1, StoreUntouched DEF CallOK, OutInv

(* A step to another place without files: what is left to show.            *)
LEMMA MovesOn ==
  ASSUME OutInv, UNCHANGED store, NoTemp',
         pc' \in MediaStep \cup {"upload", "send", "amend", "panicked"},
         asked' \in [text : Text, mime : Mime \cup {""}],
         att' \in [mime : Mime \cup {""}, file : File, known : {"nothing", "itself", "source"}],
         Announced',
         pc' \in {"probe", "convert"} => att'.file.type \in Convertible
  PROVE  OutInv'
<1>1. Tracked' /\ TempTyped'
  BY NoneLeft
<1>2. Staged'
  BY DEF Staged, MediaStep
<1>3. CallOK'
  BY <1>1, <1>2 DEF CallOK
<1> QED  BY <1>3, WithinCall

LEMMA SendTextInv == ASSUME OutInv, NEW t \in Text, SendText(t) PROVE OutInv'
<1>1. /\ pc = "idle" /\ att = Empty /\ att' = Empty /\ UNCHANGED store
      /\ pc' \in {"panicked", "send"} /\ asked'.mime = ""
  BY DEF SendText, OutInv, Staged, Nothing, store
<1>2. asked' \in [text : Text, mime : Mime \cup {""}]
  BY DEF SendText, Nothing
<1>3. NoTemp'
  BY <1>1, NoFiles DEF MediaStep, SendText, NoTemp, temp
<1>4. Announced'
  BY <1>1 DEF Announced, Empty
<1> QED  BY <1>1, <1>2, <1>3, <1>4, EmptyTyped, MovesOn

LEMMA AmendInv == ASSUME OutInv, NEW m \in Message, Amend(m) PROVE OutInv'
<1>1. /\ pc = "idle" /\ att' = Empty /\ UNCHANGED store
      /\ pc' = "amend" /\ asked' = Nothing
  BY DEF Amend, OutInv, Staged, store
<1>2. NoTemp'
  BY <1>1, NoFiles DEF MediaStep, Amend, NoTemp, temp
<1>3. Announced'
  BY <1>1 DEF Announced, Empty, Nothing
<1> QED  BY <1>1, <1>2, <1>3, EmptyTyped, MovesOn

LEMMA SendFileInv == ASSUME OutInv, NEW a \in Attachment, SendFile(a) PROVE OutInv'
<1>1. /\ pc = "idle" /\ UNCHANGED store
      /\ asked' = [Nothing EXCEPT !.mime = a.mime]
      /\ att'.mime \in {a.mime, a.file.type} /\ att'.file = a.file /\ att'.known = "nothing"
      /\ att' = [mime |-> att'.mime, file |-> a.file, known |-> "nothing"]
      /\ pc' \in {"upload", "probe", "convert"}
      /\ pc' \in {"probe", "convert"} => a.file.type \in Convertible
  <2>1. pc = "idle" /\ UNCHANGED <<now, dates, sent, count>> /\ asked' = [Nothing EXCEPT !.mime = a.mime]
    BY DEF SendFile
  <2>2. \E m \in {a.mime, a.file.type} : att' = [mime |-> m, file |-> a.file, known |-> "nothing"]
    BY DEF SendFile
  <2>3. pc' \in {"upload", "probe", "convert"} /\ (pc' \in {"probe", "convert"} => a.file.type \in Convertible)
    BY DEF SendFile
  <2> QED  BY <2>1, <2>2, <2>3 DEF store
<1>2. a.mime \in Mime \cup {""} /\ a.file \in File /\ a.file.type \in Type
  BY DEF Attachment, File
<1>3. a.file.type # "voice" /\ a.file.type \in Mime
  BY <1>2 DEF Type, Mime, Audio, Video, Image
<1>4. NoTemp'
  BY <1>1, NoFiles DEF MediaStep, SendFile, NoTemp, temp
<1>5. asked'.mime = a.mime /\ asked' \in [text : Text, mime : Mime \cup {""}]
  BY <1>1, <1>2, EmptyTyped DEF Nothing
<1>6. Announced'
  BY <1>1, <1>2, <1>3, <1>5 DEF Announced, Base
<1>7. att' \in [mime : Mime \cup {""}, file : File, known : {"nothing", "itself", "source"}]
  BY <1>1, <1>2, <1>3
<1> QED  BY <1>1, <1>4, <1>5, <1>6, <1>7, MovesOn DEF MediaStep

(* Steps of a media function that is not returning yet.                    *)
LEMMA WithinFunction ==
  ASSUME OutInv, UNCHANGED <<store, pc, asked, att>>, Tracked', TempTyped'
  PROVE  OutInv'
<1>1. Staged' /\ Announced'
  BY DEF OutInv, Staged, Announced
<1>2. CallOK'
  BY <1>1 DEF CallOK, OutInv, TypeOK
<1> QED  BY <1>2, WithinCall

LEMMA CreateTempFileInv == OutInv /\ CreateTempFile => OutInv'
<1> SUFFICES ASSUME OutInv, CreateTempFile PROVE OutInv'
  OBVIOUS
<1>1. /\ at = "ready" /\ deferred < Needed /\ Needed' = Needed
      /\ files' = files \cup {deferred + 1} /\ deferred' = deferred /\ at' \in {"writing", "made"}
      /\ UNCHANGED <<store, pc, asked, att>>
  BY DEF CreateTempFile, Needed, Conversion
<1>2. files \subseteq 1..deferred /\ deferred \in 0..2
  BY <1>1 DEF OutInv, TypeOK, Tracked
<1>3. files' \subseteq 1..(deferred + 1) /\ deferred + 1 \in 1..2
  BY <1>1, <1>2, NeededBound
<1>4. Tracked' /\ TempTyped'
  BY <1>1, <1>2, <1>3, NeededBound DEF Tracked, TempTyped
<1> QED  BY <1>1, <1>4, WithinFunction

LEMMA WrittenInv == OutInv /\ Written => OutInv'
<1> SUFFICES ASSUME OutInv, Written PROVE OutInv'
  OBVIOUS
<1>1. /\ at = "writing" /\ at' = "made" /\ UNCHANGED <<files, deferred>> /\ Needed' = Needed
      /\ UNCHANGED <<store, pc, asked, att>>
  BY DEF Written, Needed, Conversion
<1>2. Tracked' /\ TempTyped'
  BY <1>1 DEF OutInv, TypeOK, Tracked, TempTyped
<1> QED  BY <1>1, <1>2, WithinFunction

(* The file that was being made is now one whose removal is deferred.      *)
LEMMA DeferInv == OutInv /\ Defer => OutInv'
<1> SUFFICES ASSUME OutInv, Defer PROVE OutInv'
  OBVIOUS
<1>1. /\ at = "made" /\ at' = "ready" /\ deferred' = deferred + 1 /\ files' = files /\ Needed' = Needed
      /\ UNCHANGED <<store, pc, asked, att>>
  BY DEF Defer, Needed, Conversion
<1>2. deferred < Needed /\ files \subseteq 1..(deferred + 1) /\ deferred \in 0..2 /\ files \subseteq 1..2
  BY <1>1 DEF OutInv, TypeOK, Tracked
<1>3. Tracked' /\ TempTyped'
  BY <1>1, <1>2, NeededBound DEF Tracked, TempTyped
<1> QED  BY <1>1, <1>3, WithinFunction

LEMMA UploadInv == OutInv /\ Upload => OutInv'
<1> SUFFICES ASSUME OutInv, Upload PROVE OutInv'
  OBVIOUS
<1>1. /\ pc = "upload" /\ UNCHANGED <<asked, att, temp>> /\ UNCHANGED store
      /\ pc' \in {"thumbnail", "describe", "send"}
  BY DEF Upload, store
<1>2. NoTemp'
  BY <1>1, NoFiles DEF MediaStep, NoTemp, temp
<1>3. Announced'
  BY <1>1 DEF OutInv, Announced
<1> QED  BY <1>1, <1>2, <1>3, MovesOn DEF OutInv, TypeOK, MediaStep

-----------------------------------------------------------------------------
(* The end of a media function. *)

LEMMA ProbeInv ==
  ASSUME OutInv, NEW ok \in BOOLEAN, Probe(ok), NoTemp', UNCHANGED <<store, asked>>
  PROVE  OutInv'
<1>1. /\ pc = "probe" /\ att.file.type \in Convertible
      /\ pc' \in {"upload", "convert"} /\ UNCHANGED store /\ asked' = asked
      /\ att \in [mime : Mime \cup {""}, file : File, known : {"nothing", "itself", "source"}]
      /\ asked \in [text : Text, mime : Mime \cup {""}]
  BY DEF Probe, OutInv, Staged, TypeOK, store
<1>2. \E known \in {"itself", "nothing"}, mime \in {att.mime, "octet"} :
        /\ att' = [att EXCEPT !.known = known, !.mime = mime]
        /\ mime = att.mime \/ (mime = "octet" /\ att.file.codec = "alac")
  <2>1. CASE ok /\ att.file.type = "m4a" /\ att.file.codec = "alac"
    <3>1. att' = [att EXCEPT !.known = "itself", !.mime = "octet"]
      BY <2>1 DEF Probe
    <3> QED  BY <2>1, <3>1
  <2>2. CASE ~ (ok /\ att.file.type = "m4a" /\ att.file.codec = "alac")
    <3>1. att' = [att EXCEPT !.known = IF ok THEN "itself" ELSE "nothing", !.mime = att.mime]
      BY <2>2 DEF Probe
    <3> QED  BY <3>1
  <2> QED  BY <2>1, <2>2
<1>3. "octet" \in Mime \cup {""}
  BY DEF Mime
<1>4. /\ att' \in [mime : Mime \cup {""}, file : File, known : {"nothing", "itself", "source"}]
      /\ att'.file = att.file
      /\ att'.mime = att.mime \/ (att'.mime = "octet" /\ att.file.codec = "alac")
  <2>1. PICK known \in {"itself", "nothing"}, mime \in {att.mime, "octet"} :
          /\ att' = [att EXCEPT !.known = known, !.mime = mime]
          /\ mime = att.mime \/ (mime = "octet" /\ att.file.codec = "alac")
    BY <1>2
  <2>2. mime \in Mime \cup {""}
    BY <1>1, <1>3
  <2> QED  BY <1>1, <2>1, <2>2
<1>5. Announced'
  BY <1>1, <1>4 DEF OutInv, Announced
<1> QED  BY <1>1, <1>4, <1>5, MovesOn DEF MediaStep

LEMMA ConvertInv ==
  ASSUME OutInv, NEW ok \in BOOLEAN, Convert(ok), NoTemp', UNCHANGED <<store, asked>>
  PROVE  OutInv'
<1>1. /\ pc = "convert" /\ att.file.type \in Convertible
      /\ pc' = "upload" /\ UNCHANGED store /\ asked' = asked
      /\ att \in [mime : Mime \cup {""}, file : File, known : {"nothing", "itself", "source"}]
      /\ asked \in [text : Text, mime : Mime \cup {""}]
  BY DEF Convert, OutInv, Staged, TypeOK, store
<1>2. CASE ~ ok
  <2>1. att' = att
    BY <1>2 DEF Convert
  <2>2. Announced'
    BY <1>1, <2>1 DEF OutInv, Announced
  <2> QED  BY <1>1, <2>1, <2>2, MovesOn
<1>3. CASE ok
  <2> DEFINE to == Conversion.to
             made == [type |-> Base(to), codec |-> IF to = "voice" THEN "opus" ELSE "other",
                      picture |-> Base(to) \in Video, animated |-> FALSE, size |-> 1]
  <2>1. to \in {"jpeg", "mp4", "voice", "m4a"}
    BY <1>1, Targets DEF Conversion
  <2>2. /\ att'.mime = to /\ att'.file = made
        /\ \E known \in {"nothing", "source"} : att' = [mime |-> to, file |-> made, known |-> known]
    BY <1>3 DEF Convert
  <2>3. made \in File /\ to \in Mime
    <3>1. to \in Mime /\ Base(to) \in Type /\ to # "" /\ (to = "voice" => Base(to) = "ogg")
      BY <2>1 DEF Base, Type, Mime, Audio, Video, Image
    <3>2. \A t \in Type, c \in {"opus", "other"} :
            (c = "opus" => t = "ogg") =>
               [type |-> t, codec |-> c, picture |-> t \in Video, animated |-> FALSE, size |-> 1] \in File
      <4> SUFFICES ASSUME NEW t \in Type, NEW c \in {"opus", "other"}, c = "opus" => t = "ogg"
                   PROVE  [type |-> t, codec |-> c, picture |-> t \in Video, animated |-> FALSE, size |-> 1] \in File
        OBVIOUS
      <4> DEFINE f == [type |-> t, codec |-> c, picture |-> t \in Video, animated |-> FALSE, size |-> 1]
      <4>1. f.type = t /\ f.codec = c /\ f.picture = (t \in Video) /\ f.animated = FALSE /\ f.size = 1
        OBVIOUS
      <4>2. f \in [type : Type, codec : {"opus", "alac", "other"}, picture : BOOLEAN, animated : BOOLEAN, size : 0..3]
        <5>1. (t \in Video) \in BOOLEAN /\ 1 \in 0..3
          OBVIOUS
        <5> QED  BY <5>1, Zenon
      <4> HIDE DEF f
      <4> QED  BY <4>1, <4>2 DEF File, Audio
    <3> HIDE DEF to
    <3> QED  BY <3>1, <3>2
  <2>4. Announced'
    <3> HIDE DEF to
    <3> QED  BY <2>1, <2>2 DEF Announced
  <2>5. att' \in [mime : Mime \cup {""}, file : File, known : {"nothing", "itself", "source"}]
    <3>1. PICK known \in {"nothing", "source"} : att' = [mime |-> to, file |-> made, known |-> known]
      BY <2>2
    <3> HIDE DEF to, made
    <3> QED  BY <2>3, <3>1
  <2> QED  BY <1>1, <2>4, <2>5, MovesOn
<1> QED  BY <1>2, <1>3

LEMMA ReturnInv ==
  ASSUME OutInv, NEW ok \in BOOLEAN, NEW gone, Return(ok, gone), files \subseteq gone
  PROVE  OutInv'
<1>1. /\ NoTemp' /\ UNCHANGED <<store, asked>>
      /\ att \in [mime : Mime \cup {""}, file : File, known : {"nothing", "itself", "source"}]
      /\ asked' \in [text : Text, mime : Mime \cup {""}]
  BY DEF Return, NoTemp, OutInv, TypeOK
<1>2. Probe(ok) \/ Convert(ok) \/ Describe(ok) \/ Waveform(ok) \/ Thumbnail(ok)
  BY DEF Return
<1>3. CASE Describe(ok) \/ Waveform(ok) \/ Thumbnail(ok)
  <2>1. /\ att' \in [mime : Mime \cup {""}, file : File, known : {"nothing", "itself", "source"}]
        /\ att'.mime = att.mime /\ att'.file = att.file
        /\ pc' \in {"thumbnail", "waveform", "send"}
    BY <1>1, <1>3 DEF Describe, Waveform, Thumbnail
  <2>2. Announced'
    BY <1>1, <2>1 DEF OutInv, Announced
  <2> QED  BY <1>1, <2>1, <2>2, MovesOn DEF MediaStep
<1> QED  BY <1>1, <1>2, <1>3, ProbeInv, ConvertInv

(* Whichever file is there, the function that returns has deferred its     *)
(* removal, or createTempFile removes it.                                  *)
LEMMA MediaReturnsInv == OutInv /\ (MediaReturns \/ WriteFails) => OutInv'
<1> SUFFICES ASSUME OutInv, MediaReturns \/ WriteFails PROVE OutInv'
  OBVIOUS
<1>1. CASE MediaReturns
  <2>1. at = "ready" /\ files \subseteq 1..deferred
    BY <1>1 DEF MediaReturns, OutInv, Tracked
  <2> QED  BY <1>1, <2>1, ReturnInv DEF MediaReturns
<1>2. CASE WriteFails
  <2>1. at = "writing" /\ files \subseteq 1..(deferred + 1)
    BY <1>2 DEF WriteFails, OutInv, Tracked
  <2> QED  BY <1>2, <2>1, ReturnInv DEF WriteFails
<1> QED  BY <1>1, <1>2

-----------------------------------------------------------------------------

LEMMA OutNext == OutInv /\ [Next]_vars => OutInv'
<1> SUFFICES ASSUME OutInv, [Next]_vars PROVE OutInv'
  OBVIOUS
<1>1. CASE UNCHANGED vars
  <2>1. UNCHANGED store /\ UNCHANGED <<pc, asked, att, temp>>
    BY <1>1 DEF vars, store, temp
  <2> QED  BY <2>1, CallUntouched, WithinCall
<1>2. CASE Amended \/ UploadFails
  BY <1>2, FailedInv DEF Amended, UploadFails, MediaStep
<1> QED
  BY <1>1, <1>2, TickInv, CleanupInv, RestartInv, SendTextInv, SendFileInv, AmendInv, CreateTempFileInv,
     WrittenInv, DeferInv, MediaReturnsInv, UploadInv, SendInv DEF Next

LEMMA OutAlways == Spec => []OutInv
  BY OutInit, OutNext, PTL DEF Spec

(* Every reachable state is of its type; no function has more than two     *)
(* temporary files.                                                        *)
THEOREM OutgoingTypeCorrect == Spec => []TypeOK
<1>1. OutInv => TypeOK
  BY DEF OutInv
<1> QED  BY <1>1, OutAlways, PTL

(* At whichever step a media function fails, and whatever was sent before, *)
(* there is no temporary file once it has returned.                        *)
THEOREM NoFileLeft == Spec => []NoLeftovers
<1>1. ASSUME OutInv PROVE NoLeftovers
  <2>1. CASE pc \notin MediaStep
    BY <1>1, <2>1, NoFiles DEF NoTemp, NoLeftovers
  <2>2. CASE at = "ready" /\ deferred = 0
    <3>1. files \subseteq 1..0
      BY <1>1, <2>2 DEF OutInv, Tracked
    <3> QED  BY <3>1 DEF NoLeftovers
  <2> QED  BY <2>1, <2>2 DEF NoLeftovers
<1> QED  BY <1>1, OutAlways, PTL

(* convertAttachment and Convert agree, whatever the file.                 *)
THEOREM ConversionsExist == Spec => []SupportedConversion
<1>1. OutInv => SupportedConversion
  <2>1. ASSUME OutInv, pc = "convert" PROVE att.file.type \in Convertible /\ att.file \in File
    BY <2>1 DEF OutInv, Staged, TypeOK
  <2> QED  BY <2>1, Targets DEF SupportedConversion, Conversion
<1> QED  BY <1>1, OutAlways, PTL

(* What is uploaded is announced as what it is.                            *)
THEOREM AnnouncedAsIs == Spec => []Announced
<1>1. OutInv => Announced
  BY DEF OutInv
<1> QED  BY <1>1, OutAlways, PTL

(* For any times allowed: a message this process has sent may be corrected *)
(* and retracted exactly as long as AutoExpiryStore means to allow it.     *)
THEOREM DatesAreKept == Spec => []DatesKept
<1>1. ASSUME OutInv PROVE DatesKept
  <2>1. DOMAIN dates \subseteq DOMAIN sent
    BY <1>1 DEF OutInv, Dated
  <2>2. ASSUME NEW m \in DOMAIN sent
        PROVE  /\ now < sent[m] + EditTime => IsEditable(m)
               /\ now < sent[m] + RetractTime => IsRetractable(m)
               /\ now >= sent[m] + RetractTime => ~ IsRetractable(m)
    <3>1. m \in DOMAIN dates => dates[m] = sent[m]
      BY <1>1 DEF OutInv, Dated
    <3>2. m \in DOMAIN dates \/ now > sent[m] + RetractTime
      BY <1>1 DEF OutInv, Dated
    <3>3. now \in Nat /\ sent[m] \in Nat
      BY <1>1, Stored
    <3> QED  BY <3>1, <3>2, <3>3, TimesAssumption DEF IsEditable, IsRetractable, IsNewerThan
  <2> QED  BY <2>1, <2>2 DEF DatesKept
<1> QED  BY <1>1, OutAlways, PTL

(* For which texts the payload cannot be made. *)
LEMMA PanicText ==
  ASSUME NEW t \in Text, Payload(t) = "panic"
  PROVE  \/ t.reply = "unnamed" /\ (t.preview \/ t.mention)
         \/ t.location = "positive" /\ (t.reply # "none" \/ t.preview \/ t.mention)
<1>1. t.reply \in {"none", "named", "unnamed"}
  BY DEF Text
<1>2. Quoted(t) \in {"nil", "extended", "plain"} /\ (Quoted(t) = "nil" <=> t.reply = "none")
      /\ (Quoted(t) = "plain" <=> t.reply = "unnamed")
  BY <1>1 DEF Quoted
<1>3. MakesExtended(t) <=> t.preview \/ t.mention
  BY DEF MakesExtended
<1> QED  BY <1>1, <1>2, <1>3 DEF Payload

(* Only a text brings the process down, and it stays down.                 *)
LEMMA PanicNext == PanicShape /\ [Next]_vars => PanicShape'
<1> SUFFICES ASSUME PanicShape, [Next]_vars, pc' = "panicked"
             PROVE  \/ asked'.text.reply = "unnamed" /\ (asked'.text.preview \/ asked'.text.mention)
                    \/ /\ asked'.text.location = "positive"
                       /\ asked'.text.reply # "none" \/ asked'.text.preview \/ asked'.text.mention
  BY DEF PanicShape
<1>1. CASE UNCHANGED <<pc, asked>>
  BY <1>1 DEF PanicShape
<1>2. ASSUME NEW t \in Text, SendText(t)
      PROVE  asked'.text = t /\ Payload(t) = "panic"
  BY <1>2 DEF SendText, Nothing
<1>3. CASE \E t \in Text : SendText(t)
  BY <1>2, <1>3, PanicText
<1>4. CASE UNCHANGED vars \/ Tick \/ Cleanup \/ CreateTempFile \/ Written \/ Defer
  BY <1>1, <1>4 DEF vars, Tick, Cleanup, CreateTempFile, Written, Defer
<1>5. ~ (Restart \/ Amended \/ Upload \/ UploadFails \/ Send)
  BY DEF Restart, Amended, Upload, UploadFails, Send, Succeeded, Failed
<1>6. ~ (MediaReturns \/ WriteFails)
  BY DEF MediaReturns, WriteFails, Return, Probe, Convert, Describe, Waveform, Thumbnail
<1>7. \A a \in Attachment : ~ SendFile(a)
  BY DEF SendFile
<1>8. \A m \in Message : ~ Amend(m)
  BY DEF Amend
<1> QED  BY <1>3, <1>4, <1>5, <1>6, <1>7, <1>8 DEF Next

(* Whatever is sent before, only the texts PanicShape names end the process. *)
THEOREM PanicsOnlyThese == Spec => []PanicShape
<1>1. Init => PanicShape
  BY DEF Init, PanicShape
<1> QED  BY <1>1, PanicNext, PTL DEF Spec

=============================================================================
