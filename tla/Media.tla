-------------------------------- MODULE Media --------------------------------
(***************************************************************************)
(* The conversions package media knows (media.go), and those event.go asks *)
(* it for.  No state: Outgoing takes the steps.                            *)
(***************************************************************************)
EXTENDS Naturals

Audio == {"ogg", "m4a"}
Video == {"mp4", "webm"}
Image == {"jpeg", "png", "webp"}
Type == Audio \cup Video \cup Image \cup {"gif", "pdf", "other"}

(* "voice" is Ogg with the parameter WhatsApp wants for voice messages.    *)
Mime == Type \cup {"voice", "octet"}
Base(mime) == IF mime = "voice" THEN "ogg" ELSE mime

(* What a file is found to be; size in units of the limit on images.       *)
File ==
  {f \in [type : Type, codec : {"opus", "alac", "other"}, picture : BOOLEAN, animated : BOOLEAN, size : 0..3] :
    /\ f.codec # "other" => f.type \in Audio \cup Video
    /\ f.picture => f.type \in Video
    /\ f.animated => f.type = "gif"
    /\ f.size = 0 => f.type = "other"}

MaxConvertImage == 1
MaxConvertAudioVideo == 2
Convertible == Audio \cup Video \cup {"png", "webp", "gif"}
TooLarge(f) == f.size > IF f.type \in Audio \cup Video THEN MaxConvertAudioVideo ELSE MaxConvertImage

(* convertAttachment asks for the metadata of these before it decides.     *)
Probed == Audio \cup Video \cup {"gif"}

(* The conversion it decides on, given whether it got the metadata.        *)
Target(f, known) ==
  CASE f.type \in {"png", "webp"} -> [from |-> f.type, to |-> "jpeg"]
    [] f.type = "gif" -> [from |-> "gif", to |-> IF known /\ f.animated THEN "mp4" ELSE "jpeg"]
    [] f.type = "m4a" -> [from |-> "m4a", to |-> "voice"]
    [] f.type = "ogg" -> [from |-> "ogg", to |-> IF known /\ f.codec = "opus" THEN "voice" ELSE "m4a"]
    [] f.type \in Video -> IF known /\ ~ f.picture THEN [from |-> "m4a", to |-> "voice"]
                                                   ELSE [from |-> f.type, to |-> "mp4"]

(* Variant with a fault: WebM is no source for FFmpeg. *)
ToolNoWebM(from, to) ==
  CASE from \in Audio /\ Base(to) \in Audio -> "ffmpeg"
    [] from = "mp4" /\ to \in {"mp4", "jpeg"} -> "ffmpeg"
    [] from = "gif" /\ to = "mp4" -> "ffmpeg"
    [] from \in Image \cup {"gif"} /\ to \in {"jpeg", "png"} -> "image"
    [] OTHER -> "none"

(* Convert: what does a conversion.  FFmpeg is given arguments for every   *)
(* target named here; "document" fails in builds without MuPDF.            *)
Tool(from, to) ==
  CASE from \in Audio /\ Base(to) \in Audio -> "ffmpeg"
    [] from \in Video /\ to \in {"mp4", "jpeg"} -> "ffmpeg"
    [] from = "gif" /\ to = "mp4" -> "ffmpeg"
    [] from \in Image \cup {"gif"} /\ to \in {"jpeg", "png"} -> "image"
    [] from = "pdf" /\ to \in {"jpeg", "png"} -> "document"
    [] OTHER -> "none"

(* knownMediaTypes: how WhatsApp is to show an attachment.                 *)
MediaType(mime) ==
  CASE mime = "jpeg" -> "image"
    [] mime \in Audio \cup {"voice"} -> "audio"
    [] mime = "mp4" -> "video"
    [] OTHER -> "document"
==============================================================================
