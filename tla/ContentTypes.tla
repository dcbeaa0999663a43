---------------------------- MODULE ContentTypes ----------------------------
(* The content type of an upload: sniffed from the content (src/upload.rs),
   taken from the client or from the name, settled for the database, and turned
   into what a download answers (src/handlers.rs).  A media type is its two
   parts; NoMime stands for None.  What the mime_guess and file_type crates say
   of a name or of a signature is part of the file. *)

Mime(type, subtype) == [type |-> type, subtype |-> subtype]
NoMime == Mime("", "")
Octet == Mime("application", "octet-stream")
TextPlain == Mime("text", "plain")

OrElse(a, b) == IF a = NoMime THEN b ELSE a

-----------------------------------------------------------------------------
\* A file type of the crate: what mime_guess has for its extensions, and the
\* first media type it names itself.
ResolveMime(ft) ==
  OrElse(ft.byExtension, IF ft.media = Octet THEN NoMime ELSE ft.media)

\* A signature in the content settles it, even when the type has no name; else
\* three containers with a signature of variable length, then the extension,
\* then the crate's fallback for text or bytes.
DetectContentType(file) ==
  IF file.signature # {}
    THEN ResolveMime(CHOOSE ft \in file.signature : TRUE)
    ELSE OrElse(file.wellKnown,
           ResolveMime(CHOOSE ft \in IF file.extension # {} THEN file.extension
                                     ELSE {file.fallback} : TRUE))

\* The type the client gave, unless it says nothing; then the name's.
DetermineContentType(file) ==
  IF file.claimed \notin {NoMime, Octet}
    THEN file.claimed
    ELSE OrElse(file.guess, Octet)

\* Lets the client's word stand unless it gave none.
ReconcileGiven(detected, given) ==
  IF given = Octet /\ detected # NoMime THEN detected ELSE given

\* What was found in the content wins when it is more than a fallback.
ReconcileContentType(detected, given) ==
  IF detected \notin {NoMime, Octet} /\ detected.type # "text"
    THEN detected
    ELSE IF detected.type = "text" /\ given = Octet THEN TextPlain ELSE given

-----------------------------------------------------------------------------
Disposition(mime) ==
  IF \/ mime.type \in {"image", "video", "audio"}
     \/ mime = TextPlain
     \/ mime.type = "application" /\ mime.subtype \in {"json", "pdf"}
    THEN "inline"
    ELSE "attachment"

ServeMime(mime) == IF mime.type = "text" THEN TextPlain ELSE mime
=============================================================================
