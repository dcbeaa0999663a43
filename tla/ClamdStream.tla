----------------------------- MODULE ClamdStream -----------------------------
(* One call of clamd::scan_file in src/clamd.rs and the clamd at the other end
   of its connection.  clamd may answer and close before it has read the whole
   file, die without an answer, or have its answer cut short when the connection
   is reset. *)
EXTENDS Integers

CONSTANTS
  Chunks,     \* chunks of the file, each sent as its length and its bytes
  MaxVirus    \* the chunk with the virus is one of 1 .. MaxVirus, or there is none

VARIABLES
  sc,         \* where scan_file is
  written,    \* writes of the stream that went through, two a chunk
  virus,      \* the chunk that holds a virus, 0 for none
  received,   \* writes that clamd has read; one more for the terminator
  clamd,      \* "open", or "closed" when clamd has closed the connection
  reply,      \* what clamd answered
  lost,       \* the answer, or its end, was lost to a reset
  broken,     \* a call other than a write to a closed connection failed
  result      \* what scan_file returned

ASSUME ChunksAssumption == Chunks \in Nat /\ MaxVirus \in Nat

scanVars == <<sc, written, virus, received, clamd, reply, lost, broken, result>>

Results == {"none", "clean", "infected", "err"}

\* The scan keeps its types.
ScanTypeOK ==
  /\ sc \in {"start", "hello", "open", "send", "end", "read", "done"}
  /\ written \in 0 .. 2 * Chunks + 1
  /\ virus \in 0 .. MaxVirus
  /\ received \in 0 .. 2 * Chunks + 1
  /\ clamd \in {"open", "closed"}
  /\ reply \in {"none", "ok", "found", "error"}
  /\ lost \in BOOLEAN /\ broken \in BOOLEAN
  /\ result \in Results

ScanInit ==
  /\ sc = "start" /\ written = 0 /\ virus = 0
  /\ received = 0 /\ clamd = "open" /\ reply = "none" /\ lost = FALSE
  /\ broken = FALSE /\ result = "none"

SameClamd == UNCHANGED <<virus, received, clamd, reply, lost>>

\* scan_file returns.
Return(r) == sc' = "done" /\ result' = r

-----------------------------------------------------------------------------
\* An error of connect, of the first write or of open is returned, and so is
\* any error that does not say the connection was closed.
ScanBreaks ==
  /\ sc \in {"start", "hello", "open", "send", "read"}
  /\ broken' = TRUE
  /\ Return("err")
  /\ SameClamd /\ UNCHANGED written

Connect ==
  /\ sc = "start"
  /\ sc' = "hello"
  /\ SameClamd /\ UNCHANGED <<written, broken, result>>

\* The command is written; that clamd has closed already is an error here.
Hello ==
  /\ sc = "hello"
  /\ \/ sc' = "open" /\ UNCHANGED <<broken, result>>
     \/ clamd = "closed" /\ broken' = TRUE /\ Return("err")
  /\ SameClamd /\ UNCHANGED written

\* Whatever the file holds.
OpenFile ==
  /\ sc = "open"
  /\ sc' = "send"
  /\ virus' \in 0 .. MaxVirus
  /\ UNCHANGED <<received, clamd, reply, lost, written, broken, result>>

\* The length of a chunk or its bytes go through, also for a while after clamd
\* closed.
Write ==
  /\ sc = "send"
  /\ written < 2 * Chunks
  /\ written' = written + 1
  /\ UNCHANGED sc
  /\ SameClamd /\ UNCHANGED <<broken, result>>

\* Returns the error of that write.
WriteClosedFails ==
  /\ sc = "send"
  /\ written < 2 * Chunks /\ clamd = "closed"
  /\ Return("err")
  /\ SameClamd /\ UNCHANGED <<written, broken>>

\* The write finds the connection closed: the stream is left, the answer read.
WriteClosed ==
  /\ sc = "send"
  /\ written < 2 * Chunks /\ clamd = "closed"
  /\ sc' = "end"
  /\ SameClamd /\ UNCHANGED <<written, broken, result>>

EndOfFile ==
  /\ sc = "send"
  /\ written = 2 * Chunks
  /\ sc' = "end"
  /\ SameClamd /\ UNCHANGED <<written, broken, result>>

\* The terminator, whose errors are ignored: it counts as a write only when the
\* chunks went before it and clamd still reads.
Terminate ==
  /\ sc = "end"
  /\ sc' = "read"
  /\ written' = IF written = 2 * Chunks /\ clamd = "open" THEN written + 1 ELSE written
  /\ SameClamd /\ UNCHANGED <<broken, result>>

\* The answer up to its end, or what came before the connection ended; an
\* answer cut short is none of the two that are understood.
Verdict == IF lost THEN "none" ELSE reply

\* Calls a file clean unless something was found.
ReadReplyLax ==
  /\ sc = "read"
  /\ reply # "none" \/ clamd = "closed"
  /\ Return(IF Verdict = "found" THEN "infected" ELSE "clean")
  /\ SameClamd /\ UNCHANGED <<written, broken>>

\* Anything that is not the answer for a clean file or for a virus is an error.
ReadReply ==
  /\ sc = "read"
  /\ reply # "none" \/ clamd = "closed"
  /\ Return(CASE Verdict = "ok" -> "clean"
              [] Verdict = "found" -> "infected"
              [] OTHER -> "err")
  /\ SameClamd /\ UNCHANGED <<written, broken>>

-----------------------------------------------------------------------------
SameClient == UNCHANGED <<sc, written, virus, broken, result>>

ClamdReads ==
  /\ clamd = "open" /\ reply = "none" /\ received < written
  /\ received' = received + 1
  /\ UNCHANGED <<clamd, reply, lost>> /\ SameClient

\* The virus is in a chunk that clamd has read whole; a clean answer needs the
\* terminator; an error may come at any time.
ClamdAnswers ==
  /\ clamd = "open" /\ reply = "none" /\ sc \notin {"start", "hello"}
  /\ \/ virus # 0 /\ received >= 2 * virus /\ reply' = "found"
     \/ virus = 0 /\ received = 2 * Chunks + 1 /\ reply' = "ok"
     \/ reply' = "error"
  /\ UNCHANGED <<received, clamd, lost>> /\ SameClient

\* clamd closes, with its answer on the way or without one.
ClamdCloses ==
  /\ clamd = "open" /\ sc \notin {"start", "done"}
  /\ clamd' = "closed"
  /\ UNCHANGED <<received, reply, lost>> /\ SameClient

\* The system resets a connection whose data clamd did not read: an answer that
\* has not been read is lost.
Reset ==
  /\ clamd = "closed" /\ received < written /\ reply # "none" /\ ~lost
  /\ sc # "done"
  /\ lost' = TRUE
  /\ UNCHANGED <<received, clamd, reply>> /\ SameClient

ScanFile ==
  \/ ScanBreaks \/ Connect \/ Hello \/ OpenFile \/ Write \/ WriteClosed
  \/ EndOfFile \/ Terminate \/ ReadReply

Clamd == ClamdReads \/ ClamdAnswers \/ ClamdCloses \/ Reset

-----------------------------------------------------------------------------
\* A verdict is not hidden by the error that writing to a closed connection
\* gives: when clamd's answer arrived and no other call failed, scan_file
\* returns a virus as found.
VerdictHeard ==
  result = "err" /\ reply = "found" => lost \/ broken

\* A file counts as clean only when clamd read all of it, found nothing and said
\* so: never for an answer that did not come or came in part.
CleanWhole ==
  result = "clean" => virus = 0 /\ received = 2 * Chunks + 1 /\ reply = "ok" /\ ~lost
=============================================================================
