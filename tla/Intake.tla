------------------------------- MODULE Intake -------------------------------
(* The request handlers with the scan that the first stored file is given to:
   scan_file opens the file by its path, which a deletion may have taken away. *)
EXTENDS Request, ClamdStream

vars == <<reqVars, scanVars>>

Init == ReqInit /\ ScanInit

\* spawn_clamd_scan comes after the INSERT.
Spawned == rows # <<>>

FileThere == sc = "open" /\ sc' = "send" => rows[1].active

ScanStep == Spawned /\ (ScanFile \/ Clamd) /\ FileThere

Next ==
  \/ ReqNext /\ UNCHANGED scanVars
  \/ ScanStep /\ UNCHANGED reqVars

Spec == Init /\ [][Next]_vars

\* Handlers, table and scan keep their types: the first attempts at a link are of a
\* length within the bounds, whatever is asked for; later ones may be longer.
TypeOK == ReqTypeOK /\ ScanTypeOK
=============================================================================
