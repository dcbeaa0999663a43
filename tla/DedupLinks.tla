----------------------------- MODULE DedupLinks -----------------------------
(***************************************************************************)
(* The commands `dedup` and `rehash` (dedup.rs) beside the server and the  *)
(* deletions.  `dedup` replaces the file of an older upload by a symbolic  *)
(* link to the newest active upload with the same hash; links are followed *)
(* by downloads, by `rehash` and by later runs of `dedup`, and deletions   *)
(* remove a path whatever links to it.                                     *)
(*                                                                         *)
(* An upload is its rank in the order (upload_timestamp, id).  Each action *)
(* of a process is one system call or one statement.                       *)
(***************************************************************************)
EXTENDS Naturals, FiniteSets

CONSTANTS
  N,         \* uploads
  Contents,  \* what their files hold
  Null,      \* hash IS NULL
  Dedups,    \* processes that run `dedup`
  MaxGone    \* bound on the uploads that are selected for deletion

ASSUME LinksAssumption ==
  N \in Nat /\ Null \notin Contents /\ MaxGone \in Nat

Uploads == 1 .. N
None == 0
Absent == N + 1
Regular == N + 2

VARIABLES
  content,    \* what each upload was when it was stored
  row,        \* uploads: "none", "active" or "deleted"
  hash,       \* the hash column: the content stands for its BLAKE3 hash
  file,       \* Absent, Regular, or the upload it is a link to
  tmp,        \* the target of <path>.dedup-tmp, or None
  at,         \* how far each dedup process is
  pairs,      \* the pairs <<duplicate, canonical>> it has yet to do
  canon,      \* the canonical upload of its group
  target,     \* where canonicalize is, and then canonical_abs
  dup,        \* the duplicate it is about to replace
  open,       \* the upload whose file `rehash` has opened
  read,       \* and what it reads
  deletion    \* uploads: "none", "selected", "removed" (the path) or "failed"

fsVars == <<file, tmp>>
dedupVars == <<at, pairs, canon, target, dup>>
rehashVars == <<open, read>>
vars == <<content, row, hash, fsVars, dedupVars, rehashVars, deletion>>

Steps == {"idle", "group", "resolve", "dups", "clear", "link", "rename"}

TypeOK ==
  /\ content \in [Uploads -> Contents]
  /\ row \in [Uploads -> {"none", "active", "deleted"}]
  /\ hash \in [Uploads -> Contents \union {Null}]
  /\ file \in [Uploads -> Uploads \union {Absent, Regular}]
  /\ tmp \in [Uploads -> Uploads \union {None}]
  /\ at \in [Dedups -> Steps]
  /\ pairs \in [Dedups -> SUBSET (Uploads \X Uploads)]
  /\ canon \in [Dedups -> Uploads \union {None}]
  /\ target \in [Dedups -> Uploads \union {None}]
  /\ dup \in [Dedups -> Uploads \union {None}]
  /\ open \in Uploads \union {None}
  /\ read \in Contents \union {Null}
  /\ deletion \in [Uploads -> {"none", "selected", "removed", "failed"}]

\* A store whose older uploads may have lost their hash to the migration.
Init ==
  /\ content \in [Uploads -> Contents]
  /\ \E n \in 0 .. N :
       row = [u \in Uploads |-> IF u <= n THEN "active" ELSE "none"]
  /\ hash \in [Uploads -> Contents \union {Null}]
  /\ \A u \in Uploads :
       hash[u] \in (IF row[u] = "active" THEN {content[u], Null} ELSE {Null})
  /\ file = [u \in Uploads |-> IF row[u] = "active" THEN Regular ELSE Absent]
  /\ tmp = [u \in Uploads |-> None]
  /\ at = [p \in Dedups |-> "idle"]
  /\ pairs = [p \in Dedups |-> {}]
  /\ canon = [p \in Dedups |-> None]
  /\ target = [p \in Dedups |-> None]
  /\ dup = [p \in Dedups |-> None]
  /\ open = None /\ read = Null
  /\ deletion = [u \in Uploads |-> "none"]

\* The regular file that opening the path of u finds, through all links: none
\* or one.  It is in every set that has u and the targets of its links.
Hop(u) == IF file[u] \in Uploads THEN {file[u]} ELSE {}
Opened(u) ==
  {v \in Uploads :
     /\ file[v] = Regular
     /\ \A S \in SUBSET Uploads :
          u \in S /\ (\A w \in S : Hop(w) \subseteq S) => v \in S}

-----------------------------------------------------------------------------
(* The server: uploads and deletions.                                      *)

\* The file, and then the row; what is in between is in UploadStore.  Rows of
\* one second may come in any order.
Upload(u) ==
  /\ row[u] = "none"
  /\ row' = [row EXCEPT ![u] = "active"]
  /\ hash' = [hash EXCEPT ![u] = content[u]]
  /\ file' = [file EXCEPT ![u] = Regular]
  /\ UNCHANGED <<content, tmp, dedupVars, rehashVars, deletion>>

\* delete_matching selects the upload: its expiry, which depends on the settings
\* it was stored under, has passed, or an admin, the command line or a scan
\* asked for it.
Select(u) ==
  /\ row[u] = "active" /\ deletion[u] = "none"
  /\ Cardinality({v \in Uploads : deletion[v] # "none"}) < MaxGone
  /\ deletion' = [deletion EXCEPT ![u] = "selected"]
  /\ UNCHANGED <<content, row, hash, fsVars, dedupVars, rehashVars>>

\* delete_one: the path, and then the row.  Another process may have selected
\* the upload too; that the path could not be removed is only logged.
RemovePath(u) ==
  /\ deletion[u] # "none"
  /\ file' = [file EXCEPT ![u] = Absent]
  /\ deletion' = [deletion EXCEPT ![u] = "removed"]
  /\ UNCHANGED <<content, row, hash, tmp, dedupVars, rehashVars>>
RemoveFails(u) ==
  /\ deletion[u] = "selected"
  /\ deletion' = [deletion EXCEPT ![u] = "failed"]
  /\ UNCHANGED <<content, row, hash, fsVars, dedupVars, rehashVars>>
MarkDeleted(u) ==
  /\ row[u] = "active" /\ deletion[u] \in {"removed", "failed"}
  /\ row' = [row EXCEPT ![u] = "deleted"]
  /\ UNCHANGED <<content, hash, fsVars, dedupVars, rehashVars, deletion>>

-----------------------------------------------------------------------------
(* dedup.                                                                  *)

Live(u) == row[u] = "active" /\ hash[u] # Null

\* Mutant: the oldest upload is the canonical one.
FindPairsOldest ==
  {pair \in Uploads \X Uploads :
     LET u == pair[1]
         c == pair[2]
     IN /\ Live(u) /\ Live(c) /\ hash[u] = hash[c] /\ u # c
        /\ \A v \in Uploads : Live(v) /\ hash[v] = hash[c] => v >= c}

\* Mutant: uploads without a hash are duplicates of each other.
FindPairsNullSafe ==
  {pair \in Uploads \X Uploads :
     LET u == pair[1]
         c == pair[2]
     IN /\ row[u] = "active" /\ row[c] = "active" /\ hash[u] = hash[c] /\ u # c
        /\ \A v \in Uploads : row[v] = "active" /\ hash[v] = hash[c] => v <= c}

\* find_dedup_pairs: the newest active upload of a hash is canonical.
FindPairs ==
  {pair \in Uploads \X Uploads :
     LET u == pair[1]
         c == pair[2]
     IN /\ Live(u) /\ Live(c) /\ hash[u] = hash[c] /\ u # c
        /\ \A v \in Uploads : Live(v) /\ hash[v] = hash[c] => v <= c}

Group(p) == {pair \in pairs[p] : pair[2] = canon[p]}
Goto(p, s) == at' = [at EXCEPT ![p] = s]
Frame == UNCHANGED <<content, row, hash, rehashVars, deletion>>

Query(p) ==
  /\ at[p] = "idle"
  /\ pairs' = [pairs EXCEPT ![p] = FindPairs]
  /\ Goto(p, "group")
  /\ UNCHANGED <<fsVars, canon, target, dup>> /\ Frame

\* symlink_metadata of the canonical path: a link or nothing ends the group.
CheckCanonical(p, c) ==
  /\ at[p] = "group" /\ \E pair \in pairs[p] : pair[2] = c
  /\ IF file[c] = Regular
     THEN /\ canon' = [canon EXCEPT ![p] = c]
          /\ target' = [target EXCEPT ![p] = c]
          /\ Goto(p, "resolve")
          /\ UNCHANGED pairs
     ELSE /\ pairs' = [pairs EXCEPT ![p] = {pair \in @ : pair[2] # c}]
          /\ UNCHANGED <<at, canon, target>>
  /\ UNCHANGED <<fsVars, dup>> /\ Frame

\* Mutant: the error of reading a file as a link is not looked at.
CanonicalizeBlind(p) ==
  /\ at[p] = "resolve"
  /\ target' = [target EXCEPT ![p] = file[@]]
  /\ Goto(p, "dups")
  /\ UNCHANGED <<fsVars, canon, dup, pairs>> /\ Frame

\* canonicalize: one readlink after the other.
Canonicalize(p) ==
  /\ at[p] = "resolve"
  /\ \/ /\ file[target[p]] \in Uploads
        /\ target' = [target EXCEPT ![p] = file[@]]
        /\ UNCHANGED <<at, pairs>>
     \/ /\ file[target[p]] = Regular
        /\ Goto(p, "dups")
        /\ UNCHANGED <<target, pairs>>
     \/ /\ file[target[p]] = Absent
        /\ pairs' = [pairs EXCEPT ![p] = @ \ Group(p)]
        /\ Goto(p, "group")
        /\ target' = [target EXCEPT ![p] = None]
  /\ UNCHANGED <<fsVars, canon, dup>> /\ Frame

\* symlink_metadata of a duplicate: a link or nothing is skipped.
CheckDup(p, d) ==
  /\ at[p] = "dups" /\ <<d, canon[p]>> \in pairs[p]
  /\ IF file[d] = Regular
     THEN /\ dup' = [dup EXCEPT ![p] = d]
          /\ Goto(p, "clear")
          /\ UNCHANGED pairs
     ELSE /\ pairs' = [pairs EXCEPT ![p] = @ \ {<<d, canon[p]>>}]
          /\ UNCHANGED <<at, dup>>
  /\ UNCHANGED <<fsVars, canon, target>> /\ Frame

GroupDone(p) ==
  /\ at[p] = "dups" /\ Group(p) = {}
  /\ Goto(p, "group")
  /\ target' = [target EXCEPT ![p] = None]
  /\ UNCHANGED <<fsVars, pairs, canon, dup>> /\ Frame

\* The next duplicate, after the link was made or could not be.
NextDup(p) ==
  /\ pairs' = [pairs EXCEPT ![p] = @ \ {<<dup[p], canon[p]>>}]
  /\ dup' = [dup EXCEPT ![p] = None]
  /\ Goto(p, "dups")

\* Mutant: the duplicate is removed before its link is made.
ClearDuplicate(p) ==
  /\ at[p] = "clear"
  /\ tmp' = [tmp EXCEPT ![dup[p]] = None]
  /\ file' = [file EXCEPT ![dup[p]] = Absent]
  /\ Goto(p, "link")
  /\ UNCHANGED <<pairs, canon, target, dup>> /\ Frame

\* replace_with_symlink; all processes use one temporary name.
ClearTmp(p) ==
  /\ at[p] = "clear"
  /\ tmp' = [tmp EXCEPT ![dup[p]] = None]
  /\ Goto(p, "link")
  /\ UNCHANGED <<file, pairs, canon, target, dup>> /\ Frame
LinkTmp(p) ==
  /\ at[p] = "link"
  /\ IF tmp[dup[p]] = None
     THEN /\ tmp' = [tmp EXCEPT ![dup[p]] = target[p]]
          /\ Goto(p, "rename")
          /\ UNCHANGED <<pairs, dup>>
     ELSE NextDup(p) /\ UNCHANGED tmp
  /\ UNCHANGED <<file, canon, target>> /\ Frame
RenameTmp(p) ==
  /\ at[p] = "rename"
  /\ IF tmp[dup[p]] = None
     THEN UNCHANGED fsVars
     ELSE /\ file' = [file EXCEPT ![dup[p]] = tmp[dup[p]]]
          /\ tmp' = [tmp EXCEPT ![dup[p]] = None]
  /\ NextDup(p)
  /\ UNCHANGED <<canon, target>> /\ Frame

Finish(p) ==
  /\ at[p] = "group" /\ pairs[p] = {}
  /\ Goto(p, "idle")
  /\ canon' = [canon EXCEPT ![p] = None]
  /\ UNCHANGED <<fsVars, pairs, target, dup>> /\ Frame

\* The process is killed.
Kill(p) ==
  /\ at[p] # "idle"
  /\ Goto(p, "idle")
  /\ pairs' = [pairs EXCEPT ![p] = {}]
  /\ canon' = [canon EXCEPT ![p] = None]
  /\ target' = [target EXCEPT ![p] = None]
  /\ dup' = [dup EXCEPT ![p] = None]
  /\ UNCHANGED fsVars /\ Frame

DedupStep(p) ==
  \/ \E u \in Uploads : CheckCanonical(p, u) \/ CheckDup(p, u)
  \/ Canonicalize(p) \/ GroupDone(p) \/ ClearTmp(p) \/ LinkTmp(p)
  \/ RenameTmp(p) \/ Finish(p)

-----------------------------------------------------------------------------
(* rehash.                                                                 *)

RehashFrame == UNCHANGED <<content, row, fsVars, dedupVars, deletion>>

\* uploads_missing_hash; an id on the list may have been deleted since.
Missing(u) == row[u] # "none" /\ hash[u] = Null

\* The file is opened through its links; one that is missing is skipped.
ReadFile(u) ==
  /\ open = None /\ Missing(u)
  /\ \E v \in Opened(u) : open' = u /\ read' = content[v]
  /\ UNCHANGED hash /\ RehashFrame

\* update_upload_hash; an error is counted.
UpdateHash ==
  /\ open # None
  /\ \/ hash' = [hash EXCEPT ![open] = read]
     \/ UNCHANGED hash
  /\ open' = None /\ read' = Null
  /\ RehashFrame

-----------------------------------------------------------------------------
Next ==
  \/ \E u \in Uploads :
       \/ Upload(u) \/ Select(u) \/ RemovePath(u) \/ RemoveFails(u)
       \/ MarkDeleted(u) \/ ReadFile(u)
  \/ \E p \in Dedups : Query(p) \/ DedupStep(p) \/ Kill(p)
  \/ UpdateHash

Spec == Init /\ [][Next]_vars

-----------------------------------------------------------------------------
(* Properties.                                                             *)

\* Every link leads from an older to a newer upload, whichever processes made
\* them and whatever was deleted between their steps: no chain of links ever
\* closes (find_dedup_pairs orders by upload_timestamp and id).
LinksForward == \A u \in Uploads : file[u] \in Uploads => file[u] > u

\* Opening the path of an upload finds, through however many links, what was
\* uploaded or nothing, and a hash is that of the upload's own content, also
\* when `rehash` read it through a link that `dedup` had made.
Faithful ==
  /\ \A u \in Uploads : \A v \in Opened(u) : content[v] = content[u]
  /\ \A u \in Uploads : hash[u] \in {content[u], Null}

\* An active upload whose own path nobody removed opens a file, unless a newer
\* upload of its content lost its path to a deletion: `dedup` and `rehash`, with
\* one temporary name for all of them and killed anywhere, lose none.  Nothing
\* makes the newer upload outlive the older, so a link may be left dangling.
LostOnlyByDeletion ==
  \A u \in Uploads :
    row[u] = "active" /\ deletion[u] # "removed" /\ Opened(u) = {} =>
      \E c \in Uploads : c > u /\ content[c] = content[u] /\ deletion[c] = "removed"

=============================================================================
