---------------------------- MODULE UploadStore -----------------------------
(***************************************************************************)
(* The uploads table, the file store, and every process that touches both: *)
(* the upload handler (handlers.rs process_file), the download handler     *)
(* (get_file), the deletions of admins and of the command line (db.rs      *)
(* delete_matching and delete_one), and the clamd scan each stored upload  *)
(* starts.  One action is one step of a process between two awaits; the    *)
(* steps of different processes interleave freely.  The table and the      *)
(* store survive a restart of the server, its tasks and caches do not.     *)
(*                                                                         *)
(* Data is abstracted to what the properties tell apart: a file's bytes    *)
(* are its hash, a slug is a model value, time is the set of uploads whose *)
(* expiry has passed.                                                      *)
(***************************************************************************)
EXTENDS Naturals, FiniteSets

CONSTANTS
  Uploads,    \* the uuids the server will draw, one per file posted
  Slugs,      \* the slugs build_slug can draw
  Hashes,     \* the contents of files
  Infected,   \* the contents clamd knows as infected
  Readers,    \* the clients downloading
  Admins,     \* admin requests that delete uploads, inside the server
  Clis,       \* command-line processes that delete uploads, outside it
  Nobody,     \* not an upload
  NoSlug,     \* not a slug
  Dedup,      \* settings.dedup
  Clamd,      \* settings.clamd_addr is set
  MaxFaults   \* bound on failures and crashes

ASSUME InfectedAssumption == Infected \subseteq Hashes
ASSUME SettingsAssumption == Dedup \in BOOLEAN /\ Clamd \in BOOLEAN
ASSUME BoundAssumption == MaxFaults \in Nat
ASSUME DistinctAssumption ==
  /\ Nobody \notin Uploads
  /\ NoSlug \notin Slugs
  /\ Uploads \intersect (Admins \union Clis) = {}
  /\ Admins \intersect Clis = {}

Deleters == Admins \union Clis

\* A deletion is carried out by a deleter or by the scan of an upload, which
\* is named by the upload.
Jobs == Uploads \union Deleters

VARIABLES
  content,    \* the hash of each posted file; fixed by the client
  pc,         \* where the handler of each posted file is
  row,        \* uploads: no row, deleted_timestamp null, or set
  slug,       \* the slug the handler chose, and then the row's
  file,       \* what is at uuid_to_path(upload)
  link,       \* the upload whose link the handler answered
  expired,    \* the uploads whose expiry_timestamp has passed
  bans,       \* banned_file_hashes
  cached,     \* whether BanCache.hashes holds an entry,
  cache,      \*   and the entry
  job,        \* where each deletion is
  todo,       \* the selected uploads a deletion has yet to delete
  doing,      \* the upload whose file it has just removed
  rphase,     \* where each reader's request is
  asked,      \* the slug it asked for
  picked,     \* the row it was given
  faults,     \* failures and crashes so far
  torn,       \* history: uploads a deletion left with a row and no file
  stuck,      \* history: uploads whose file could not be removed
  banned,     \* history: hashes whose ban the server has completed
  had         \* history: whether the picked row had its file

handlerVars == <<pc, slug, link>>
banVars == <<bans, cached, cache, banned>>
jobVars == <<job, todo, doing>>
readerVars == <<rphase, asked, picked, had>>
vars == <<content, handlerVars, row, file, expired, banVars, jobVars,
          readerVars, faults, torn, stuck>>

HandlerSteps ==
  {"idle", "check", "lookup", "slug", "save", "copy", "insert",
   "answered", "refused", "failed"}

TypeOK ==
  /\ content \in [Uploads -> Hashes]
  /\ pc \in [Uploads -> HandlerSteps]
  /\ row \in [Uploads -> {"none", "active", "deleted"}]
  /\ slug \in [Uploads -> Slugs \union {NoSlug}]
  /\ file \in [Uploads -> {"absent", "partial", "whole"}]
  /\ link \in [Uploads -> Uploads \union {Nobody}]
  /\ expired \in SUBSET Uploads
  /\ bans \in SUBSET Hashes
  /\ cached \in BOOLEAN
  /\ cache \in SUBSET Hashes
  /\ job \in [Jobs -> {"idle", "scan", "ban", "flush", "select", "run"}]
  /\ todo \in [Jobs -> SUBSET Uploads]
  /\ doing \in [Jobs -> Uploads \union {Nobody}]
  /\ rphase \in [Readers -> {"idle", "opening", "served", "missed"}]
  /\ asked \in [Readers -> Slugs \union {NoSlug}]
  /\ picked \in [Readers -> Uploads \union {Nobody}]
  /\ had \in [Readers -> BOOLEAN]
  /\ faults \in Nat
  /\ torn \in SUBSET Uploads
  /\ stuck \in SUBSET Uploads
  /\ banned \in SUBSET Hashes

Init ==
  /\ content \in [Uploads -> Hashes]
  /\ pc = [u \in Uploads |-> "idle"]
  /\ row = [u \in Uploads |-> "none"]
  /\ slug = [u \in Uploads |-> NoSlug]
  /\ file = [u \in Uploads |-> "absent"]
  /\ link = [u \in Uploads |-> Nobody]
  /\ expired = {}
  /\ bans = {} /\ cached = FALSE /\ cache = {} /\ banned = {}
  /\ job = [j \in Jobs |-> "idle"]
  /\ todo = [j \in Jobs |-> {}]
  /\ doing = [j \in Jobs |-> Nobody]
  /\ rphase = [r \in Readers |-> "idle"]
  /\ asked = [r \in Readers |-> NoSlug]
  /\ picked = [r \in Readers |-> Nobody]
  /\ had = [r \in Readers |-> FALSE]
  /\ faults = 0
  /\ torn = {} /\ stuck = {}

Active == {u \in Uploads : row[u] = "active"}

\* Every failure counts against the bound.
Fault == faults < MaxFaults /\ faults' = faults + 1
NoFault == faults' = faults

\* What a step of an upload handler, of a deletion and of a download leaves.
HandlerFrame ==
  UNCHANGED <<content, expired, bans, banned, todo, doing, readerVars, torn,
              stuck>>
JobFrame == UNCHANGED <<content, handlerVars, expired, readerVars>>
ReaderFrame ==
  UNCHANGED <<content, handlerVars, row, file, expired, banVars, jobVars,
              torn, stuck>>

-----------------------------------------------------------------------------
(* The upload handler: process_file for one file of a request.             *)

Goto(u, step) == pc' = [pc EXCEPT ![u] = step]

\* The gates are passed and the body, with its hash, is in a temporary file.
Start(u) ==
  /\ pc[u] = "idle"
  /\ Goto(u, "check")
  /\ NoFault
  /\ HandlerFrame /\ UNCHANGED <<row, slug, file, link, cached, cache, job>>

\* A filename or mime ban refuses the file before its hash is looked at.
RefuseByName(u) ==
  /\ pc[u] = "check"
  /\ Goto(u, "refused")
  /\ NoFault
  /\ HandlerFrame /\ UNCHANGED <<row, slug, file, link, cached, cache, job>>

\* is_hash_banned: a cached list answers, otherwise the table is read into
\* the cache under its write lock.
CheckHash(u) ==
  LET known == IF cached THEN cache ELSE bans
  IN  /\ pc[u] = "check"
      /\ Goto(u, IF content[u] \in known THEN "refused" ELSE "lookup")
      /\ cached' = TRUE
      /\ cache' = known
      /\ NoFault
      /\ HandlerFrame /\ UNCHANGED <<row, slug, file, link, job>>

\* Mutant: the query returns the hash column in place of the id.
TwinHashes(u) == {content[v] : v \in {w \in Active : content[w] = content[u]}}

Twins(u) == {v \in Active : content[v] = content[u]}

\* find_active_upload_by_hash.  Upload timestamps have a resolution of one
\* second, so which of several copies is newest is left open.
Lookup(u) ==
  /\ pc[u] = "lookup"
  /\ \/ /\ Dedup
        /\ \E v \in Twins(u) : link' = [link EXCEPT ![u] = v]
        /\ Goto(u, "answered")
     \/ /\ ~Dedup \/ Twins(u) = {}
        /\ Goto(u, "slug")
        /\ UNCHANGED link
  /\ NoFault
  /\ HandlerFrame /\ UNCHANGED <<row, slug, file, cached, cache, job>>

SlugTaken(s) == \E v \in Active : slug[v] = s

\* allocate_unique_slug ends with a candidate that no active row had.
AllocateSlug(u, s) ==
  /\ pc[u] = "slug"
  /\ ~SlugTaken(s)
  /\ slug' = [slug EXCEPT ![u] = s]
  /\ Goto(u, "save")
  /\ NoFault
  /\ HandlerFrame /\ UNCHANGED <<row, file, link, cached, cache, job>>

\* save_file by rename: the file appears whole.
Persist(u) ==
  /\ pc[u] = "save"
  /\ file' = [file EXCEPT ![u] = "whole"]
  /\ Goto(u, "insert")
  /\ NoFault
  /\ HandlerFrame /\ UNCHANGED <<row, slug, link, cached, cache, job>>

\* Mutant: the row is inserted while the copy is under way.
BeginCopyEarly(u) ==
  /\ pc[u] = "save"
  /\ file' = [file EXCEPT ![u] = "partial"]
  /\ Goto(u, "insert")
  /\ NoFault
  /\ HandlerFrame /\ UNCHANGED <<row, slug, link, cached, cache, job>>

\* save_file by copy, when the temporary file is on another filesystem.
BeginCopy(u) ==
  /\ pc[u] = "save"
  /\ file' = [file EXCEPT ![u] = "partial"]
  /\ Goto(u, "copy")
  /\ NoFault
  /\ HandlerFrame /\ UNCHANGED <<row, slug, link, cached, cache, job>>

EndCopy(u) ==
  /\ pc[u] = "copy"
  /\ file' = [file EXCEPT ![u] = "whole"]
  /\ Goto(u, "insert")
  /\ NoFault
  /\ HandlerFrame /\ UNCHANGED <<row, slug, link, cached, cache, job>>

\* insert_upload_row, the answer, and the spawned clamd scan.
InsertRow(u) ==
  /\ pc[u] = "insert"
  /\ row' = [row EXCEPT ![u] = "active"]
  /\ link' = [link EXCEPT ![u] = u]
  /\ Goto(u, "answered")
  /\ job' = [job EXCEPT ![u] = IF Clamd THEN "scan" ELSE "idle"]
  /\ NoFault
  /\ HandlerFrame /\ UNCHANGED <<slug, file, cached, cache>>

\* The connection is lost after the INSERT has been applied: the client is
\* told of a failure and no scan is started, but the row is there.
LoseInsert(u) ==
  /\ pc[u] = "insert"
  /\ row' = [row EXCEPT ![u] = "active"]
  /\ Goto(u, "failed")
  /\ Fault
  /\ HandlerFrame /\ UNCHANGED <<slug, file, link, cached, cache, job>>

\* A query or a file operation fails, or the request is dropped with its
\* connection: what was written stays.
HandlerFails(u) ==
  /\ pc[u] \in {"check", "lookup", "slug", "save", "copy", "insert"}
  /\ Goto(u, "failed")
  /\ Fault
  /\ HandlerFrame /\ UNCHANGED <<row, slug, file, link, cached, cache, job>>

-----------------------------------------------------------------------------
(* The clamd scan of an upload: task u is named by the upload.             *)

\* The verdict.  A file that is no longer there is a failed scan.
Scan(u) ==
  /\ job[u] = "scan"
  /\ job' = [job EXCEPT ![u] =
               IF file[u] # "absent" /\ content[u] \in Infected
               THEN "ban" ELSE "idle"]
  /\ NoFault
  /\ JobFrame /\ UNCHANGED <<row, file, todo, doing, torn, stuck, banVars>>

\* clamd cannot be reached or breaks off: logged, and never tried again.
ScanFails(u) ==
  /\ job[u] = "scan"
  /\ job' = [job EXCEPT ![u] = "idle"]
  /\ Fault
  /\ JobFrame /\ UNCHANGED <<row, file, todo, doing, torn, stuck, banVars>>

\* Mutant: the scan ends once the ban is stored.
BanHashOnly(u) ==
  /\ job[u] = "ban"
  /\ bans' = bans \union {content[u]}
  /\ job' = [job EXCEPT ![u] = "idle"]
  /\ NoFault
  /\ JobFrame /\ UNCHANGED <<row, file, cached, cache, banned, todo, doing, torn, stuck>>

BanHash(u) ==
  /\ job[u] = "ban"
  /\ bans' = bans \union {content[u]}
  /\ job' = [job EXCEPT ![u] = "flush"]
  /\ NoFault
  /\ JobFrame /\ UNCHANGED <<row, file, cached, cache, banned, todo, doing, torn, stuck>>

\* The ban could not be stored: the cache is kept and the deletion goes on.
BanFails(u) ==
  /\ job[u] = "ban"
  /\ job' = [job EXCEPT ![u] = "select"]
  /\ Fault
  /\ JobFrame /\ UNCHANGED <<row, file, todo, doing, torn, stuck, banVars>>

\* Mutant: the cache is not invalidated.
FlushNothing(u) ==
  /\ job[u] = "flush"
  /\ banned' = banned \union {content[u]}
  /\ job' = [job EXCEPT ![u] = "select"]
  /\ NoFault
  /\ JobFrame /\ UNCHANGED <<row, file, bans, cached, cache, todo, doing, torn, stuck>>

\* BanCache.invalidate_hashes.
FlushCache(u) ==
  /\ job[u] = "flush"
  /\ cached' = FALSE
  /\ cache' = {}
  /\ banned' = banned \union {content[u]}
  /\ job' = [job EXCEPT ![u] = "select"]
  /\ NoFault
  /\ JobFrame /\ UNCHANGED <<row, file, bans, todo, doing, torn, stuck>>

\* delete_by_id selects the upload if it is still active.
SelectScanned(u) ==
  /\ job[u] = "select"
  /\ todo' = [todo EXCEPT ![u] = {u} \intersect Active]
  /\ job' = [job EXCEPT ![u] = IF u \in Active THEN "run" ELSE "idle"]
  /\ NoFault
  /\ JobFrame /\ UNCHANGED <<row, file, doing, torn, stuck, banVars>>

-----------------------------------------------------------------------------
(* delete_matching and delete_one.                                         *)

\* The SELECT of a deletion by id, slug, address or address range: whatever
\* set of rows the clause matches, the active ones are taken.
SelectMatching(d, S) ==
  /\ job[d] = "idle"
  /\ S \intersect Active # {}
  /\ todo' = [todo EXCEPT ![d] = S \intersect Active]
  /\ job' = [job EXCEPT ![d] = "run"]
  /\ NoFault
  /\ JobFrame /\ UNCHANGED <<row, file, doing, torn, stuck, banVars>>

\* delete_expired.
SelectExpired(d) ==
  /\ d \in Clis
  /\ SelectMatching(d, expired)

\* Mutant: a file that is missing stops the deletion.
RemovePresent(j, u) ==
  /\ job[j] = "run" /\ doing[j] = Nobody
  /\ u \in todo[j]
  /\ file[u] # "absent"
  /\ file' = [file EXCEPT ![u] = "absent"]
  /\ doing' = [doing EXCEPT ![j] = u]
  /\ todo' = [todo EXCEPT ![j] = @ \ {u}]
  /\ NoFault
  /\ JobFrame /\ UNCHANGED <<row, job, torn, stuck, banVars>>

\* Mutant: the row is marked, the file is left.
RemoveNothing(j, u) ==
  /\ job[j] = "run" /\ doing[j] = Nobody
  /\ u \in todo[j]
  /\ doing' = [doing EXCEPT ![j] = u]
  /\ todo' = [todo EXCEPT ![j] = @ \ {u}]
  /\ NoFault
  /\ JobFrame /\ UNCHANGED <<row, file, job, torn, stuck, banVars>>

\* remove_file of the next selected upload.  A file that is not there is
\* logged like any other failure and the row is updated all the same.
RemoveFile(j, u) ==
  /\ job[j] = "run" /\ doing[j] = Nobody
  /\ u \in todo[j]
  /\ file' = [file EXCEPT ![u] = "absent"]
  /\ doing' = [doing EXCEPT ![j] = u]
  /\ todo' = [todo EXCEPT ![j] = @ \ {u}]
  /\ NoFault
  /\ JobFrame /\ UNCHANGED <<row, job, torn, stuck, banVars>>

RemoveFails(j, u) ==
  /\ job[j] = "run" /\ doing[j] = Nobody
  /\ u \in todo[j]
  /\ doing' = [doing EXCEPT ![j] = u]
  /\ todo' = [todo EXCEPT ![j] = @ \ {u}]
  /\ stuck' = stuck \union {u}
  /\ Fault
  /\ JobFrame /\ UNCHANGED <<row, file, job, torn, banVars>>

\* UPDATE uploads SET deleted_timestamp; the deletion ends with its last row.
MarkDeleted(j) ==
  /\ doing[j] # Nobody
  /\ row' = [row EXCEPT ![doing[j]] = "deleted"]
  /\ doing' = [doing EXCEPT ![j] = Nobody]
  /\ job' = [job EXCEPT ![j] = IF todo[j] = {} THEN "idle" ELSE "run"]
  /\ NoFault
  /\ JobFrame /\ UNCHANGED <<file, todo, torn, stuck, banVars>>

\* The jobs of J stop where they are: an upload whose file one of them had
\* removed is left with its row.
Abort(J) ==
  /\ job' = [j \in Jobs |-> IF j \in J THEN "idle" ELSE job[j]]
  /\ todo' = [j \in Jobs |-> IF j \in J THEN {} ELSE todo[j]]
  /\ doing' = [j \in Jobs |-> IF j \in J THEN Nobody ELSE doing[j]]
  /\ torn' = torn \union {u \in Uploads : \E j \in J : doing[j] = u}

\* A connection or the UPDATE fails, or the SELECT of a scan: `?` abandons
\* the rows that remain.  A command-line process that dies ends the same way.
JobFails(j) ==
  /\ job[j] \in {"select", "run"}
  /\ Abort({j})
  /\ Fault
  /\ JobFrame /\ UNCHANGED <<row, file, stuck, banVars>>

-----------------------------------------------------------------------------
(* The download handler.                                                   *)

\* Mutant: deleted rows are not left out.
RowsOfAny(s) == {u \in Uploads : row[u] # "none" /\ slug[u] = s}

\* get_upload_by_slug selects among these.
RowsOf(s) == {u \in Active : slug[u] = s}

\* The row of the slug (any, should there be several), or 404.
FetchRow(r, s) ==
  /\ rphase[r] # "opening"
  /\ asked' = [asked EXCEPT ![r] = s]
  /\ \/ \E u \in RowsOf(s) :
          /\ picked' = [picked EXCEPT ![r] = u]
          /\ had' = [had EXCEPT ![r] = (file[u] # "absent")]
          /\ rphase' = [rphase EXCEPT ![r] = "opening"]
     \/ /\ RowsOf(s) = {}
        /\ picked' = [picked EXCEPT ![r] = Nobody]
        /\ had' = [had EXCEPT ![r] = FALSE]
        /\ rphase' = [rphase EXCEPT ![r] = "missed"]
  /\ NoFault
  /\ ReaderFrame

\* NamedFile::open: from here the bytes are held by the open handle.
OpenFile(r) ==
  /\ rphase[r] = "opening"
  /\ rphase' = [rphase EXCEPT ![r] =
                  IF file[picked[r]] = "absent" THEN "missed" ELSE "served"]
  /\ NoFault
  /\ ReaderFrame /\ UNCHANGED <<asked, picked, had>>

-----------------------------------------------------------------------------
(* Time and crashes.                                                       *)

Expire(u) ==
  /\ row[u] = "active" /\ u \notin expired
  /\ expired' = expired \union {u}
  /\ NoFault
  /\ UNCHANGED <<content, handlerVars, row, file, banVars, jobVars,
                 readerVars, torn, stuck>>

\* The hash list has been cached for ban_cache_ttl_seconds.
CacheLapses ==
  /\ cached
  /\ cached' = FALSE
  /\ cache' = {}
  /\ NoFault
  /\ UNCHANGED <<content, handlerVars, row, file, expired, bans, banned,
                 jobVars, readerVars, torn, stuck>>

\* The server stops and starts again: handlers, scans, admin requests and
\* the cache are lost, the table, the store and other processes are not.
Restart ==
  /\ pc' = [u \in Uploads |->
              IF pc[u] \in {"check", "lookup", "slug", "save", "copy", "insert"}
              THEN "failed" ELSE pc[u]]
  /\ Abort(Uploads \union Admins)
  /\ cached' = FALSE /\ cache' = {}
  /\ rphase' = [r \in Readers |->
                  IF rphase[r] = "opening" THEN "idle" ELSE rphase[r]]
  /\ Fault
  /\ UNCHANGED <<content, row, slug, file, link, expired, bans, banned,
                 asked, picked, had, stuck>>

-----------------------------------------------------------------------------
HandlerStep(u) ==
  \/ Start(u) \/ RefuseByName(u) \/ CheckHash(u) \/ Lookup(u)
  \/ \E s \in Slugs : AllocateSlug(u, s)
  \/ Persist(u) \/ BeginCopy(u) \/ EndCopy(u)
  \/ InsertRow(u) \/ LoseInsert(u) \/ HandlerFails(u)

ScanStep(u) ==
  \/ Scan(u) \/ ScanFails(u) \/ BanHash(u) \/ BanFails(u)
  \/ FlushCache(u) \/ SelectScanned(u)

JobStep(j) ==
  \/ \E u \in Uploads : RemoveFile(j, u) \/ RemoveFails(j, u)
  \/ MarkDeleted(j) \/ JobFails(j)

Next ==
  \/ \E u \in Uploads : HandlerStep(u) \/ ScanStep(u) \/ Expire(u)
  \/ \E d \in Deleters, S \in SUBSET Uploads : SelectMatching(d, S)
  \/ \E d \in Clis : SelectExpired(d)
  \/ \E j \in Jobs : JobStep(j)
  \/ \E r \in Readers, s \in Slugs : FetchRow(r, s)
  \/ \E r \in Readers : OpenFile(r)
  \/ CacheLapses
  \/ Restart

Spec == Init /\ [][Next]_vars

\* The runtime keeps polling a task that can go on, and the operator keeps
\* running `delete-expired` while there is something for it to delete.
Fairness ==
  /\ \A u \in Uploads : WF_vars(pc[u] # "idle" /\ HandlerStep(u))
  /\ \A u \in Uploads : WF_vars(ScanStep(u))
  /\ \A j \in Jobs : WF_vars(JobStep(j))
  /\ \A d \in Clis : WF_vars(SelectExpired(d))

FairSpec == Spec /\ Fairness

-----------------------------------------------------------------------------
(* Safety.                                                                 *)

\* An active row has its whole file, unless a deletion has removed the file
\* and has yet to mark the row, or stopped in between.  (process_file saves
\* before it inserts, delete_one removes before it updates.)
RowHasFile ==
  \A u \in Active :
    file[u] = "whole" \/ u \in torn \/ \E j \in Jobs : doing[j] = u

\* A file without an active row belongs to a handler between saving and
\* inserting, to one that failed there, or to a deletion whose remove_file
\* failed: nothing else leaves bytes that no later deletion can find.
FileHasRow ==
  \A u \in Uploads \ Active :
    file[u] # "absent" =>
      \/ row[u] = "none" /\ pc[u] \in {"copy", "insert", "failed"}
      \/ u \in stuck

\* Once a scan has stored and flushed the ban of a hash, no upload of that
\* hash passes is_hash_banned, whatever the cache holds and however the
\* check interleaves with the insert and the invalidation.
NoPassAfterBan ==
  [][\A u \in Uploads :
       pc[u] = "check" /\ pc'[u] = "lookup" => content[u] \notin banned]_vars

\* With settings.dedup, at most one active upload has a given hash (the
\* claim of tests.rs dedup_reuses_existing_upload).
DedupSingleCopy ==
  Dedup => \A u, v \in Active : content[u] = content[v] => u = v

-----------------------------------------------------------------------------
(* What a client sees: FileHost.  An upload is live while it has a row and *)
(* a file; a request that was given a row without a file has missed.       *)

Live == {u \in Uploads : row[u] = "active" /\ file[u] # "absent"}
Leaving == {u \in Uploads : row[u] = "active" /\ file[u] = "absent"}
Gone == {u \in Uploads : row[u] = "deleted"}

Host == INSTANCE FileHost WITH
  live <- Live,
  leaving <- Leaving,
  gone <- Gone,
  name <- [u \in Uploads |-> IF row[u] = "none" THEN NoSlug ELSE slug[u]],
  from <- picked,
  phase <- [r \in Readers |->
              IF rphase[r] # "opening" THEN rphase[r]
              ELSE IF had[r] THEN "sending" ELSE "missed"]

\* The server, its scans and its deletions implement FileHost: a deleted
\* upload never comes back, a download that found its row fails only when a
\* deletion overtook it, and a link nobody deletes never misses.
HostSpec == Host!Spec

-----------------------------------------------------------------------------
(* Liveness, under FairSpec.                                               *)

\* Without failures, an infected upload that is scanned ends deleted, and
\* its hash banned unless its file was removed before the verdict.  (A failed
\* scan is never repeated, so a failure anywhere may void this.)
InfectedGone ==
  \A u \in Uploads :
    /\ job[u] = "scan" /\ content[u] \in Infected ~>
         row[u] = "deleted" \/ faults > 0
    /\ job[u] = "ban" ~> content[u] \in banned \/ faults > 0

\* An expired upload ends deleted even when deletions fail or are killed
\* between removing the file and marking the row: a retry heals them.
ExpiredGone ==
  \A u \in Uploads : u \in expired ~> row[u] = "deleted"

=============================================================================
