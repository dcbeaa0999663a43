------------------------ MODULE UploadStoreProofs ---------------------------
(***************************************************************************)
(* What UploadStore guarantees for any number of uploads, slugs, readers   *)
(* and deletions and any bound on failures.                                *)
(***************************************************************************)
EXTENDS UploadStore, TLAPS

\* The tuples of variables every proof expands.
USE DEF vars, handlerVars, banVars, jobVars, readerVars, HandlerFrame,
        JobFrame, ReaderFrame, Fault, NoFault, Goto

\* Every variable keeps its type.
THEOREM TypeCorrect == Spec => []TypeOK
<1>1. Init => TypeOK
  <2> SUFFICES ASSUME Init
               PROVE  TypeOK
    OBVIOUS
  <2> USE DEF Init, HandlerSteps
  <2>1. /\ todo \in [Jobs -> SUBSET Uploads]
        /\ doing \in [Jobs -> Uploads \union {Nobody}]
        /\ job \in [Jobs -> {"idle", "scan", "ban", "flush", "select", "run"}]
    OBVIOUS
  <2>2. /\ had \in [Readers -> BOOLEAN]
        /\ cached \in BOOLEAN
    OBVIOUS
  <2> QED
    BY <2>1, <2>2 DEF TypeOK
<1>2. TypeOK /\ [Next]_vars => TypeOK'
  <2> SUFFICES ASSUME TypeOK, [Next]_vars
               PROVE  TypeOK'
    OBVIOUS
  <2> USE DEF TypeOK, HandlerSteps, Jobs, Deleters, Active
  <2>1. ASSUME NEW u \in Uploads, HandlerStep(u)
        PROVE  TypeOK'
    <3>1. CASE Start(u) \/ RefuseByName(u)
      BY <3>1 DEF Start, RefuseByName
    <3>2. CASE CheckHash(u)
      BY <3>2 DEF CheckHash
    <3>3. CASE Lookup(u)
      BY <3>3 DEF Lookup, Twins
    <3>4. CASE \E s \in Slugs : AllocateSlug(u, s)
      BY <3>4 DEF AllocateSlug
    <3>5. CASE Persist(u) \/ BeginCopy(u) \/ EndCopy(u)
      BY <3>5 DEF Persist, BeginCopy, EndCopy
    <3>6. CASE InsertRow(u)
      BY <3>6 DEF InsertRow
    <3>7. CASE LoseInsert(u) \/ HandlerFails(u)
      BY <3>7 DEF LoseInsert, HandlerFails
    <3> QED
      BY <2>1, <3>1, <3>2, <3>3, <3>4, <3>5, <3>6, <3>7 DEF HandlerStep
  <2>2. ASSUME NEW u \in Uploads, ScanStep(u)
        PROVE  TypeOK'
    <3>1. CASE Scan(u) \/ ScanFails(u)
      BY <3>1 DEF Scan, ScanFails
    <3>2. CASE BanHash(u)
      <4>1. content[u] \in Hashes
        OBVIOUS
      <4>2. bans' \in SUBSET Hashes
        BY <3>2, <4>1 DEF BanHash
      <4> QED
        BY <3>2, <4>2 DEF BanHash
    <3>3. CASE BanFails(u)
      BY <3>3 DEF BanFails
    <3>4. CASE FlushCache(u)
      <4>1. content[u] \in Hashes
        OBVIOUS
      <4>2. banned' \in SUBSET Hashes
        BY <3>4, <4>1 DEF FlushCache
      <4> QED
        BY <3>4, <4>2 DEF FlushCache
    <3>5. CASE SelectScanned(u)
      BY <3>5 DEF SelectScanned
    <3> QED
      BY <2>2, <3>1, <3>2, <3>3, <3>4, <3>5 DEF ScanStep
  <2>3. ASSUME NEW u \in Uploads, Expire(u)
        PROVE  TypeOK'
    BY <2>3 DEF Expire
  <2>4. ASSUME NEW d \in Deleters, NEW S \in SUBSET Uploads, SelectMatching(d, S)
        PROVE  TypeOK'
    BY <2>4 DEF SelectMatching
  <2>5. ASSUME NEW d \in Clis, SelectExpired(d)
        PROVE  TypeOK'
    BY <2>5 DEF SelectExpired, SelectMatching
  <2>6. ASSUME NEW j \in Jobs, JobStep(j)
        PROVE  TypeOK'
    <3>1. CASE \E u \in Uploads : RemoveFile(j, u) \/ RemoveFails(j, u)
      BY <2>6, <3>1 DEF RemoveFile, RemoveFails
    <3>2. CASE MarkDeleted(j)
      BY <2>6, <3>2 DEF MarkDeleted
    <3>3. CASE JobFails(j)
      BY <2>6, <3>3 DEF JobFails, Abort
    <3> QED
      BY <2>6, <3>1, <3>2, <3>3 DEF JobStep
  <2>7. ASSUME NEW r \in Readers, NEW s \in Slugs, FetchRow(r, s)
        PROVE  TypeOK'
    BY <2>7 DEF FetchRow, RowsOf
  <2>8. ASSUME NEW r \in Readers, OpenFile(r)
        PROVE  TypeOK'
    BY <2>8 DEF OpenFile
  <2>9. CASE CacheLapses
    BY <2>9 DEF CacheLapses
  <2>10. CASE Restart
    <3>1. /\ pc' \in [Uploads -> HandlerSteps]
          /\ rphase' \in [Readers -> {"idle", "opening", "served", "missed"}]
      BY <2>10 DEF Restart
    <3>2. /\ job' \in [Jobs -> {"idle", "scan", "ban", "flush", "select", "run"}]
          /\ todo' \in [Jobs -> SUBSET Uploads]
          /\ doing' \in [Jobs -> Uploads \union {Nobody}]
          /\ torn' \in SUBSET Uploads
      BY <2>10 DEF Restart, Abort
    <3>3. cached' = FALSE /\ cache' = {} /\ faults' = faults + 1
      BY <2>10 DEF Restart
    <3>4. /\ content' = content /\ row' = row /\ slug' = slug /\ file' = file
          /\ link' = link /\ expired' = expired /\ bans' = bans
          /\ banned' = banned /\ asked' = asked /\ picked' = picked
          /\ had' = had /\ stuck' = stuck
      BY <2>10 DEF Restart
    <3>5. cached' \in BOOLEAN /\ cache' \in SUBSET Hashes
      BY <3>3
    <3>6. faults' \in Nat
      BY <3>3
    <3>7. /\ content' \in [Uploads -> Hashes]
          /\ row' \in [Uploads -> {"none", "active", "deleted"}]
          /\ slug' \in [Uploads -> Slugs \union {NoSlug}]
          /\ file' \in [Uploads -> {"absent", "partial", "whole"}]
          /\ link' \in [Uploads -> Uploads \union {Nobody}]
      BY <3>4
    <3>8. /\ expired' \in SUBSET Uploads
          /\ bans' \in SUBSET Hashes
          /\ asked' \in [Readers -> Slugs \union {NoSlug}]
          /\ picked' \in [Readers -> Uploads \union {Nobody}]
          /\ had' \in [Readers -> BOOLEAN]
          /\ stuck' \in SUBSET Uploads
          /\ banned' \in SUBSET Hashes
      BY <3>4
    <3> QED
      BY <3>1, <3>2, <3>5, <3>6, <3>7, <3>8
  <2>11. CASE UNCHANGED vars
    BY <2>11
  <2> QED
    BY <2>1, <2>2, <2>3, <2>4, <2>5, <2>6, <2>7, <2>8, <2>9, <2>10, <2>11
    DEF Next
<1> QED
  BY <1>1, <1>2, PTL DEF Spec
-----------------------------------------------------------------------------
(* The inductive invariant.                                                *)

\* Where a handler is says what it has written.
HandlerInv ==
  \A u \in Uploads :
    /\ pc[u] \in {"idle", "check", "lookup", "slug", "save", "refused"} =>
         row[u] = "none" /\ file[u] = "absent"
    /\ pc[u] = "copy" => row[u] = "none"
    /\ pc[u] = "insert" => row[u] = "none" /\ file[u] = "whole"
    /\ pc[u] = "answered" => row[u] # "none" \/ file[u] = "absent"
    /\ pc[u] \in {"save", "copy", "insert"} \/ row[u] # "none" => slug[u] \in Slugs
    /\ row[u] # "none" => file[u] # "partial"

\* A deletion works only while it runs, on uploads that have a row.
JobInv ==
  /\ \A j \in Jobs :
       /\ job[j] # "run" => todo[j] = {} /\ doing[j] = Nobody
       /\ \A u \in todo[j] : row[u] # "none"
       /\ doing[j] # Nobody => row[doing[j]] # "none"
  /\ \A u \in Uploads : row[u] = "none" => job[u] = "idle"

\* A deletion that has passed remove_file leaves no file, or a stuck one.
RemovedInv ==
  /\ \A j \in Jobs : doing[j] # Nobody =>
       file[doing[j]] = "absent" \/ doing[j] \in stuck
  /\ RowHasFile
  /\ FileHasRow

\* A completed ban is in the table and in any list read from it since.
BanInv ==
  /\ banned \subseteq bans
  /\ cached => banned \subseteq cache
  /\ \A u \in Uploads : job[u] = "flush" => content[u] \in bans

\* A reader that found a row without its file will not find the file.
ReaderInv ==
  \A r \in Readers : rphase[r] = "opening" =>
    /\ picked[r] \in Uploads /\ row[picked[r]] # "none"
    /\ had[r] \/ file[picked[r]] = "absent"

IInv == TypeOK /\ HandlerInv /\ JobInv /\ RemovedInv /\ BanInv /\ ReaderInv

-----------------------------------------------------------------------------
\* A handler writes its file before its row, and nothing else writes either
\* for an upload without a row.
LEMMA HandlerStable ==
  ASSUME TypeOK, TypeOK', HandlerInv, JobInv, [Next]_vars
  PROVE  HandlerInv'
<1> USE DEF TypeOK, HandlerSteps, HandlerInv, Jobs, Deleters
<1>1. ASSUME NEW u \in Uploads, HandlerStep(u)
      PROVE  HandlerInv'
  <2>1. CASE Start(u) \/ RefuseByName(u)
    BY <2>1 DEF Start, RefuseByName
  <2>2. CASE CheckHash(u)
    BY <2>2 DEF CheckHash
  <2>3. CASE Lookup(u)
    BY <2>3 DEF Lookup
  <2>4. CASE \E s \in Slugs : AllocateSlug(u, s)
    BY <2>4 DEF AllocateSlug
  <2>5. CASE Persist(u) \/ BeginCopy(u) \/ EndCopy(u)
    BY <2>5 DEF Persist, BeginCopy, EndCopy
  <2>6. CASE InsertRow(u) \/ LoseInsert(u)
    BY <2>6 DEF InsertRow, LoseInsert
  <2>7. CASE HandlerFails(u)
    BY <2>7 DEF HandlerFails
  <2> QED
    BY <1>1, <2>1, <2>2, <2>3, <2>4, <2>5, <2>6, <2>7 DEF HandlerStep
<1>2. ASSUME NEW j \in Jobs, NEW u \in Uploads,
             RemoveFile(j, u) \/ RemoveFails(j, u)
      PROVE  HandlerInv'
  BY <1>2 DEF RemoveFile, RemoveFails, JobInv
<1>3. ASSUME NEW j \in Jobs, MarkDeleted(j)
      PROVE  HandlerInv'
  BY <1>3 DEF MarkDeleted, JobInv
<1>4. CASE Restart
  BY <1>4 DEF Restart
<1>5. CASE UNCHANGED <<pc, row, file, slug>>
  BY <1>5
<1>6. ASSUME NEW u \in Uploads, ScanStep(u) \/ Expire(u)
      PROVE  UNCHANGED <<pc, row, file, slug>>
  BY <1>6 DEF ScanStep, Scan, ScanFails, BanHash, BanFails, FlushCache,
     SelectScanned, Expire
<1>7. ASSUME NEW d \in Deleters, NEW S \in SUBSET Uploads, SelectMatching(d, S)
      PROVE  UNCHANGED <<pc, row, file, slug>>
  BY <1>7 DEF SelectMatching
<1>8. ASSUME NEW d \in Clis, SelectExpired(d)
      PROVE  UNCHANGED <<pc, row, file, slug>>
  BY <1>8 DEF SelectExpired, SelectMatching
<1>9. ASSUME NEW j \in Jobs, JobFails(j)
      PROVE  UNCHANGED <<pc, row, file, slug>>
  BY <1>9 DEF JobFails
<1>10. ASSUME NEW r \in Readers, OpenFile(r) \/ \E s \in Slugs : FetchRow(r, s)
       PROVE  UNCHANGED <<pc, row, file, slug>>
  BY <1>10 DEF OpenFile, FetchRow
<1>11. CacheLapses \/ UNCHANGED vars => UNCHANGED <<pc, row, file, slug>>
  BY DEF CacheLapses
<1> QED
  BY <1>1, <1>2, <1>3, <1>4, <1>5, <1>6, <1>7, <1>8, <1>9, <1>10, <1>11
  DEF Next, JobStep

\* A deletion only holds uploads that have a row.
LEMMA JobStable ==
  ASSUME TypeOK, TypeOK', HandlerInv, JobInv, [Next]_vars
  PROVE  JobInv'
<1> USE DEF TypeOK, HandlerSteps, JobInv, Jobs, Deleters, Active
<1> USE DistinctAssumption
<1>1. ASSUME NEW u \in Uploads, HandlerStep(u)
      PROVE  JobInv'
  <2>1. CASE InsertRow(u)
    BY <2>1 DEF InsertRow, HandlerInv
  <2>2. CASE LoseInsert(u)
    BY <2>2 DEF LoseInsert
  <2>3. CASE UNCHANGED <<row, jobVars>>
    BY <2>3
  <2> QED
    BY <1>1, <2>1, <2>2, <2>3 DEF HandlerStep, Start, RefuseByName, CheckHash,
       Lookup, AllocateSlug, Persist, BeginCopy, EndCopy, HandlerFails
<1>2. ASSUME NEW u \in Uploads, ScanStep(u)
      PROVE  JobInv'
  <2>1. CASE Scan(u) \/ ScanFails(u)
    BY <2>1 DEF Scan, ScanFails
  <2>2. CASE BanHash(u)
    BY <2>2 DEF BanHash
  <2>3. CASE BanFails(u)
    BY <2>3 DEF BanFails
  <2>4. CASE FlushCache(u)
    BY <2>4 DEF FlushCache
  <2>5. CASE SelectScanned(u)
    BY <2>5 DEF SelectScanned
  <2> QED
    BY <1>2, <2>1, <2>2, <2>3, <2>4, <2>5 DEF ScanStep
<1>3. ASSUME NEW d \in Deleters, NEW S \in SUBSET Uploads, SelectMatching(d, S)
      PROVE  JobInv'
  BY <1>3 DEF SelectMatching
<1>4. ASSUME NEW d \in Clis, SelectExpired(d)
      PROVE  JobInv'
  BY <1>3, <1>4 DEF SelectExpired
<1>5. ASSUME NEW j \in Jobs, JobStep(j)
      PROVE  JobInv'
  <2>1. ASSUME NEW u \in Uploads, RemoveFile(j, u) \/ RemoveFails(j, u)
        PROVE  JobInv'
    <3>1. /\ u \in todo[j] /\ job[j] = "run"
          /\ doing' = [doing EXCEPT ![j] = u]
          /\ todo' = [todo EXCEPT ![j] = @ \ {u}]
          /\ UNCHANGED <<row, job>>
      BY <2>1 DEF RemoveFile, RemoveFails
    <3> QED
      BY <1>5, <3>1
  <2>2. CASE MarkDeleted(j)
    BY <1>5, <2>2 DEF MarkDeleted
  <2>3. CASE JobFails(j)
    BY <1>5, <2>3 DEF JobFails, Abort
  <2> QED
    BY <1>5, <2>1, <2>2, <2>3 DEF JobStep
<1>6. CASE Restart
  BY <1>6 DEF Restart, Abort
<1>7. CASE UNCHANGED <<row, jobVars>>
  BY <1>7
<1>8. ASSUME NEW r \in Readers, OpenFile(r) \/ \E s \in Slugs : FetchRow(r, s)
      PROVE  UNCHANGED <<row, jobVars>>
  BY <1>8 DEF OpenFile, FetchRow
<1>9. (\E u \in Uploads : Expire(u)) \/ CacheLapses \/ UNCHANGED vars
        => UNCHANGED <<row, jobVars>>
  BY DEF Expire, CacheLapses
<1> QED
  BY <1>1, <1>2, <1>3, <1>4, <1>5, <1>6, <1>7, <1>8, <1>9 DEF Next

\* Rows and files come and go in the order that keeps one from outliving the
\* other unnoticed.
LEMMA RemovedStable ==
  ASSUME TypeOK, TypeOK', HandlerInv, HandlerInv', JobInv, RemovedInv,
         [Next]_vars
  PROVE  RemovedInv'
<1> USE DEF TypeOK, HandlerSteps, RemovedInv, RowHasFile, FileHasRow, Jobs,
        Deleters, Active
<1> USE DistinctAssumption
<1>1. ASSUME NEW u \in Uploads, HandlerStep(u)
      PROVE  RemovedInv'
  <2>1. CASE UNCHANGED <<row, file, doing, torn, stuck>>
    BY <1>1, <2>1 DEF HandlerInv
  <2>2. CASE Persist(u) \/ BeginCopy(u) \/ EndCopy(u)
    <3>1. row[u] = "none" /\ \A j \in Jobs : doing[j] # u
      BY <2>2 DEF Persist, BeginCopy, EndCopy, HandlerInv, JobInv
    <3>2. /\ UNCHANGED <<row, doing, torn, stuck>>
          /\ \A v \in Uploads \ {u} : file'[v] = file[v] /\ pc'[v] = pc[v]
          /\ pc'[u] \in {"copy", "insert"}
      BY <2>2 DEF Persist, BeginCopy, EndCopy
    <3>3. RowHasFile'
      BY <3>1, <3>2
    <3>4. FileHasRow'
      BY <3>1, <3>2
    <3> QED
      BY <3>1, <3>2, <3>3, <3>4
  <2>3. CASE InsertRow(u) \/ LoseInsert(u)
    <3>1. /\ row[u] = "none" /\ file[u] = "whole"
          /\ row' = [row EXCEPT ![u] = "active"]
          /\ UNCHANGED <<file, doing, torn, stuck>>
          /\ \A v \in Uploads \ {u} : pc'[v] = pc[v]
      BY <2>3 DEF InsertRow, LoseInsert, HandlerInv
    <3>2. RowHasFile'
      <4> SUFFICES ASSUME NEW v \in Uploads, row'[v] = "active"
                   PROVE  \/ file'[v] = "whole" \/ v \in torn'
                          \/ \E j \in Jobs : doing'[j] = v
        OBVIOUS
      <4>1. CASE v = u
        BY <3>1, <4>1
      <4>2. CASE v # u
        BY <3>1, <4>2
      <4> QED
        BY <4>1, <4>2
    <3>3. FileHasRow'
      BY <3>1
    <3> QED
      BY <3>1, <3>2, <3>3
  <2> QED
    BY <1>1, <2>1, <2>2, <2>3 DEF HandlerStep, Start, RefuseByName, CheckHash,
       Lookup, AllocateSlug, HandlerFails
<1>2. ASSUME NEW j \in Jobs, NEW u \in Uploads, RemoveFile(j, u)
      PROVE  RemovedInv'
  BY <1>2 DEF RemoveFile
<1>3. ASSUME NEW j \in Jobs, NEW u \in Uploads, RemoveFails(j, u)
      PROVE  RemovedInv'
  BY <1>3 DEF RemoveFails
<1>4. ASSUME NEW j \in Jobs, MarkDeleted(j)
      PROVE  RemovedInv'
  BY <1>4 DEF MarkDeleted
<1>5. ASSUME NEW J \in SUBSET Jobs, Abort(J),
             UNCHANGED <<row, file, stuck>>,
             \A u \in Uploads : pc'[u] = pc[u] \/ pc'[u] = "failed"
      PROVE  RemovedInv'
  BY <1>5 DEF Abort
<1>6. ASSUME NEW j \in Jobs, JobFails(j)
      PROVE  RemovedInv'
  BY <1>5, <1>6 DEF JobFails
<1>7. CASE Restart
  BY <1>5, <1>7 DEF Restart
<1>8. CASE UNCHANGED <<pc, row, file, doing, torn, stuck>>
  BY <1>8
<1>9. ASSUME NEW u \in Uploads, ScanStep(u) \/ Expire(u)
      PROVE  UNCHANGED <<pc, row, file, doing, torn, stuck>>
  BY <1>9 DEF ScanStep, Scan, ScanFails, BanHash, BanFails, FlushCache,
     SelectScanned, Expire
<1>10. ASSUME NEW d \in Deleters, NEW S \in SUBSET Uploads, SelectMatching(d, S)
       PROVE  UNCHANGED <<pc, row, file, doing, torn, stuck>>
  BY <1>10 DEF SelectMatching
<1>11. ASSUME NEW d \in Clis, SelectExpired(d)
       PROVE  UNCHANGED <<pc, row, file, doing, torn, stuck>>
  BY <1>11 DEF SelectExpired, SelectMatching
<1>12. ASSUME NEW r \in Readers, OpenFile(r) \/ \E s \in Slugs : FetchRow(r, s)
       PROVE  UNCHANGED <<pc, row, file, doing, torn, stuck>>
  BY <1>12 DEF OpenFile, FetchRow
<1>13. CacheLapses \/ UNCHANGED vars
         => UNCHANGED <<pc, row, file, doing, torn, stuck>>
  BY DEF CacheLapses
<1> QED
  BY <1>1, <1>2, <1>3, <1>4, <1>6, <1>7, <1>8, <1>9, <1>10, <1>11, <1>12, <1>13
  DEF Next, JobStep

\* The table is written before the cache is cleared, and the cache is filled
\* from the table.
LEMMA BanStable ==
  ASSUME TypeOK, TypeOK', HandlerInv, BanInv, [Next]_vars
  PROVE  BanInv'
<1> USE DEF TypeOK, BanInv, Jobs, Deleters
<1> USE DistinctAssumption
<1>1. ASSUME NEW u \in Uploads, HandlerStep(u)
      PROVE  BanInv'
  <2>1. CASE CheckHash(u)
    BY <2>1 DEF CheckHash
  <2>2. CASE InsertRow(u)
    BY <2>2 DEF InsertRow
  <2>3. CASE UNCHANGED <<content, job, banVars>>
    BY <2>3
  <2> QED
    BY <1>1, <2>1, <2>2, <2>3 DEF HandlerStep, Start, RefuseByName,
       Lookup, AllocateSlug, Persist, BeginCopy, EndCopy, LoseInsert,
       HandlerFails
<1>2. ASSUME NEW u \in Uploads, ScanStep(u)
      PROVE  BanInv'
  <2>1. CASE Scan(u) \/ ScanFails(u)
    BY <2>1 DEF Scan, ScanFails
  <2>2. CASE BanHash(u)
    BY <2>2 DEF BanHash
  <2>3. CASE BanFails(u)
    BY <2>3 DEF BanFails
  <2>4. CASE FlushCache(u)
    BY <2>4 DEF FlushCache
  <2>5. CASE SelectScanned(u)
    BY <2>5 DEF SelectScanned
  <2> QED
    BY <1>2, <2>1, <2>2, <2>3, <2>4, <2>5 DEF ScanStep
<1>3. ASSUME NEW d \in Deleters, NEW S \in SUBSET Uploads, SelectMatching(d, S)
      PROVE  BanInv'
  BY <1>3 DEF SelectMatching
<1>4. ASSUME NEW d \in Clis, SelectExpired(d)
      PROVE  BanInv'
  BY <1>3, <1>4 DEF SelectExpired
<1>5. ASSUME NEW j \in Jobs, JobStep(j)
      PROVE  BanInv'
  <2>1. CASE \E u \in Uploads : RemoveFile(j, u) \/ RemoveFails(j, u)
    BY <2>1 DEF RemoveFile, RemoveFails
  <2>2. CASE MarkDeleted(j)
    BY <1>5, <2>2 DEF MarkDeleted
  <2>3. CASE JobFails(j)
    BY <1>5, <2>3 DEF JobFails, Abort
  <2> QED
    BY <1>5, <2>1, <2>2, <2>3 DEF JobStep
<1>6. CASE Restart
  BY <1>6 DEF Restart, Abort
<1>7. CASE CacheLapses
  BY <1>7 DEF CacheLapses
<1>8. CASE UNCHANGED <<content, job, banVars>>
  BY <1>8
<1>9. ASSUME NEW r \in Readers, OpenFile(r) \/ \E s \in Slugs : FetchRow(r, s)
      PROVE  UNCHANGED <<content, job, banVars>>
  BY <1>9 DEF OpenFile, FetchRow
<1>10. (\E u \in Uploads : Expire(u)) \/ UNCHANGED vars
         => UNCHANGED <<content, job, banVars>>
  BY DEF Expire
<1> QED
  BY <1>1, <1>2, <1>3, <1>4, <1>5, <1>6, <1>7, <1>8, <1>9, <1>10 DEF Next

\* A row never goes away and a removed file never comes back under a reader.
LEMMA ReaderStable ==
  ASSUME TypeOK, TypeOK', HandlerInv, JobInv, ReaderInv, [Next]_vars
  PROVE  ReaderInv'
<1> USE DEF TypeOK, HandlerSteps, ReaderInv, Jobs, Deleters, Active
<1>1. ASSUME UNCHANGED readerVars,
             \A u \in Uploads : row[u] # "none" =>
               row'[u] # "none" /\ (file[u] = "absent" => file'[u] = "absent")
      PROVE  ReaderInv'
  BY <1>1
<1>2. ASSUME NEW u \in Uploads, HandlerStep(u)
      PROVE  ReaderInv'
  <2>1. CASE Persist(u) \/ BeginCopy(u) \/ EndCopy(u)
    BY <1>1, <2>1 DEF Persist, BeginCopy, EndCopy, HandlerInv
  <2>2. CASE InsertRow(u) \/ LoseInsert(u)
    BY <1>1, <2>2 DEF InsertRow, LoseInsert
  <2>3. CASE UNCHANGED <<row, file, readerVars>>
    BY <1>1, <2>3
  <2> QED
    BY <1>2, <2>1, <2>2, <2>3 DEF HandlerStep, Start, RefuseByName, CheckHash,
       Lookup, AllocateSlug, HandlerFails
<1>3. ASSUME NEW j \in Jobs, NEW u \in Uploads,
             RemoveFile(j, u) \/ RemoveFails(j, u)
      PROVE  ReaderInv'
  BY <1>1, <1>3 DEF RemoveFile, RemoveFails
<1>4. ASSUME NEW j \in Jobs, MarkDeleted(j)
      PROVE  ReaderInv'
  BY <1>1, <1>4 DEF MarkDeleted
<1>5. ASSUME NEW r \in Readers, NEW s \in Slugs, FetchRow(r, s)
      PROVE  ReaderInv'
  BY <1>5 DEF FetchRow, RowsOf
<1>6. ASSUME NEW r \in Readers, OpenFile(r)
      PROVE  ReaderInv'
  BY <1>6 DEF OpenFile
<1>7. CASE Restart
  BY <1>7 DEF Restart
<1>8. CASE UNCHANGED <<row, file, readerVars>>
  BY <1>1, <1>8
<1>9. ASSUME NEW u \in Uploads, ScanStep(u) \/ Expire(u)
      PROVE  UNCHANGED <<row, file, readerVars>>
  BY <1>9 DEF ScanStep, Scan, ScanFails, BanHash, BanFails, FlushCache,
     SelectScanned, Expire
<1>10. ASSUME NEW d \in Deleters, NEW S \in SUBSET Uploads, SelectMatching(d, S)
       PROVE  UNCHANGED <<row, file, readerVars>>
  BY <1>10 DEF SelectMatching
<1>11. ASSUME NEW d \in Clis, SelectExpired(d)
       PROVE  UNCHANGED <<row, file, readerVars>>
  BY <1>11 DEF SelectExpired, SelectMatching
<1>12. ASSUME NEW j \in Jobs, JobFails(j)
       PROVE  UNCHANGED <<row, file, readerVars>>
  BY <1>12 DEF JobFails
<1>13. CacheLapses \/ UNCHANGED vars => UNCHANGED <<row, file, readerVars>>
  BY DEF CacheLapses
<1> QED
  BY <1>2, <1>3, <1>4, <1>5, <1>6, <1>7, <1>8, <1>9, <1>10, <1>11, <1>12, <1>13
  DEF Next, JobStep

-----------------------------------------------------------------------------
\* The invariant holds of every reachable state.
THEOREM Invariance == Spec => []IInv
<1>1. Init => HandlerInv /\ JobInv /\ RemovedInv /\ BanInv /\ ReaderInv
  <2> SUFFICES ASSUME Init
               PROVE  HandlerInv /\ JobInv /\ RemovedInv /\ BanInv /\ ReaderInv
    OBVIOUS
  <2> USE DEF Init
  <2>1. HandlerInv
    BY DEF HandlerInv
  <2>2. JobInv
    BY DEF JobInv, Jobs
  <2>3. RemovedInv
    BY DEF RemovedInv, RowHasFile, FileHasRow, Active
  <2>4. BanInv /\ ReaderInv
    BY DEF BanInv, ReaderInv, Jobs
  <2> QED
    BY <2>1, <2>2, <2>3, <2>4
<1>2. TypeOK /\ TypeOK' /\ IInv /\ [Next]_vars => IInv'
  BY HandlerStable, JobStable, RemovedStable, BanStable, ReaderStable DEF IInv
<1>3. Spec => []TypeOK
  BY TypeCorrect
<1> QED
  BY <1>1, <1>2, <1>3, PTL DEF Spec, IInv

\* No active row is without its file unless a deletion took it, and no file
\* is without an active row unless a handler or a deletion failed.
THEOREM StoreConsistent == Spec => [](RowHasFile /\ FileHasRow)
<1>1. IInv => RowHasFile /\ FileHasRow
  BY DEF IInv, RemovedInv
<1> QED
  BY <1>1, Invariance, PTL

\* No file is without a row, apart from those of handlers and deletions that
\* failed on the way.
THEOREM FileKeepsRow == Spec => []FileHasRow
BY StoreConsistent, PTL

\* After a scan has completed a ban, no upload of that hash passes the check.
THEOREM BanIsFinal == Spec => NoPassAfterBan
<1> DEFINE Passes == \A u \in Uploads :
      pc[u] = "check" /\ pc'[u] = "lookup" => content[u] \notin banned
<1>1. IInv /\ [Next]_vars => [Passes]_vars
  <2> SUFFICES ASSUME IInv, Next, NEW u \in Uploads,
                      pc[u] = "check", pc'[u] = "lookup"
               PROVE  content[u] \notin banned
    OBVIOUS
  <2> USE DEF IInv, TypeOK, HandlerSteps
  <2>1. CASE CheckHash(u)
    BY <2>1 DEF CheckHash, BanInv
  <2>2. ASSUME NEW v \in Uploads, HandlerStep(v), ~CheckHash(u)
        PROVE  FALSE
    BY <2>2 DEF HandlerStep, Start, RefuseByName, CheckHash, Lookup,
       AllocateSlug, Persist, BeginCopy, EndCopy, InsertRow, LoseInsert,
       HandlerFails
  <2>3. CASE Restart
    BY <2>3 DEF Restart
  <2>4. ASSUME UNCHANGED pc
        PROVE  FALSE
    BY <2>4
  <2>5. ASSUME NEW v \in Uploads, ScanStep(v) \/ Expire(v)
        PROVE  UNCHANGED pc
    BY <2>5 DEF ScanStep, Scan, ScanFails, BanHash, BanFails, FlushCache,
       SelectScanned, Expire
  <2>6. ASSUME NEW j \in Jobs, JobStep(j)
        PROVE  UNCHANGED pc
    BY <2>6 DEF JobStep, RemoveFile, RemoveFails, MarkDeleted, JobFails
  <2>7. ASSUME NEW d \in Deleters, NEW S \in SUBSET Uploads, SelectMatching(d, S)
        PROVE  UNCHANGED pc
    BY <2>7 DEF SelectMatching
  <2>8. ASSUME NEW d \in Clis, SelectExpired(d)
        PROVE  UNCHANGED pc
    BY <2>8 DEF SelectExpired, SelectMatching
  <2>9. ASSUME NEW r \in Readers, OpenFile(r) \/ \E s \in Slugs : FetchRow(r, s)
        PROVE  UNCHANGED pc
    BY <2>9 DEF OpenFile, FetchRow
  <2>10. CacheLapses => UNCHANGED pc
    BY DEF CacheLapses
  <2> QED
    BY <2>1, <2>2, <2>3, <2>4, <2>5, <2>6, <2>7, <2>8, <2>9, <2>10 DEF Next
<1> QED
  BY <1>1, Invariance, PTL DEF Spec, NoPassAfterBan
-----------------------------------------------------------------------------
(* UploadStore implements FileHost.                                        *)

\* The name and the phase of FileHost under the refinement mapping.
Name == [u \in Uploads |-> IF row[u] = "none" THEN NoSlug ELSE slug[u]]
Phase == [r \in Readers |->
            IF rphase[r] # "opening" THEN rphase[r]
            ELSE IF had[r] THEN "sending" ELSE "missed"]

\* A step that leaves rows, files behind rows, and readers changes nothing
\* that a client sees.
LEMMA Unseen ==
  ASSUME TypeOK, UNCHANGED <<row, readerVars>>,
         \A u \in Uploads : row[u] # "none" =>
           slug'[u] = slug[u] /\ (file'[u] = "absent" <=> file[u] = "absent")
  PROVE  UNCHANGED Host!vars
<1>1. Live' = Live /\ Leaving' = Leaving /\ Gone' = Gone
  BY DEF Live, Leaving, Gone
<1>2. Name' = Name
  BY DEF Name
<1>3. Phase' = Phase
  BY DEF Phase
<1> QED
  BY <1>1, <1>2, <1>3 DEF Host!vars, Name, Phase

LEMMA StepRefines ==
  ASSUME IInv, IInv', [Next]_vars
  PROVE  [Host!Next]_Host!vars
<1> USE DEF IInv, TypeOK, HandlerSteps, Jobs, Deleters, Active
<1> USE DistinctAssumption
<1>1. ASSUME NEW u \in Uploads, HandlerStep(u)
      PROVE  [Host!Next]_Host!vars
  <2>1. CASE UNCHANGED <<row, file, slug, readerVars>>
    BY <2>1, Unseen
  <2>2. CASE \E s \in Slugs : AllocateSlug(u, s)
    BY <2>2, Unseen DEF AllocateSlug, HandlerInv
  <2>3. CASE Persist(u) \/ BeginCopy(u) \/ EndCopy(u)
    BY <2>3, Unseen DEF Persist, BeginCopy, EndCopy, HandlerInv
  <2>4. CASE InsertRow(u) \/ LoseInsert(u)
    <3>1. /\ row[u] = "none" /\ file[u] = "whole" /\ slug[u] \in Slugs
          /\ row' = [row EXCEPT ![u] = "active"]
          /\ UNCHANGED <<file, slug, readerVars>>
      BY <2>4 DEF InsertRow, LoseInsert, HandlerInv
    <3>2. u \notin Live \union Leaving \union Gone
      BY <3>1 DEF Live, Leaving, Gone
    <3>3. Live' = Live \union {u} /\ Leaving' = Leaving /\ Gone' = Gone
      BY <3>1 DEF Live, Leaving, Gone
    <3> PICK s \in Slugs : s = slug[u]
      BY <3>1
    <3>4. Name' = [Name EXCEPT ![u] = s]
      BY <3>1 DEF Name
    <3>5. Phase' = Phase /\ asked' = asked /\ picked' = picked
      BY <3>1 DEF Phase
    <3>6. Host!Publish(u, s)
      BY <3>2, <3>3, <3>4, <3>5 DEF Host!Publish, Name, Phase
    <3> QED
      BY <3>6 DEF Host!Next
  <2> QED
    BY <1>1, <2>1, <2>2, <2>3, <2>4 DEF HandlerStep, Start, RefuseByName,
       CheckHash, Lookup, HandlerFails
<1>2. ASSUME NEW j \in Jobs, NEW u \in Uploads, RemoveFile(j, u)
      PROVE  [Host!Next]_Host!vars
  <2>1. /\ row[u] # "none"
        /\ file' = [file EXCEPT ![u] = "absent"]
        /\ UNCHANGED <<row, slug, readerVars>>
    BY <1>2 DEF RemoveFile, JobInv
  <2>2. CASE u \notin Live
    <3>1. \A v \in Uploads : row[v] # "none" =>
            slug'[v] = slug[v]
      BY <2>1
    <3>2. Live' = Live /\ Leaving' = Leaving /\ Gone' = Gone
      BY <2>1, <2>2 DEF Live, Leaving, Gone
    <3>3. Name' = Name /\ Phase' = Phase /\ asked' = asked /\ picked' = picked
      BY <2>1 DEF Name, Phase
    <3> QED
      BY <3>2, <3>3 DEF Host!vars, Name, Phase
  <2>3. CASE u \in Live
    <3>1. /\ Live' = Live \ {u} /\ Leaving' = Leaving \union {u}
          /\ Gone' = Gone
      BY <2>1, <2>3 DEF Live, Leaving, Gone
    <3>2. Name' = Name /\ Phase' = Phase /\ asked' = asked /\ picked' = picked
      BY <2>1 DEF Name, Phase
    <3>3. Host!Withdraw(u)
      BY <2>3, <3>1, <3>2 DEF Host!Withdraw, Name, Phase
    <3> QED
      BY <3>3 DEF Host!Next
  <2> QED
    BY <2>2, <2>3
<1>3. ASSUME NEW j \in Jobs, MarkDeleted(j)
      PROVE  [Host!Next]_Host!vars
  <2> DEFINE u == doing[j]
  <2>1. /\ u \in Uploads /\ row[u] # "none"
        /\ row' = [row EXCEPT ![u] = "deleted"]
        /\ UNCHANGED <<file, slug, readerVars>>
    BY <1>3 DEF MarkDeleted, JobInv
  <2> HIDE DEF u
  <2>2. Name' = Name /\ Phase' = Phase /\ asked' = asked /\ picked' = picked
    BY <2>1 DEF Name, Phase
  <2>3. CASE row[u] = "deleted"
    BY <2>1, <2>3, Unseen
  <2>4. CASE row[u] = "active"
    <3>1. /\ u \in Live \union Leaving
          /\ Live' = Live \ {u} /\ Leaving' = Leaving \ {u}
          /\ Gone' = Gone \union {u}
      BY <2>1, <2>4 DEF Live, Leaving, Gone
    <3>2. Host!Retire(u)
      BY <2>2, <3>1 DEF Host!Retire, Name, Phase
    <3> QED
      BY <2>1, <3>2 DEF Host!Next
  <2> QED
    BY <2>1, <2>3, <2>4
<1>4. ASSUME NEW r \in Readers, NEW s \in Slugs, FetchRow(r, s)
      PROVE  [Host!Next]_Host!vars
  <2>1. /\ rphase[r] # "opening" /\ asked' = [asked EXCEPT ![r] = s]
        /\ UNCHANGED <<row, file, slug>>
    BY <1>4 DEF FetchRow
  <2>2. Phase[r] # "sending"
    BY <2>1 DEF Phase
  <2>3. Live' = Live /\ Leaving' = Leaving /\ Gone' = Gone /\ Name' = Name
    BY <2>1 DEF Live, Leaving, Gone, Name
  <2>4. ASSUME NEW u \in RowsOf(s),
               picked' = [picked EXCEPT ![r] = u],
               had' = [had EXCEPT ![r] = (file[u] # "absent")],
               rphase' = [rphase EXCEPT ![r] = "opening"]
        PROVE  [Host!Next]_Host!vars
    <3>1. u \in Uploads /\ row[u] = "active" /\ slug[u] = s /\ Name[u] = s
      BY DEF RowsOf, Name
    <3>2. CASE file[u] # "absent"
      <4>1. Phase' = [Phase EXCEPT ![r] = "sending"]
        BY <2>4, <3>2 DEF Phase
      <4>2. u \in Live
        BY <3>1, <3>2 DEF Live
      <4>3. Host!Ask(r, s, u)
        BY <2>1, <2>2, <2>3, <2>4, <3>1, <4>1, <4>2 DEF Host!Ask, Name, Phase
      <4> QED
        BY <3>1, <4>3 DEF Host!Next
    <3>3. CASE file[u] = "absent"
      <4>1. Phase' = [Phase EXCEPT ![r] = "missed"]
        BY <2>4, <3>3 DEF Phase
      <4>2. u \in Leaving
        BY <3>1, <3>3 DEF Leaving
      <4>3. Host!Miss(r, s, u)
        BY <2>1, <2>2, <2>3, <2>4, <3>1, <4>1, <4>2 DEF Host!Miss, Name, Phase
      <4> QED
        BY <3>1, <4>3 DEF Host!Next
    <3> QED
      BY <3>2, <3>3
  <2>5. ASSUME RowsOf(s) = {},
               picked' = [picked EXCEPT ![r] = Nobody],
               rphase' = [rphase EXCEPT ![r] = "missed"],
               had' = [had EXCEPT ![r] = FALSE]
        PROVE  [Host!Next]_Host!vars
    <3>1. Phase' = [Phase EXCEPT ![r] = "missed"]
      BY <2>5 DEF Phase
    <3>2. \A v \in Live : Name[v] # s
      BY <2>5 DEF Live, Name, RowsOf
    <3>3. Host!Miss(r, s, Nobody)
      BY <2>1, <2>2, <2>3, <2>5, <3>1, <3>2 DEF Host!Miss, Name, Phase
    <3> QED
      BY <3>3 DEF Host!Next
  <2> QED
    BY <1>4, <2>4, <2>5 DEF FetchRow
<1>5. ASSUME NEW r \in Readers, OpenFile(r)
      PROVE  [Host!Next]_Host!vars
  <2> DEFINE u == picked[r]
  <2>1. /\ rphase[r] = "opening"
        /\ rphase' = [rphase EXCEPT ![r] =
                        IF file[u] = "absent" THEN "missed" ELSE "served"]
        /\ UNCHANGED <<row, file, slug, asked, picked, had>>
    BY <1>5 DEF OpenFile
  <2>2. /\ u \in Uploads /\ row[u] # "none"
        /\ had[r] \/ file[u] = "absent"
    BY <2>1 DEF ReaderInv
  <2> HIDE DEF u
  <2>3. Live' = Live /\ Leaving' = Leaving /\ Gone' = Gone /\ Name' = Name
    BY <2>1 DEF Live, Leaving, Gone, Name
  <2>4. CASE ~had[r]
    <3>1. Phase' = Phase
      BY <2>1, <2>2, <2>4 DEF Phase
    <3> QED
      BY <2>1, <2>3, <3>1 DEF Host!vars, Name, Phase
  <2>5. had[r] => Phase[r] = "sending"
    BY <2>1 DEF Phase
  <2>6. CASE had[r] /\ file[u] = "absent"
    <3>1. rphase' = [rphase EXCEPT ![r] = "missed"] /\ had' = had
      BY <2>1, <2>6
    <3>2. Phase' = [Phase EXCEPT ![r] = "missed"]
      BY <3>1 DEF Phase
    <3>3. picked[r] \in Leaving \union Gone
      BY <2>2, <2>6 DEF Leaving, Gone, u
    <3>4. Host!Break(r)
      BY <2>1, <2>3, <2>5, <2>6, <3>2, <3>3 DEF Host!Break, Name, Phase
    <3> QED
      BY <3>4 DEF Host!Next
  <2>7. CASE had[r] /\ file[u] # "absent"
    <3>1. rphase' = [rphase EXCEPT ![r] = "served"] /\ had' = had
      BY <2>1, <2>7
    <3>2. Phase' = [Phase EXCEPT ![r] = "served"]
      BY <3>1 DEF Phase
    <3>3. Host!Deliver(r)
      BY <2>1, <2>3, <2>5, <2>7, <3>2 DEF Host!Deliver, Name, Phase
    <3> QED
      BY <3>3 DEF Host!Next
  <2> QED
    BY <2>4, <2>6, <2>7
<1>6. CASE Restart
  <2> PICK R \in SUBSET Readers : R = {r \in Readers : rphase[r] = "opening"}
    OBVIOUS
  <2>1. UNCHANGED <<row, file, slug, asked, picked, had>>
    BY <1>6 DEF Restart
  <2>2. Live' = Live /\ Leaving' = Leaving /\ Gone' = Gone /\ Name' = Name
    BY <2>1 DEF Live, Leaving, Gone, Name
  <2>3. Phase' = [r \in Readers |-> IF r \in R THEN "idle" ELSE Phase[r]]
    BY <1>6 DEF Restart, Phase
  <2>4. Host!Drop(R)
    BY <2>1, <2>2, <2>3 DEF Host!Drop, Name, Phase
  <2> QED
    BY <2>4 DEF Host!Next
<1>7. CASE UNCHANGED <<row, file, slug, readerVars>>
  BY <1>7, Unseen
<1>8. ASSUME NEW u \in Uploads, ScanStep(u) \/ Expire(u)
      PROVE  UNCHANGED <<row, file, slug, readerVars>>
  BY <1>8 DEF ScanStep, Scan, ScanFails, BanHash, BanFails, FlushCache,
     SelectScanned, Expire
<1>9. ASSUME NEW d \in Deleters, NEW S \in SUBSET Uploads, SelectMatching(d, S)
      PROVE  UNCHANGED <<row, file, slug, readerVars>>
  BY <1>9 DEF SelectMatching
<1>10. ASSUME NEW d \in Clis, SelectExpired(d)
       PROVE  UNCHANGED <<row, file, slug, readerVars>>
  BY <1>10 DEF SelectExpired, SelectMatching
<1>11. ASSUME NEW j \in Jobs, JobFails(j) \/ \E u \in Uploads : RemoveFails(j, u)
       PROVE  UNCHANGED <<row, file, slug, readerVars>>
  BY <1>11 DEF JobFails, RemoveFails
<1>12. CacheLapses \/ UNCHANGED vars => UNCHANGED <<row, file, slug, readerVars>>
  BY DEF CacheLapses
<1> QED
  BY <1>1, <1>2, <1>3, <1>4, <1>5, <1>6, <1>7, <1>8, <1>9, <1>10, <1>11, <1>12
  DEF Next, JobStep

\* To a client, the server is FileHost.
THEOREM Refinement == Spec => HostSpec
<1>1. Init => Host!Init
  BY DEF Init, Host!Init, Live, Leaving, Gone
<1>2. IInv /\ IInv' /\ [Next]_vars => [Host!Next]_Host!vars
  BY StepRefines
<1> QED
  BY <1>1, <1>2, Invariance, PTL DEF Spec, HostSpec, Host!Spec
=============================================================================
