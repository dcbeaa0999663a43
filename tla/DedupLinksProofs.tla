-------------------------- MODULE DedupLinksProofs --------------------------
(* Links lead forward and to the same content, for any number of uploads and of
   dedup processes.  The types come first; then what every link, and every link
   that a process is about to make, satisfies. *)
EXTENDS DedupLinks, Sums

-----------------------------------------------------------------------------
(* Types. *)

\* None is no upload, and neither are the two states of a path.
LEMMA Distinct == None \notin Uploads /\ Absent \notin Uploads /\ Regular \notin Uploads
BY LinksAssumption DEF None, Absent, Regular, Uploads

LEMMA TypeInit == Init => TypeOK
BY DEF Init, TypeOK, Steps

LEMMA TypeStep == TypeOK /\ [Next]_vars => TypeOK'
<1> SUFFICES ASSUME TypeOK, [Next]_vars PROVE TypeOK'
  OBVIOUS
<1> USE DEF TypeOK, fsVars, dedupVars, rehashVars
<1>1. CASE UNCHANGED vars
  BY <1>1 DEF vars
<1>2. ASSUME NEW u \in Uploads, Upload(u) PROVE TypeOK'
  BY <1>2 DEF Upload
<1>3. ASSUME NEW u \in Uploads, Select(u) PROVE TypeOK'
  BY <1>3 DEF Select
<1>4. ASSUME NEW u \in Uploads, RemoveFails(u) PROVE TypeOK'
  BY <1>4 DEF RemoveFails
<1>5. ASSUME NEW u \in Uploads, RemovePath(u) PROVE TypeOK'
  BY <1>5 DEF RemovePath
<1>6. ASSUME NEW u \in Uploads, MarkDeleted(u) PROVE TypeOK'
  BY <1>6 DEF MarkDeleted
<1>7. ASSUME NEW u \in Uploads, ReadFile(u) PROVE TypeOK'
  BY <1>7 DEF ReadFile, RehashFrame, Opened
<1>8. CASE UpdateHash
  BY <1>8 DEF UpdateHash, RehashFrame
<1>9. ASSUME NEW p \in Dedups, Query(p) PROVE TypeOK'
  BY <1>9 DEF Query, Goto, Frame, FindPairs, Steps
<1>10. ASSUME NEW p \in Dedups, NEW c \in Uploads, CheckCanonical(p, c) PROVE TypeOK'
  BY <1>10 DEF CheckCanonical, Goto, Frame, Steps
<1>11. ASSUME NEW p \in Dedups, NEW d \in Uploads, CheckDup(p, d) PROVE TypeOK'
  BY <1>11 DEF CheckDup, Goto, Frame, Steps
<1>12. ASSUME NEW p \in Dedups, Canonicalize(p) PROVE TypeOK'
  BY <1>12 DEF Canonicalize, Goto, Frame, Steps, Group
<1>13. ASSUME NEW p \in Dedups, GroupDone(p) PROVE TypeOK'
  BY <1>13 DEF GroupDone, Goto, Frame, Steps
<1>14. ASSUME NEW p \in Dedups, ClearTmp(p) PROVE TypeOK'
  BY <1>14 DEF ClearTmp, Goto, Frame, Steps
<1>15. ASSUME NEW p \in Dedups, LinkTmp(p) PROVE TypeOK'
  BY <1>15 DEF LinkTmp, NextDup, Goto, Frame, Steps
<1>16. ASSUME NEW p \in Dedups, RenameTmp(p) PROVE TypeOK'
  BY <1>16 DEF RenameTmp, NextDup, Goto, Frame, Steps
<1>17. ASSUME NEW p \in Dedups, Finish(p) PROVE TypeOK'
  BY <1>17 DEF Finish, Goto, Frame, Steps
<1>18. ASSUME NEW p \in Dedups, Kill(p) PROVE TypeOK'
  BY <1>18 DEF Kill, Goto, Frame, Steps
<1> QED
  BY <1>1, <1>2, <1>3, <1>4, <1>5, <1>6, <1>7, <1>8, <1>9, <1>10, <1>11, <1>12, <1>13,
     <1>14, <1>15, <1>16, <1>17, <1>18 DEF Next, DedupStep

\* The store and the commands keep their types.
THEOREM TypesKept == Spec => []TypeOK
BY TypeInit, TypeStep, PTL DEF Spec

-----------------------------------------------------------------------------
(* Links. *)

\* A link from u to v may be made.
Ahead(u, v) == u < v /\ content[u] = content[v]

StoredAhead ==
  /\ \A u \in Uploads : file[u] \in Uploads => Ahead(u, file[u])
  /\ \A u \in Uploads : tmp[u] \in Uploads => Ahead(u, tmp[u])

\* A process has found its pairs by their hashes, follows links from the
\* canonical upload, and is about to link a duplicate to where they led.
PlannedAhead(p) ==
  /\ \A pair \in pairs[p] : Ahead(pair[1], pair[2])
  /\ at[p] \notin {"idle", "group"} =>
       /\ canon[p] \in Uploads /\ target[p] \in Uploads
       /\ canon[p] <= target[p] /\ content[canon[p]] = content[target[p]]
  /\ at[p] \in {"clear", "link", "rename"} =>
       dup[p] \in Uploads /\ Ahead(dup[p], canon[p])

HashesTrue ==
  /\ \A u \in Uploads : hash[u] \in {content[u], Null}
  /\ open \in Uploads => read = content[open]

LinksInv == StoredAhead /\ (\A p \in Dedups : PlannedAhead(p)) /\ HashesTrue

\* A file that is found through links is of the same content: what has that
\* content is closed under following links.
LEMMA OpenedSame ==
  ASSUME TypeOK, StoredAhead, NEW u \in Uploads, NEW v \in Opened(u)
  PROVE  content[v] = content[u]
<1> DEFINE S == {w \in Uploads : content[w] = content[u]}
<1>1. S \in SUBSET Uploads /\ u \in S
  OBVIOUS
<1>2. \A w \in S : Hop(w) \subseteq S
  BY DEF Hop, StoredAhead, Ahead
<1>3. v \in S
  <2> HIDE DEF S
  <2> QED
    BY <1>1, <1>2 DEF Opened
<1> QED
  BY <1>3

LEMMA LinksInit == Init => LinksInv
BY Distinct DEF Init, LinksInv, StoredAhead, PlannedAhead, HashesTrue

LEMMA StoredStep ==
  ASSUME TypeOK, LinksInv, [Next]_vars
  PROVE  StoredAhead'
<1>1. content' = content
  BY DEF Next, vars, fsVars, dedupVars, rehashVars, Upload, Select,
     RemovePath, RemoveFails, MarkDeleted, ReadFile, RehashFrame, UpdateHash, Query, DedupStep,
     CheckCanonical, CheckDup, Canonicalize, GroupDone, ClearTmp, LinkTmp, RenameTmp,
     Finish, Kill, Frame
<1>2. CASE UNCHANGED fsVars
  BY <1>1, <1>2 DEF fsVars, LinksInv, StoredAhead, Ahead
<1>3. ASSUME NEW u \in Uploads, Upload(u) \/ RemovePath(u) PROVE StoredAhead'
  <2>1. file' \in {[file EXCEPT ![u] = Regular], [file EXCEPT ![u] = Absent]} /\ tmp' = tmp
    BY <1>3 DEF Upload, RemovePath
  <2> QED
    BY <1>1, <2>1, Distinct DEF TypeOK, LinksInv, StoredAhead, Ahead
<1>4. ASSUME NEW p \in Dedups, ClearTmp(p) PROVE StoredAhead'
  BY <1>1, <1>4, Distinct DEF ClearTmp, TypeOK, LinksInv, StoredAhead, Ahead
<1>5. ASSUME NEW p \in Dedups, LinkTmp(p) PROVE StoredAhead'
  <2>1. /\ dup[p] \in Uploads /\ target[p] \in Uploads /\ canon[p] \in Uploads
        /\ Ahead(dup[p], target[p])
    BY <1>5 DEF LinkTmp, LinksInv, PlannedAhead, Ahead, Uploads
  <2>2. tmp' \in {tmp, [tmp EXCEPT ![dup[p]] = target[p]]} /\ file' = file
    BY <1>5 DEF LinkTmp
  <2> QED
    BY <1>1, <2>1, <2>2 DEF TypeOK, LinksInv, StoredAhead, Ahead
<1>6. ASSUME NEW p \in Dedups, RenameTmp(p) PROVE StoredAhead'
  <2>1. dup[p] \in Uploads
    BY <1>6 DEF RenameTmp, LinksInv, PlannedAhead
  <2>2. \/ UNCHANGED fsVars
        \/ /\ tmp[dup[p]] \in Uploads
           /\ file' = [file EXCEPT ![dup[p]] = tmp[dup[p]]]
           /\ tmp' = [tmp EXCEPT ![dup[p]] = None]
    BY <1>6, <2>1 DEF RenameTmp, TypeOK
  <2> QED
    BY <1>1, <1>2, <2>1, <2>2, Distinct DEF TypeOK, LinksInv, StoredAhead, Ahead
<1> QED
  BY <1>2, <1>3, <1>4, <1>5, <1>6 DEF Next, vars, fsVars, Select, RemoveFails, MarkDeleted,
     ReadFile, RehashFrame, UpdateHash, Query, DedupStep, CheckCanonical, CheckDup,
     Canonicalize, GroupDone, Finish, Kill

LEMMA HashesStep ==
  ASSUME TypeOK, LinksInv, [Next]_vars
  PROVE  HashesTrue'
<1>1. content' = content
  BY DEF Next, vars, fsVars, dedupVars, rehashVars, Upload, Select,
     RemovePath, RemoveFails, MarkDeleted, ReadFile, RehashFrame, UpdateHash, Query, DedupStep,
     CheckCanonical, CheckDup, Canonicalize, GroupDone, ClearTmp, LinkTmp, RenameTmp,
     Finish, Kill, Frame
<1>2. CASE UNCHANGED <<hash, rehashVars>>
  BY <1>1, <1>2 DEF rehashVars, LinksInv, HashesTrue
<1>3. ASSUME NEW u \in Uploads, Upload(u) PROVE HashesTrue'
  BY <1>1, <1>3 DEF Upload, rehashVars, TypeOK, LinksInv, HashesTrue
<1>4. ASSUME NEW u \in Uploads, ReadFile(u) PROVE HashesTrue'
  <2>1. PICK v \in Opened(u) : open' = u /\ read' = content[v]
    BY <1>4 DEF ReadFile
  <2>2. content[v] = content[u] /\ hash' = hash
    BY <1>4, <2>1, OpenedSame DEF ReadFile, LinksInv
  <2> QED
    BY <1>1, <2>1, <2>2 DEF LinksInv, HashesTrue
<1>5. CASE UpdateHash
  <2>1. open \in Uploads /\ read = content[open]
    BY <1>5 DEF UpdateHash, TypeOK, LinksInv, HashesTrue
  <2>2. hash' \in {hash, [hash EXCEPT ![open] = read]} /\ open' = None
    BY <1>5 DEF UpdateHash
  <2> QED
    BY <1>1, <2>1, <2>2, Distinct DEF TypeOK, LinksInv, HashesTrue
<1> QED
  BY <1>2, <1>3, <1>4, <1>5 DEF Next, vars, rehashVars, Select, RemovePath, RemoveFails,
     MarkDeleted, Query, DedupStep, CheckCanonical, CheckDup, Canonicalize, GroupDone,
     ClearTmp, LinkTmp, RenameTmp, Finish, Kill, Frame

\* What find_dedup_pairs returns: the newest upload comes second, and equal
\* hashes are those of equal contents.
LEMMA PairsAhead ==
  ASSUME TypeOK, HashesTrue, NEW pair \in FindPairs
  PROVE  Ahead(pair[1], pair[2])
<1> DEFINE u == pair[1]
           c == pair[2]
<1>1. /\ u \in Uploads /\ c \in Uploads /\ hash[u] = hash[c] /\ u # c
      /\ Live(u) /\ hash[c] # Null /\ u <= c
  BY DEF FindPairs, Live
<1>2. hash[u] = content[u] /\ hash[c] = content[c]
  BY <1>1 DEF HashesTrue
<1>3. u < c
  <2> HIDE DEF u, c
  <2> QED
    BY <1>1, LinksAssumption DEF Uploads
<1> QED
  BY <1>1, <1>2, <1>3 DEF Ahead

LEMMA PlansStep ==
  ASSUME TypeOK, LinksInv, [Next]_vars, NEW p \in Dedups
  PROVE  PlannedAhead(p)'
<1>1. content' = content
  BY DEF Next, vars, fsVars, dedupVars, rehashVars, Upload, Select,
     RemovePath, RemoveFails, MarkDeleted, ReadFile, RehashFrame, UpdateHash, Query, DedupStep,
     CheckCanonical, CheckDup, Canonicalize, GroupDone, ClearTmp, LinkTmp, RenameTmp,
     Finish, Kill, Frame
<1>2. PlannedAhead(p) /\ StoredAhead
  BY DEF LinksInv
<1>3. CASE UNCHANGED <<at[p], pairs[p], canon[p], target[p], dup[p]>>
  BY <1>1, <1>2, <1>3 DEF PlannedAhead, Ahead
<1>4. ASSUME NEW q \in Dedups, q # p, Query(q) \/ DedupStep(q) \/ Kill(q)
      PROVE  UNCHANGED <<at[p], pairs[p], canon[p], target[p], dup[p]>>
  BY <1>4 DEF TypeOK, Query, DedupStep, CheckCanonical, CheckDup, Canonicalize, GroupDone,
     ClearTmp, LinkTmp, RenameTmp, NextDup, Finish, Kill, Goto
<1>5. CASE Query(p)
  <2>1. pairs'[p] = FindPairs /\ at'[p] = "group"
    BY <1>5 DEF Query, Goto, TypeOK
  <2>2. \A pair \in pairs'[p] : Ahead(pair[1], pair[2])
    BY <2>1, PairsAhead DEF LinksInv
  <2> QED
    BY <1>1, <2>1, <2>2 DEF PlannedAhead, Ahead
<1>6. ASSUME NEW c \in Uploads, CheckCanonical(p, c) PROVE PlannedAhead(p)'
  <2>1. \/ at'[p] = "resolve" /\ canon'[p] = c /\ target'[p] = c /\ pairs'[p] = pairs[p]
        \/ at'[p] = "group" /\ pairs'[p] \subseteq pairs[p]
    BY <1>6 DEF CheckCanonical, Goto, TypeOK
  <2> QED
    BY <1>1, <1>2, <2>1 DEF PlannedAhead, Ahead, Uploads
<1>7. ASSUME NEW d \in Uploads, CheckDup(p, d) PROVE PlannedAhead(p)'
  <2>1. /\ canon'[p] = canon[p] /\ target'[p] = target[p] /\ at[p] = "dups"
        /\ <<d, canon[p]>> \in pairs[p]
        /\ \/ at'[p] = "clear" /\ dup'[p] = d /\ pairs'[p] = pairs[p]
           \/ at'[p] = "dups" /\ pairs'[p] \subseteq pairs[p]
    BY <1>7 DEF CheckDup, Goto, TypeOK
  <2>2. Ahead(d, canon[p])
    BY <1>2, <2>1 DEF PlannedAhead
  <2> QED
    BY <1>1, <1>2, <2>1, <2>2 DEF PlannedAhead, Ahead
<1>8. CASE Canonicalize(p)
  <2>1. /\ at[p] = "resolve" /\ canon'[p] = canon[p] /\ dup'[p] = dup[p]
        /\ pairs'[p] \subseteq pairs[p]
    BY <1>8 DEF Canonicalize, Goto, TypeOK
  <2>2. \/ at'[p] = "resolve" /\ file[target[p]] \in Uploads /\ target'[p] = file[target[p]]
        \/ at'[p] = "dups" /\ target'[p] = target[p]
        \/ at'[p] = "group"
    BY <1>8 DEF Canonicalize, Goto, TypeOK
  <2>3. /\ canon[p] \in Uploads /\ target[p] \in Uploads
        /\ canon[p] <= target[p] /\ content[canon[p]] = content[target[p]]
    BY <1>2, <2>1 DEF PlannedAhead
  <2>4. file[target[p]] \in Uploads => Ahead(target[p], file[target[p]])
    BY <1>2, <2>3 DEF StoredAhead
  <2>5. \A pair \in pairs'[p] : Ahead(pair[1], pair[2])
    BY <1>2, <2>1 DEF PlannedAhead
  <2> QED
    BY <1>1, <2>1, <2>2, <2>3, <2>4, <2>5 DEF PlannedAhead, Ahead, Uploads
<1>9. CASE GroupDone(p) \/ Finish(p) \/ Kill(p)
  <2>1. at'[p] \in {"idle", "group"} /\ pairs'[p] \subseteq pairs[p]
    BY <1>9 DEF GroupDone, Finish, Kill, Goto, TypeOK
  <2> QED
    BY <1>1, <1>2, <2>1 DEF PlannedAhead, Ahead
<1>10. CASE ClearTmp(p) \/ LinkTmp(p) \/ RenameTmp(p)
  <2>1. at[p] \in {"clear", "link", "rename"}
    BY <1>10 DEF ClearTmp, LinkTmp, RenameTmp
  <2>2. canon' = canon /\ target' = target
    BY <1>10 DEF ClearTmp, LinkTmp, RenameTmp
  <2>3. pairs'[p] \subseteq pairs[p]
    BY <1>10 DEF ClearTmp, LinkTmp, RenameTmp, NextDup, TypeOK
  <2>4. at'[p] = "dups" \/ (at'[p] \in {"link", "rename"} /\ dup'[p] = dup[p])
    BY <1>10 DEF ClearTmp, LinkTmp, RenameTmp, NextDup, Goto, TypeOK
  <2> QED
    BY <1>1, <1>2, <2>1, <2>2, <2>3, <2>4 DEF PlannedAhead, Ahead
<1>11. \/ UNCHANGED dedupVars
       \/ \E q \in Dedups : Query(q) \/ DedupStep(q) \/ Kill(q)
  BY DEF Next, vars, Upload, Select, RemovePath, RemoveFails, MarkDeleted, ReadFile, UpdateHash,
     RehashFrame
<1> QED
  BY <1>3, <1>4, <1>5, <1>6, <1>7, <1>8, <1>9, <1>10, <1>11 DEF dedupVars, DedupStep

LEMMA LinksInvariant == Spec => []LinksInv
<1>1. TypeOK /\ LinksInv /\ [Next]_vars => LinksInv'
  BY StoredStep, PlansStep, HashesStep DEF LinksInv
<1> QED
  BY <1>1, LinksInit, TypesKept, PTL DEF Spec

\* No chain of links closes, whatever processes run and are killed beside the
\* server and the deletions.
THEOREM LinksLeadForward == Spec => []LinksForward
<1>1. TypeOK /\ LinksInv => LinksForward
  BY DEF LinksInv, StoredAhead, Ahead, LinksForward, Uploads
<1> QED
  BY <1>1, LinksInvariant, TypesKept, PTL

\* A path leads to what was uploaded under it or to nothing, and a hash is that
\* of its upload.
THEOREM LinksAreFaithful == Spec => []Faithful
<1>1. TypeOK /\ LinksInv => Faithful
  BY OpenedSame DEF LinksInv, HashesTrue, Faithful
<1> QED
  BY <1>1, LinksInvariant, TypesKept, PTL

-----------------------------------------------------------------------------
(* What is lost.  A path is there until it is removed, also that of a row marked *)
(* deleted, and a link leads to an upload that is or was in the table.            *)

PathsThere ==
  \A u \in Uploads : row[u] # "none" /\ deletion[u] # "removed" => file[u] # Absent

Known(u) == row[u] # "none"

TargetsKnown ==
  /\ \A u \in Uploads : file[u] \in Uploads => Known(file[u])
  /\ \A u \in Uploads : tmp[u] \in Uploads => Known(tmp[u])
  /\ \A p \in Dedups : \A pair \in pairs[p] : Known(pair[2])
  /\ \A p \in Dedups : target[p] \in Uploads => Known(target[p])

LostInv == PathsThere /\ TargetsKnown

LEMMA LostInit == Init => LostInv
<1> SUFFICES ASSUME Init PROVE LostInv
  OBVIOUS
<1>1. PICK n \in 0 .. N : row = [u \in Uploads |-> IF u <= n THEN "active" ELSE "none"]
  BY DEF Init
<1>4. /\ \A u \in Uploads : file[u] = IF row[u] = "active" THEN Regular ELSE Absent
      /\ \A u \in Uploads : tmp[u] = None
      /\ \A p \in Dedups : pairs[p] = {} /\ target[p] = None
  BY DEF Init
<1>5. TargetsKnown
  BY <1>4, Distinct DEF TargetsKnown
<1>6. PathsThere
  BY <1>1, <1>4, LinksAssumption DEF PathsThere, Regular, Absent
<1> QED
  BY <1>5, <1>6 DEF LostInv

\* A command changes neither rows nor deletions.
LEMMA CommandFrame ==
  ASSUME \/ UNCHANGED vars
         \/ \E u \in Uploads : ReadFile(u)
         \/ \E p \in Dedups : Query(p) \/ DedupStep(p) \/ Kill(p)
         \/ UpdateHash
  PROVE  UNCHANGED <<content, row, deletion>>
BY DEF vars, ReadFile, RehashFrame, Query, DedupStep, Kill, UpdateHash, CheckCanonical,
   CheckDup, Canonicalize, GroupDone, ClearTmp, LinkTmp, RenameTmp, Finish, Frame

LEMMA ContentFixed == [Next]_vars => content' = content
BY DEF Next, vars, fsVars, dedupVars, rehashVars, Upload, Select,
   RemovePath, RemoveFails, MarkDeleted, ReadFile, RehashFrame, UpdateHash, Query, DedupStep,
   CheckCanonical, CheckDup, Canonicalize, GroupDone, ClearTmp, LinkTmp, RenameTmp,
   Finish, Kill, Frame

\* Nothing that was in the table is ever unknown again.
LEMMA KnownStays ==
  ASSUME TypeOK, [Next]_vars, NEW u \in Uploads, Known(u)
  PROVE  Known(u)'
<1>1. CASE row' = row
  BY <1>1 DEF Known
<1>2. ASSUME NEW v \in Uploads, NEW r \in {"active", "deleted"}, row' = [row EXCEPT ![v] = r]
      PROVE  Known(u)'
  BY <1>2 DEF Known, TypeOK
<1>3. \/ row' = row
      \/ \E v \in Uploads : \E r \in {"active", "deleted"} : row' = [row EXCEPT ![v] = r]
  <2>1. CASE UNCHANGED <<content, row, deletion>>
    BY <2>1
  <2>2. ASSUME NEW v \in Uploads,
               \/ Upload(v) \/ Select(v) \/ RemovePath(v) \/ RemoveFails(v)
               \/ MarkDeleted(v)
        PROVE  row' = row \/ \E r \in {"active", "deleted"} : row' = [row EXCEPT ![v] = r]
    BY <2>2 DEF Upload, Select, RemovePath, RemoveFails, MarkDeleted
  <2> QED
    BY <2>1, <2>2, CommandFrame DEF Next
<1> QED
  BY <1>1, <1>2, <1>3

LEMMA PathsStep ==
  ASSUME TypeOK, PathsThere, LinksInv, [Next]_vars
  PROVE  PathsThere'
<1>1. CASE UNCHANGED <<row, deletion, file>>
  BY <1>1 DEF PathsThere
<1>2. ASSUME NEW u \in Uploads, Upload(u) PROVE PathsThere'
  <2>1. /\ row' = [row EXCEPT ![u] = "active"] /\ file' = [file EXCEPT ![u] = Regular]
        /\ UNCHANGED deletion /\ Regular # Absent
    BY <1>2, LinksAssumption DEF Upload, Regular, Absent
  <2> QED
    BY <2>1 DEF PathsThere, TypeOK
<1>3. ASSUME NEW u \in Uploads, RemovePath(u) PROVE PathsThere'
  <2>1. /\ deletion' = [deletion EXCEPT ![u] = "removed"]
        /\ file' = [file EXCEPT ![u] = Absent]
        /\ UNCHANGED row
    BY <1>3 DEF RemovePath
  <2> QED
    BY <2>1 DEF PathsThere, TypeOK
<1>4. ASSUME NEW u \in Uploads, Select(u) \/ RemoveFails(u) PROVE PathsThere'
  <2>1. /\ deletion[u] # "removed" /\ UNCHANGED <<file, row>>
        /\ \E d \in {"selected", "failed"} : deletion' = [deletion EXCEPT ![u] = d]
    BY <1>4 DEF Select, RemoveFails, fsVars
  <2> QED
    BY <2>1 DEF PathsThere, TypeOK
<1>5. ASSUME NEW u \in Uploads, MarkDeleted(u) PROVE PathsThere'
  <2>1. /\ row[u] = "active" /\ row' = [row EXCEPT ![u] = "deleted"]
        /\ UNCHANGED <<file, deletion>>
    BY <1>5 DEF MarkDeleted, fsVars
  <2> QED
    BY <2>1 DEF PathsThere, TypeOK
<1>6. ASSUME NEW p \in Dedups, RenameTmp(p) PROVE PathsThere'
  <2>1. dup[p] \in Uploads
    BY <1>6 DEF RenameTmp, LinksInv, PlannedAhead
  <2>2. \/ file' = file
        \/ tmp[dup[p]] \in Uploads /\ file' = [file EXCEPT ![dup[p]] = tmp[dup[p]]]
    BY <1>6, <2>1 DEF RenameTmp, TypeOK, fsVars
  <2>3. UNCHANGED <<row, deletion>>
    BY <1>6 DEF RenameTmp, Frame
  <2> QED
    BY <2>1, <2>2, <2>3, Distinct DEF PathsThere, TypeOK
<1>7. \/ UNCHANGED <<row, deletion, file>>
      \/ \E u \in Uploads :
           Upload(u) \/ RemovePath(u) \/ Select(u) \/ RemoveFails(u) \/ MarkDeleted(u)
      \/ \E p \in Dedups : RenameTmp(p)
  BY DEF Next, vars, fsVars, dedupVars, rehashVars, ReadFile,
     RehashFrame, UpdateHash, Query, DedupStep, CheckCanonical, CheckDup, Canonicalize,
     GroupDone, ClearTmp, LinkTmp, Finish, Kill, Frame
<1> QED
  BY <1>1, <1>2, <1>3, <1>4, <1>5, <1>6, <1>7

LEMMA TargetsStep ==
  ASSUME TypeOK, LinksInv, TargetsKnown, [Next]_vars
  PROVE  TargetsKnown'
<1>1. \A u \in Uploads : Known(u) => Known(u)'
  BY KnownStays
<1>2. CASE UNCHANGED <<fsVars, dedupVars>>
  BY <1>1, <1>2 DEF fsVars, dedupVars, TargetsKnown, TypeOK
<1>3. ASSUME NEW u \in Uploads, Upload(u) \/ RemovePath(u) PROVE TargetsKnown'
  <2>1. /\ file' \in {[file EXCEPT ![u] = Regular], [file EXCEPT ![u] = Absent]}
        /\ UNCHANGED <<tmp, dedupVars>>
    BY <1>3 DEF Upload, RemovePath
  <2> QED
    BY <1>1, <2>1, Distinct DEF dedupVars, TargetsKnown, TypeOK
<1>4. ASSUME NEW p \in Dedups, Query(p) PROVE TargetsKnown'
  <2>1. pairs' = [pairs EXCEPT ![p] = FindPairs] /\ UNCHANGED <<fsVars, target>>
    BY <1>4 DEF Query
  <2>2. \A pair \in FindPairs : pair[2] \in Uploads /\ Known(pair[2])
    BY DEF FindPairs, Live, Known
  <2> QED
    BY <1>1, <2>1, <2>2 DEF fsVars, TargetsKnown, TypeOK
<1>5. ASSUME NEW p \in Dedups, NEW c \in Uploads, CheckCanonical(p, c) PROVE TargetsKnown'
  <2>1. /\ UNCHANGED fsVars /\ \E pair \in pairs[p] : pair[2] = c
        /\ \/ target' = [target EXCEPT ![p] = c] /\ UNCHANGED pairs
           \/ /\ pairs' = [pairs EXCEPT ![p] = {pair \in @ : pair[2] # c}]
              /\ UNCHANGED target
    BY <1>5 DEF CheckCanonical
  <2>2. Known(c)
    BY <2>1 DEF TargetsKnown
  <2> QED
    BY <1>1, <2>1, <2>2 DEF fsVars, TargetsKnown, TypeOK
<1>6. ASSUME NEW p \in Dedups, Canonicalize(p) PROVE TargetsKnown'
  <2>1. /\ UNCHANGED fsVars
        /\ pairs' \in {pairs, [pairs EXCEPT ![p] = @ \ Group(p)]}
        /\ target' \in {target, [target EXCEPT ![p] = None], [target EXCEPT ![p] = file[@]]}
        /\ at[p] = "resolve"
    BY <1>6 DEF Canonicalize
  <2>2. target[p] \in Uploads
    BY <2>1 DEF LinksInv, PlannedAhead
  <2>3. \A q \in Dedups : pairs'[q] \subseteq pairs[q]
    BY <2>1 DEF TypeOK
  <2>0. \A u \in Uploads : row[u] # "none" => row'[u] # "none"
    BY <1>1 DEF Known
  <2>4. \A q \in Dedups : \A pair \in pairs'[q] : row'[pair[2]] # "none"
    BY <2>0, <2>3 DEF TargetsKnown, TypeOK, Known
  <2>5. \A q \in Dedups : target'[q] \in Uploads =>
          target'[q] = target[q] \/ target'[q] = file[target[p]]
    BY <2>1, Distinct DEF TypeOK
  <2>6. \A q \in Dedups : target'[q] \in Uploads => Known(target'[q])
    BY <2>2, <2>5 DEF TargetsKnown
  <2>7. \A q \in Dedups : target'[q] \in Uploads => row'[target'[q]] # "none"
    BY <2>0, <2>6 DEF Known
  <2>8. \A u \in Uploads : /\ file'[u] \in Uploads => row'[file'[u]] # "none"
                           /\ tmp'[u] \in Uploads => row'[tmp'[u]] # "none"
    BY <2>0, <2>1 DEF TargetsKnown, fsVars, Known
  <2> QED
    BY <2>4, <2>7, <2>8 DEF TargetsKnown, Known
<1>7. ASSUME NEW p \in Dedups, LinkTmp(p) PROVE TargetsKnown'
  <2>1. dup[p] \in Uploads /\ target[p] \in Uploads
    BY <1>7 DEF LinkTmp, LinksInv, PlannedAhead
  <2>2. /\ tmp' \in {tmp, [tmp EXCEPT ![dup[p]] = target[p]]}
        /\ UNCHANGED <<file, target>>
        /\ \A q \in Dedups : pairs'[q] \subseteq pairs[q]
    BY <1>7 DEF LinkTmp, NextDup, TypeOK
  <2> QED
    BY <1>1, <2>1, <2>2 DEF TargetsKnown, TypeOK
<1>8. ASSUME NEW p \in Dedups, RenameTmp(p) PROVE TargetsKnown'
  <2>1. dup[p] \in Uploads
    BY <1>8 DEF RenameTmp, LinksInv, PlannedAhead
  <2>2. /\ UNCHANGED target
        /\ \A q \in Dedups : pairs'[q] \subseteq pairs[q]
    BY <1>8 DEF RenameTmp, NextDup, TypeOK
  <2>3. \/ UNCHANGED fsVars
        \/ /\ file' = [file EXCEPT ![dup[p]] = tmp[dup[p]]]
           /\ tmp' = [tmp EXCEPT ![dup[p]] = None]
    BY <1>8 DEF RenameTmp
  <2> QED
    BY <1>1, <2>1, <2>2, <2>3, Distinct DEF fsVars, TargetsKnown, TypeOK
<1>9. ASSUME NEW p \in Dedups,
             \/ \E d \in Uploads : CheckDup(p, d)
             \/ GroupDone(p) \/ ClearTmp(p) \/ Finish(p) \/ Kill(p)
      PROVE  TargetsKnown'
  <2>1. /\ \A q \in Dedups : pairs'[q] \subseteq pairs[q] /\ target'[q] \in {target[q], None}
        /\ UNCHANGED file
    BY <1>9 DEF CheckDup, GroupDone, ClearTmp, Finish, Kill, fsVars, TypeOK
  <2>2. \A u \in Uploads : tmp'[u] \in {tmp[u], None}
    BY <1>9 DEF CheckDup, GroupDone, ClearTmp, Finish, Kill, fsVars, TypeOK
  <2> QED
    BY <1>1, <2>1, <2>2, Distinct DEF TargetsKnown, TypeOK
<1>10. \/ UNCHANGED <<fsVars, dedupVars>>
       \/ \E u \in Uploads : Upload(u) \/ RemovePath(u)
       \/ \E p \in Dedups : Query(p) \/ DedupStep(p) \/ Kill(p)
  BY DEF Next, vars, Select, RemoveFails, MarkDeleted, ReadFile, RehashFrame, UpdateHash
<1> QED
  BY <1>2, <1>3, <1>4, <1>5, <1>6, <1>7, <1>8, <1>9, <1>10 DEF DedupStep

LEMMA LostStep ==
  ASSUME TypeOK, LinksInv, LostInv, [Next]_vars
  PROVE  LostInv'
BY PathsStep, TargetsStep DEF LostInv

\* Where the links of u lead: every set with u and the targets of its links.
Reach(u) ==
  {w \in Uploads : \A S \in SUBSET Uploads :
     u \in S /\ (\A x \in S : Hop(x) \subseteq S) => w \in S}

\* Links lead to known uploads of the same content and never back.
LEMMA ReachAhead ==
  ASSUME TypeOK, StoredAhead, TargetsKnown, NEW u \in Uploads, Known(u), NEW w \in Reach(u)
  PROVE  u <= w /\ content[w] = content[u] /\ Known(w)
<1> DEFINE S == {x \in Uploads : u <= x /\ content[x] = content[u] /\ Known(x)}
<1>1. S \in SUBSET Uploads /\ u \in S
  BY DEF Uploads
<1>2. ASSUME NEW x \in S, NEW y \in Hop(x) PROVE y \in S
  <2>1. y = file[x] /\ y \in Uploads
    BY <1>2 DEF Hop
  <2>2. Ahead(x, y) /\ Known(y)
    BY <2>1 DEF StoredAhead, TargetsKnown
  <2>3. u <= y
    BY <2>1, <2>2 DEF Ahead, Uploads
  <2> QED
    BY <2>1, <2>2, <2>3 DEF Ahead
<1> HIDE DEF S
<1>3. w \in S
  BY <1>1, <1>2 DEF Reach
<1> QED
  BY <1>3 DEF S

\* Where no newer path of the content was removed, the newest one reached is a file.
LEMMA SomethingOpened ==
  ASSUME TypeOK, LinksInv, LostInv, NEW u \in Uploads, row[u] = "active",
         deletion[u] # "removed",
         \A c \in Uploads : c > u /\ content[c] = content[u] => deletion[c] # "removed"
  PROVE  Opened(u) # {}
<1>1. Known(u) /\ StoredAhead /\ TargetsKnown
  BY DEF Known, LinksInv, LostInv
<1>2. u \in Reach(u) /\ Reach(u) \subseteq Uploads
  BY DEF Reach
<1>3. PICK w \in Reach(u) : \A x \in Reach(u) : x <= w
  <2>1. N \in Nat /\ Reach(u) \subseteq 0 .. N
    BY <1>2, LinksAssumption DEF Uploads
  <2> QED
    BY <1>2, <2>1, LargestExists
<1>4. w \in Uploads /\ u <= w /\ content[w] = content[u] /\ Known(w)
  BY <1>1, <1>2, <1>3, ReachAhead
<1>5. deletion[w] # "removed"
  BY <1>4 DEF Uploads
<1>6. file[w] # Absent
  BY <1>4, <1>5 DEF LostInv, PathsThere, Known
<1>7. file[w] \notin Uploads
  <2> SUFFICES ASSUME file[w] \in Uploads PROVE FALSE
    OBVIOUS
  <2>1. Ahead(w, file[w])
    BY <1>1, <1>4 DEF StoredAhead
  <2>2. file[w] \in Reach(u)
    BY <1>3 DEF Reach, Hop
  <2>3. file[w] <= w
    BY <1>3, <2>2
  <2> QED
    BY <1>4, <2>1, <2>3 DEF Ahead, Uploads
<1>8. file[w] = Regular
  BY <1>4, <1>6, <1>7 DEF TypeOK
<1>9. w \in Opened(u)
  BY <1>3, <1>4, <1>8 DEF Reach, Opened
<1> QED
  BY <1>9

\* An active upload whose path nobody removed opens a file unless a newer path of
\* its content was removed, however long the chain of links is.
THEOREM LinksLoseNothing == Spec => []LostOnlyByDeletion
<1>1. TypeOK /\ LinksInv /\ LostInv => LostOnlyByDeletion
  BY SomethingOpened DEF LostOnlyByDeletion
<1>2. TypeOK /\ LinksInv /\ LostInv /\ [Next]_vars => LostInv'
  BY LostStep
<1> QED
  BY <1>1, <1>2, LostInit, LinksInvariant, TypesKept, PTL DEF Spec
=============================================================================
