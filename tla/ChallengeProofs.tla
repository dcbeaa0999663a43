-------------------------- MODULE ChallengeProofs ---------------------------
(* Who is exempt and who is suspect, for any number of addresses and requests
   and any lifetimes. *)
EXTENDS Challenge, TLAPS

-----------------------------------------------------------------------------
(* Types. *)

\* An entry is a value that is not too old, or none.
LEMMA EntryTyped ==
  /\ NoEntry \in Entries
  /\ \A v \in BOOLEAN, a \in 0 .. Ttl - 1 : Entry(v, a) \in Entries
  /\ 0 \in 0 .. Ttl - 1
BY TimesAssumption DEF Entries

LEMMA EntryParts ==
  ASSUME NEW e \in Entries, e.known
  PROVE  e.value \in BOOLEAN /\ e.age \in 0 .. Ttl - 1
<1>1. e # NoEntry
  BY DEF NoEntry
<1>2. PICK v \in BOOLEAN, a \in 0 .. Ttl - 1 : e = Entry(v, a)
  BY <1>1 DEF Entries
<1> QED
  BY <1>2 DEF Entry

LEMMA LongTyped == Long \in Nat \ {0}
BY TimesAssumption DEF Long

LEMMA TypeInit == Init => TypeOK
<1> SUFFICES ASSUME Init PROVE TypeOK
  OBVIOUS
<1> USE DEF Init
<1>1. row \in [Addrs -> 0 .. Life] /\ over \in [Addrs -> 0 .. Long] /\ scoredFor \in 0 .. Long
  BY LongTyped, TimesAssumption
<1>2. verified \in [Addrs -> Entries] /\ suspect \in [Addrs -> Entries]
  BY EntryTyped
<1>3. at \in [Requests -> Steps] /\ ip \in [Requests -> Addrs \union {NoAddr}]
  BY DEF Steps
<1>4. got \in [Requests -> BOOLEAN] /\ token \in [Addrs -> BOOLEAN] /\ scored \in BOOLEAN
  OBVIOUS
<1>5. lag \in [Requests -> 0 .. Lag]
  BY TimesAssumption
<1> QED
  BY <1>1, <1>2, <1>3, <1>4, <1>5 DEF TypeOK

LEMMA AgedTyped ==
  ASSUME NEW cache \in [Addrs -> Entries]
  PROVE  Aged(cache) \in [Addrs -> Entries]
<1>1. ASSUME NEW i \in Addrs PROVE Aged(cache)[i] \in Entries
  <2>1. CASE cache[i].known /\ cache[i].age + 1 < Ttl
    <3>1. cache[i].value \in BOOLEAN /\ cache[i].age + 1 \in 0 .. Ttl - 1
      BY <2>1, EntryParts, TimesAssumption
    <3>2. Aged(cache)[i] = Entry(cache[i].value, cache[i].age + 1)
      BY <2>1 DEF Aged
    <3> QED
      BY <3>1, <3>2, EntryTyped
  <2>2. CASE ~(cache[i].known /\ cache[i].age + 1 < Ttl)
    BY <2>2, EntryTyped DEF Aged
  <2> QED
    BY <2>1, <2>2
<1> QED
  BY <1>1 DEF Aged

LEMMA OlderTyped == ASSUME NEW n \in 0 .. Long PROVE Older(n) \in 0 .. Long
BY TimesAssumption DEF Older, Long

\* What a step of a lookup changes: its request, and one entry when it inserts.
Moves(r) ==
  /\ \E to \in Steps : at' = [at EXCEPT ![r] = to]
  /\ \/ got' = got
     \/ \E v \in BOOLEAN : got' = [got EXCEPT ![r] = v]
  /\ lag' = lag \/ lag' = [lag EXCEPT ![r] = 0]
  /\ UNCHANGED <<dbVars, ip, promise, solverVars, scanVars>>

LEMMA MovesTyped ==
  ASSUME TypeOK, NEW r \in Requests, Moves(r),
         verified' \in [Addrs -> Entries], suspect' \in [Addrs -> Entries]
  PROVE  TypeOK'
<1> USE DEF Moves
<1>1. at' \in [Requests -> Steps]
  BY DEF TypeOK
<1>2. got' \in [Requests -> BOOLEAN]
  <2>1. CASE got' = got
    BY <2>1 DEF TypeOK
  <2>2. CASE \E v \in BOOLEAN : got' = [got EXCEPT ![r] = v]
    BY <2>2 DEF TypeOK
  <2> QED
    BY <2>1, <2>2
<1>3. lag' \in [Requests -> 0 .. Lag]
  BY TimesAssumption DEF TypeOK
<1> QED
  BY <1>1, <1>2, <1>3 DEF TypeOK, dbVars, solverVars, scanVars

LEMMA HitMoves ==
  ASSUME TypeOK, NEW r \in Requests, NEW step, NEW cache, NEW yes \in Steps, NEW no \in Steps,
         Hit(r, step, cache, yes, no)
  PROVE  Moves(r) /\ UNCHANGED <<verified, suspect>>
BY DEF Hit, Goto, Moves

LEMMA ReadMoves ==
  ASSUME TypeOK, NEW r \in Requests, NEW step, NEW cache, NEW to \in Steps, NEW v \in BOOLEAN,
         Read(r, step, cache, to, v)
  PROVE  Moves(r) /\ UNCHANGED <<verified, suspect>>
BY DEF Read, Goto, Moves

LEMMA AnswerMoves ==
  ASSUME TypeOK, NEW r \in Requests, NEW yes \in Steps, NEW no \in Steps, Answer(r, yes, no)
  PROVE  Moves(r)
BY DEF Answer, Goto, Moves

LEMMA InsertedTyped ==
  ASSUME TypeOK, NEW r \in Requests, NEW cache \in [Addrs -> Entries]
  PROVE  Inserted(cache, r) \in [Addrs -> Entries]
<1>1. Entry(got[r], 0) \in Entries
  BY EntryTyped DEF TypeOK
<1> QED
  BY <1>1 DEF Inserted

LEMMA TypeStep == TypeOK /\ [Next]_vars => TypeOK'
<1> SUFFICES ASSUME TypeOK, [Next]_vars PROVE TypeOK'
  OBVIOUS
<1> USE DEF TypeOK, dbVars, requestVars, solverVars, scanVars, Goto
<1>1. CASE UNCHANGED vars
  BY <1>1 DEF vars
<1>2. ASSUME NEW r \in Requests, NEW i \in Addrs, Begin(r, i) PROVE TypeOK'
  BY <1>2 DEF Begin, Steps
<1>3. ASSUME NEW r \in Requests, IsIpVerified(r) PROVE TypeOK'
  <2>1. {"exempt", "suspect", "readVerified"} \subseteq Steps
    BY DEF Steps
  <2>2. CASE Hit(r, "verified", verified, "exempt", "suspect")
    BY <2>1, <2>2, HitMoves, MovesTyped
  <2>3. CASE ReadVerified(r)
    <3> DEFINE v == row[ip[r]] > 0
    <3>1. v \in BOOLEAN /\ Read(r, "verified", verified, "readVerified", v)
      BY <2>3 DEF ReadVerified
    <3> HIDE DEF v
    <3>2. Moves(r) /\ UNCHANGED <<verified, suspect>>
      BY <2>1, <3>1, ReadMoves
    <3> QED
      BY <3>2, MovesTyped DEF TypeOK
  <2>4. CASE verified' = Inserted(verified, r) /\ Answer(r, "exempt", "suspect") /\ UNCHANGED suspect
    BY <2>1, <2>4, AnswerMoves, InsertedTyped, MovesTyped
  <2> QED
    BY <1>3, <2>2, <2>3, <2>4 DEF IsIpVerified
<1>4. ASSUME NEW r \in Requests, IsIpSuspect(r) PROVE TypeOK'
  <2>1. {"challenged", "clean", "readSuspect"} \subseteq Steps
    BY DEF Steps
  <2>2. CASE Hit(r, "suspect", suspect, "challenged", "clean")
    BY <2>1, <2>2, HitMoves, MovesTyped
  <2>3. CASE ReadSuspect(r)
    BY <2>1, <2>3, ReadMoves, MovesTyped DEF ReadSuspect
  <2>4. CASE suspect' = Inserted(suspect, r) /\ Answer(r, "challenged", "clean") /\ UNCHANGED verified
    BY <2>1, <2>4, AnswerMoves, InsertedTyped, MovesTyped
  <2> QED
    BY <1>4, <2>2, <2>3, <2>4 DEF IsIpSuspect
<1>5. ASSUME NEW r \in Requests, End(r) PROVE TypeOK'
  <2>1. at' \in [Requests -> Steps] /\ ip' \in [Requests -> Addrs \union {NoAddr}]
    BY <1>5 DEF End, Steps
  <2>2. got' \in [Requests -> BOOLEAN]
    BY <1>5 DEF End
  <2>3. lag' \in [Requests -> 0 .. Lag]
    BY <1>5, TimesAssumption DEF End
  <2>4. promise' \in [Requests -> SUBSET {"answered", "marked"}]
    BY <1>5 DEF End
  <2>5. UNCHANGED <<dbVars, verified, suspect, solverVars, scanVars>>
    BY <1>5 DEF End
  <2> QED
    BY <2>1, <2>2, <2>3, <2>4, <2>5
<1>6. ASSUME NEW i \in Solvers, Issue(i) \/ TokenExpires(i) PROVE TypeOK'
  BY <1>6 DEF Issue, TokenExpires, SolverFrame
<1>7. ASSUME NEW i \in Solvers, Upsert(i) PROVE TypeOK'
  BY <1>7, AddrsAssumption, TimesAssumption DEF Upsert, SolverFrame, Long
<1>8. ASSUME NEW i \in Solvers, SetVerified(i) PROVE TypeOK'
  BY <1>8, AddrsAssumption, EntryTyped DEF SetVerified, SolverFrame
<1>9. ASSUME NEW i \in Solvers, VerifyFails(i) PROVE TypeOK'
  BY <1>9 DEF VerifyFails, SolverFrame
<1>10. ASSUME NEW i \in Uploaders, StoreScore(i) PROVE TypeOK'
  <2>1. scored' \in BOOLEAN
    BY <1>10 DEF StoreScore
  <2>2. scoredFor' \in 0 .. Long
    BY <1>10, LongTyped DEF StoreScore
  <2>3. scans' \subseteq Addrs
    BY <1>10, AddrsAssumption DEF StoreScore
  <2>4. UNCHANGED <<row, over, verified, suspect, marked, requestVars, solverVars>>
    BY <1>10 DEF StoreScore, ScanFrame
  <2> QED
    BY <2>1, <2>2, <2>3, <2>4
<1>11. ASSUME NEW i \in Uploaders, MarkSuspect(i) PROVE TypeOK'
  BY <1>11, AddrsAssumption, EntryTyped DEF MarkSuspect, ScanFrame
<1>12. CASE Tick
  BY <1>12, AgedTyped, OlderTyped, TimesAssumption DEF Tick, InFlight, Long
<1>13. CASE WeekPasses
  <2>1. scored' = FALSE /\ scoredFor' \in 0 .. Long /\ marked' = {}
    BY <1>13, LongTyped DEF WeekPasses
  <2>2. promise' \in [Requests -> SUBSET {"answered", "marked"}]
    BY <1>13 DEF WeekPasses
  <2>3. UNCHANGED <<row, over, verified, suspect, at, ip, got, lag, solverVars, scans>>
    BY <1>13 DEF WeekPasses
  <2> QED
    BY <2>1, <2>2, <2>3
<1>14. CASE Restart
  BY <1>14, TimesAssumption DEF Restart, Steps, Entries
<1> QED
  BY <1>1, <1>2, <1>3, <1>4, <1>5, <1>6, <1>7, <1>8, <1>9, <1>10, <1>11, <1>12, <1>13, <1>14
     DEF Next

\* The challenges keep their types.
THEOREM ChallengeTyped == Spec => []TypeOK
BY TypeInit, TypeStep, PTL DEF Spec

-----------------------------------------------------------------------------
(* Who was told is exempt.                                                  *)

\* An address that was told has a row, and neither the cache nor a lookup under
\* way says otherwise; a request that has its promise is not past the first
\* lookup with another answer.
ExemptInv ==
  /\ \A i \in Addrs : solver[i] = "stored" => row[i] > 0
  /\ \A i \in answered :
       /\ row[i] > 0
       /\ verified[i].known => verified[i].value
       /\ \A r \in Requests : at[r] = "readVerified" /\ ip[r] = i => got[r]
  /\ \A r \in Requests : at[r] # "idle" => ip[r] \in Addrs
  /\ \A r \in Requests : "answered" \in promise[r] =>
       ip[r] \in answered /\ at[r] \in {"verified", "readVerified", "exempt"}

LEMMA ExemptInit == Init => ExemptInv
BY DEF Init, ExemptInv, NoEntry

LEMMA ExemptStep == TypeOK /\ ExemptInv /\ [Next]_vars => ExemptInv'
<1> SUFFICES ASSUME TypeOK, ExemptInv, [Next]_vars PROVE ExemptInv'
  OBVIOUS
<1> USE DEF ExemptInv, TypeOK, dbVars, requestVars, solverVars, scanVars, Goto
<1>1. CASE UNCHANGED vars
  BY <1>1 DEF vars
<1>2. ASSUME NEW r \in Requests, NEW i \in Addrs, Begin(r, i) PROVE ExemptInv'
  BY <1>2 DEF Begin
<1>3. ASSUME NEW r \in Requests, IsIpVerified(r) PROVE ExemptInv'
  <2>1. CASE Hit(r, "verified", verified, "exempt", "suspect")
    BY <2>1 DEF Hit
  <2>2. CASE ReadVerified(r)
    BY <2>2 DEF ReadVerified, Read
  <2>3. CASE /\ at[r] = "readVerified"
             /\ verified' = Inserted(verified, r)
             /\ Answer(r, "exempt", "suspect")
    BY <2>3 DEF Answer, Inserted, Entry
  <2> QED
    BY <1>3, <2>1, <2>2, <2>3 DEF IsIpVerified
<1>4. ASSUME NEW r \in Requests, IsIpSuspect(r) PROVE ExemptInv'
  BY <1>4 DEF IsIpSuspect, Hit, ReadSuspect, Read, Answer
<1>5. ASSUME NEW r \in Requests, End(r) PROVE ExemptInv'
  BY <1>5 DEF End
<1>6. ASSUME NEW i \in Solvers, Issue(i) \/ TokenExpires(i) PROVE ExemptInv'
  BY <1>6 DEF Issue, TokenExpires, SolverFrame
<1>7. ASSUME NEW i \in Solvers, Upsert(i) PROVE ExemptInv'
  BY <1>7, AddrsAssumption, TimesAssumption DEF Upsert, SolverFrame
<1>8. ASSUME NEW i \in Solvers, SetVerified(i) PROVE ExemptInv'
  BY <1>8, AddrsAssumption DEF SetVerified, SolverFrame, Free, Entry
<1>9. ASSUME NEW i \in Solvers, VerifyFails(i) PROVE ExemptInv'
  BY <1>9 DEF VerifyFails, SolverFrame
<1>10. ASSUME NEW i \in Uploaders, StoreScore(i) \/ MarkSuspect(i) PROVE ExemptInv'
  <2>1. UNCHANGED <<row, over, verified, requestVars, solverVars>>
    BY <1>10 DEF StoreScore, MarkSuspect, ScanFrame
  <2> QED
    BY <2>1
<1>11. CASE Tick
  BY <1>11 DEF Tick, Aged, Entry, NoEntry
<1>12. CASE WeekPasses
  BY <1>12 DEF WeekPasses
<1>13. CASE Restart
  BY <1>13 DEF Restart, NoEntry
<1> QED
  BY <1>1, <1>2, <1>3, <1>4, <1>5, <1>6, <1>7, <1>8, <1>9, <1>10, <1>11, <1>12, <1>13
     DEF Next

\* A client that was told it is verified is not challenged until its row
\* expires, whatever lookups and restarts come between.
THEOREM AnsweredIsExempt == Spec => []AnsweredExempt
<1>1. ExemptInv => AnsweredExempt
  BY DEF ExemptInv, AnsweredExempt
<1> QED
  BY <1>1, ExemptInit, ExemptStep, ChallengeTyped, PTL DEF Spec

-----------------------------------------------------------------------------
(* Who was marked is challenged.                                            *)

\* While an address is marked its score is in the table, and neither the cache
\* nor a lookup under way says that it is clean.
MarkInv ==
  /\ \A i \in marked :
       /\ scored
       /\ suspect[i].known => suspect[i].value
       /\ \A r \in Requests : at[r] = "readSuspect" /\ ip[r] = i => got[r]
  /\ \A r \in Requests : at[r] # "idle" => ip[r] \in Addrs
  /\ \A r \in Requests : "marked" \in promise[r] => ip[r] \in marked /\ at[r] # "clean"

LEMMA MarkInit == Init => MarkInv
BY DEF Init, MarkInv

LEMMA MarkStep == TypeOK /\ MarkInv /\ [Next]_vars => MarkInv'
<1> SUFFICES ASSUME TypeOK, MarkInv, [Next]_vars PROVE MarkInv'
  OBVIOUS
<1> USE DEF MarkInv, TypeOK, dbVars, requestVars, solverVars, scanVars, Goto
<1>1. CASE UNCHANGED vars
  BY <1>1 DEF vars
<1>2. ASSUME NEW r \in Requests, NEW i \in Addrs, Begin(r, i) PROVE MarkInv'
  BY <1>2 DEF Begin
<1>3. ASSUME NEW r \in Requests, IsIpVerified(r) PROVE MarkInv'
  BY <1>3 DEF IsIpVerified, Hit, ReadVerified, Read, Answer
<1>4. ASSUME NEW r \in Requests, IsIpSuspect(r) PROVE MarkInv'
  <2>1. CASE Hit(r, "suspect", suspect, "challenged", "clean")
    BY <2>1 DEF Hit
  <2>2. CASE ReadSuspect(r)
    BY <2>2 DEF ReadSuspect, Read
  <2>3. CASE /\ at[r] = "readSuspect"
             /\ suspect' = Inserted(suspect, r)
             /\ Answer(r, "challenged", "clean")
    BY <2>3 DEF Answer, Inserted, Entry
  <2> QED
    BY <1>4, <2>1, <2>2, <2>3 DEF IsIpSuspect
<1>5. ASSUME NEW r \in Requests, End(r) PROVE MarkInv'
  BY <1>5 DEF End
<1>6. ASSUME NEW i \in Solvers,
             Issue(i) \/ TokenExpires(i) \/ Upsert(i) \/ SetVerified(i) \/ VerifyFails(i)
      PROVE  MarkInv'
  <2>1. UNCHANGED <<suspect, requestVars, scanVars, scored>>
    BY <1>6 DEF Issue, TokenExpires, Upsert, SetVerified, VerifyFails, SolverFrame
  <2> QED
    BY <2>1
<1>7. ASSUME NEW i \in Uploaders, StoreScore(i) PROVE MarkInv'
  <2>1. scored => scored'
    BY <1>7 DEF StoreScore
  <2>2. UNCHANGED <<suspect, marked, requestVars>>
    BY <1>7 DEF StoreScore, ScanFrame
  <2> QED
    BY <2>1, <2>2
<1>8. ASSUME NEW i \in Uploaders, MarkSuspect(i) PROVE MarkInv'
  BY <1>8, AddrsAssumption DEF MarkSuspect, ScanFrame, Free, Entry
<1>9. CASE Tick
  BY <1>9 DEF Tick, Aged, Entry, NoEntry
<1>10. CASE WeekPasses
  BY <1>10 DEF WeekPasses
<1>11. CASE Restart
  BY <1>11 DEF Restart, NoEntry
<1> QED
  BY <1>1, <1>2, <1>3, <1>4, <1>5, <1>6, <1>7, <1>8, <1>9, <1>10, <1>11 DEF Next

\* A request that begins after its address was scored and marked does not pass
\* as clean while the score counts.
THEOREM MarkedIsChallenged == Spec => []MarkedChallenged
<1>1. MarkInv => MarkedChallenged
  BY DEF MarkInv, MarkedChallenged
<1> QED
  BY <1>1, MarkInit, MarkStep, ChallengeTyped, PTL DEF Spec

-----------------------------------------------------------------------------
(* How stale the caches are.                                                *)

VerifiedBound ==
  /\ \A i \in Addrs : row[i] > 0 => over[i] = 0
  /\ \A i \in Addrs : solver[i] = "stored" => row[i] > 0
  /\ \A r \in Requests : at[r] # "idle" => ip[r] \in Addrs
  /\ \A r \in Requests : at[r] = "readVerified" /\ got[r] => over[ip[r]] <= lag[r]
  /\ \A i \in Addrs : verified[i].known /\ verified[i].value => over[i] <= verified[i].age + Lag

SuspectBound ==
  /\ \A r \in Requests : at[r] # "idle" => ip[r] \in Addrs
  /\ \A r \in Requests : at[r] = "readSuspect" /\ ~got[r] /\ scored => scoredFor <= lag[r]
  /\ \A i \in Addrs : suspect[i].known /\ ~suspect[i].value /\ scored =>
       scoredFor <= suspect[i].age + Lag

LEMMA BoundsInit == Init => VerifiedBound /\ SuspectBound
BY LongTyped DEF Init, VerifiedBound, SuspectBound, NoEntry

LEMMA VerifiedStep == TypeOK /\ VerifiedBound /\ [Next]_vars => VerifiedBound'
<1> SUFFICES ASSUME TypeOK, VerifiedBound, [Next]_vars PROVE VerifiedBound'
  OBVIOUS
<1> USE DEF VerifiedBound, TypeOK, dbVars, requestVars, solverVars, scanVars, Goto
<1>1. CASE UNCHANGED vars
  BY <1>1 DEF vars
<1>2. ASSUME NEW r \in Requests, NEW i \in Addrs, Begin(r, i) PROVE VerifiedBound'
  BY <1>2 DEF Begin
<1>3. ASSUME NEW r \in Requests, IsIpVerified(r) PROVE VerifiedBound'
  <2>1. CASE Hit(r, "verified", verified, "exempt", "suspect")
    BY <2>1 DEF Hit
  <2>2. CASE ReadVerified(r)
    <3>1. ip[r] \in Addrs /\ lag[r] >= 0
      BY <2>2, TimesAssumption DEF ReadVerified, Read
    <3>2. got'[r] => over[ip[r]] = 0
      BY <2>2, <3>1 DEF ReadVerified, Read
    <3>3. at' = [at EXCEPT ![r] = "readVerified"] /\ \A q \in Requests \ {r} : got'[q] = got[q]
      BY <2>2 DEF ReadVerified, Read
    <3>4. UNCHANGED <<row, over, verified, solver, ip, lag>>
      BY <2>2 DEF ReadVerified, Read
    <3>5. ASSUME NEW q \in Requests, at'[q] = "readVerified", got'[q]
          PROVE  over'[ip'[q]] <= lag'[q]
      BY <3>1, <3>2, <3>3, <3>4, <3>5
    <3> QED
      BY <3>1, <3>3, <3>4, <3>5
  <2>3. CASE /\ at[r] = "readVerified"
             /\ verified' = Inserted(verified, r)
             /\ Answer(r, "exempt", "suspect")
    BY <2>3, TimesAssumption DEF Answer, Inserted, Entry
  <2> QED
    BY <1>3, <2>1, <2>2, <2>3 DEF IsIpVerified
<1>4. ASSUME NEW r \in Requests, IsIpSuspect(r) PROVE VerifiedBound'
  BY <1>4 DEF IsIpSuspect, Hit, ReadSuspect, Read, Answer
<1>5. ASSUME NEW r \in Requests, End(r) PROVE VerifiedBound'
  BY <1>5 DEF End
<1>6. ASSUME NEW i \in Solvers, Issue(i) \/ TokenExpires(i) \/ VerifyFails(i)
      PROVE  VerifiedBound'
  BY <1>6 DEF Issue, TokenExpires, VerifyFails, SolverFrame
<1>7. ASSUME NEW i \in Solvers, Upsert(i) PROVE VerifiedBound'
  BY <1>7, AddrsAssumption, TimesAssumption, EntryParts DEF Upsert, SolverFrame
<1>8. ASSUME NEW i \in Solvers, SetVerified(i) PROVE VerifiedBound'
  BY <1>8, AddrsAssumption, TimesAssumption DEF SetVerified, SolverFrame, Entry
<1>9. ASSUME NEW i \in Uploaders, StoreScore(i) \/ MarkSuspect(i) PROVE VerifiedBound'
  <2>1. UNCHANGED <<row, over, verified, requestVars, solverVars>>
    BY <1>9 DEF StoreScore, MarkSuspect, ScanFrame
  <2> QED
    BY <2>1
<1>10. CASE Tick
  BY <1>10, LongTyped, TimesAssumption, EntryParts DEF Tick, Aged, Entry, NoEntry, Older, InFlight
<1>11. CASE WeekPasses
  BY <1>11 DEF WeekPasses
<1>12. CASE Restart
  BY <1>12 DEF Restart, NoEntry
<1> QED
  BY <1>1, <1>2, <1>3, <1>4, <1>5, <1>6, <1>7, <1>8, <1>9, <1>10, <1>11, <1>12 DEF Next

LEMMA SuspectStep == TypeOK /\ SuspectBound /\ [Next]_vars => SuspectBound'
<1> SUFFICES ASSUME TypeOK, SuspectBound, [Next]_vars PROVE SuspectBound'
  OBVIOUS
<1> USE DEF SuspectBound, TypeOK, dbVars, requestVars, solverVars, scanVars, Goto
<1>1. CASE UNCHANGED vars
  BY <1>1 DEF vars
<1>2. ASSUME NEW r \in Requests, NEW i \in Addrs, Begin(r, i) PROVE SuspectBound'
  BY <1>2 DEF Begin
<1>3. ASSUME NEW r \in Requests, IsIpVerified(r) PROVE SuspectBound'
  BY <1>3 DEF IsIpVerified, Hit, ReadVerified, Read, Answer
<1>4. ASSUME NEW r \in Requests, IsIpSuspect(r) PROVE SuspectBound'
  <2>1. CASE Hit(r, "suspect", suspect, "challenged", "clean")
    BY <2>1 DEF Hit
  <2>2. CASE ReadSuspect(r)
    BY <2>2 DEF ReadSuspect, Read
  <2>3. CASE /\ at[r] = "readSuspect"
             /\ suspect' = Inserted(suspect, r)
             /\ Answer(r, "challenged", "clean")
    BY <2>3, TimesAssumption DEF Answer, Inserted, Entry
  <2> QED
    BY <1>4, <2>1, <2>2, <2>3 DEF IsIpSuspect
<1>5. ASSUME NEW r \in Requests, End(r) PROVE SuspectBound'
  BY <1>5 DEF End
<1>6. ASSUME NEW i \in Solvers,
             Issue(i) \/ TokenExpires(i) \/ Upsert(i) \/ SetVerified(i) \/ VerifyFails(i)
      PROVE  SuspectBound'
  <2>1. UNCHANGED <<suspect, requestVars, scored, scoredFor>>
    BY <1>6 DEF Issue, TokenExpires, Upsert, SetVerified, VerifyFails, SolverFrame
  <2> QED
    BY <2>1
<1>7. ASSUME NEW i \in Uploaders, StoreScore(i) PROVE SuspectBound'
  <2>1. UNCHANGED <<suspect, requestVars>>
    BY <1>7 DEF StoreScore, ScanFrame
  <2>2. scored' => scoredFor' = 0 \/ (scored /\ scoredFor' = scoredFor)
    BY <1>7 DEF StoreScore
  <2> QED
    BY <2>1, <2>2, EntryParts, TimesAssumption
<1>8. ASSUME NEW i \in Uploaders, MarkSuspect(i) PROVE SuspectBound'
  BY <1>8, AddrsAssumption DEF MarkSuspect, ScanFrame, Entry
<1>9. CASE Tick
  BY <1>9, LongTyped, TimesAssumption, EntryParts DEF Tick, Aged, Entry, NoEntry, Older, InFlight
<1>10. CASE WeekPasses
  BY <1>10 DEF WeekPasses
<1>11. CASE Restart
  BY <1>11 DEF Restart, NoEntry
<1> QED
  BY <1>1, <1>2, <1>3, <1>4, <1>5, <1>6, <1>7, <1>8, <1>9, <1>10, <1>11 DEF Next

\* What a cache says is older than the table by the age of its entry and one
\* lookup at most, for any lifetimes.
THEOREM StaleBounded == Spec => []StaleBound
<1>1. VerifiedBound /\ SuspectBound => StaleBound
  BY DEF VerifiedBound, SuspectBound, StaleBound
<1> QED
  BY <1>1, BoundsInit, VerifiedStep, SuspectStep, ChallengeTyped, PTL DEF Spec
=============================================================================
