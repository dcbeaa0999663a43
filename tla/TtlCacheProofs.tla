--------------------------- MODULE TtlCacheProofs ---------------------------
(***************************************************************************)
(* What TtlCache keeps for every set of keys, requests and admin handlers, *)
(* every ttl and every number of changes.                                  *)
(*                                                                         *)
(* Freshness is not inductive.  It rests on the lock: from the moment a    *)
(* fetch reads the database to the moment its value is inserted nobody     *)
(* else is answered and nothing is invalidated, so the value inserted is   *)
(* as new as anything owed to anyone (FetchFresh), and so every entry is   *)
(* (EntryFresh).                                                           *)
(***************************************************************************)
EXTENDS TtlCache, SequenceTheorems, TLAPS

\* Nothing is owed that the database does not hold.
OwedStored ==
  /\ \A k \in Keys : seen[k] <= db
  /\ \A c \in Changers : mine[c] <= db

\* What a call is owed has been owed by everyone since.
FloorSeen == \A g \in Getters : floor[g] <= seen[key[g]]

\* A value about to be inserted is as new as anything owed.
FetchFresh ==
  \A g \in Getters : pc[g] = "insert" =>
    fetched[g] <= db /\ \A k \in Keys : seen[k] <= fetched[g]

\* An entry is as new as anything owed for its key.
EntryFresh ==
  \A k \in Keys : entry[k].present =>
    seen[k] <= entry[k].version /\ entry[k].version <= db

Debts == OwedStored /\ FloorSeen /\ FetchFresh /\ EntryFresh /\ Freshness

IInv == TypeOK /\ OneFetch /\ Debts

Phases == {"idle", "read", "write", "fetch", "insert", "done"}

-----------------------------------------------------------------------------
\* Arithmetic of the history variables.
LEMMA MaxNat ==
  ASSUME NEW a \in Nat, NEW b \in Nat
  PROVE  /\ Max2(a, b) \in Nat
         /\ a <= Max2(a, b) /\ b <= Max2(a, b)
         /\ \A n \in Nat : a <= n /\ b <= n => Max2(a, b) <= n
BY DEF Max2

\* Removing a process from the queue leaves a queue of processes.
LEMMA LeftQueue ==
  ASSUME NEW q \in Seq(Procs), NEW i \in 1 .. Len(q)
  PROVE  SubSeq(q, 1, i - 1) \o SubSeq(q, i + 1, Len(q)) \in Seq(Procs)
<1>1. SubSeq(q, 1, i - 1) \in Seq(Procs)
  BY SubSeqProperties
<1>2. SubSeq(q, i + 1, Len(q)) \in Seq(Procs)
  BY SubSeqProperties
<1> QED
  BY <1>1, <1>2, ConcatProperties

\* Joining the queue, and being served from its head.
LEMMA ServedQueue ==
  ASSUME NEW q \in Seq(Procs), NEW p \in Procs
  PROVE  /\ Append(q, p) \in Seq(Procs)
         /\ q # <<>> => Tail(q) \in Seq(Procs) /\ Append(Tail(q), p) \in Seq(Procs)
BY HeadTailProperties, AppendProperties

\* What answering does to the variables it changes.
LEMMA AnswerTyped ==
  ASSUME TypeOK, NEW g \in Getters, NEW v \in Nat, Answer(g, v)
  PROVE  /\ got' \in [Getters -> Nat]
         /\ seen' \in [Keys -> Nat]
         /\ pc' \in [Procs -> Phases]
<1>1. Max2(seen[key[g]], v) \in Nat
  BY MaxNat DEF TypeOK
<1>2. got' \in [Getters -> Nat]
  BY DEF TypeOK, Answer
<1>3. seen' \in [Keys -> Nat]
  BY <1>1 DEF TypeOK, Answer
<1>4. pc' \in [Procs -> Phases]
  BY DEF TypeOK, Answer, Goto, Procs, Phases
<1> QED
  BY <1>2, <1>3, <1>4

-----------------------------------------------------------------------------
\* TypeOK is kept by every step.
LEMMA TypeStep ==
  ASSUME TypeOK, [Next]_vars
  PROVE  TypeOK'
<1> USE ProcAssumption, NatAssumption
<1>1. CASE UNCHANGED vars
  BY <1>1 DEF TypeOK, vars, dbVars, lockVars, ghostVars
<1>2. ASSUME NEW g \in Getters, NEW k \in Keys, Call(g, k)  PROVE TypeOK'
  <2>1. queue' \in Seq(Procs)
    BY <1>2, ServedQueue DEF TypeOK, Call, Procs
  <2> QED
    BY <1>2, <2>1 DEF TypeOK, Call, Goto, Procs, dbVars
<1>3. ASSUME NEW g \in Getters, ReadLookup(g)  PROVE TypeOK'
  <2>0. queue' \in Seq(Procs)
    <3>1. queue # <<>> /\ queue' \in {Tail(queue), Append(Tail(queue), g)}
      BY <1>3 DEF ReadLookup, Granted
    <3>2. queue \in Seq(Procs) /\ g \in Procs
      BY DEF TypeOK, Procs
    <3> QED
      BY <3>1, <3>2, ServedQueue
  <2>1. CASE ~Fresh(key[g])
    BY <1>3, <2>0, <2>1 DEF ReadLookup, TypeOK, Goto, Procs, dbVars
  <2>2. CASE Fresh(key[g])
    <3>1. Answer(g, entry[key[g]].version)
      BY <1>3, <2>2 DEF ReadLookup
    <3>2. entry[key[g]].version \in Nat
      BY DEF TypeOK, Entries
    <3>3. /\ got' \in [Getters -> Nat] /\ seen' \in [Keys -> Nat]
          /\ pc' \in [Procs -> Phases]
      BY <3>1, <3>2, AnswerTyped
    <3> QED
      BY <1>3, <2>0, <2>2, <3>3 DEF ReadLookup, TypeOK, Phases, dbVars
  <2> QED
    BY <2>1, <2>2
<1>4. ASSUME NEW g \in Getters, WriteLookup(g)  PROVE TypeOK'
  <2>0. queue' \in Seq(Procs)
    BY <1>4, ServedQueue DEF WriteLookup, Granted, TypeOK, Procs
  <2>1. CASE ~Fresh(key[g])
    BY <1>4, <2>0, <2>1 DEF WriteLookup, TypeOK, Goto, Procs, dbVars
  <2>2. CASE Fresh(key[g])
    <3>1. Answer(g, entry[key[g]].version)
      BY <1>4, <2>2 DEF WriteLookup
    <3>2. entry[key[g]].version \in Nat
      BY DEF TypeOK, Entries
    <3>3. /\ got' \in [Getters -> Nat] /\ seen' \in [Keys -> Nat]
          /\ pc' \in [Procs -> Phases]
      BY <3>1, <3>2, AnswerTyped
    <3> QED
      BY <1>4, <2>0, <2>2, <3>3 DEF WriteLookup, TypeOK, Phases, dbVars
  <2> QED
    BY <2>1, <2>2
<1>5. ASSUME NEW g \in Getters, ReadDatabase(g)  PROVE TypeOK'
  BY <1>5 DEF TypeOK, ReadDatabase, Goto, Procs, dbVars, lockVars
<1>6. ASSUME NEW g \in Getters, Insert(g)  PROVE TypeOK'
  <2> USE <1>6 DEF Insert, TypeOK, Goto, Procs, dbVars
  <2>1. fetched[g] \in Nat /\ key[g] \in Keys /\ seen[key[g]] \in Nat
    OBVIOUS
  <2>2. Max2(seen[key[g]], fetched[g]) \in Nat
    BY <2>1, MaxNat
  <2>3. entry' \in [Keys -> Entries]
    BY <2>1 DEF Retained, Entries, Empty
  <2>5. \A k \in Keys : entry'[k].at <= now'
    <3> DEFINE new == [version |-> fetched[g], at |-> now, present |-> TRUE]
    <3>1. now \in Nat /\ now' = now /\ 0 <= now
      OBVIOUS
    <3>2. \A k \in Keys : [entry EXCEPT ![key[g]] = new][k].at <= now
      BY <3>1
    <3>3. \A k \in Keys : entry'[k].at \in {[entry EXCEPT ![key[g]] = new][k].at, 0}
      BY DEF Retained, Empty
    <3> HIDE DEF new
    <3> QED
      <4> TAKE k \in Keys
      <4>1. CASE entry'[k].at = 0
        BY <3>1, <4>1
      <4>2. CASE entry'[k].at = [entry EXCEPT ![key[g]] = new][k].at
        BY <3>1, <3>2, <4>2
      <4> QED
        BY <3>3, <4>1, <4>2
  <2>4. readAt' \in Nat /\ slowest' \in Nat
    BY DEF Max2
  <2> QED
    BY <2>1, <2>2, <2>3, <2>4, <2>5 DEF Answer
<1>7. ASSUME NEW g \in Getters, FetchFails(g)  PROVE TypeOK'
  BY <1>7 DEF TypeOK, FetchFails, Goto, Procs, dbVars
<1>8. ASSUME NEW g \in Getters, DropGet(g)  PROVE TypeOK'
  <2>1. queue' \in Seq(Procs)
    <3>1. PICK i \in 1 .. Len(queue) :
            queue' = SubSeq(queue, 1, i - 1) \o SubSeq(queue, i + 1, Len(queue))
      BY <1>8 DEF DropGet, Leave
    <3> QED
      BY <3>1, LeftQueue DEF TypeOK
  <2> QED
    BY <1>8, <2>1 DEF TypeOK, DropGet, Leave, Goto, Procs, dbVars
<1>9. ASSUME NEW c \in Changers, DropChange(c)  PROVE TypeOK'
  <2>1. queue' \in Seq(Procs)
    <3>1. PICK i \in 1 .. Len(queue) :
            queue' = SubSeq(queue, 1, i - 1) \o SubSeq(queue, i + 1, Len(queue))
      BY <1>9 DEF DropChange, Leave
    <3> QED
      BY <3>1, LeftQueue DEF TypeOK
  <2> QED
    BY <1>9, <2>1 DEF TypeOK, DropChange, Leave, Goto, Procs, dbVars, ghostVars
<1>10. ASSUME NEW c \in Changers, Change(c)  PROVE TypeOK'
  <2>1. queue' \in Seq(Procs)
    BY <1>10, ServedQueue DEF TypeOK, Change, Procs
  <2> QED
    <3>1. pc' = [pc EXCEPT ![c] = "write"] /\ mine' = [mine EXCEPT ![c] = db + 1]
      BY <1>10 DEF Change, Goto
    <3>2. UNCHANGED <<now, history, entry, holder, key, fetched, got, ghostVars>>
      BY <1>10 DEF Change
    <3>3. db' = db + 1
      BY <1>10 DEF Change
    <3>4. mine' \in [Changers -> Nat]
      BY <3>1 DEF TypeOK
    <3> QED
      BY <2>1, <3>1, <3>2, <3>3, <3>4 DEF TypeOK, Procs, ghostVars
<1>11. ASSUME NEW c \in Changers, Invalidate(c)  PROVE TypeOK'
  <2>1. \A k \in Keys : Max2(seen[k], mine[c]) \in Nat
    BY MaxNat DEF TypeOK
  <2> QED
    BY <1>11, <2>1
    DEF TypeOK, Invalidate, Granted, Goto, Procs, dbVars, Entries, Empty
<1>12. CASE ChangeOutside
  BY <1>12 DEF TypeOK, ChangeOutside, lockVars, ghostVars
<1>13. CASE Tick
  <2>1. \A k \in Keys : entry[k].at \in Nat
    BY DEF TypeOK, Entries
  <2>2. \A k \in Keys : entry'[k].at <= now'
    BY <1>13, <2>1 DEF TypeOK, Tick
  <2> QED
    BY <1>13, <2>2 DEF TypeOK, Tick, lockVars, ghostVars
<1> QED
  BY <1>1, <1>2, <1>3, <1>4, <1>5, <1>6, <1>7, <1>8, <1>9, <1>10, <1>11,
     <1>12, <1>13
  DEF Next, GetStep

LEMMA TypeInit == Init => TypeOK
BY ProcAssumption, NatAssumption DEF Init, TypeOK, Entries, Empty, Procs

\* Every variable of the cache keeps its type.
THEOREM CacheTyped == Spec => []TypeOK
BY TypeInit, TypeStep, PTL DEF Spec

-----------------------------------------------------------------------------
\* The lock is held exactly by the fetch under way: an action that neither
\* takes nor frees it moves no process into or out of a fetch.
LEMMA LockStep ==
  ASSUME TypeOK, OneFetch, [Next]_vars
  PROVE  OneFetch'
<1> USE ProcAssumption
<1>1. CASE UNCHANGED vars
  BY <1>1 DEF OneFetch, vars, lockVars
<1>2. ASSUME NEW g \in Getters, NEW k \in Keys, Call(g, k)  PROVE OneFetch'
  BY <1>2 DEF OneFetch, TypeOK, Call, Goto, Procs
<1>3. ASSUME NEW g \in Getters, ReadLookup(g)  PROVE OneFetch'
  <2>1. holder' = holder /\ pc[g] = "read"
    BY <1>3 DEF ReadLookup
  <2>2. PICK s \in {"done", "write"} : pc' = [pc EXCEPT ![g] = s]
    BY <1>3 DEF ReadLookup, Answer, Goto
  <2> QED
    BY <2>1, <2>2 DEF OneFetch, TypeOK, Procs
<1>4. ASSUME NEW g \in Getters, WriteLookup(g)  PROVE OneFetch'
  <2>1. holder = NoProc /\ pc[g] = "write"
    BY <1>4 DEF WriteLookup, Granted
  <2>2. \/ pc' = [pc EXCEPT ![g] = "done"] /\ holder' = holder
        \/ pc' = [pc EXCEPT ![g] = "fetch"] /\ holder' = g
    BY <1>4 DEF WriteLookup, Answer, Goto
  <2> QED
    BY <2>1, <2>2 DEF OneFetch, TypeOK, Procs
<1>5. ASSUME NEW g \in Getters, ReadDatabase(g)  PROVE OneFetch'
  BY <1>5 DEF OneFetch, TypeOK, ReadDatabase, Goto, Procs, lockVars
<1>6. ASSUME NEW g \in Getters, Insert(g)  PROVE OneFetch'
  BY <1>6 DEF OneFetch, TypeOK, Insert, Answer, Goto, Procs
<1>7. ASSUME NEW g \in Getters, FetchFails(g)  PROVE OneFetch'
  BY <1>7 DEF OneFetch, TypeOK, FetchFails, Goto, Procs
<1>8. ASSUME NEW g \in Getters, DropGet(g)  PROVE OneFetch'
  BY <1>8 DEF OneFetch, TypeOK, DropGet, Leave, Goto, Procs
<1>9. ASSUME NEW c \in Changers,
             Change(c) \/ Invalidate(c) \/ DropChange(c)
      PROVE  OneFetch'
  <2>1. holder' = holder
    BY <1>9 DEF Change, Invalidate, DropChange
  <2>2. PICK s \in {"idle", "write"} : pc' = [pc EXCEPT ![c] = s]
    BY <1>9 DEF Change, Invalidate, DropChange, Leave, Goto
  <2> QED
    BY <2>1, <2>2 DEF OneFetch, TypeOK, Procs
<1>10. CASE ChangeOutside \/ Tick
  BY <1>10 DEF OneFetch, ChangeOutside, Tick, lockVars
<1> QED
  BY <1>1, <1>2, <1>3, <1>4, <1>5, <1>6, <1>7, <1>8, <1>9, <1>10
  DEF Next, GetStep

-----------------------------------------------------------------------------
\* Answering a version as new as what is owed for the key makes it what is
\* owed.
LEMMA AnswerOwes ==
  ASSUME TypeOK, NEW g \in Getters, NEW v \in Nat, Answer(g, v),
         seen[key[g]] <= v
  PROVE  seen' = [seen EXCEPT ![key[g]] = v]
<1>1. seen[key[g]] \in Nat
  BY DEF TypeOK
<1>2. Max2(seen[key[g]], v) = v
  BY <1>1 DEF Max2
<1> QED
  BY <1>2 DEF Answer

\* Answering a version as new as anything owed for the key, that the database
\* holds, while nobody else is between fetch and insertion, keeps the debts
\* paid, provided the entries stay as new as what is then owed.
LEMMA AnswerPays ==
  ASSUME IInv, NEW g \in Getters, NEW v \in Nat, Answer(g, v),
         seen[key[g]] <= v, v <= db,
         \A h \in Getters \ {g} : pc[h] # "insert",
         UNCHANGED <<db, key, floor, mine>>,
         TypeOK', EntryFresh'
  PROVE  Debts'
<1> USE ProcAssumption
<1>1. seen' = [seen EXCEPT ![key[g]] = v]
  BY AnswerOwes DEF IInv
<1>2. pc' = [pc EXCEPT ![g] = "done"] /\ got' = [got EXCEPT ![g] = v]
  BY DEF Answer, Goto
<1>3. OwedStored'
  BY <1>1 DEF IInv, Debts, OwedStored, TypeOK
<1>4. FloorSeen'
  <2>1. \A k \in Keys : seen[k] <= seen'[k]
    BY <1>1 DEF IInv, TypeOK
  <2>2. \A h \in Getters : floor[h] <= seen[key[h]]
    BY DEF IInv, Debts, FloorSeen
  <2>3. \A h \in Getters : floor[h] \in Nat /\ seen[key[h]] \in Nat
                             /\ seen'[key[h]] \in Nat /\ key[h] \in Keys
    BY DEF IInv, TypeOK
  <2> QED
    BY <2>1, <2>2, <2>3 DEF FloorSeen
<1>5. FetchFresh'
  BY <1>2 DEF FetchFresh, IInv, TypeOK, Procs
<1>6. Freshness'
  <2>1. floor[g] <= v
    BY DEF IInv, Debts, FloorSeen, TypeOK
  <2> QED
    BY <1>2, <2>1 DEF Freshness, IInv, Debts, TypeOK, Procs
<1> QED
  BY <1>3, <1>4, <1>5, <1>6 DEF Debts

\* While the lock is free no fetch has a value to insert.
LEMMA LockFree ==
  ASSUME TypeOK, OneFetch, holder = NoProc
  PROVE  \A g \in Getters : pc[g] # "insert"
BY ProcAssumption DEF TypeOK, OneFetch

\* A hit answers an entry, which is as new as anything owed for its key.
LEMMA HitPays ==
  ASSUME IInv, NEW g \in Getters, Fresh(key[g]),
         Answer(g, entry[key[g]].version),
         holder = NoProc,
         UNCHANGED <<db, key, floor, mine, entry>>, TypeOK'
  PROVE  Debts'
<1> DEFINE v == entry[key[g]].version
<1>1. v \in Nat /\ seen[key[g]] <= v /\ v <= db
  BY DEF IInv, Debts, EntryFresh, Fresh, TypeOK, Entries
<1>2. seen' = [seen EXCEPT ![key[g]] = v]
  BY <1>1, AnswerOwes DEF IInv
<1>3. EntryFresh'
  <2> SUFFICES ASSUME NEW k \in Keys, entry[k].present
               PROVE  seen'[k] <= entry[k].version /\ entry[k].version <= db
    BY DEF EntryFresh
  <2>1. seen[k] <= entry[k].version /\ entry[k].version <= db
    BY DEF IInv, Debts, EntryFresh
  <2>2. k = key[g] => seen'[k] = v
    BY <1>2 DEF IInv, TypeOK
  <2>3. k # key[g] => seen'[k] = seen[k]
    BY <1>2 DEF IInv, TypeOK
  <2> QED
    BY <1>1, <2>1, <2>2, <2>3
<1>4. \A h \in Getters : pc[h] # "insert"
  BY LockFree DEF IInv
<1> QED
  BY <1>1, <1>3, <1>4, AnswerPays

\* Every step keeps the debts paid.
LEMMA DebtStep ==
  ASSUME IInv, [Next]_vars, TypeOK'
  PROVE  Debts'
<1> USE ProcAssumption
<1>1. CASE UNCHANGED vars
  BY <1>1 DEF IInv, Debts, OwedStored, FloorSeen, FetchFresh, EntryFresh,
              Freshness, vars, dbVars, ghostVars
<1>2. ASSUME NEW g \in Getters, NEW k \in Keys, Call(g, k)  PROVE Debts'
  <2>1. pc' = [pc EXCEPT ![g] = "read"] /\ key' = [key EXCEPT ![g] = k]
        /\ floor' = [floor EXCEPT ![g] = seen[k]]
        /\ got' = [got EXCEPT ![g] = 0]
    BY <1>2 DEF Call, Goto
  <2>2. UNCHANGED <<db, entry, fetched, mine, seen>>
    BY <1>2 DEF Call, dbVars
  <2>3. OwedStored' /\ EntryFresh'
    BY <2>2 DEF IInv, Debts, OwedStored, EntryFresh
  <2>4. FloorSeen'
    BY <2>1, <2>2 DEF IInv, Debts, FloorSeen, TypeOK
  <2>5. FetchFresh'
    BY <2>1, <2>2 DEF IInv, Debts, FetchFresh, TypeOK, Procs
  <2>6. Freshness'
    BY <2>1 DEF IInv, Debts, Freshness, TypeOK, Procs
  <2> QED
    BY <2>3, <2>4, <2>5, <2>6 DEF Debts
<1>3. ASSUME NEW g \in Getters, ReadLookup(g) \/ WriteLookup(g)  PROVE Debts'
  <2>1. UNCHANGED <<db, entry, key, fetched, mine, floor>>
    BY <1>3 DEF ReadLookup, WriteLookup, dbVars
  <2>2. holder = NoProc
    BY <1>3 DEF ReadLookup, WriteLookup, Granted
  <2>3. CASE Fresh(key[g])
    <3>1. Answer(g, entry[key[g]].version)
      BY <1>3, <2>3 DEF ReadLookup, WriteLookup
    <3> QED
      BY <2>1, <2>2, <2>3, <3>1, HitPays
  <2>4. CASE ~Fresh(key[g])
    <3>1. UNCHANGED <<got, seen>>
      BY <1>3, <2>4 DEF ReadLookup, WriteLookup
    <3>2. PICK s \in {"write", "fetch"} : pc' = [pc EXCEPT ![g] = s]
      BY <1>3, <2>4 DEF ReadLookup, WriteLookup, Goto
    <3>3. OwedStored' /\ FloorSeen' /\ EntryFresh'
      BY <2>1, <3>1 DEF IInv, Debts, OwedStored, FloorSeen, EntryFresh
    <3>4. FetchFresh'
      BY <2>1, <3>1, <3>2 DEF IInv, Debts, FetchFresh, TypeOK, Procs
    <3>5. Freshness'
      BY <2>1, <3>1, <3>2 DEF IInv, Debts, Freshness, TypeOK, Procs
    <3> QED
      BY <3>3, <3>4, <3>5 DEF Debts
  <2> QED
    BY <2>3, <2>4
<1>4. ASSUME NEW g \in Getters, ReadDatabase(g)  PROVE Debts'
  <2>1. UNCHANGED <<db, entry, key, mine, got, floor, seen>>
    BY <1>4 DEF ReadDatabase, dbVars
  <2>2. pc' = [pc EXCEPT ![g] = "insert"] /\ fetched' = [fetched EXCEPT ![g] = db]
    BY <1>4 DEF ReadDatabase, Goto
  <2>3. OwedStored' /\ FloorSeen' /\ EntryFresh'
    BY <2>1 DEF IInv, Debts, OwedStored, FloorSeen, EntryFresh
  <2>4. FetchFresh'
    BY <2>1, <2>2 DEF IInv, Debts, OwedStored, FetchFresh, TypeOK, Procs
  <2>5. Freshness'
    BY <2>1, <2>2 DEF IInv, Debts, Freshness, TypeOK, Procs
  <2> QED
    BY <2>3, <2>4, <2>5 DEF Debts
<1>5. ASSUME NEW g \in Getters, Insert(g)  PROVE Debts'
  <2> DEFINE v == fetched[g]
  <2>1. v \in Nat /\ pc[g] = "insert"
    BY <1>5 DEF Insert, IInv, TypeOK
  <2>2. v <= db /\ \A k \in Keys : seen[k] <= v
    BY <2>1 DEF IInv, Debts, FetchFresh
  <2>3. Answer(g, v) /\ UNCHANGED <<db, key, floor, mine>>
    BY <1>5 DEF Insert, dbVars
  <2>4. \A h \in Getters \ {g} : pc[h] # "insert"
    BY <2>1 DEF IInv, OneFetch
  <2>5. seen' = [seen EXCEPT ![key[g]] = v]
    BY <2>1, <2>2, <2>3, AnswerOwes DEF IInv, TypeOK
  <2>6. EntryFresh'
    <3> SUFFICES ASSUME NEW k \in Keys, entry'[k].present
                 PROVE  seen'[k] <= entry'[k].version /\ entry'[k].version <= db
      BY <2>3 DEF EntryFresh
    <3> DEFINE m == [entry EXCEPT ![key[g]] =
                       [version |-> v, at |-> now, present |-> TRUE]]
    <3>1. entry' = Retained(m)
      BY <1>5 DEF Insert
    <3>2. m[k].present /\ entry'[k] = m[k]
      BY <3>1 DEF Retained, Empty
    <3>3. CASE k = key[g]
      BY <2>1, <2>2, <2>5, <3>2, <3>3 DEF IInv, TypeOK
    <3>4. CASE k # key[g]
      <4>1. m[k] = entry[k] /\ seen'[k] = seen[k]
        BY <2>5, <3>4 DEF IInv, TypeOK
      <4> QED
        BY <3>2, <4>1 DEF IInv, Debts, EntryFresh
    <3> QED
      BY <3>3, <3>4
  <2> QED
    BY <2>1, <2>2, <2>3, <2>4, <2>6, AnswerPays DEF IInv, TypeOK
<1>6. ASSUME NEW g \in Getters, FetchFails(g) \/ DropGet(g)  PROVE Debts'
  <2>1. UNCHANGED <<db, entry, key, mine, got, seen>>
    BY <1>6 DEF FetchFails, DropGet, dbVars
  <2>2. pc' = [pc EXCEPT ![g] = "idle"] /\ floor' = [floor EXCEPT ![g] = 0]
    BY <1>6 DEF FetchFails, DropGet, Leave, Goto
  <2>3. \A h \in Getters \ {g} : fetched'[h] = fetched[h]
    BY <1>6 DEF FetchFails, DropGet, IInv, TypeOK
  <2>4. OwedStored' /\ EntryFresh'
    BY <2>1 DEF IInv, Debts, OwedStored, EntryFresh
  <2>5. FloorSeen'
    <3>1. \A h \in Getters : key[h] \in Keys /\ seen[key[h]] \in Nat
                               /\ (floor'[h] = 0 \/ floor'[h] = floor[h])
      BY <2>2 DEF IInv, TypeOK
    <3>2. \A h \in Getters : floor[h] <= seen[key[h]]
      BY DEF IInv, Debts, FloorSeen
    <3> QED
      BY <2>1, <3>1, <3>2 DEF FloorSeen
  <2>6. FetchFresh'
    BY <2>1, <2>2, <2>3 DEF IInv, Debts, FetchFresh, TypeOK, Procs
  <2>7. Freshness'
    BY <2>1, <2>2 DEF IInv, Debts, Freshness, TypeOK, Procs
  <2> QED
    BY <2>4, <2>5, <2>6, <2>7 DEF Debts
<1>7. ASSUME NEW c \in Changers, Change(c) \/ DropChange(c)  PROVE Debts'
  <2>1. UNCHANGED <<entry, key, fetched, got, floor, seen>>
    BY <1>7 DEF Change, DropChange, ghostVars
  <2>2. PICK s \in {"write", "idle"} : pc' = [pc EXCEPT ![c] = s]
    BY <1>7 DEF Change, DropChange, Leave, Goto
  <2>3. PICK n \in Nat : mine' = [mine EXCEPT ![c] = n] /\ n <= db' /\ db <= db'
    BY <1>7 DEF Change, DropChange, dbVars, IInv, TypeOK
  <2>4. \A g \in Getters : pc'[g] = pc[g]
    BY <2>2 DEF IInv, TypeOK, Procs
  <2>5. OwedStored'
    BY <2>1, <2>3 DEF IInv, Debts, OwedStored, TypeOK
  <2>6. FloorSeen' /\ Freshness'
    BY <2>1, <2>4 DEF IInv, Debts, FloorSeen, Freshness
  <2>7. FetchFresh'
    BY <2>1, <2>3, <2>4 DEF IInv, Debts, FetchFresh, TypeOK
  <2>8. EntryFresh'
    BY <2>1, <2>3 DEF IInv, Debts, EntryFresh, TypeOK, Entries
  <2> QED
    BY <2>5, <2>6, <2>7, <2>8 DEF Debts
<1>8. ASSUME NEW c \in Changers, Invalidate(c)  PROVE Debts'
  <2>1. UNCHANGED <<db, key, fetched, got, floor>>
    BY <1>8 DEF Invalidate, dbVars
  <2>2. entry' = [k \in Keys |-> Empty]
        /\ seen' = [k \in Keys |-> Max2(seen[k], mine[c])]
        /\ mine' = [mine EXCEPT ![c] = 0]
        /\ pc' = [pc EXCEPT ![c] = "idle"]
    BY <1>8 DEF Invalidate, Goto
  <2>3. \A g \in Getters : pc'[g] = pc[g] /\ pc[g] # "insert"
    <3>1. \A g \in Getters : pc[g] # "insert"
      BY <1>8, LockFree DEF Invalidate, Granted, IInv
    <3> QED
      BY <2>2, <3>1 DEF IInv, TypeOK, Procs
  <2>4. \A k \in Keys : /\ seen[k] \in Nat /\ seen'[k] \in Nat
                        /\ seen[k] <= seen'[k] /\ seen'[k] <= db
    BY <2>2, MaxNat DEF IInv, Debts, OwedStored, TypeOK
  <2>5. OwedStored'
    BY <2>1, <2>2, <2>4 DEF IInv, Debts, OwedStored, TypeOK
  <2>6. FloorSeen'
    <3>1. \A g \in Getters : key[g] \in Keys /\ floor[g] \in Nat
      BY DEF IInv, TypeOK
    <3> QED
      BY <2>1, <2>4, <3>1 DEF IInv, Debts, FloorSeen
  <2>7. FetchFresh'
    BY <2>3 DEF FetchFresh
  <2>8. EntryFresh'
    BY <2>2 DEF EntryFresh, Empty
  <2>9. Freshness'
    BY <2>1, <2>3 DEF IInv, Debts, Freshness
  <2> QED
    BY <2>5, <2>6, <2>7, <2>8, <2>9 DEF Debts
<1>9. CASE ChangeOutside \/ Tick
  <2>1. UNCHANGED <<entry, pc, key, fetched, mine, got, floor, seen>>
    BY <1>9 DEF ChangeOutside, Tick, ghostVars
  <2>2. db <= db'
    BY <1>9 DEF ChangeOutside, Tick, IInv, TypeOK
  <2>3. OwedStored'
    BY <2>1, <2>2 DEF IInv, Debts, OwedStored, TypeOK
  <2>4. FloorSeen' /\ Freshness'
    BY <2>1 DEF IInv, Debts, FloorSeen, Freshness
  <2>5. FetchFresh'
    BY <2>1, <2>2 DEF IInv, Debts, FetchFresh, TypeOK
  <2>6. EntryFresh'
    BY <2>1, <2>2 DEF IInv, Debts, EntryFresh, TypeOK, Entries
  <2> QED
    BY <2>3, <2>4, <2>5, <2>6 DEF Debts
<1> QED
  BY <1>1, <1>2, <1>3, <1>4, <1>5, <1>6, <1>7, <1>8, <1>9 DEF Next, GetStep

-----------------------------------------------------------------------------
LEMMA IInvInit == Init => IInv
<1> SUFFICES ASSUME Init  PROVE IInv
  OBVIOUS
<1>1. TypeOK
  BY TypeInit
<1>2. OneFetch
  BY ProcAssumption DEF Init, OneFetch, Procs
<1>3. Debts
  BY DEF Init, Debts, OwedStored, FloorSeen, FetchFresh, EntryFresh,
         Freshness, Procs, Empty
<1> QED
  BY <1>1, <1>2, <1>3 DEF IInv

LEMMA IInvStep == IInv /\ [Next]_vars => IInv'
<1> SUFFICES ASSUME IInv, [Next]_vars  PROVE IInv'
  OBVIOUS
<1>1. TypeOK'
  BY TypeStep DEF IInv
<1>2. OneFetch'
  BY LockStep DEF IInv
<1>3. Debts'
  BY <1>1, DebtStep
<1> QED
  BY <1>1, <1>2, <1>3 DEF IInv

\* The inductive invariant.
THEOREM CacheInvariance == Spec => []IInv
BY IInvInit, IInvStep, PTL DEF Spec

\* No answer is older than one given, or than a change whose invalidation had
\* completed, when the call began.
THEOREM CacheFresh == Spec => []Freshness
<1>1. IInv => Freshness
  BY DEF IInv, Debts
<1> QED
  BY <1>1, CacheInvariance, PTL

\* The write lock is held exactly by the one fetch under way.
THEOREM CacheOneFetch == Spec => []OneFetch
<1>1. IInv => OneFetch
  BY DEF IInv
<1> QED
  BY <1>1, CacheInvariance, PTL

-----------------------------------------------------------------------------
(* How old an answer may be.  A ttl of zero makes every lookup fetch; the    *)
(* bound that Staleness states is about the others.                          *)

\* The versions at the beginnings of the instants so far.
Past ==
  /\ now <= MaxTime
  /\ \A t \in 0 .. now : history[t] <= db
  /\ \A s, t \in 0 .. now : s <= t => history[s] <= history[t]

\* A value has what was stored when its fetch read the database.
FetchPast ==
  \A g \in Getters : pc[g] = "insert" =>
    readAt <= now /\ \A t \in 0 .. now : t <= readAt => history[t] <= fetched[g]

\* An entry has what was stored before it by the longest fetch.
EntryPast ==
  \A k \in Keys : entry[k].present =>
    /\ entry[k].at <= now
    /\ \A t \in 0 .. now : t + slowest <= entry[k].at => history[t] <= entry[k].version

AnswerPast ==
  /\ \A g \in Getters : began[g] <= now
  /\ \A g \in Getters : pc[g] = "done" =>
       \A t \in 0 .. now : t + (Ttl + slowest) <= began[g] + 1 => history[t] <= got[g]

Ages == Past /\ FetchPast /\ EntryPast /\ AnswerPast

\* A step of a getter that leaves the clock, the database and the map alone.
LEMMA QuietAges ==
  ASSUME TypeOK, Ages, NEW g \in Getters, NEW step \in Phases \ {"insert", "done"},
         pc' = [pc EXCEPT ![g] = step],
         UNCHANGED <<now, db, history, entry, slowest>>,
         \A h \in Getters \ {g} : fetched'[h] = fetched[h] /\ got'[h] = got[h],
         \A h \in Getters : began'[h] \in {0, now, began[h]},
         \A h \in Getters \ {g} : began'[h] = began[h],
         readAt' = readAt \/ \A h \in Getters \ {g} : pc[h] # "insert"
  PROVE  Ages'
<1> USE ProcAssumption
<1>1. now \in Nat /\ \A h \in Getters : began[h] \in Nat
  BY DEF TypeOK
<1>2. \A h \in Getters : /\ h = g => pc'[h] = step
                         /\ h # g => pc'[h] = pc[h]
  BY DEF TypeOK, Procs
<1>3. Past' /\ EntryPast'
  BY DEF Ages, Past, EntryPast
<1>4. FetchPast'
  BY <1>2 DEF Ages, FetchPast
<1>5. AnswerPast'
  <2>1. \A h \in Getters : began'[h] <= now'
    BY <1>1 DEF Ages, AnswerPast
  <2>2. ASSUME NEW h \in Getters, pc'[h] = "done", NEW t \in 0 .. now',
               t + (Ttl + slowest') <= began'[h] + 1
        PROVE  history'[t] <= got'[h]
    <3>1. h # g /\ pc[h] = "done"
      BY <1>2, <2>2
    <3> QED
      BY <2>2, <3>1 DEF Ages, AnswerPast
  <2> QED
    BY <2>1, <2>2 DEF AnswerPast
<1> QED
  BY <1>3, <1>4, <1>5 DEF Ages

\* A call is answered with a value that is old enough.
LEMMA AnswerAges ==
  ASSUME TypeOK, Ages, NEW g \in Getters, NEW v \in Nat, Answer(g, v),
         UNCHANGED <<now, db, history, began>>,
         \A h \in Getters \ {g} : fetched'[h] = fetched[h],
         slowest' \in Nat, slowest <= slowest',
         readAt' = readAt \/ \A h \in Getters \ {g} : pc[h] # "insert",
         EntryPast',
         \A t \in 0 .. now : t + (Ttl + slowest') <= began[g] + 1 => history[t] <= v
  PROVE  Ages'
<1> USE ProcAssumption
<1>1. pc' = [pc EXCEPT ![g] = "done"] /\ got' = [got EXCEPT ![g] = v]
  BY DEF Answer, Goto
<1>2. \A h \in Getters : /\ h = g => pc'[h] = "done" /\ got'[h] = v
                         /\ h # g => pc'[h] = pc[h] /\ got'[h] = got[h]
  BY <1>1 DEF TypeOK, Procs
<1>3. Past'
  BY DEF Ages, Past
<1>4. FetchPast'
  BY <1>2 DEF Ages, FetchPast
<1>5. AnswerPast'
  <2>1. ASSUME NEW h \in Getters, h # g, pc'[h] = "done", NEW t \in 0 .. now',
               t + (Ttl + slowest') <= began'[h] + 1
        PROVE  history'[t] <= got'[h]
    <3>1. slowest \in Nat /\ Ttl \in Nat /\ began[h] \in Nat /\ t \in 0 .. now /\ t \in Nat
      BY NatAssumption DEF TypeOK
    <3>2. t + (Ttl + slowest) <= began[h] + 1
      BY <2>1, <3>1
    <3> QED
      BY <1>2, <2>1, <3>1, <3>2 DEF Ages, AnswerPast
  <2> QED
    BY <1>2, <2>1 DEF Ages, AnswerPast
<1> QED
  BY <1>3, <1>4, <1>5 DEF Ages

LEMMA AgeStep ==
  ASSUME Ttl > 0, TypeOK, OneFetch, Ages, [Next]_vars
  PROVE  Ages'
<1> USE ProcAssumption, NatAssumption
<1>0. now \in Nat /\ slowest \in Nat /\ readAt \in Nat /\ Ttl \in Nat
  BY DEF TypeOK
<1>1. CASE UNCHANGED vars
  BY <1>1 DEF Ages, Past, FetchPast, EntryPast, AnswerPast, vars, dbVars, ghostVars
<1>2. ASSUME NEW g \in Getters, NEW k \in Keys, Call(g, k)  PROVE Ages'
  <2>1. pc' = [pc EXCEPT ![g] = "read"] /\ began' = [began EXCEPT ![g] = now]
        /\ got' = [got EXCEPT ![g] = 0] /\ UNCHANGED <<fetched, readAt, slowest>>
        /\ UNCHANGED <<now, db, history, entry>>
    BY <1>2 DEF Call, Goto, dbVars
  <2> QED
    BY <2>1, QuietAges DEF TypeOK, Phases
<1>3. ASSUME NEW g \in Getters, ReadLookup(g) \/ WriteLookup(g)  PROVE Ages'
  <2>1. /\ UNCHANGED <<now, db, history>>
        /\ UNCHANGED <<entry, fetched, began, readAt, slowest>>
    BY <1>3 DEF ReadLookup, WriteLookup, dbVars
  <2>2. CASE Fresh(key[g])
    <3> DEFINE e == entry[key[g]]
    <3>1. Answer(g, e.version)
      BY <1>3, <2>2 DEF ReadLookup, WriteLookup
    <3>2. e.version \in Nat /\ e.at \in Nat /\ began[g] \in Nat /\ key[g] \in Keys
      BY DEF TypeOK, Entries
    <3>3. e.present /\ now < e.at + Ttl /\ began[g] <= now
      BY <2>2 DEF Fresh, Ages, AnswerPast
    <3>4. EntryPast'
      BY <2>1 DEF Ages, EntryPast
    <3>5. ASSUME NEW t \in 0 .. now, t + (Ttl + slowest) <= began[g] + 1
          PROVE  history[t] <= e.version
      <4>1. t + slowest <= e.at
        BY <1>0, <3>2, <3>3, <3>5
      <4> QED
        BY <3>2, <3>3, <4>1 DEF Ages, EntryPast
    <3> HIDE DEF e
    <3> QED
      BY <1>0, <2>1, <3>1, <3>2, <3>4, <3>5, AnswerAges
  <2>3. CASE ~Fresh(key[g])
    <3>1. got' = got
      BY <1>3, <2>3 DEF ReadLookup, WriteLookup
    <3>2. PICK s \in {"write", "fetch"} : pc' = [pc EXCEPT ![g] = s]
      BY <1>3, <2>3 DEF ReadLookup, WriteLookup, Goto
    <3> QED
      BY <2>1, <3>1, <3>2, QuietAges DEF Phases
  <2> QED
    BY <2>2, <2>3
<1>4. ASSUME NEW g \in Getters, ReadDatabase(g)  PROVE Ages'
  <2>1. /\ UNCHANGED <<now, db, history, entry, slowest, began, got>>
        /\ fetched' = [fetched EXCEPT ![g] = db] /\ readAt' = now
        /\ pc' = [pc EXCEPT ![g] = "insert"] /\ pc[g] = "fetch"
    BY <1>4 DEF ReadDatabase, dbVars, Goto
  <2>2. \A h \in Getters : /\ h = g => pc'[h] = "insert" /\ fetched'[h] = db
                           /\ h # g => pc'[h] = pc[h] /\ pc[h] # "insert"
    BY <2>1 DEF TypeOK, Procs, OneFetch
  <2>3. FetchPast'
    BY <1>0, <2>1, <2>2 DEF Ages, Past, FetchPast
  <2>4. Past' /\ EntryPast'
    BY <2>1 DEF Ages, Past, EntryPast
  <2>5. AnswerPast'
    BY <2>1, <2>2 DEF Ages, AnswerPast
  <2> QED
    BY <2>3, <2>4, <2>5 DEF Ages
<1>5. ASSUME NEW g \in Getters, Insert(g)  PROVE Ages'
  <2> DEFINE v == fetched[g]
             m == [entry EXCEPT ![key[g]] = [version |-> v, at |-> now, present |-> TRUE]]
  <2>1. /\ UNCHANGED <<now, db, history, began>> /\ Answer(g, v)
        /\ entry' = Retained(m) /\ slowest' = Max2(slowest, now - readAt)
        /\ fetched' = [fetched EXCEPT ![g] = 0] /\ pc[g] = "insert"
    BY <1>5 DEF Insert, dbVars
  <2>2. v \in Nat /\ began[g] \in Nat /\ key[g] \in Keys
    BY DEF TypeOK
  <2>3. readAt <= now /\ \A t \in 0 .. now : t <= readAt => history[t] <= v
    BY <2>1 DEF Ages, FetchPast
  <2>4. slowest' \in Nat /\ slowest <= slowest' /\ now - readAt <= slowest'
    BY <1>0, <2>1, <2>3, MaxNat
  <2>5. ASSUME NEW t \in 0 .. now, t + slowest' <= now  PROVE history[t] <= v
    <3>1. t \in Nat
      OBVIOUS
    <3> HIDE DEF v, m
    <3>2. t <= readAt
      <4> DEFINE w == slowest'
      <4>1. w \in Nat /\ now - readAt <= w /\ t + w <= now
        BY <2>4, <2>5
      <4> HIDE DEF w
      <4> QED
        BY <1>0, <3>1, <4>1
    <3> QED
      BY <2>3, <3>2
  <2>6. EntryPast'
    <3> SUFFICES ASSUME NEW k \in Keys, entry'[k].present
                 PROVE  /\ entry'[k].at <= now
                        /\ \A t \in 0 .. now : t + slowest' <= entry'[k].at =>
                             history[t] <= entry'[k].version
      BY <2>1 DEF EntryPast
    <3>1. m[k].present /\ entry'[k] = m[k]
      BY <2>1 DEF Retained, Empty
    <3>2. CASE k = key[g]
      <4>1. entry'[k] = [version |-> v, at |-> now, present |-> TRUE]
        BY <3>1, <3>2 DEF TypeOK
      <4> QED
        BY <1>0, <2>5, <4>1
    <3>3. CASE k # key[g]
      <4>1. entry'[k] = entry[k] /\ entry[k].present
        BY <3>1, <3>3 DEF TypeOK
      <4>2. entry[k].at \in Nat /\ entry[k].at <= now
        BY <4>1 DEF TypeOK, Entries, Ages, EntryPast
      <4>3. ASSUME NEW t \in 0 .. now, t + slowest' <= entry[k].at
            PROVE  history[t] <= entry[k].version
        <5>1. t + slowest <= entry[k].at
          BY <1>0, <2>4, <4>2, <4>3
        <5> QED
          BY <4>1, <5>1 DEF Ages, EntryPast
      <4> QED
        BY <4>1, <4>2, <4>3
    <3> QED
      BY <3>2, <3>3
  <2>7. ASSUME NEW t \in 0 .. now, t + (Ttl + slowest') <= began[g] + 1
        PROVE  history[t] <= v
    <3>1. began[g] <= now
      BY DEF Ages, AnswerPast
    <3>2. t + slowest' <= now
      <4> DEFINE w == slowest'
                 b == began[g]
      <4>1. /\ t \in Nat /\ w \in Nat /\ b \in Nat /\ Ttl \in Nat /\ Ttl > 0
            /\ b <= now /\ t + (Ttl + w) <= b + 1
        BY <1>0, <2>2, <2>4, <2>7, <3>1
      <4> HIDE DEF w, b
      <4>2. t + w <= now
        BY <1>0, <4>1
      <4> QED
        BY <4>2 DEF w
    <3> QED
      BY <2>5, <3>2
  <2>8. \A h \in Getters \ {g} : fetched'[h] = fetched[h] /\ pc[h] # "insert"
    BY <2>1 DEF TypeOK, OneFetch
  <2> HIDE DEF v, m
  <2> QED
    BY <2>1, <2>2, <2>4, <2>6, <2>7, <2>8, AnswerAges
<1>6. ASSUME NEW g \in Getters, FetchFails(g) \/ DropGet(g)  PROVE Ages'
  <2>1. /\ UNCHANGED <<now, db, history, entry, slowest, got>>
        /\ pc' = [pc EXCEPT ![g] = "idle"] /\ began' = [began EXCEPT ![g] = 0]
    BY <1>6 DEF FetchFails, DropGet, Leave, Goto, dbVars
  <2>2. \A h \in Getters \ {g} : fetched'[h] = fetched[h]
    BY <1>6 DEF FetchFails, DropGet, TypeOK
  <2>3. readAt' = readAt \/ \A h \in Getters \ {g} : pc[h] # "insert"
    BY <1>6 DEF FetchFails, DropGet, OneFetch
  <2>4. \A h \in Getters : began'[h] \in {0, now, began[h]} /\ (h # g => began'[h] = began[h])
    BY <2>1 DEF TypeOK
  <2> QED
    BY <2>1, <2>2, <2>3, <2>4, QuietAges DEF Phases
<1>7. ASSUME NEW c \in Changers, Change(c) \/ DropChange(c)  PROVE Ages'
  <2>1. /\ UNCHANGED <<now, history, entry, fetched, got, began, readAt, slowest>>
        /\ db' = db \/ db' = db + 1
    BY <1>7 DEF Change, DropChange, ghostVars, dbVars
  <2>2. PICK s \in {"write", "idle"} : pc' = [pc EXCEPT ![c] = s]
    BY <1>7 DEF Change, DropChange, Leave, Goto
  <2>3. \A g \in Getters : pc'[g] = pc[g]
    BY <2>2 DEF TypeOK, Procs
  <2>4. Past'
    BY <2>1 DEF Ages, Past, TypeOK
  <2> QED
    BY <2>1, <2>3, <2>4 DEF Ages, FetchPast, EntryPast, AnswerPast
<1>8. ASSUME NEW c \in Changers, Invalidate(c)  PROVE Ages'
  <2>1. /\ UNCHANGED <<now, db, history, fetched, got, began, readAt, slowest>>
        /\ entry' = [k \in Keys |-> Empty] /\ pc' = [pc EXCEPT ![c] = "idle"]
    BY <1>8 DEF Invalidate, Goto, dbVars
  <2>2. \A g \in Getters : pc'[g] = pc[g]
    BY <2>1 DEF TypeOK, Procs
  <2>3. EntryPast'
    BY <2>1 DEF EntryPast, Empty
  <2> QED
    BY <2>1, <2>2, <2>3 DEF Ages, Past, FetchPast, AnswerPast
<1>9. CASE ChangeOutside
  <2>1. /\ UNCHANGED <<now, history, entry, pc, fetched, got, began, readAt, slowest>>
        /\ db' = db + 1
    BY <1>9 DEF ChangeOutside, ghostVars
  <2>2. Past'
    BY <2>1 DEF Ages, Past, TypeOK
  <2> QED
    BY <2>1, <2>2 DEF Ages, FetchPast, EntryPast, AnswerPast
<1>10. CASE Tick
  <2>1. /\ UNCHANGED <<db, entry, pc, fetched, got, began, readAt, slowest>>
        /\ now < MaxTime /\ now' = now + 1 /\ history' = [history EXCEPT ![now + 1] = db]
    BY <1>10 DEF Tick, ghostVars
  <2>2. /\ \A t \in 0 .. now : history'[t] = history[t]
        /\ history'[now + 1] = db /\ db \in Nat /\ now \in 0 .. MaxTime
    BY <1>0, <2>1 DEF TypeOK
  <2>3. \A t \in 0 .. now' : t \in 0 .. now \/ t = now + 1
    BY <1>0, <2>1
  <2>4. Past'
    <3>1. now' <= MaxTime /\ \A t \in 0 .. now' : history'[t] <= db
      BY <1>0, <2>1, <2>2, <2>3 DEF Ages, Past
    <3>2. ASSUME NEW s \in 0 .. now', NEW t \in 0 .. now', s <= t
          PROVE  history'[s] <= history'[t]
      BY <1>0, <2>2, <2>3, <3>1, <3>2 DEF Ages, Past
    <3> QED
      BY <2>1, <3>1, <3>2 DEF Past
  <2>5. FetchPast'
    BY <1>0, <2>1, <2>2, <2>3 DEF Ages, FetchPast
  <2>6. EntryPast'
    <3>1. \A k \in Keys : entry[k].at \in Nat
      BY DEF TypeOK, Entries
    <3> QED
      BY <1>0, <2>1, <2>2, <2>3, <3>1 DEF Ages, EntryPast
  <2>7. AnswerPast'
    <3>1. \A g \in Getters : began[g] \in Nat
      BY DEF TypeOK
    <3> QED
      BY <1>0, <2>1, <2>2, <2>3, <3>1 DEF Ages, AnswerPast
  <2> QED
    BY <2>4, <2>5, <2>6, <2>7 DEF Ages
<1> QED
  BY <1>1, <1>2, <1>3, <1>4, <1>5, <1>6, <1>7, <1>8, <1>9, <1>10 DEF Next, GetStep

\* A change that nobody invalidates is in every answer to a call that began Ttl
\* and the longest fetch later.
THEOREM CacheStaleness ==
  ASSUME Ttl > 0
  PROVE  Spec => []Staleness
<1>1. Init => Ages
  BY NatAssumption, ProcAssumption DEF Init, Ages, Past, FetchPast, EntryPast, AnswerPast,
     Empty, Procs
<1>2. TypeOK /\ OneFetch /\ Ages /\ [Next]_vars => Ages'
  BY AgeStep
<1>3. TypeOK /\ Ages => Staleness
  <2> SUFFICES ASSUME TypeOK, Ages, NEW g \in Getters, pc[g] = "done",
                      began[g] + 1 > Ttl + slowest
               PROVE  got[g] >= history[began[g] + 1 - (Ttl + slowest)]
    BY DEF Staleness
  <2> DEFINE t == began[g] + 1 - (Ttl + slowest)
  <2>1. /\ began[g] \in Nat /\ slowest \in Nat /\ Ttl \in Nat /\ now \in Nat
        /\ got[g] \in Nat
    BY NatAssumption DEF TypeOK
  <2>2. began[g] <= now /\ now <= MaxTime /\ MaxTime \in Nat
    BY NatAssumption DEF Ages, AnswerPast, Past
  <2>3. t \in 0 .. now /\ t + (Ttl + slowest) <= began[g] + 1 /\ t \in 0 .. MaxTime
    BY <2>1, <2>2
  <2>4. history[t] \in Nat
    BY <2>3 DEF TypeOK
  <2>5. history[t] <= got[g]
    <3> HIDE DEF t
    <3> QED
      BY <2>3 DEF Ages, AnswerPast
  <2> QED
    BY <2>1, <2>4, <2>5
<1> QED
  BY <1>1, <1>2, <1>3, CacheTyped, CacheOneFetch, PTL DEF Spec

-----------------------------------------------------------------------------
(* TtlCache implements AtomicCache.  A fetch takes effect in the moment it    *)
(* reads the database; from then to the insertion its value stands for the   *)
(* entry, which is stale the whole time (StaleFetch).                        *)

StaleFetch == \A g \in Getters : pc[g] \in {"fetch", "insert"} => ~Fresh(key[g])

\* An entry that is left alone gets no fresher.
LEMMA GrowsStale ==
  ASSUME TypeOK, UNCHANGED entry, now' \in Nat, now <= now', NEW k \in Keys, Fresh(k)'
  PROVE  Fresh(k)
<1>1. entry[k].at \in Nat /\ Ttl \in Nat /\ now \in Nat
  BY NatAssumption DEF TypeOK, Entries
<1> QED
  BY <1>1 DEF Fresh

LEMMA StaleFetchStep ==
  ASSUME TypeOK, OneFetch, StaleFetch, [Next]_vars
  PROVE  StaleFetch'
<1> USE ProcAssumption
<1> SUFFICES ASSUME NEW g \in Getters, pc'[g] \in {"fetch", "insert"}
             PROVE  ~Fresh(key[g])'
  BY DEF StaleFetch
<1>1. CASE UNCHANGED entry /\ now' \in Nat /\ now <= now'
  <2>1. CASE pc[g] \in {"fetch", "insert"}
    <3>1. key'[g] = key[g]
      BY <1>1, <2>1 DEF Next, GetStep, Call, ReadLookup, WriteLookup, ReadDatabase, Insert,
         FetchFails, DropGet, Change, Invalidate, DropChange, ChangeOutside, Tick, vars, TypeOK
    <3>2. ~Fresh(key[g]) /\ key[g] \in Keys
      BY <2>1 DEF StaleFetch, TypeOK
    <3> QED
      BY <1>1, <3>1, <3>2, GrowsStale
  <2>2. CASE pc[g] \notin {"fetch", "insert"}
    <3>1. WriteLookup(g) /\ ~Fresh(key[g])
      BY <2>2 DEF Next, GetStep, Call, ReadLookup, WriteLookup, ReadDatabase, Insert, Answer,
         FetchFails, DropGet, Leave, Change, Invalidate, DropChange, ChangeOutside, Tick, vars,
         TypeOK, Goto, Procs
    <3>2. key' = key /\ key[g] \in Keys
      BY <3>1 DEF WriteLookup, TypeOK
    <3> QED
      BY <1>1, <3>1, <3>2, GrowsStale
  <2> QED
    BY <2>1, <2>2
<1>2. ASSUME NEW h \in Getters, Insert(h) PROVE FALSE
  <2>1. holder = h /\ pc' = [pc EXCEPT ![h] = "done"]
    BY <1>2 DEF OneFetch, Insert, Answer, Goto
  <2> QED
    BY <2>1 DEF OneFetch, TypeOK, Procs
<1>3. ASSUME NEW c \in Changers, Invalidate(c) PROVE FALSE
  <2>1. holder = NoProc /\ pc' = [pc EXCEPT ![c] = "idle"]
    BY <1>3 DEF Invalidate, Granted, Goto
  <2> QED
    BY <2>1 DEF OneFetch, TypeOK, Procs
<1>4. \/ UNCHANGED entry /\ now' \in Nat /\ now <= now'
      \/ \E h \in Getters : Insert(h)
      \/ \E c \in Changers : Invalidate(c)
  BY DEF Next, GetStep, Call, ReadLookup, WriteLookup, ReadDatabase, FetchFails, DropGet,
     Change, DropChange, ChangeOutside, Tick, vars, dbVars, TypeOK
<1> QED
  BY <1>1, <1>2, <1>3, <1>4

-----------------------------------------------------------------------------
(* What the callers see of a step.                                         *)

\* A getter moves.
LEMMA GetterSeen ==
  ASSUME TypeOK, NEW g \in Getters, NEW step \in Phases, pc' = [pc EXCEPT ![g] = step],
         \A h \in Getters \ {g} : fetched'[h] = fetched[h] /\ got'[h] = got[h]
  PROVE  /\ Telling' = Telling
         /\ Phase' = [Phase EXCEPT ![g] = Stage(step)]
         /\ Answers' = [Answers EXCEPT ![g] = Found(g)']
<1>1. \A p \in Procs : pc'[p] = IF p = g THEN step ELSE pc[p]
  BY DEF TypeOK, Procs
<1>2. Telling' = Telling
  BY <1>1, ProcAssumption DEF Telling, Procs
<1>3. \A h \in Getters : h # g => Found(h)' = Found(h)
  BY <1>1 DEF Found, Procs
<1>4. Phase' = [Phase EXCEPT ![g] = Stage(step)]
  <2>1. \A h \in Getters : Stage(pc'[h]) = IF h = g THEN Stage(step) ELSE Stage(pc[h])
    BY <1>1 DEF Procs
  <2> QED
    BY <2>1 DEF Phase
<1>5. Answers' = [Answers EXCEPT ![g] = Found(g)']
  BY <1>3 DEF Answers
<1> QED
  BY <1>2, <1>4, <1>5

\* A changer moves.
LEMMA ChangerSeen ==
  ASSUME TypeOK, NEW c \in Changers, NEW step \in Phases, pc' = [pc EXCEPT ![c] = step],
         UNCHANGED <<fetched, got>>
  PROVE  /\ Telling' = IF step = "write" THEN Telling \union {c} ELSE Telling \ {c}
         /\ Phase' = Phase /\ Answers' = Answers
<1>1. \A p \in Procs : pc'[p] = IF p = c THEN step ELSE pc[p]
  BY DEF TypeOK, Procs
<1>2. Telling' = IF step = "write" THEN Telling \union {c} ELSE Telling \ {c}
  BY <1>1 DEF Telling, Procs
<1>3. \A h \in Getters : pc'[h] = pc[h]
  BY <1>1, ProcAssumption DEF Procs
<1>4. Phase' = Phase
  BY <1>3 DEF Phase
<1>5. Answers' = Answers
  BY <1>3 DEF Answers, Found
<1> QED
  BY <1>2, <1>4, <1>5

\* The copies stay when the map and the refill under way do.
LEMMA CopyStays ==
  ASSUME UNCHANGED <<now, entry>>,
         \A k \in Keys : /\ Refilled(k)' = Refilled(k)
                         /\ Refilled(k) => fetched'[holder'] = fetched[holder]
  PROVE  Copy' = Copy
<1>1. Copied' = Copied
  BY DEF Copied, Fresh
<1>2. \A k \in Copied : Version(k)' = Version(k)
  BY DEF Version, Copied
<1> QED
  BY <1>1, <1>2 DEF Copy

\* Copies that go without another taking their place have lapsed.
LEMMA CopyLapses ==
  ASSUME Copied' \subseteq Copied, \A k \in Copied' : Version(k)' = Version(k)
  PROVE  Copied \ Copied' \in SUBSET Keys /\ Copy' = Atomic!Without(Copied \ Copied')
<1>1. Copied' = Copied \ (Copied \ Copied')
  OBVIOUS
<1>2. Copy' = [k \in Copied' |-> Version(k)]
  BY DEF Copy
<1>3. Atomic!Without(Copied \ Copied') = [k \in Copied \ (Copied \ Copied') |-> Version(k)]
  BY DEF Atomic!Without, Copy
<1> QED
  BY <1>1, <1>2, <1>3 DEF Copied

-----------------------------------------------------------------------------
\* Every step is one of AtomicCache or a stutter.
LEMMA AtomicStep ==
  ASSUME TypeOK, TypeOK', OneFetch, OneFetch', StaleFetch, StaleFetch', [Next]_vars
  PROVE  [Atomic!Next]_Atomic!vars
<1> USE ProcAssumption
<1>0. \A g \in Getters : g \in Procs /\ pc[g] \in Phases /\ key[g] \in Keys
  BY DEF TypeOK, Procs, Phases
<1>1. ASSUME UNCHANGED vars  PROVE UNCHANGED Atomic!vars
  <2>1. Copy' = Copy
    BY <1>1, CopyStays DEF vars, dbVars, lockVars, Refilled
  <2>2. Telling' = Telling /\ Phase' = Phase /\ Answers' = Answers
    BY <1>1 DEF vars, Telling, Phase, Answers, Found
  <2> QED
    BY <1>1, <2>1, <2>2 DEF Atomic!vars, vars, dbVars
<1>2. ASSUME NEW g \in Getters, NEW k \in Keys, Call(g, k)  PROVE Atomic!Ask(g, k)
  <2>1. /\ pc[g] \in {"idle", "done"} /\ pc' = [pc EXCEPT ![g] = "read"]
        /\ key' = [key EXCEPT ![g] = k]
        /\ UNCHANGED <<now, db, entry, holder, fetched>>
        /\ \A h \in Getters \ {g} : got'[h] = got[h]
    BY <1>2 DEF Call, Goto, dbVars, TypeOK
  <2>2. holder # g
    BY <2>1 DEF OneFetch
  <2>3. Copy' = Copy
    <3>1. \A j \in Keys : Refilled(j)' = Refilled(j)
      BY <2>1, <2>2 DEF Refilled, TypeOK, Procs
    <3> QED
      BY <2>1, <3>1, CopyStays
  <2>4. /\ Telling' = Telling /\ Phase' = [Phase EXCEPT ![g] = Stage("read")]
        /\ Answers' = [Answers EXCEPT ![g] = Found(g)']
    BY <2>1, GetterSeen DEF Phases
  <2>5. Found(g)' = 0
    BY <1>0, <2>1 DEF Found, TypeOK
  <2>6. Stage("read") = "asked" /\ Phase[g] \in {"idle", "done"}
    BY <2>1 DEF Stage, Phase
  <2> QED
    BY <2>1, <2>3, <2>4, <2>5, <2>6 DEF Atomic!Ask
<1>3. ASSUME NEW g \in Getters, ReadLookup(g) \/ WriteLookup(g)
      PROVE  Atomic!Hit(g) \/ UNCHANGED Atomic!vars
  <2>1. /\ pc[g] \in {"read", "write"} /\ holder = NoProc
        /\ UNCHANGED <<now, db, entry, key, fetched>>
    BY <1>3 DEF ReadLookup, WriteLookup, Granted, dbVars
  <2>2. \A j \in Keys : ~Refilled(j)
    BY <2>1 DEF Refilled
  <2>3. CASE Fresh(key[g])
    <3>1. Answer(g, entry[key[g]].version) /\ holder' = holder
      BY <1>3, <2>3 DEF ReadLookup, WriteLookup
    <3>2. /\ pc' = [pc EXCEPT ![g] = "done"]
          /\ got' = [got EXCEPT ![g] = entry[key[g]].version]
      BY <3>1 DEF Answer, Goto
    <3>3. \A j \in Keys : Refilled(j)' = Refilled(j)
      BY <2>1, <2>2, <3>1 DEF Refilled
    <3>4. Copy' = Copy
      BY <2>1, <2>2, <3>3, CopyStays
    <3>5. /\ Telling' = Telling /\ Phase' = [Phase EXCEPT ![g] = Stage("done")]
          /\ Answers' = [Answers EXCEPT ![g] = Found(g)']
      BY <2>1, <3>2, GetterSeen DEF Phases, TypeOK
    <3>6. key[g] \in DOMAIN Copy /\ Copy[key[g]] = entry[key[g]].version
      BY <1>0, <2>2, <2>3 DEF Copy, Copied, Version
    <3>7. Found(g)' = entry[key[g]].version
      BY <1>0, <3>2 DEF Found, TypeOK
    <3>8. Stage("done") = "done" /\ Phase[g] = "asked"
      BY <2>1 DEF Stage, Phase
    <3>9. Atomic!Hit(g)
      BY <2>1, <3>4, <3>5, <3>6, <3>7, <3>8 DEF Atomic!Hit
    <3> QED
      BY <3>9
  <2>4. CASE ~Fresh(key[g])
    <3>1. PICK step \in {"write", "fetch"} :
            /\ pc' = [pc EXCEPT ![g] = step] /\ got' = got
            /\ step = "write" => holder' = holder
            /\ step = "fetch" => holder' = g
      BY <1>3, <2>4 DEF ReadLookup, WriteLookup, Goto
    <3>2. \A j \in Keys : Refilled(j)' = Refilled(j)
      BY <1>0, <2>1, <2>2, <3>1 DEF Refilled, TypeOK
    <3>3. Copy' = Copy
      BY <2>1, <2>2, <3>2, CopyStays
    <3>4. /\ Telling' = Telling /\ Phase' = [Phase EXCEPT ![g] = Stage(step)]
          /\ Answers' = [Answers EXCEPT ![g] = Found(g)']
      BY <2>1, <3>1, GetterSeen DEF Phases
    <3>5. Found(g)' = Answers[g]
      BY <1>0, <2>1, <3>1 DEF Found, Answers, TypeOK
    <3>6. Stage(step) = Phase[g]
      BY <2>1, <3>1 DEF Stage, Phase
    <3>7. Phase' = Phase /\ Answers' = Answers
      BY <3>4, <3>5, <3>6 DEF Phase, Answers
    <3> QED
      BY <2>1, <3>3, <3>4, <3>7 DEF Atomic!vars
  <2> QED
    BY <2>3, <2>4
<1>4. ASSUME NEW g \in Getters, ReadDatabase(g)  PROVE Atomic!Miss(g)
  <2>1. /\ pc[g] = "fetch" /\ holder = g /\ holder' = g
        /\ pc' = [pc EXCEPT ![g] = "insert"] /\ fetched' = [fetched EXCEPT ![g] = db]
        /\ UNCHANGED <<now, db, entry, key, got>>
    BY <1>4 DEF ReadDatabase, Goto, dbVars, lockVars, OneFetch
  <2>2. \A k \in Keys : ~Refilled(k) /\ (Refilled(k)' <=> k = key[g])
    BY <1>0, <2>1 DEF Refilled, TypeOK
  <2>3. ~Fresh(key[g])
    BY <2>1 DEF StaleFetch
  <2>4. fetched'[g] = db
    BY <2>1 DEF TypeOK
  <2>5. key[g] \notin Copied /\ Copied' = Copied \union {key[g]}
    BY <1>0, <2>1, <2>2, <2>3 DEF Copied, Fresh
  <2>6. \A k \in Copied' : Version(k)' = IF k = key[g] THEN db ELSE Version(k)
    BY <2>1, <2>2, <2>4 DEF Version, Copied
  <2>7. Copy' = [k \in Copied \union {key[g]} |-> IF k = key[g] THEN db ELSE Copy[k]]
    <3>1. Copy' = [k \in Copied \union {key[g]} |-> IF k = key[g] THEN db ELSE Version(k)]
      BY <2>5, <2>6 DEF Copy
    <3> QED
      BY <3>1 DEF Copy
  <2>8. /\ Telling' = Telling /\ Phase' = [Phase EXCEPT ![g] = Stage("insert")]
        /\ Answers' = [Answers EXCEPT ![g] = Found(g)']
    BY <2>1, GetterSeen DEF Phases, TypeOK
  <2>9. Found(g)' = db
    BY <1>0, <2>1, <2>4 DEF Found, TypeOK
  <2>10. Stage("insert") = "found" /\ Phase[g] = "asked" /\ DOMAIN Copy = Copied
    BY <2>1 DEF Stage, Phase, Copy
  <2> QED
    BY <2>1, <2>5, <2>7, <2>8, <2>9, <2>10 DEF Atomic!Miss
<1>5. ASSUME NEW g \in Getters, Insert(g)
      PROVE  \E K \in SUBSET Keys : Atomic!Return(g, K)
  <2>1. /\ pc[g] = "insert" /\ holder = g /\ holder' = NoProc
        /\ pc' = [pc EXCEPT ![g] = "done"] /\ got' = [got EXCEPT ![g] = fetched[g]]
        /\ fetched' = [fetched EXCEPT ![g] = 0]
        /\ UNCHANGED <<now, db, key>>
    BY <1>5 DEF Insert, Answer, Goto, dbVars, OneFetch
  <2>2. \A k \in Keys : ~Refilled(k)' /\ (Refilled(k) <=> k = key[g])
    BY <1>0, <2>1 DEF Refilled
  <2>3. \A k \in Keys : Fresh(k)' =>
          entry'[k] = IF k = key[g] THEN [version |-> fetched[g], at |-> now, present |-> TRUE]
                                    ELSE entry[k]
    BY <1>0, <1>5, <2>1 DEF Insert, Retained, Fresh, Empty, TypeOK
  <2>4. \A k \in Copied' : k \in Keys /\ k \in Copied /\ Version(k)' = Version(k)
    <3>1. \A k \in Copied' : k \in Keys /\ Fresh(k)' /\ Version(k)' = entry'[k].version
      BY <2>2 DEF Copied, Version
    <3>2. ASSUME NEW k \in Copied', k = key[g]  PROVE k \in Copied /\ Version(k)' = Version(k)
      BY <1>0, <2>1, <2>2, <2>3, <3>1, <3>2 DEF Copied, Version
    <3>3. ASSUME NEW k \in Copied', k # key[g]  PROVE k \in Copied /\ Version(k)' = Version(k)
      <4>1. entry'[k] = entry[k] /\ Fresh(k)
        BY <2>1, <2>3, <3>1, <3>3 DEF Fresh
      <4> QED
        BY <2>2, <3>1, <3>3, <4>1 DEF Copied, Version
    <3> QED
      BY <3>1, <3>2, <3>3
  <2>5. Copied \ Copied' \in SUBSET Keys /\ Copy' = Atomic!Without(Copied \ Copied')
    BY <2>4, CopyLapses
  <2>6. /\ Telling' = Telling /\ Phase' = [Phase EXCEPT ![g] = Stage("done")]
        /\ Answers' = [Answers EXCEPT ![g] = Found(g)']
    BY <2>1, GetterSeen DEF Phases, TypeOK
  <2>7. Found(g)' = Answers[g]
    BY <1>0, <2>1 DEF Found, Answers, TypeOK
  <2>8. Stage("done") = "done" /\ Phase[g] = "found" /\ Answers' = Answers
    BY <2>1, <2>6, <2>7 DEF Stage, Phase, Answers
  <2> QED
    BY <2>1, <2>5, <2>6, <2>8 DEF Atomic!Return
<1>6. ASSUME NEW g \in Getters, FetchFails(g)
      PROVE  \E K \in SUBSET Keys : Atomic!Abandon(g, K)
  <2>1. /\ pc[g] \in {"fetch", "insert"} /\ holder = g /\ holder' = NoProc
        /\ pc' = [pc EXCEPT ![g] = "idle"]
        /\ fetched' = [fetched EXCEPT ![g] = 0]
        /\ UNCHANGED <<now, db, entry, key, got>>
    BY <1>6 DEF FetchFails, Goto, dbVars, OneFetch
  <2>2. \A k \in Keys : ~Refilled(k)' /\ (Refilled(k) => k = key[g])
    BY <1>0, <2>1 DEF Refilled
  <2>3. ~Fresh(key[g])
    BY <2>1 DEF StaleFetch
  <2>4. \A k \in Copied' : k \in Copied /\ Version(k)' = Version(k)
    BY <2>1, <2>2, <2>3 DEF Copied, Version, Fresh
  <2>5. Copied \ Copied' \in SUBSET Keys /\ Copy' = Atomic!Without(Copied \ Copied')
    BY <2>4, CopyLapses
  <2>6. /\ Telling' = Telling /\ Phase' = [Phase EXCEPT ![g] = Stage("idle")]
        /\ Answers' = [Answers EXCEPT ![g] = Found(g)']
    BY <2>1, GetterSeen DEF Phases, TypeOK
  <2>7. Found(g)' = 0 /\ Stage("idle") = "idle" /\ Phase[g] \in {"asked", "found"}
    BY <1>0, <2>1 DEF Found, Stage, Phase, TypeOK
  <2> QED
    BY <2>1, <2>5, <2>6, <2>7 DEF Atomic!Abandon
<1>7. ASSUME NEW g \in Getters, DropGet(g)  PROVE Atomic!Abandon(g, {})
  <2>1. /\ pc[g] \in {"read", "write"} /\ holder' = holder /\ holder # g
        /\ pc' = [pc EXCEPT ![g] = "idle"]
        /\ UNCHANGED <<now, db, entry, key, got, fetched>>
    BY <1>7 DEF DropGet, Leave, Goto, dbVars, OneFetch
  <2>2. \A k \in Keys : Refilled(k)' = Refilled(k)
    BY <2>1 DEF Refilled, TypeOK, Procs
  <2>3. Copy' = Copy
    BY <2>1, <2>2, CopyStays
  <2>4. /\ Telling' = Telling /\ Phase' = [Phase EXCEPT ![g] = Stage("idle")]
        /\ Answers' = [Answers EXCEPT ![g] = Found(g)']
    BY <2>1, GetterSeen DEF Phases
  <2>5. Found(g)' = 0 /\ Stage("idle") = "idle" /\ Phase[g] = "asked"
    BY <1>0, <2>1 DEF Found, Stage, Phase, TypeOK
  <2>6. Atomic!Without({}) = Copy
    BY DEF Atomic!Without, Copy
  <2> QED
    BY <2>1, <2>3, <2>4, <2>5, <2>6 DEF Atomic!Abandon
<1>8. ASSUME NEW c \in Changers, Change(c) \/ DropChange(c)
      PROVE  Atomic!Change(c) \/ Atomic!Forget(c) \/ UNCHANGED Atomic!vars
  <2>1. UNCHANGED <<now, entry, holder, key, got, fetched>>
    BY <1>8 DEF Change, DropChange, dbVars, ghostVars
  <2>2. PICK step \in {"idle", "write"} :
          /\ pc' = [pc EXCEPT ![c] = step]
          /\ step = "write" => pc[c] = "idle" /\ db' = db + 1
          /\ step = "idle" => pc[c] \in {"read", "write"} /\ db' = db
    BY <1>8 DEF Change, DropChange, Leave, Goto, dbVars
  <2>3. /\ Telling' = IF step = "write" THEN Telling \union {c} ELSE Telling \ {c}
        /\ Phase' = Phase /\ Answers' = Answers
    BY <2>1, <2>2, ChangerSeen DEF Phases
  <2>4. \A k \in Keys : Refilled(k)' = Refilled(k)
    BY <2>1, <2>2 DEF Refilled, TypeOK, Procs
  <2>5. Copy' = Copy
    BY <2>1, <2>4, CopyStays
  <2>6. c \in Telling <=> pc[c] = "write"
    BY DEF Telling
  <2>7. c \notin Telling => Telling \ {c} = Telling
    OBVIOUS
  <2>8. CASE step = "write"
    BY <2>1, <2>2, <2>3, <2>5, <2>6, <2>8 DEF Atomic!Change
  <2>9. CASE step = "idle" /\ pc[c] = "write"
    BY <2>1, <2>2, <2>3, <2>5, <2>6, <2>9 DEF Atomic!Forget
  <2>10. CASE step = "idle" /\ pc[c] # "write"
    BY <2>1, <2>2, <2>3, <2>5, <2>6, <2>7, <2>10 DEF Atomic!vars
  <2> QED
    BY <2>2, <2>8, <2>9, <2>10
<1>9. ASSUME NEW c \in Changers, Invalidate(c)  PROVE Atomic!Flush(c)
  <2>1. /\ pc[c] = "write" /\ holder = NoProc /\ holder' = NoProc
        /\ pc' = [pc EXCEPT ![c] = "idle"] /\ entry' = [k \in Keys |-> Empty]
        /\ UNCHANGED <<db, key, got, fetched>>
    BY <1>9 DEF Invalidate, Granted, Goto, dbVars
  <2>2. Copied' = {}
    BY <2>1 DEF Copied, Refilled, Fresh, Empty
  <2>3. Copy' = Atomic!Without(Keys)
    BY <2>2 DEF Copy, Atomic!Without, Copied
  <2>4. Telling' = Telling \ {c} /\ Phase' = Phase /\ Answers' = Answers
    BY <2>1, ChangerSeen DEF Phases
  <2>5. c \in Telling
    BY <2>1 DEF Telling
  <2> QED
    BY <2>1, <2>3, <2>4, <2>5 DEF Atomic!Flush
<1>10. ASSUME ChangeOutside  PROVE Atomic!ChangeOutside
  <2>1. db' = db + 1 /\ UNCHANGED <<now, entry, holder, pc, key, got, fetched>>
    BY <1>10 DEF ChangeOutside, lockVars
  <2>2. Copy' = Copy
    BY <2>1, CopyStays DEF Refilled
  <2>3. Telling' = Telling /\ Phase' = Phase /\ Answers' = Answers
    BY <2>1 DEF Telling, Phase, Answers, Found
  <2> QED
    BY <2>1, <2>2, <2>3 DEF Atomic!ChangeOutside
<1>11. ASSUME Tick  PROVE \E K \in SUBSET Keys : Atomic!Lapse(K)
  <2>1. UNCHANGED <<db, entry, holder, pc, key, got, fetched>>
    BY <1>11 DEF Tick, lockVars
  <2>2. \A k \in Keys : Refilled(k)' = Refilled(k) /\ (Fresh(k)' => Fresh(k))
    <3>1. now' = now + 1 /\ now' \in Nat /\ now <= now'
      BY <1>11 DEF Tick, TypeOK
    <3> QED
      BY <2>1, <3>1, GrowsStale DEF Refilled
  <2>3. Copied' \subseteq Copied /\ \A k \in Copied' : Version(k)' = Version(k)
    BY <2>1, <2>2 DEF Copied, Version
  <2>4. Copied \ Copied' \in SUBSET Keys /\ Copy' = Atomic!Without(Copied \ Copied')
    BY <2>3, CopyLapses
  <2>5. Telling' = Telling /\ Phase' = Phase /\ Answers' = Answers
    BY <2>1 DEF Telling, Phase, Answers, Found
  <2> QED
    BY <2>1, <2>4, <2>5 DEF Atomic!Lapse
<1> QED
  BY <1>1, <1>2, <1>3, <1>4, <1>5, <1>6, <1>7, <1>8, <1>9, <1>10, <1>11
  DEF Next, GetStep, Atomic!Next

LEMMA AtomicInit == Init => Atomic!Init
<1> SUFFICES ASSUME Init PROVE Atomic!Init
  OBVIOUS
<1>1. \A p \in Procs : pc[p] = "idle"
  BY DEF Init
<1>2. Copied = {}
  BY ProcAssumption DEF Init, Copied, Refilled, Fresh, Empty, Procs
<1>3. Copy = [k \in {} |-> 0]
  BY <1>2 DEF Copy
<1>4. Telling = {} /\ \A g \in Getters : Stage(pc[g]) = "idle" /\ Found(g) = 0
  BY <1>1 DEF Telling, Stage, Found, Procs
<1>5. Phase = [g \in Getters |-> "idle"] /\ Answers = [g \in Getters |-> 0]
  BY <1>4 DEF Phase, Answers
<1> QED
  BY <1>3, <1>4, <1>5 DEF Atomic!Init, Init

\* Whatever waits, fails or is dropped at the lock, a lookup is one step to its
\* callers: it answers a copy no flush has cleared, or what the database holds.
THEOREM CacheIsAtomic == Spec => AtomicSpec
<1>1. Init => StaleFetch
  BY DEF Init, StaleFetch, Procs
<1>2. TypeOK /\ OneFetch /\ StaleFetch /\ [Next]_vars => StaleFetch'
  BY StaleFetchStep
<1>3. /\ TypeOK /\ OneFetch /\ StaleFetch /\ [Next]_vars
      /\ TypeOK' /\ OneFetch' /\ StaleFetch'
      => [Atomic!Next]_Atomic!vars
  BY AtomicStep
<1> QED
  BY <1>1, <1>2, <1>3, AtomicInit, CacheTyped, CacheOneFetch, PTL
  DEF Spec, AtomicSpec, Atomic!Spec

=============================================================================
