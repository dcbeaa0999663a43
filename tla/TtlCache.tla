------------------------------ MODULE TtlCache ------------------------------
(***************************************************************************)
(* KeyedTtlCache (ttl_cache.rs) between the requests that read through it, *)
(* the admin handlers that change the database and then invalidate it      *)
(* (admin.rs respond_created and respond_removed), and command-line        *)
(* processes that change the database and cannot reach it.                 *)
(*                                                                         *)
(* The database is a version number that every change increments; a cached *)
(* value is the version it was computed from.  The cache sits behind a     *)
(* tokio RwLock, which serves its waiters in the order they came.  A       *)
(* request holds the lock for writing across the await of its fetch, so    *)
(* the database read and the insertion are separate steps.                 *)
(***************************************************************************)
EXTENDS Naturals, Sequences

CONSTANTS
  Keys,       \* the keys looked up
  Getters,    \* requests that call get_or_refresh
  Changers,   \* admin requests that change the database, then invalidate
  NoProc,     \* no process
  Ttl,        \* the ttl given to the cache
  MaxTime,    \* bound on the clock
  MaxVersion  \* bound on the number of changes

ASSUME NatAssumption == Ttl \in Nat /\ MaxTime \in Nat /\ MaxVersion \in Nat
ASSUME ProcAssumption ==
  Getters \intersect Changers = {} /\ NoProc \notin Getters \union Changers

Procs == Getters \union Changers
Max2(a, b) == IF a >= b THEN a ELSE b
Empty == [version |-> 0, at |-> 0, present |-> FALSE]

VARIABLES
  now,        \* Instant::now()
  db,         \* the version of the database
  entry,      \* the map: value, insertion time, presence
  holder,     \* who holds the lock for writing
  queue,      \* who waits for the lock, in order
  pc,         \* where each process is
  key,        \* the key a getter asked for
  fetched,    \* the version a getter's fetch returned
  mine,       \* the version a changer wrote
  got,        \* the version a getter was answered
  floor,      \* history: the newest version owed to a getter since its call
  began,      \* history: when the call began
  seen,       \* history: the newest version answered or invalidated, by key
  readAt,     \* history: when the holder's fetch read the database
  slowest,    \* history: the longest time from a read to its insertion
  history     \* history: the version at the beginning of each instant

dbVars == <<now, db, history>>
lockVars == <<holder, queue>>
ghostVars == <<floor, began, seen, readAt, slowest>>
vars == <<dbVars, entry, lockVars, pc, key, fetched, mine, got, ghostVars>>

Entries == [version : Nat, at : Nat, present : BOOLEAN]

\* Types, and no entry was fetched later than now: elapsed() is never negative,
\* so none lives longer than its ttl.
TypeOK ==
  /\ now \in Nat /\ db \in Nat
  /\ entry \in [Keys -> Entries]
  /\ \A k \in Keys : entry[k].at <= now
  /\ holder \in Procs \union {NoProc}
  /\ queue \in Seq(Procs)
  /\ pc \in [Procs -> {"idle", "read", "write", "fetch", "insert", "done"}]
  /\ key \in [Getters -> Keys]
  /\ fetched \in [Getters -> Nat]
  /\ mine \in [Changers -> Nat]
  /\ got \in [Getters -> Nat]
  /\ floor \in [Getters -> Nat]
  /\ began \in [Getters -> Nat]
  /\ seen \in [Keys -> Nat]
  /\ readAt \in Nat /\ slowest \in Nat
  /\ history \in [0 .. MaxTime -> Nat]

Init ==
  /\ now = 0 /\ db = 0
  /\ entry = [k \in Keys |-> Empty]
  /\ holder = NoProc /\ queue = <<>>
  /\ pc = [p \in Procs |-> "idle"]
  /\ key \in [Getters -> Keys]
  /\ fetched = [g \in Getters |-> 0]
  /\ mine = [c \in Changers |-> 0]
  /\ got = [g \in Getters |-> 0]
  /\ floor = [g \in Getters |-> 0]
  /\ began = [g \in Getters |-> 0]
  /\ seen = [k \in Keys |-> 0]
  /\ readAt = 0 /\ slowest = 0
  /\ history = [t \in 0 .. MaxTime |-> 0]

Goto(p, step) == pc' = [pc EXCEPT ![p] = step]

\* Whether the entry answers a lookup: fetched_at.elapsed() < ttl.
Fresh(k) == entry[k].present /\ now < entry[k].at + Ttl

\* Mutant: as Granted, with a writer's lock that does not exclude the others.
GrantedBeside(p) == queue # <<>> /\ Head(queue) = p

\* The lock is granted to the head of the queue.
Granted(p) == holder = NoProc /\ queue # <<>> /\ Head(queue) = p

-----------------------------------------------------------------------------
(* get_or_refresh.                                                         *)

\* The call begins, and queues for the read lock.
Call(g, k) ==
  /\ pc[g] \in {"idle", "done"}
  /\ Goto(g, "read")
  /\ key' = [key EXCEPT ![g] = k]
  /\ queue' = Append(queue, g)
  /\ floor' = [floor EXCEPT ![g] = seen[k]]
  /\ began' = [began EXCEPT ![g] = now]
  /\ got' = [got EXCEPT ![g] = 0]
  /\ UNCHANGED <<dbVars, entry, holder, fetched, mine, seen, readAt, slowest>>

\* The call returns version v.
Answer(g, v) ==
  /\ got' = [got EXCEPT ![g] = v]
  /\ seen' = [seen EXCEPT ![key[g]] = Max2(@, v)]
  /\ Goto(g, "done")

\* Mutant: a hit renews the entry.
LookupRenews(g) ==
  /\ pc[g] = "read" /\ Granted(g)
  /\ \/ /\ Fresh(key[g])
        /\ Answer(g, entry[key[g]].version)
        /\ entry' = [entry EXCEPT ![key[g]].at = now]
        /\ queue' = Tail(queue)
     \/ /\ ~Fresh(key[g])
        /\ Goto(g, "write")
        /\ queue' = Append(Tail(queue), g)
        /\ UNCHANGED <<entry, got, seen>>
  /\ UNCHANGED <<dbVars, holder, key, fetched, mine, floor, began, readAt,
                 slowest>>

\* The read lock is held for one lookup; a miss queues for the write lock.
ReadLookup(g) ==
  /\ pc[g] = "read" /\ Granted(g)
  /\ \/ /\ Fresh(key[g])
        /\ Answer(g, entry[key[g]].version)
        /\ queue' = Tail(queue)
     \/ /\ ~Fresh(key[g])
        /\ Goto(g, "write")
        /\ queue' = Append(Tail(queue), g)
        /\ UNCHANGED <<got, seen>>
  /\ UNCHANGED <<dbVars, entry, holder, key, fetched, mine, floor, began,
                 readAt, slowest>>

\* Mutant: the entry is not looked up again under the write lock.
WriteLookupBlind(g) ==
  /\ pc[g] = "write" /\ Granted(g)
  /\ queue' = Tail(queue)
  /\ Goto(g, "fetch")
  /\ holder' = g
  /\ UNCHANGED <<dbVars, entry, key, fetched, mine, got, ghostVars>>

\* Under the write lock the entry is looked up once more; a miss keeps the
\* lock and starts the fetch.
WriteLookup(g) ==
  /\ pc[g] = "write" /\ Granted(g)
  /\ queue' = Tail(queue)
  /\ \/ /\ Fresh(key[g])
        /\ Answer(g, entry[key[g]].version)
        /\ UNCHANGED holder
     \/ /\ ~Fresh(key[g])
        /\ Goto(g, "fetch")
        /\ holder' = g
        /\ UNCHANGED <<got, seen>>
  /\ UNCHANGED <<dbVars, entry, key, fetched, mine, floor, began, readAt,
                 slowest>>

\* The query of the fetch is evaluated by the database.
ReadDatabase(g) ==
  /\ pc[g] = "fetch"
  /\ fetched' = [fetched EXCEPT ![g] = db]
  /\ readAt' = now
  /\ Goto(g, "insert")
  /\ UNCHANGED <<dbVars, entry, lockVars, key, mine, got, floor, began, seen,
                 slowest>>

\* retain: entries of other keys that have expired are dropped.
Retained(m) ==
  [k \in Keys |-> IF m[k].present /\ now < m[k].at + Ttl THEN m[k] ELSE Empty]

\* Mutant: the entry is stored with the end of its ttl.
InsertDeadline(g) ==
  /\ pc[g] = "insert"
  /\ entry' = Retained([entry EXCEPT ![key[g]] =
                [version |-> fetched[g], at |-> now + Ttl, present |-> TRUE]])
  /\ Answer(g, fetched[g])
  /\ holder' = NoProc
  /\ fetched' = [fetched EXCEPT ![g] = 0]
  /\ slowest' = Max2(slowest, now - readAt)
  /\ readAt' = 0
  /\ UNCHANGED <<dbVars, queue, key, mine, floor, began>>

\* The value is inserted with the time of the insertion and the lock freed.
Insert(g) ==
  /\ pc[g] = "insert"
  /\ entry' = Retained([entry EXCEPT ![key[g]] =
                [version |-> fetched[g], at |-> now, present |-> TRUE]])
  /\ Answer(g, fetched[g])
  /\ holder' = NoProc
  /\ fetched' = [fetched EXCEPT ![g] = 0]
  /\ slowest' = Max2(slowest, now - readAt)
  /\ readAt' = 0
  /\ UNCHANGED <<dbVars, queue, key, mine, floor, began>>

\* Mutant: the failed fetch keeps the lock.
FailsHolding(g) ==
  /\ pc[g] \in {"fetch", "insert"}
  /\ Goto(g, "idle")
  /\ fetched' = [fetched EXCEPT ![g] = 0]
  /\ readAt' = 0
  /\ floor' = [floor EXCEPT ![g] = 0]
  /\ began' = [began EXCEPT ![g] = 0]
  /\ UNCHANGED <<dbVars, entry, lockVars, key, mine, got, seen, slowest>>

\* The fetch fails, before the query is evaluated or after, or the request is
\* dropped at this await: the guard is released and the map is as it was.
FetchFails(g) ==
  /\ pc[g] \in {"fetch", "insert"}
  /\ Goto(g, "idle")
  /\ holder' = NoProc
  /\ fetched' = [fetched EXCEPT ![g] = 0]
  /\ readAt' = 0
  /\ floor' = [floor EXCEPT ![g] = 0]
  /\ began' = [began EXCEPT ![g] = 0]
  /\ UNCHANGED <<dbVars, entry, queue, key, mine, got, seen, slowest>>

-----------------------------------------------------------------------------
(* Requests dropped with their connection while they wait for the lock.    *)

Leave(p) ==
  /\ pc[p] \in {"read", "write"}
  /\ Goto(p, "idle")
  /\ \E i \in 1 .. Len(queue) :
       /\ queue[i] = p
       /\ queue' = SubSeq(queue, 1, i - 1) \o SubSeq(queue, i + 1, Len(queue))

DropGet(g) ==
  /\ Leave(g)
  /\ floor' = [floor EXCEPT ![g] = 0]
  /\ began' = [began EXCEPT ![g] = 0]
  /\ UNCHANGED <<dbVars, entry, holder, key, fetched, mine, got, seen, readAt,
                 slowest>>

\* The change of an admin handler stays in the database, not invalidated.
DropChange(c) ==
  /\ Leave(c)
  /\ mine' = [mine EXCEPT ![c] = 0]
  /\ UNCHANGED <<dbVars, entry, holder, key, fetched, got, ghostVars>>

-----------------------------------------------------------------------------
(* Changes of the database.                                                *)

\* An admin handler writes, and then queues to invalidate.
Change(c) ==
  /\ pc[c] = "idle"
  /\ db < MaxVersion
  /\ db' = db + 1
  /\ mine' = [mine EXCEPT ![c] = db + 1]
  /\ queue' = Append(queue, c)
  /\ Goto(c, "write")
  /\ UNCHANGED <<now, history, entry, holder, key, fetched, got, ghostVars>>

\* invalidate: the whole map is cleared under the write lock.
Invalidate(c) ==
  /\ pc[c] = "write" /\ Granted(c)
  /\ queue' = Tail(queue)
  /\ entry' = [k \in Keys |-> Empty]
  /\ seen' = [k \in Keys |-> Max2(seen[k], mine[c])]
  /\ mine' = [mine EXCEPT ![c] = 0]
  /\ Goto(c, "idle")
  /\ UNCHANGED <<dbVars, holder, key, fetched, got, floor, began, readAt,
                 slowest>>

\* A command-line process writes; the server is not told.
ChangeOutside ==
  /\ db < MaxVersion
  /\ db' = db + 1
  /\ UNCHANGED <<now, history, entry, lockVars, pc, key, fetched, mine, got,
                 ghostVars>>

Tick ==
  /\ now < MaxTime
  /\ now' = now + 1
  /\ history' = [history EXCEPT ![now + 1] = db]
  /\ UNCHANGED <<db, entry, lockVars, pc, key, fetched, mine, got, ghostVars>>

-----------------------------------------------------------------------------

GetStep(g) ==
  \/ ReadLookup(g) \/ WriteLookup(g) \/ ReadDatabase(g) \/ Insert(g) \/ FetchFails(g)

Next ==
  \/ \E g \in Getters, k \in Keys : Call(g, k)
  \/ \E g \in Getters : GetStep(g)
  \/ \E g \in Getters : DropGet(g)
  \/ \E c \in Changers : Change(c) \/ Invalidate(c) \/ DropChange(c)
  \/ ChangeOutside
  \/ Tick

Spec == Init /\ [][Next]_vars

\* A task that holds or is granted the lock, or whose query is answered, is
\* polled again.
FairSpec ==
  /\ Spec
  /\ \A g \in Getters : WF_vars(GetStep(g))
  /\ \A c \in Changers : WF_vars(Invalidate(c))

-----------------------------------------------------------------------------
\* A call never answers with a version older than one that had been answered
\* for its key, or whose invalidation had completed, when it began: reads do
\* not go back, and a ban an admin was told of is enforced.
Freshness ==
  \A g \in Getters : pc[g] = "done" => got[g] >= floor[g]

\* A change nobody invalidates is in every answer given to a call that began
\* Ttl later, or later still by as long as a fetch took to be inserted: an
\* entry's age is counted from its insertion, and a hit does not renew it.
Staleness ==
  \A g \in Getters :
    pc[g] = "done" /\ began[g] + 1 > Ttl + slowest =>
      got[g] >= history[began[g] + 1 - (Ttl + slowest)]

\* The lock is held exactly by the fetch under way: there is one at a time, and
\* one that failed keeps nobody waiting.
OneFetch ==
  \A g \in Getters : pc[g] \in {"fetch", "insert"} <=> holder = g

\* Every call and every invalidation that waits for the lock comes through.
Served ==
  \A p \in Procs :
    pc[p] \in {"read", "write", "fetch", "insert"} ~> pc[p] \in {"idle", "done"}

-----------------------------------------------------------------------------
(* The cache as its callers see it.                                        *)

\* The key whose value a fetch has read and is about to insert.
Refilled(k) == holder \in Getters /\ pc[holder] = "insert" /\ key[holder] = k

Copied == {k \in Keys : Refilled(k) \/ Fresh(k)}
Version(k) == IF Refilled(k) THEN fetched[holder] ELSE entry[k].version
Copy == [k \in Copied |-> Version(k)]

Stage(step) ==
  CASE step \in {"read", "write", "fetch"} -> "asked"
    [] step = "insert" -> "found"
    [] OTHER -> step

Phase == [g \in Getters |-> Stage(pc[g])]
Found(g) ==
  CASE pc[g] = "insert" -> fetched[g] [] pc[g] = "done" -> got[g] [] OTHER -> 0
Answers == [g \in Getters |-> Found(g)]
Telling == {c \in Changers : pc[c] = "write"}

Atomic == INSTANCE AtomicCache WITH
  copy <- Copy, telling <- Telling, phase <- Phase, asked <- key, answer <- Answers

\* Lookups, refills and invalidations take effect one at a time: a refill in the
\* moment it reads the database, though it is inserted later, and only where
\* there is no copy that could still answer.
AtomicSpec == Atomic!Spec

=============================================================================
