----------------------------- MODULE BansProofs -----------------------------
(* The ban tables for any items, admins, ranges, lists and synchronising
   processes: a ban whose row stands is enforced, an undisturbed synchronisation
   leaves exactly the fetched ranges, overlapping ones do not pile rows up, and a
   list that is not due is whole. *)
EXTENDS Bans, FiniteSetTheorems, TLAPS

-----------------------------------------------------------------------------
(* The item tables.                                                        *)

ItemTypes ==
  /\ table \in [Tables -> SUBSET Items]
  /\ cached \in SUBSET Tables
  /\ cache \in [Tables -> SUBSET Items]
  /\ admin \in [Admins -> Handled \union {Idle}]
  /\ owed \in SUBSET (Tables \X Items)

\* A list refuses all that the row p bans.
Covers(t, S, p) == \A y \in Banned(t, p) : Matches(t, S, y)

\* A row stands for the ban of key k, and the list covers it, if it is cached.
Enforced(t, k) ==
  \E p \in table[t] : SameKey(t, k, p) /\ (t \in cached => Covers(t, cache[t], p))

\* Every ban that is owed is enforced; two tables hold items in lower case.
ItemInv ==
  /\ ItemTypes
  /\ \A y \in table["mimes"] \union table["hashes"] : Lower[y] = y
  /\ \A o \in owed : Enforced(o[1], o[2])

\* What a refill keeps of a table covers each of its rows.
LEMMA TableCovers ==
  ASSUME ItemInv, NEW t \in Tables, NEW p \in table[t]
  PROVE  Covers(t, Loaded(t), p)
<1> SUFFICES ASSUME NEW z \in Banned(t, p)
             PROVE  Matches(t, Loaded(t), z)
  BY DEF Covers
<1>1. p \in Items
  BY DEF ItemInv, ItemTypes
<1>2. CASE t = "filenames"
  BY <1>1, <1>2 DEF Banned, Matches, Loaded, FilenameMatches, LoadFilenames
<1>3. CASE t = "mimes"
  BY <1>1, <1>3 DEF ItemInv, Banned, Matches, Loaded, MimeMatches
<1>4. CASE t = "hashes"
  BY <1>1, <1>4 DEF ItemInv, Banned, Matches, Loaded, HashMatches
<1>5. CASE t = "agents"
  BY <1>1, <1>5 DEF Banned, Matches, Loaded, AgentMatches, LoadAgents
<1> QED
  BY <1>2, <1>3, <1>4, <1>5 DEF Tables

LEMMA LoadedTyped ==
  ASSUME ItemTypes, NEW t \in Tables
  PROVE  Loaded(t) \in SUBSET Items
BY ItemsAssumption DEF ItemTypes, Loaded, LoadFilenames, LoadAgents

\* What the columns keep of an item, as it is handed to the statement.
LEMMA StoredItems ==
  ASSUME NEW t \in Tables, NEW x \in Items
  PROVE  /\ StoredAs(t, x) \in Items
         /\ t \in {"mimes", "hashes"} => Lower[StoredAs(t, x)] = StoredAs(t, x)
<1>1. /\ Lower[x] \in Items /\ Cut[x] \in Items /\ Cut[Lower[x]] \in Items
      /\ Lower[Lower[x]] = Lower[x]
  BY ItemsAssumption
<1>2. Lower[Cut[Lower[x]]] = Cut[Lower[x]]
  BY <1>1, ItemsAssumption
<1> QED
  BY <1>1, <1>2 DEF StoredAs

\* INSERT IGNORE adds a row or leaves the table alone.
LEMMA InsertKeeps ==
  ASSUME ItemInv, NEW t \in Tables, NEW x \in Items, InsertItem(t, x),
         UNCHANGED <<cached, cache>>,
         admin' \in [Admins -> Handled \union {Idle}]
  PROVE  ItemInv'
<1> DEFINE s == StoredAs(t, x)
<1>1. s \in Items /\ (t \in {"mimes", "hashes"} => Lower[s] = s)
  BY StoredItems
<1>2. owed' = owed /\ (table' = table \/ table' = [table EXCEPT ![t] = @ \union {s}])
  BY DEF InsertItem, ItemInv, ItemTypes
<1> HIDE DEF s
<1>3. ItemTypes'
  BY <1>1, <1>2 DEF ItemInv, ItemTypes
<1>4. \A u \in Tables : /\ table[u] \subseteq table'[u]
                        /\ table'[u] \subseteq table[u] \union {v \in {s} : u = t}
  BY <1>2 DEF ItemInv, ItemTypes
<1>5. \A y \in table'["mimes"] \union table'["hashes"] : Lower[y] = y
  <2>1. {"mimes", "hashes"} \subseteq Tables
    BY DEF Tables
  <2> QED
    BY <1>1, <1>4, <2>1 DEF ItemInv
<1>6. ASSUME NEW o \in owed' PROVE Enforced(o[1], o[2])'
  <2>1. o \in owed /\ o[1] \in Tables
    BY <1>2, <1>6 DEF ItemInv, ItemTypes
  <2>2. PICK p \in table[o[1]] : /\ SameKey(o[1], o[2], p)
                                 /\ o[1] \in cached => Covers(o[1], cache[o[1]], p)
    BY <2>1 DEF ItemInv, Enforced
  <2>3. p \in table'[o[1]]
    BY <1>4, <2>1, <2>2
  <2> QED
    BY <2>2, <2>3 DEF Enforced, Covers
<1> QED
  BY <1>3, <1>5, <1>6 DEF ItemInv

\* DELETE by key: who had that item is no longer owed its ban.
LEMMA RemoveKeeps ==
  ASSUME ItemInv, NEW t \in Tables, NEW x \in Items, RemoveItem(t, x),
         UNCHANGED <<cached, cache>>,
         admin' \in [Admins -> Handled \union {Idle}]
  PROVE  ItemInv'
<1>1. /\ table' = [table EXCEPT ![t] = {y \in @ : ~SameKey(t, x, y)}]
      /\ owed' = {o \in owed : o[1] = t => ~SameKey(t, o[2], x)}
  BY DEF RemoveItem
<1>2. \A u \in Tables : table'[u] \subseteq table[u]
  BY <1>1 DEF ItemInv, ItemTypes
<1>3. ItemTypes'
  BY <1>1 DEF ItemInv, ItemTypes
<1>4. \A y \in table'["mimes"] \union table'["hashes"] : Lower[y] = y
  <2>1. {"mimes", "hashes"} \subseteq Tables
    BY DEF Tables
  <2> QED
    BY <1>2, <2>1 DEF ItemInv
<1>5. ASSUME NEW o \in owed' PROVE Enforced(o[1], o[2])'
  <2>1. o \in owed /\ o[1] \in Tables /\ (o[1] = t => ~SameKey(t, o[2], x))
    BY <1>1, <1>5 DEF ItemInv, ItemTypes
  <2>2. PICK p \in table[o[1]] : /\ SameKey(o[1], o[2], p)
                                 /\ o[1] \in cached => Covers(o[1], cache[o[1]], p)
    BY <2>1 DEF ItemInv, Enforced
  <2>3. o[1] = t => ~SameKey(t, x, p)
    BY <2>1, <2>2 DEF SameKey
  <2>4. p \in table'[o[1]]
    BY <1>1, <2>1, <2>2, <2>3 DEF ItemInv, ItemTypes
  <2> QED
    BY <2>2, <2>4 DEF Enforced, Covers
<1> QED
  BY <1>3, <1>4, <1>5 DEF ItemInv

\* The list of t leaves the cache, and bans whose rows stand may come to be owed.
LEMMA ForgetKeeps ==
  ASSUME ItemInv, NEW t \in Tables,
         cached' = cached \ {t}, cache' = [cache EXCEPT ![t] = {}], table' = table,
         admin' \in [Admins -> Handled \union {Idle}],
         \A o \in owed' : \/ o \in owed
                          \/ /\ o \in {t} \X Items
                             /\ \E p \in table[t] : SameKey(t, o[2], p)
  PROVE  ItemInv'
<1>1. ItemTypes'
  BY DEF ItemInv, ItemTypes
<1>2. ASSUME NEW o \in owed' PROVE Enforced(o[1], o[2])'
  <2>1. CASE o[1] = t
    BY <1>2, <2>1 DEF ItemInv, Enforced, SameKey
  <2>2. CASE o[1] # t
    <3>1. o \in owed /\ o[1] \in Tables
      BY <1>2, <2>2 DEF ItemInv, ItemTypes
    <3>2. cache'[o[1]] = cache[o[1]] /\ (o[1] \in cached' => o[1] \in cached)
      BY <2>2, <3>1 DEF ItemInv, ItemTypes
    <3> QED
      BY <3>1, <3>2 DEF ItemInv, Enforced, Covers
  <2> QED
    BY <2>1, <2>2
<1> QED
  BY <1>1, <1>2 DEF ItemInv

LEMMA ItemInit == Init => ItemInv
BY DEF Init, ItemInv, ItemTypes, Tables

\* The admin handlers and the command line, and the statements they make.
AdminStep(a, x) ==
  \/ AddBannedFilename(a, x) \/ RemoveBannedFilename(a, x)
  \/ AddBannedMime(a, x) \/ RemoveBannedMime(a, x)
  \/ AddBannedHash(a, x) \/ RemoveBannedHash(a, x)
  \/ AddBannedUserAgent(a, x) \/ RemoveBannedUserAgent(a, x)
CliStep(x) == BanFilename(x) \/ BanMime(x) \/ BanHash(x) \/ BanUserAgent(x)

LEMMA AdminStatement ==
  ASSUME NEW a \in Admins, NEW x \in Items, AdminStep(a, x)
  PROVE  \E t \in Tables, y \in Items : AdminBan(a, t, y) \/ AdminUnban(a, t, y)
<1>1. Tables = {"filenames", "mimes", "hashes", "agents"} /\ Lower[x] \in Items
  BY ItemsAssumption DEF Tables
<1> QED
  BY <1>1 DEF AdminStep, AddBannedFilename, RemoveBannedFilename, AddBannedMime,
     RemoveBannedMime, AddBannedHash, RemoveBannedHash, AddBannedUserAgent,
     RemoveBannedUserAgent

LEMMA CliStatement ==
  ASSUME NEW x \in Items, CliStep(x)
  PROVE  CliFrame /\ \E t \in Tables : InsertItem(t, x) \/ RemoveItem(t, x)
BY DEF Tables, CliStep, BanFilename, BanMime, BanHash, BanUserAgent

LEMMA AdminKeeps ==
  ASSUME ItemInv, NEW a \in Admins, NEW x \in Items, AdminStep(a, x)
  PROVE  ItemInv'
<1>1. PICK t \in Tables, y \in Items : AdminBan(a, t, y) \/ AdminUnban(a, t, y)
  BY AdminStatement
<1>2. (InsertItem(t, y) \/ RemoveItem(t, y)) /\ UNCHANGED <<cached, cache>>
  BY <1>1 DEF AdminBan, AdminUnban
<1>3. admin' \in [Admins -> Handled \union {Idle}]
  <2>1. StoredAs(t, y) \in Items
    BY StoredItems
  <2>2. \E h \in Handled : admin' = [admin EXCEPT ![a] = h]
    BY <1>1, <2>1 DEF AdminBan, AdminUnban, Handled
  <2> QED
    BY <2>2 DEF ItemInv, ItemTypes
<1> QED
  BY <1>2, <1>3, InsertKeeps, RemoveKeeps

LEMMA CliKeeps ==
  ASSUME ItemInv, NEW x \in Items, CliStep(x)
  PROVE  ItemInv'
<1>1. PICK t \in Tables : InsertItem(t, x) \/ RemoveItem(t, x)
  BY CliStatement
<1>2. UNCHANGED <<cached, cache>> /\ admin' \in [Admins -> Handled \union {Idle}]
  BY CliStatement DEF CliFrame, ItemInv, ItemTypes
<1> QED
  BY <1>1, <1>2, InsertKeeps, RemoveKeeps

LEMMA CheckKeeps ==
  ASSUME ItemInv, NEW t \in Tables, CheckItem(t)
  PROVE  ItemInv'
<1>1. /\ cached' = cached \union {t} /\ cache' = [cache EXCEPT ![t] = Loaded(t)]
      /\ UNCHANGED <<table, owed, admin>>
  BY DEF CheckItem
<1>2. ItemTypes'
  BY <1>1, LoadedTyped DEF ItemInv, ItemTypes
<1>3. ASSUME NEW o \in owed' PROVE Enforced(o[1], o[2])'
  <2>1. o \in owed /\ o[1] \in Tables
    BY <1>1, <1>3 DEF ItemInv, ItemTypes
  <2>2. PICK p \in table[o[1]] : /\ SameKey(o[1], o[2], p)
                                 /\ o[1] \in cached => Covers(o[1], cache[o[1]], p)
    BY <2>1 DEF ItemInv, Enforced
  <2>3. CASE o[1] = t
    <3>1. Covers(t, Loaded(t), p) /\ cache'[t] = Loaded(t)
      BY <1>1, <2>2, <2>3, TableCovers DEF ItemInv, ItemTypes
    <3> QED
      BY <1>1, <2>2, <2>3, <3>1 DEF Enforced, Covers
  <2>4. CASE o[1] # t
    <3>1. cache'[o[1]] = cache[o[1]] /\ (o[1] \in cached' => o[1] \in cached)
      BY <1>1, <2>1, <2>4 DEF ItemInv, ItemTypes
    <3> QED
      BY <1>1, <2>2, <3>1 DEF Enforced, Covers
  <2> QED
    BY <2>3, <2>4
<1> QED
  BY <1>1, <1>2, <1>3 DEF ItemInv

LEMMA InvalidateKeeps ==
  ASSUME ItemInv, NEW a \in Admins, InvalidateItems(a)
  PROVE  ItemInv'
<1>1. admin[a] \in Handled
  BY DEF InvalidateItems, ItemInv, ItemTypes
<1>2. PICK t \in Tables, k \in Items : t = admin[a].table /\ k = admin[a].item
  BY <1>1 DEF Handled
<1>3. /\ cached' = cached \ {t} /\ cache' = [cache EXCEPT ![t] = {}] /\ table' = table
      /\ owed' = owed \union
           {o \in {<<t, k>>} :
              admin[a].does = "add" /\ \E y \in table[t] : SameKey(t, k, y)}
  BY <1>2 DEF InvalidateItems
<1>4. admin' \in [Admins -> Handled \union {Idle}]
  BY DEF InvalidateItems, ItemInv, ItemTypes
<1>5. ASSUME NEW o \in owed'
      PROVE  \/ o \in owed
             \/ o \in {t} \X Items /\ \E p \in table[t] : SameKey(t, o[2], p)
  BY <1>2, <1>3, <1>5
<1> QED
  BY <1>3, <1>4, <1>5, ForgetKeeps

LEMMA RestartKeeps == ItemInv /\ Restart => ItemInv'
<1> SUFFICES ASSUME ItemInv, Restart PROVE ItemInv'
  OBVIOUS
<1>1. /\ cached' = {} /\ cache' = [t \in Tables |-> {}]
      /\ admin' = [a \in Admins |-> Idle] /\ UNCHANGED <<table, owed>>
  BY DEF Restart
<1> QED
  BY <1>1 DEF ItemInv, ItemTypes, Enforced, SameKey

LEMMA ItemStep == ItemInv /\ [Next]_vars => ItemInv'
<1> SUFFICES ASSUME ItemInv, [Next]_vars PROVE ItemInv'
  OBVIOUS
<1>1. ASSUME UNCHANGED itemVars, admin' \in [Admins -> Handled \union {Idle}]
      PROVE  ItemInv'
  BY <1>1 DEF itemVars, ItemInv, ItemTypes, Enforced, Covers
<1>2. ASSUME UNCHANGED <<itemVars, admin>> PROVE ItemInv'
  BY <1>1, <1>2 DEF ItemInv, ItemTypes
<1>3. ASSUME NEW a \in Admins, AdminDropped(a) PROVE ItemInv'
  BY <1>1, <1>3 DEF AdminDropped, ItemInv, ItemTypes
<1>4. ASSUME NEW t \in Tables, ListLapses(t) PROVE ItemInv'
  BY <1>4, ForgetKeeps DEF ListLapses, ItemInv, ItemTypes
<1>5. ASSUME NEW r \in Rows, AddBannedIp(r) \/ RemoveBannedIp(r) \/ BanIp(r)
      PROVE  UNCHANGED <<itemVars, admin>>
  BY <1>5 DEF AddBannedIp, RemoveBannedIp, BanIp, RangeFrame
<1>6. ASSUME NEW l \in Lists, AddList(l) \/ RemoveList(l) \/ Elapse(l)
      PROVE  UNCHANGED <<itemVars, admin>>
  BY <1>6 DEF AddList, RemoveList, Elapse, ListFrame
<1>7. ASSUME NEW p \in Syncs, StartSync(p) \/ Killed(p)
      PROVE  UNCHANGED <<itemVars, admin>>
  BY <1>7 DEF StartSync, Killed, Abandon, SyncFrame
<1>8. ASSUME NEW p \in Syncs, NEW l \in Lists, SyncStep(p, l) \/ SyncFails(p, l)
      PROVE  UNCHANGED <<itemVars, admin>>
  BY <1>8 DEF SyncStep, GetEntry, Fetch, DeleteOld, InsertNext, Stamp, SyncFails, Abandon,
     SyncFrame
<1>9. CASE UNCHANGED vars
  BY <1>2, <1>9 DEF vars
<1>10. CASE Next
  <2>1. CASE \E a \in Admins, x \in Items : AdminStep(a, x)
    BY <2>1, AdminKeeps
  <2>2. CASE \E x \in Items : CliStep(x)
    BY <2>2, CliKeeps
  <2>3. CASE \E a \in Admins : InvalidateItems(a) \/ AdminDropped(a)
    BY <1>3, <2>3, InvalidateKeeps
  <2>4. CASE \E t \in Tables : CheckItem(t) \/ ListLapses(t)
    BY <1>4, <2>4, CheckKeeps
  <2>5. CASE \E r \in Rows : AddBannedIp(r) \/ RemoveBannedIp(r) \/ BanIp(r)
    BY <1>2, <1>5, <2>5
  <2>6. CASE \E l \in Lists : AddList(l) \/ RemoveList(l) \/ Elapse(l)
    BY <1>2, <1>6, <2>6
  <2>7. CASE \E p \in Syncs : StartSync(p) \/ Killed(p)
    BY <1>2, <1>7, <2>7
  <2>8. CASE \E p \in Syncs, l \in Lists : SyncStep(p, l) \/ SyncFails(p, l)
    BY <1>2, <1>8, <2>8
  <2> QED
    BY <1>10, <2>1, <2>2, <2>3, <2>4, <2>5, <2>6, <2>7, <2>8, RestartKeeps
       DEF Next, AdminStep, CliStep
<1> QED
  BY <1>9, <1>10

\* However many admins and the command line write at once, and whatever refills
\* and restarts come between: while the row stands under whose key an answered
\* ban went, every upload that row bans is refused.
THEOREM ItemBansHold == Spec => []ItemBanEnforced
<1>1. ItemInv => ItemBanEnforced
  <2> SUFFICES ASSUME ItemInv, NEW o \in owed
               PROVE  \E p \in table[o[1]] :
                        /\ SameKey(o[1], o[2], p)
                        /\ \A y \in Banned(o[1], p) : Refused(o[1], y)
    BY DEF ItemBanEnforced
  <2>1. o[1] \in Tables
    BY DEF ItemInv, ItemTypes
  <2>2. PICK p \in table[o[1]] : /\ SameKey(o[1], o[2], p)
                                 /\ o[1] \in cached => Covers(o[1], cache[o[1]], p)
    BY DEF ItemInv, Enforced
  <2>3. Covers(o[1], Loaded(o[1]), p)
    BY <2>1, <2>2, TableCovers
  <2> QED
    BY <2>2, <2>3 DEF Covers, Refused
<1> QED
  BY <1>1, ItemInit, ItemStep, PTL DEF Spec

-----------------------------------------------------------------------------
(* The ranges of the lists.                                                *)

RangeTypes ==
  /\ copies \in [Rows -> Nat]
  /\ task \in [Syncs -> [Lists -> TaskSteps]]
  /\ got \in [Syncs -> [Lists -> SUBSET Ranges]]
  /\ left \in [Syncs -> [Lists -> SUBSET Ranges]]
  /\ lone \in [Syncs -> [Lists -> BOOLEAN]]
  /\ dirty \in [Lists -> BOOLEAN]
  /\ synced \in [Lists -> SUBSET Ranges]
  /\ changes \in Nat

\* The rows of l are the ranges in S, once each, with the type of the entry.
Holds(l, S) ==
  \A r \in Rows : r.list = l =>
    copies[r] = IF r.range \in S /\ r.type = ListType[l] THEN 1 ELSE 0

\* An undisturbed task has inserted what it fetched and has not left.
LoneExact ==
  \A p \in Syncs, l \in Lists : lone[p][l] =>
    /\ task[p][l] = "insert" /\ left[p][l] \subseteq got[p][l]
    /\ Holds(l, got[p][l] \ left[p][l])
CleanExact == \A l \in Lists : ~dirty[l] => Holds(l, synced[l])

\* The tasks that have yet to insert the range of r.
Pending(r) == {q \in Syncs : task[q][r.list] = "insert" /\ r.range \in left[q][r.list]}

\* Every task that is not pending has inserted the range once at most.
Added == IF changes < MaxChanges THEN changes ELSE MaxChanges
PendingBound ==
  \A r \in Rows : r.list # NoList => copies[r] <= Cardinality(Syncs \ Pending(r)) + Added

RangeInv == RangeTypes /\ LoneExact /\ CleanExact /\ PendingBound

LEMMA RowFields ==
  /\ \A r \in Rows : r.range \in Ranges /\ r.type \in Types /\ r.list \in Lists \union {NoList}
  /\ \A r \in Rows : r.list # NoList => r.list \in Lists
  /\ \A g \in Ranges, l \in Lists : [range |-> g, list |-> l, type |-> ListType[l]] \in Rows
BY ListsAssumption DEF Rows

LEMMA RangeInit == Init => RangeInv
<1> SUFFICES ASSUME Init PROVE RangeInv
  OBVIOUS
<1>1. RangeTypes
  BY DEF Init, RangeTypes, TaskSteps
<1>2. LoneExact /\ CleanExact
  BY RowFields DEF Init, LoneExact, CleanExact, Holds
<1>3. PendingBound
  <2> SUFFICES ASSUME NEW r \in Rows, r.list # NoList
               PROVE  copies[r] <= Cardinality(Syncs \ Pending(r)) + Added
    BY DEF PendingBound
  <2>1. Cardinality(Syncs \ Pending(r)) \in Nat
    BY BansBounds, FS_Difference, FS_CardinalityType
  <2> QED
    BY <2>1, BansBounds DEF Init, Added
<1> QED
  BY <1>1, <1>2, <1>3 DEF RangeInv

\* A bound on the rows of r survives when fewer tasks are pending and when more
\* rows were added by hand.
LEMMA BoundGrows ==
  ASSUME NEW S \in SUBSET Syncs, NEW T \in SUBSET S,
         NEW a \in Nat, NEW b \in Nat, a <= b,
         NEW n \in Nat, n <= Cardinality(Syncs \ S) + a
  PROVE  n <= Cardinality(Syncs \ T) + b
<1>1. IsFiniteSet(Syncs \ T) /\ Syncs \ S \in SUBSET (Syncs \ T)
  BY BansBounds, FS_Difference
<1>2. Cardinality(Syncs \ S) <= Cardinality(Syncs \ T) /\ IsFiniteSet(Syncs \ S)
  BY <1>1, FS_Subset
<1>3. Cardinality(Syncs \ S) \in Nat /\ Cardinality(Syncs \ T) \in Nat
  BY <1>1, <1>2, FS_CardinalityType
<1> QED
  BY <1>2, <1>3

LEMMA AddedGrows ==
  ASSUME RangeTypes, changes' = changes \/ changes' = changes + 1
  PROVE  /\ Added \in Nat /\ Added' \in Nat /\ Added <= Added'
         /\ changes < MaxChanges /\ changes' = changes + 1 => Added' = Added + 1
<1>1. changes \in Nat /\ changes' \in Nat
  BY DEF RangeTypes
<1>2. MaxChanges \in Nat
  BY BansBounds
<1>3. CASE changes < MaxChanges
  BY <1>1, <1>2, <1>3 DEF Added
<1>4. CASE ~(changes < MaxChanges)
  BY <1>1, <1>2, <1>4 DEF Added
<1> QED
  BY <1>3, <1>4

\* Steps of the item tables, of the blacklist entries and of the handlers.
LEMMA OtherKeeps ==
  ASSUME RangeInv, UNCHANGED <<copies, syncVars>>,
         changes' = changes \/ changes' = changes + 1
  PROVE  RangeInv'
<1>1. UNCHANGED <<copies, task, got, left, lone, dirty, synced>>
  BY DEF syncVars
<1>2. RangeTypes' /\ LoneExact' /\ CleanExact'
  BY <1>1 DEF RangeInv, RangeTypes, LoneExact, CleanExact, Holds
<1>3. PendingBound'
  <2> SUFFICES ASSUME NEW r \in Rows, r.list # NoList
               PROVE  copies'[r] <= Cardinality(Syncs \ Pending(r)') + Added'
    BY DEF PendingBound
  <2>1. Pending(r)' = Pending(r) /\ Pending(r) \in SUBSET Syncs
    BY <1>1 DEF Pending
  <2>2. copies'[r] \in Nat /\ copies'[r] <= Cardinality(Syncs \ Pending(r)) + Added
    BY <1>1 DEF RangeInv, RangeTypes, PendingBound
  <2> QED
    BY <2>1, <2>2, AddedGrows, BoundGrows DEF RangeInv
<1> QED
  BY <1>2, <1>3 DEF RangeInv

\* A row is added or removed by hand.
LEMMA RowKeeps ==
  ASSUME RangeInv, NEW r \in Rows, InsertRow(r) \/ RemoveRow(r),
         Change(MaxChanges), RangeFrame
  PROVE  RangeInv'
<1>1. /\ UNCHANGED <<task, got, left, synced>>
      /\ changes' = changes + 1 /\ changes < MaxChanges
      /\ dirty' = [m \in Lists |-> dirty[m] \/ m = r.list]
      /\ lone' = [p \in Syncs |-> [m \in Lists |-> lone[p][m] /\ (m # r.list \/ p \in {})]]
  BY DEF RangeFrame, Change, InsertRow, RemoveRow, Disturb
<1>2. \/ copies' = [copies EXCEPT ![r] = @ + 1]
      \/ copies[r] > 0 /\ copies' = [copies EXCEPT ![r] = @ - 1]
  BY DEF InsertRow, RemoveRow
<1>3. copies' \in [Rows -> Nat] /\ copies'[r] <= copies[r] + 1
  BY <1>2 DEF RangeInv, RangeTypes
<1>4. \A q \in Rows : q # r => copies'[q] = copies[q]
  BY <1>2 DEF RangeInv, RangeTypes
<1>5. RangeTypes'
  BY <1>1, <1>3 DEF RangeInv, RangeTypes
<1>6. \A l \in Lists, S \in SUBSET Ranges : Holds(l, S) /\ l # r.list => Holds(l, S)'
  BY <1>4 DEF Holds
<1>7. LoneExact'
  <2> SUFFICES ASSUME NEW p \in Syncs, NEW l \in Lists, lone'[p][l]
               PROVE  /\ task'[p][l] = "insert" /\ left'[p][l] \subseteq got'[p][l]
                      /\ Holds(l, got[p][l] \ left[p][l])'
    BY DEF LoneExact
  <2>1. lone[p][l] /\ l # r.list
    BY <1>1
  <2>2. /\ task[p][l] = "insert" /\ left[p][l] \subseteq got[p][l]
        /\ Holds(l, got[p][l] \ left[p][l])
    BY <2>1 DEF RangeInv, LoneExact
  <2>3. got'[p][l] = got[p][l] /\ left'[p][l] = left[p][l] /\ task'[p][l] = task[p][l]
    BY <1>1
  <2>4. \A q \in Rows : q.list = l => copies'[q] = copies[q]
    BY <1>4, <2>1
  <2> QED
    BY <2>2, <2>3, <2>4 DEF Holds
<1>8. CleanExact'
  <2> SUFFICES ASSUME NEW l \in Lists, ~dirty'[l] PROVE Holds(l, synced[l])'
    BY DEF CleanExact
  <2>1. ~dirty[l] /\ l # r.list
    BY <1>1
  <2>2. Holds(l, synced[l]) /\ synced[l] \in SUBSET Ranges
    BY <2>1 DEF RangeInv, RangeTypes, CleanExact
  <2> QED
    BY <1>1, <1>6, <2>1, <2>2 DEF Holds
<1>9. PendingBound'
  <2> SUFFICES ASSUME NEW q \in Rows, q.list # NoList
               PROVE  copies'[q] <= Cardinality(Syncs \ Pending(q)') + Added'
    BY DEF PendingBound
  <2>1. Pending(q)' = Pending(q)
    BY <1>1 DEF Pending
  <2>2. copies[q] <= Cardinality(Syncs \ Pending(q)) + Added /\ copies[q] \in Nat
    BY DEF RangeInv, PendingBound, RangeTypes
  <2>3. Cardinality(Syncs \ Pending(q)) \in Nat
    BY BansBounds, FS_Difference, FS_CardinalityType
  <2>4. Added' = Added + 1 /\ Added \in Nat
    BY <1>1, AddedGrows DEF RangeInv
  <2>5. copies'[q] \in Nat /\ copies'[q] <= copies[q] + 1
    BY <1>3, <1>4, <2>2
  <2> QED
    BY <2>1, <2>2, <2>3, <2>4, <2>5
<1> QED
  BY <1>5, <1>7, <1>8, <1>9 DEF RangeInv

\* Steps that change tasks which insert nothing before them or after them.
LEMMA TaskKeeps ==
  ASSUME RangeInv, UNCHANGED <<copies, left, dirty, synced, changes>>,
         task' \in [Syncs -> [Lists -> TaskSteps]],
         got' \in [Syncs -> [Lists -> SUBSET Ranges]],
         lone' \in [Syncs -> [Lists -> BOOLEAN]],
         \A p \in Syncs, l \in Lists :
            \/ /\ task'[p][l] = task[p][l] /\ got'[p][l] = got[p][l]
               /\ lone'[p][l] => lone[p][l]
            \/ task'[p][l] # "insert" /\ (lone'[p][l] => lone[p][l] /\ task[p][l] # "insert")
  PROVE  RangeInv'
<1>1. RangeTypes'
  BY DEF RangeInv, RangeTypes
<1>2. LoneExact'
  <2> SUFFICES ASSUME NEW p \in Syncs, NEW l \in Lists, lone'[p][l]
               PROVE  /\ task'[p][l] = "insert" /\ left'[p][l] \subseteq got'[p][l]
                      /\ Holds(l, got[p][l] \ left[p][l])'
    BY DEF LoneExact
  <2>1. lone[p][l]
    OBVIOUS
  <2>2. /\ task[p][l] = "insert" /\ left[p][l] \subseteq got[p][l]
        /\ Holds(l, got[p][l] \ left[p][l])
    BY <2>1 DEF RangeInv, LoneExact
  <2>3. task'[p][l] = task[p][l] /\ got'[p][l] = got[p][l] /\ left'[p][l] = left[p][l]
    BY <2>1, <2>2
  <2> QED
    BY <2>2, <2>3 DEF Holds
<1>3. CleanExact'
  BY DEF RangeInv, CleanExact, Holds
<1>4. PendingBound'
  <2> SUFFICES ASSUME NEW r \in Rows, r.list # NoList
               PROVE  copies'[r] <= Cardinality(Syncs \ Pending(r)') + Added'
    BY DEF PendingBound
  <2>1. Pending(r)' \in SUBSET Pending(r) /\ Pending(r) \in SUBSET Syncs
    BY RowFields DEF Pending
  <2>2. copies'[r] \in Nat /\ copies'[r] <= Cardinality(Syncs \ Pending(r)) + Added
    BY DEF RangeInv, RangeTypes, PendingBound
  <2> QED
    BY <2>1, <2>2, AddedGrows, BoundGrows DEF RangeInv
<1> QED
  BY <1>1, <1>2, <1>3, <1>4 DEF RangeInv

LEMMA DeleteKeeps ==
  ASSUME RangeInv, NEW p \in Syncs, NEW l \in Lists, DeleteOld(p, l)
  PROVE  RangeInv'
<1>1. /\ copies' = [r \in Rows |-> IF r.list = l THEN 0 ELSE copies[r]]
      /\ left' = [left EXCEPT ![p][l] = got[p][l]]
      /\ dirty' = [dirty EXCEPT ![l] = TRUE]
      /\ lone' = [q \in Syncs |-> [lone[q] EXCEPT ![l] = (q = p)]]
      /\ task' = [task EXCEPT ![p][l] = "insert"]
      /\ got' = got /\ synced' = synced /\ changes' = changes
  BY DEF DeleteOld, Goto, SyncFrame
<1>2. RangeTypes'
  <2>1. copies' \in [Rows -> Nat] /\ left' \in [Syncs -> [Lists -> SUBSET Ranges]]
    BY <1>1 DEF RangeInv, RangeTypes
  <2>2. task' \in [Syncs -> [Lists -> TaskSteps]]
    BY <1>1 DEF RangeInv, RangeTypes, TaskSteps
  <2>3. lone' \in [Syncs -> [Lists -> BOOLEAN]] /\ dirty' \in [Lists -> BOOLEAN]
    BY <1>1 DEF RangeInv, RangeTypes
  <2> QED
    BY <1>1, <2>1, <2>2, <2>3 DEF RangeInv, RangeTypes
<1>3. \A r \in Rows : /\ r.list = l => copies'[r] = 0
                      /\ r.list # l => copies'[r] = copies[r]
  BY <1>1
<1>4. \A q \in Syncs, k \in Lists : k # l =>
        /\ task'[q][k] = task[q][k] /\ left'[q][k] = left[q][k]
        /\ lone'[q][k] = lone[q][k]
  BY <1>1 DEF RangeInv, RangeTypes
<1>5. LoneExact'
  <2> SUFFICES ASSUME NEW q \in Syncs, NEW k \in Lists, lone'[q][k]
               PROVE  /\ task'[q][k] = "insert" /\ left'[q][k] \subseteq got'[q][k]
                      /\ Holds(k, got[q][k] \ left[q][k])'
    BY DEF LoneExact
  <2>1. CASE k = l
    <3>1. q = p
      BY <1>1, <2>1 DEF RangeInv, RangeTypes
    <3>2. task'[q][k] = "insert" /\ left'[q][k] = got'[q][k]
      BY <1>1, <2>1, <3>1 DEF RangeInv, RangeTypes
    <3> QED
      BY <1>3, <2>1, <3>2 DEF Holds
  <2>2. CASE k # l
    <3>1. /\ task[q][k] = "insert" /\ left[q][k] \subseteq got[q][k]
          /\ Holds(k, got[q][k] \ left[q][k])
      BY <1>4, <2>2 DEF RangeInv, LoneExact
    <3>2. task'[q][k] = task[q][k] /\ left'[q][k] = left[q][k] /\ got'[q][k] = got[q][k]
      BY <1>1, <1>4, <2>2
    <3> QED
      BY <1>3, <2>2, <3>1, <3>2 DEF Holds
  <2> QED
    BY <2>1, <2>2
<1>6. CleanExact'
  <2> SUFFICES ASSUME NEW k \in Lists, ~dirty'[k] PROVE Holds(k, synced[k])'
    BY DEF CleanExact
  <2>1. ~dirty[k] /\ k # l
    BY <1>1 DEF RangeInv, RangeTypes
  <2> QED
    BY <1>1, <1>3, <2>1 DEF RangeInv, CleanExact, Holds
<1>7. PendingBound'
  <2> SUFFICES ASSUME NEW r \in Rows, r.list # NoList
               PROVE  copies'[r] <= Cardinality(Syncs \ Pending(r)') + Added'
    BY DEF PendingBound
  <2>1. Cardinality(Syncs \ Pending(r)') \in Nat /\ Added' \in Nat
    BY <1>1, BansBounds, FS_Difference, FS_CardinalityType, AddedGrows DEF RangeInv
  <2>2. CASE r.list = l
    BY <1>3, <2>1, <2>2
  <2>3. CASE r.list # l
    <3>1. Pending(r)' = Pending(r)
      BY <1>4, <2>3, RowFields DEF Pending
    <3> QED
      BY <1>1, <1>3, <2>3, <3>1 DEF RangeInv, PendingBound, Added
  <2> QED
    BY <2>2, <2>3
<1> QED
  BY <1>2, <1>5, <1>6, <1>7 DEF RangeInv

LEMMA InsertNextKeeps ==
  ASSUME RangeInv, NEW p \in Syncs, NEW l \in Lists, NEW g \in Ranges, InsertNext(p, l, g)
  PROVE  RangeInv'
<1> DEFINE row == [range |-> g, list |-> l, type |-> ListType[l]]
<1>1. /\ task[p][l] = "insert" /\ g \in left[p][l]
      /\ copies' = [copies EXCEPT ![row] = @ + 1]
      /\ left' = [left EXCEPT ![p][l] = @ \ {g}]
      /\ dirty' = [m \in Lists |-> dirty[m] \/ m = l]
      /\ lone' = [q \in Syncs |-> [m \in Lists |-> lone[q][m] /\ (m # l \/ q \in {p})]]
      /\ UNCHANGED <<task, got, synced, changes>>
  BY DEF InsertNext, Disturb, SyncFrame
<1>2. row \in Rows /\ row.range = g /\ row.list = l /\ row.type = ListType[l]
  BY RowFields
<1>3. \A r \in Rows : r # row <=> ~(r.range = g /\ r.list = l /\ r.type = ListType[l])
  BY DEF Rows
<1> HIDE DEF row
<1>4. /\ copies' \in [Rows -> Nat] /\ copies'[row] = copies[row] + 1
      /\ \A r \in Rows : r # row => copies'[r] = copies[r]
  BY <1>1, <1>2 DEF RangeInv, RangeTypes
<1>5. RangeTypes'
  <2>1. left' \in [Syncs -> [Lists -> SUBSET Ranges]]
    BY <1>1 DEF RangeInv, RangeTypes
  <2>2. lone' \in [Syncs -> [Lists -> BOOLEAN]] /\ dirty' \in [Lists -> BOOLEAN]
    BY <1>1 DEF RangeInv, RangeTypes
  <2> QED
    BY <1>1, <1>4, <2>1, <2>2 DEF RangeInv, RangeTypes
<1>6. /\ left'[p][l] = left[p][l] \ {g}
      /\ \A q \in Syncs, k \in Lists : q # p \/ k # l => left'[q][k] = left[q][k]
  BY <1>1 DEF RangeInv, RangeTypes
<1>7. LoneExact'
  <2> SUFFICES ASSUME NEW q \in Syncs, NEW k \in Lists, lone'[q][k]
               PROVE  /\ task'[q][k] = "insert" /\ left'[q][k] \subseteq got'[q][k]
                      /\ Holds(k, got[q][k] \ left[q][k])'
    BY DEF LoneExact
  <2>1. lone[q][k] /\ (k # l \/ q = p)
    BY <1>1
  <2>2. /\ task[q][k] = "insert" /\ left[q][k] \subseteq got[q][k]
        /\ Holds(k, got[q][k] \ left[q][k])
    BY <2>1 DEF RangeInv, LoneExact
  <2>3. task'[q][k] = task[q][k] /\ got'[q][k] = got[q][k]
    BY <1>1
  <2>4. CASE k = l
    <3>1. q = p /\ left'[q][k] = left[q][k] \ {g} /\ g \in left[q][k]
      BY <1>1, <1>6, <2>1, <2>4
    <3>2. left'[q][k] \subseteq got'[q][k]
      BY <2>2, <2>3, <3>1
    <3>3. got'[q][k] \ left'[q][k] = (got[q][k] \ left[q][k]) \union {g}
      BY <2>2, <2>3, <3>1
    <3>4. copies[row] = 0
      BY <1>2, <2>2, <2>4, <3>1 DEF Holds
    <3>5. ASSUME NEW r \in Rows, r.list = k
          PROVE  copies'[r] = IF r.range \in (got[q][k] \ left[q][k]) \union {g}
                                 /\ r.type = ListType[k] THEN 1 ELSE 0
      <4>1. CASE r = row
        BY <1>2, <1>4, <2>4, <3>4, <4>1
      <4>2. CASE r # row
        BY <1>3, <1>4, <2>2, <2>4, <3>5, <4>2 DEF Holds
      <4> QED
        BY <4>1, <4>2
    <3> QED
      BY <2>2, <2>3, <3>2, <3>3, <3>5 DEF Holds
  <2>5. CASE k # l
    <3>1. left'[q][k] = left[q][k]
      BY <1>6, <2>5
    <3>2. \A r \in Rows : r.list = k => copies'[r] = copies[r]
      BY <1>3, <1>4, <2>5
    <3> QED
      BY <2>2, <2>3, <3>1, <3>2 DEF Holds
  <2> QED
    BY <2>4, <2>5
<1>8. CleanExact'
  <2> SUFFICES ASSUME NEW k \in Lists, ~dirty'[k] PROVE Holds(k, synced[k])'
    BY DEF CleanExact
  <2>1. ~dirty[k] /\ k # l
    BY <1>1
  <2>2. \A r \in Rows : r.list = k => copies'[r] = copies[r]
    BY <1>3, <1>4, <2>1
  <2> QED
    BY <1>1, <2>1, <2>2 DEF RangeInv, CleanExact, Holds
<1>9. PendingBound'
  <2> SUFFICES ASSUME NEW r \in Rows, r.list # NoList
               PROVE  copies'[r] <= Cardinality(Syncs \ Pending(r)') + Added'
    BY DEF PendingBound
  <2>1. copies[r] <= Cardinality(Syncs \ Pending(r)) + Added /\ copies[r] \in Nat
    BY DEF RangeInv, PendingBound, RangeTypes
  <2>2. Added' = Added /\ Added \in Nat
    BY <1>1, AddedGrows DEF RangeInv, Added
  <2>3. CASE r = row
    <3>1. p \in Pending(r) /\ Pending(r)' = Pending(r) \ {p} /\ Pending(r) \in SUBSET Syncs
      BY <1>1, <1>2, <1>6, <2>3 DEF Pending
    <3>2. Syncs \ Pending(r)' = (Syncs \ Pending(r)) \union {p} /\ p \notin Syncs \ Pending(r)
      BY <3>1
    <3>3. IsFiniteSet(Syncs \ Pending(r)) /\ Cardinality(Syncs \ Pending(r)) \in Nat
      BY BansBounds, FS_Difference, FS_CardinalityType
    <3>4. Cardinality(Syncs \ Pending(r)') = Cardinality(Syncs \ Pending(r)) + 1
      BY <3>2, <3>3, FS_AddElement
    <3> QED
      BY <1>4, <2>1, <2>2, <2>3, <3>3, <3>4
  <2>4. CASE r # row
    <3>1. Pending(r)' \in SUBSET Pending(r) /\ Pending(r) \in SUBSET Syncs
      BY <1>1, <1>6, RowFields DEF Pending
    <3>2. copies'[r] \in Nat /\ copies'[r] <= Cardinality(Syncs \ Pending(r)) + Added
      BY <1>4, <2>1, <2>4
    <3>3. Added \in Nat /\ Added' \in Nat /\ Added <= Added'
      BY <2>2
    <3> QED
      BY <3>1, <3>2, <3>3, BoundGrows
  <2> QED
    BY <2>3, <2>4
<1> QED
  BY <1>5, <1>7, <1>8, <1>9 DEF RangeInv

LEMMA StampKeeps ==
  ASSUME RangeInv, NEW p \in Syncs, NEW l \in Lists, Stamp(p, l)
  PROVE  RangeInv'
<1>1. /\ task[p][l] = "insert" /\ left[p][l] = {}
      /\ dirty' = [dirty EXCEPT ![l] = ~lone[p][l]]
      /\ synced' = [synced EXCEPT ![l] = got[p][l]]
      /\ lone' = [lone EXCEPT ![p][l] = FALSE]
      /\ got' = [got EXCEPT ![p][l] = {}]
      /\ task' = [task EXCEPT ![p][l] = "none"]
      /\ UNCHANGED <<copies, left, changes>>
  BY DEF Stamp, Goto, SyncFrame
<1>2. RangeTypes'
  <2>1. task' \in [Syncs -> [Lists -> TaskSteps]]
    BY <1>1 DEF RangeInv, RangeTypes, TaskSteps
  <2>2. /\ got' \in [Syncs -> [Lists -> SUBSET Ranges]]
        /\ synced' \in [Lists -> SUBSET Ranges]
    BY <1>1 DEF RangeInv, RangeTypes
  <2>3. lone' \in [Syncs -> [Lists -> BOOLEAN]] /\ dirty' \in [Lists -> BOOLEAN]
    BY <1>1 DEF RangeInv, RangeTypes
  <2> QED
    BY <1>1, <2>1, <2>2, <2>3 DEF RangeInv, RangeTypes
<1>3. /\ task'[p][l] = "none" /\ ~lone'[p][l]
      /\ \A q \in Syncs, k \in Lists : q # p \/ k # l =>
           /\ task'[q][k] = task[q][k] /\ got'[q][k] = got[q][k]
           /\ lone'[q][k] = lone[q][k]
  BY <1>1 DEF RangeInv, RangeTypes
<1>4. LoneExact'
  <2> SUFFICES ASSUME NEW q \in Syncs, NEW k \in Lists, lone'[q][k]
               PROVE  /\ task'[q][k] = "insert" /\ left'[q][k] \subseteq got'[q][k]
                      /\ Holds(k, got[q][k] \ left[q][k])'
    BY DEF LoneExact
  <2>1. /\ task'[q][k] = task[q][k] /\ got'[q][k] = got[q][k]
        /\ lone[q][k]
    BY <1>3
  <2> QED
    BY <1>1, <2>1 DEF RangeInv, LoneExact, Holds
<1>5. CleanExact'
  <2> SUFFICES ASSUME NEW k \in Lists, ~dirty'[k] PROVE Holds(k, synced[k])'
    BY DEF CleanExact
  <2>1. CASE k = l
    <3>1. lone[p][l] /\ synced'[k] = got[p][l]
      BY <1>1, <2>1 DEF RangeInv, RangeTypes
    <3>2. got[p][l] \ left[p][l] = got[p][l]
      BY <1>1
    <3> QED
      BY <1>1, <2>1, <3>1, <3>2 DEF RangeInv, LoneExact, Holds
  <2>2. CASE k # l
    <3>1. ~dirty[k] /\ synced'[k] = synced[k]
      BY <1>1, <2>2 DEF RangeInv, RangeTypes
    <3> QED
      BY <1>1, <3>1 DEF RangeInv, CleanExact, Holds
  <2> QED
    BY <2>1, <2>2
<1>6. PendingBound'
  <2> SUFFICES ASSUME NEW r \in Rows, r.list # NoList
               PROVE  copies'[r] <= Cardinality(Syncs \ Pending(r)') + Added'
    BY DEF PendingBound
  <2>1. Pending(r)' \in SUBSET Pending(r) /\ Pending(r) \in SUBSET Syncs
    BY <1>1, <1>3, RowFields DEF Pending
  <2>2. copies'[r] \in Nat /\ copies'[r] <= Cardinality(Syncs \ Pending(r)) + Added
    BY <1>1 DEF RangeInv, RangeTypes, PendingBound
  <2>3. Added \in Nat /\ Added' \in Nat /\ Added <= Added'
    BY <1>1, AddedGrows DEF RangeInv
  <2> QED
    BY <2>1, <2>2, <2>3, BoundGrows
<1> QED
  BY <1>2, <1>4, <1>5, <1>6 DEF RangeInv

LEMMA AbandonKeeps ==
  ASSUME RangeInv, NEW p \in Syncs, NEW S \in SUBSET Lists, Abandon(p, S),
         UNCHANGED <<copies, dirty, synced>>
  PROVE  RangeInv'
<1>1. /\ task' = [task EXCEPT ![p] = [l \in Lists |-> IF l \in S THEN "none" ELSE @[l]]]
      /\ got' = [got EXCEPT ![p] = [l \in Lists |-> IF l \in S THEN {} ELSE @[l]]]
      /\ left' = [left EXCEPT ![p] = [l \in Lists |-> IF l \in S THEN {} ELSE @[l]]]
      /\ lone' = [lone EXCEPT ![p] = [l \in Lists |-> l \notin S /\ @[l]]]
      /\ changes' = changes
  BY DEF Abandon, SyncFrame
<1>2. RangeTypes'
  <2>1. task' \in [Syncs -> [Lists -> TaskSteps]]
    BY <1>1 DEF RangeInv, RangeTypes, TaskSteps
  <2>2. /\ got' \in [Syncs -> [Lists -> SUBSET Ranges]]
        /\ left' \in [Syncs -> [Lists -> SUBSET Ranges]]
    BY <1>1 DEF RangeInv, RangeTypes
  <2>3. lone' \in [Syncs -> [Lists -> BOOLEAN]]
    BY <1>1 DEF RangeInv, RangeTypes
  <2> QED
    BY <1>1, <2>1, <2>2, <2>3 DEF RangeInv, RangeTypes
<1>3. \A q \in Syncs, k \in Lists :
        \/ /\ task'[q][k] = task[q][k] /\ got'[q][k] = got[q][k]
           /\ left'[q][k] = left[q][k] /\ lone'[q][k] = lone[q][k]
        \/ task'[q][k] = "none" /\ left'[q][k] = {} /\ ~lone'[q][k]
  <2>1. ASSUME NEW q \in Syncs, NEW k \in Lists, q = p, k \in S
        PROVE  task'[q][k] = "none" /\ left'[q][k] = {} /\ ~lone'[q][k]
    BY <1>1, <2>1 DEF RangeInv, RangeTypes
  <2>2. ASSUME NEW q \in Syncs, NEW k \in Lists, ~(q = p /\ k \in S)
        PROVE  /\ task'[q][k] = task[q][k] /\ got'[q][k] = got[q][k]
               /\ left'[q][k] = left[q][k]
    BY <1>1, <2>2 DEF RangeInv, RangeTypes
  <2>3. ASSUME NEW q \in Syncs, NEW k \in Lists, ~(q = p /\ k \in S)
        PROVE  lone'[q][k] = lone[q][k]
    BY <1>1, <2>3 DEF RangeInv, RangeTypes
  <2> QED
    BY <2>1, <2>2, <2>3
<1>4. LoneExact'
  <2> SUFFICES ASSUME NEW q \in Syncs, NEW k \in Lists, lone'[q][k]
               PROVE  /\ task'[q][k] = "insert" /\ left'[q][k] \subseteq got'[q][k]
                      /\ Holds(k, got[q][k] \ left[q][k])'
    BY DEF LoneExact
  <2>1. /\ task'[q][k] = task[q][k] /\ got'[q][k] = got[q][k]
        /\ left'[q][k] = left[q][k] /\ lone[q][k]
    BY <1>3
  <2> QED
    BY <2>1 DEF RangeInv, LoneExact, Holds
<1>5. CleanExact'
  BY DEF RangeInv, CleanExact, Holds
<1>6. PendingBound'
  <2> SUFFICES ASSUME NEW r \in Rows, r.list # NoList
               PROVE  copies'[r] <= Cardinality(Syncs \ Pending(r)') + Added'
    BY DEF PendingBound
  <2>1. Pending(r)' \in SUBSET Pending(r) /\ Pending(r) \in SUBSET Syncs
    BY <1>3, RowFields DEF Pending
  <2>2. copies'[r] \in Nat /\ copies'[r] <= Cardinality(Syncs \ Pending(r)) + Added
    BY <1>1 DEF RangeInv, RangeTypes, PendingBound
  <2>3. Added \in Nat /\ Added' \in Nat /\ Added <= Added'
    BY <1>1, AddedGrows DEF RangeInv
  <2> QED
    BY <2>1, <2>2, <2>3, BoundGrows
<1> QED
  BY <1>2, <1>4, <1>5, <1>6 DEF RangeInv

LEMMA StartKeeps ==
  ASSUME RangeInv, NEW p \in Syncs, StartSync(p)
  PROVE  RangeInv'
<1>1. /\ \A l \in Lists : task[p][l] = "none"
      /\ task' = [task EXCEPT ![p] = [l \in Lists |->
                    IF lists[l] = "present" /\ due[l] THEN "get" ELSE "none"]]
      /\ UNCHANGED <<copies, got, left, lone, dirty, synced, changes>>
  BY DEF StartSync, SyncFrame
<1>2. task' \in [Syncs -> [Lists -> TaskSteps]]
  BY <1>1 DEF RangeInv, RangeTypes, TaskSteps
<1>3. ASSUME NEW q \in Syncs, NEW l \in Lists
      PROVE  \/ task'[q][l] = task[q][l]
             \/ task'[q][l] # "insert" /\ task[q][l] # "insert"
  BY <1>1 DEF RangeInv, RangeTypes
<1> QED
  BY <1>1, <1>2, <1>3, TaskKeeps DEF RangeInv, RangeTypes

LEMMA GetKeeps ==
  ASSUME RangeInv, NEW p \in Syncs, NEW l \in Lists, GetEntry(p, l) \/ Fetch(p, l)
  PROVE  RangeInv'
<1>1. /\ task[p][l] # "insert"
      /\ \E step \in TaskSteps \ {"insert"} : task' = [task EXCEPT ![p][l] = step]
      /\ \E S \in SUBSET Ranges : got' = [got EXCEPT ![p][l] = S]
      /\ UNCHANGED <<copies, left, lone, dirty, synced, changes>>
  <2>1. CASE GetEntry(p, l)
    <3>1. got' = [got EXCEPT ![p][l] = got[p][l]] /\ got[p][l] \in SUBSET Ranges
      BY <2>1 DEF GetEntry, RangeInv, RangeTypes
    <3> QED
      BY <2>1, <3>1 DEF GetEntry, Goto, SyncFrame, TaskSteps
  <2>2. CASE Fetch(p, l)
    BY <2>2 DEF Fetch, Goto, SyncFrame, TaskSteps
  <2> QED
    BY <2>1, <2>2
<1>2. /\ task' \in [Syncs -> [Lists -> TaskSteps]]
      /\ got' \in [Syncs -> [Lists -> SUBSET Ranges]]
  BY <1>1 DEF RangeInv, RangeTypes
<1>3. ASSUME NEW q \in Syncs, NEW k \in Lists
      PROVE  \/ task'[q][k] = task[q][k] /\ got'[q][k] = got[q][k]
             \/ task'[q][k] # "insert" /\ task[q][k] # "insert"
  BY <1>1 DEF RangeInv, RangeTypes
<1> QED
  BY <1>1, <1>2, <1>3, TaskKeeps DEF RangeInv, RangeTypes

\* What the item tables' writers leave alone.
LEMMA ItemFrame ==
  ASSUME \/ \E a \in Admins, x \in Items : AdminStep(a, x)
         \/ \E x \in Items : CliStep(x)
  PROVE  UNCHANGED <<copies, listVars, syncVars>> /\ changes' = changes + 1
BY AdminStatement, CliStatement DEF AdminBan, AdminUnban, CliFrame, Change

LEMMA CacheFrame ==
  ASSUME \/ \E a \in Admins : InvalidateItems(a) \/ AdminDropped(a)
         \/ \E t \in Tables : CheckItem(t) \/ ListLapses(t)
         \/ Restart
         \/ UNCHANGED vars
  PROVE  UNCHANGED <<copies, listVars, syncVars, changes>>
BY DEF InvalidateItems, AdminDropped, CheckItem, ListLapses, Restart, vars

LEMMA RangeStep == RangeInv /\ [Next]_vars => RangeInv'
<1> SUFFICES ASSUME RangeInv, [Next]_vars PROVE RangeInv'
  OBVIOUS
<1>1. ASSUME NEW r \in Rows, AddBannedIp(r) \/ RemoveBannedIp(r) \/ BanIp(r)
      PROVE  RangeInv'
  <2>1. (InsertRow(r) \/ RemoveRow(r)) /\ Change(MaxChanges) /\ RangeFrame
    BY <1>1 DEF AddBannedIp, RemoveBannedIp, BanIp
  <2> QED
    BY <2>1, RowKeeps
<1>2. CASE \/ \E a \in Admins, x \in Items : AdminStep(a, x)
           \/ \E x \in Items : CliStep(x)
  BY <1>2, ItemFrame, OtherKeeps
<1>3. CASE \/ \E a \in Admins : InvalidateItems(a) \/ AdminDropped(a)
           \/ \E t \in Tables : CheckItem(t) \/ ListLapses(t)
           \/ Restart
           \/ UNCHANGED vars
  BY <1>3, CacheFrame, OtherKeeps
<1>4. ASSUME NEW l \in Lists, AddList(l) \/ RemoveList(l) \/ Elapse(l) PROVE RangeInv'
  BY <1>4, OtherKeeps DEF AddList, RemoveList, Elapse, ListFrame, Change
<1>5. ASSUME NEW p \in Syncs, StartSync(p) \/ Killed(p) PROVE RangeInv'
  <2>1. ASSUME Killed(p) PROVE Abandon(p, Lists) /\ UNCHANGED <<copies, dirty, synced>>
    BY <2>1 DEF Killed
  <2> QED
    BY <1>5, <2>1, StartKeeps, AbandonKeeps
<1>6. ASSUME NEW p \in Syncs, NEW l \in Lists, SyncStep(p, l) \/ SyncFails(p, l)
      PROVE  RangeInv'
  <2>1. CASE SyncFails(p, l)
    <3>1. Abandon(p, {l}) /\ UNCHANGED <<copies, dirty, synced>>
      BY <2>1 DEF SyncFails
    <3> QED
      BY <3>1, AbandonKeeps
  <2>2. CASE SyncStep(p, l)
    BY <2>2, GetKeeps, DeleteKeeps, InsertNextKeeps, StampKeeps DEF SyncStep
  <2> QED
    BY <1>6, <2>1, <2>2
<1> QED
  BY <1>1, <1>2, <1>3, <1>4, <1>5, <1>6 DEF Next, AdminStep, CliStep

\* After a synchronisation that nobody else's writes came between, the list's
\* rows are exactly the fetched ranges.
THEOREM SyncIsExact == Spec => []SyncedExact
<1>1. RangeInv => SyncedExact
  BY DEF RangeInv, CleanExact, Holds, SyncedExact
<1> QED
  BY <1>1, RangeInit, RangeStep, PTL DEF Spec

\* However many synchronisations overlap and fail, each leaves a range once.
THEOREM RowsDoNotPileUp == Spec => []CopiesBound
<1>1. RangeInv => CopiesBound
  <2> SUFFICES ASSUME RangeInv, NEW r \in Rows, r.list # NoList
               PROVE  copies[r] <= Cardinality(Syncs) + MaxChanges
    BY DEF CopiesBound
  <2>1. Syncs \ Pending(r) \in SUBSET Syncs
    OBVIOUS
  <2>2. /\ Cardinality(Syncs \ Pending(r)) <= Cardinality(Syncs)
        /\ Cardinality(Syncs \ Pending(r)) \in Nat /\ Cardinality(Syncs) \in Nat
    BY <2>1, BansBounds, FS_Subset, FS_CardinalityType
  <2>3. Added \in Nat /\ MaxChanges \in Nat /\ Added <= MaxChanges
    <3>1. changes \in Nat /\ MaxChanges \in Nat
      BY BansBounds DEF RangeInv, RangeTypes
    <3> QED
      BY <3>1 DEF Added
  <2>4. copies[r] \in Nat /\ copies[r] <= Cardinality(Syncs \ Pending(r)) + Added
    BY DEF RangeInv, RangeTypes, PendingBound
  <2> QED
    BY <2>2, <2>3, <2>4
<1> QED
  BY <1>1, RangeInit, RangeStep, PTL DEF Spec

-----------------------------------------------------------------------------
(* The entries, and the type invariant.                                    *)

EntryTypes ==
  /\ lists \in [Lists -> {"new", "present", "removed"}]
  /\ due \in [Lists -> BOOLEAN]
  /\ faults \in Nat

LEMMA EntryStep == EntryTypes /\ [Next]_vars => EntryTypes'
<1> SUFFICES ASSUME EntryTypes, [Next]_vars PROVE EntryTypes'
  OBVIOUS
<1>1. ASSUME UNCHANGED <<listVars, faults>> PROVE EntryTypes'
  BY <1>1 DEF EntryTypes, listVars
<1>2. ASSUME NEW r \in Rows, AddBannedIp(r) \/ RemoveBannedIp(r) \/ BanIp(r)
      PROVE  UNCHANGED <<listVars, faults>>
  BY <1>2 DEF AddBannedIp, RemoveBannedIp, BanIp, RangeFrame
<1>3. CASE \/ \E a \in Admins, x \in Items : AdminStep(a, x)
           \/ \E x \in Items : CliStep(x)
  BY <1>1, <1>3, ItemFrame DEF syncVars
<1>4. CASE \/ \E a \in Admins : InvalidateItems(a) \/ AdminDropped(a)
           \/ \E t \in Tables : CheckItem(t) \/ ListLapses(t)
           \/ Restart
           \/ UNCHANGED vars
  BY <1>1, <1>4, CacheFrame DEF syncVars
<1>5. ASSUME NEW l \in Lists, AddList(l) \/ RemoveList(l) \/ Elapse(l) PROVE EntryTypes'
  <2>1. faults' = faults
    BY <1>5 DEF AddList, RemoveList, Elapse, ListFrame, syncVars
  <2> QED
    BY <1>5, <2>1 DEF AddList, RemoveList, Elapse, EntryTypes
<1>6. ASSUME NEW p \in Syncs, StartSync(p) \/ Killed(p) PROVE EntryTypes'
  BY <1>6 DEF StartSync, Killed, Abandon, SyncFrame, EntryTypes
<1>7. ASSUME NEW p \in Syncs, NEW l \in Lists, SyncStep(p, l) \/ SyncFails(p, l)
      PROVE  EntryTypes'
  <2>1. ASSUME SyncFails(p, l) PROVE EntryTypes'
    BY <2>1 DEF SyncFails, Abandon, SyncFrame, EntryTypes
  <2>2. ASSUME Stamp(p, l) PROVE EntryTypes'
    BY <2>2 DEF Stamp, SyncFrame, EntryTypes
  <2>3. ASSUME \/ GetEntry(p, l) \/ Fetch(p, l) \/ DeleteOld(p, l)
               \/ \E g \in Ranges : InsertNext(p, l, g)
        PROVE  UNCHANGED <<listVars, faults>>
    BY <2>3 DEF GetEntry, Fetch, DeleteOld, InsertNext, SyncFrame, listVars
  <2> QED
    BY <1>1, <1>7, <2>1, <2>2, <2>3 DEF SyncStep
<1> QED
  BY <1>1, <1>2, <1>3, <1>4, <1>5, <1>6, <1>7 DEF Next, AdminStep, CliStep

-----------------------------------------------------------------------------
(* Lists that are not due.                                                 *)

\* Of a list that is not mixed: if it is not due, no task inserts and its rows are
\* those of the last stamp; a task that inserts is the only one, and the rows are
\* those it has inserted.
WholeInv ==
  /\ mixed \in [Lists -> BOOLEAN]
  /\ \A l \in Lists : ~mixed[l] /\ ~due[l] =>
       Holds(l, synced[l]) /\ \A q \in Syncs : task[q][l] # "insert"
  /\ \A q \in Syncs, l \in Lists : ~mixed[l] /\ task[q][l] = "insert" =>
       /\ left[q][l] \subseteq got[q][l] /\ Holds(l, got[q][l] \ left[q][l])
       /\ \A p \in Syncs : task[p][l] = "insert" => p = q

LEMMA WholeInit == Init => WholeInv
BY DEF Init, WholeInv

\* Steps that leave the rows alone, and of the tasks change those which do not
\* insert or end them; a list may become due.
LEMMA WholeFrame ==
  ASSUME WholeInv, UNCHANGED <<copies, synced, mixed>>,
         \A l \in Lists : ~due'[l] => ~due[l],
         \A q \in Syncs, l \in Lists : task'[q][l] = "insert" =>
           /\ task[q][l] = "insert"
           /\ got'[q][l] = got[q][l] /\ left'[q][l] = left[q][l]
  PROVE  WholeInv'
BY DEF WholeInv, Holds

LEMMA WholeRow ==
  ASSUME RangeInv, WholeInv, NEW r \in Rows, InsertRow(r) \/ RemoveRow(r), RangeFrame
  PROVE  WholeInv'
<1>1. /\ UNCHANGED <<due, task, got, left, synced>>
      /\ mixed' = [m \in Lists |-> mixed[m] \/ m = r.list]
  BY DEF RangeFrame, listVars, InsertRow, RemoveRow, Disturb
<1>2. \A q \in Rows : q # r => copies'[q] = copies[q]
  BY DEF InsertRow, RemoveRow, RangeInv, RangeTypes
<1>3. \A l \in Lists : ~mixed'[l] =>
        ~mixed[l] /\ \A q \in Rows : q.list = l => copies'[q] = copies[q]
  BY <1>1, <1>2
<1>4. mixed' \in [Lists -> BOOLEAN]
  BY <1>1 DEF WholeInv
<1> QED
  BY <1>1, <1>3, <1>4 DEF WholeInv, Holds

LEMMA WholeDelete ==
  ASSUME RangeInv, WholeInv, NEW p \in Syncs, NEW l \in Lists, DeleteOld(p, l)
  PROVE  WholeInv'
<1>1. /\ copies' = [r \in Rows |-> IF r.list = l THEN 0 ELSE copies[r]]
      /\ left' = [left EXCEPT ![p][l] = got[p][l]]
      /\ mixed' = [mixed EXCEPT ![l] =
                     ~due[l] \/ \E q \in Syncs \ {p} : task[q][l] = "insert"]
      /\ task' = [task EXCEPT ![p][l] = "insert"]
      /\ UNCHANGED <<due, got, synced>>
  BY DEF DeleteOld, Goto, SyncFrame
<1>2. /\ mixed' \in [Lists -> BOOLEAN]
      /\ ~mixed'[l] => due[l] /\ \A q \in Syncs \ {p} : task[q][l] # "insert"
      /\ \A k \in Lists : k # l => mixed'[k] = mixed[k]
  BY <1>1 DEF WholeInv
<1>3. /\ left'[p][l] = got[p][l] /\ task'[p][l] = "insert"
      /\ \A q \in Syncs, k \in Lists : q # p \/ k # l =>
           task'[q][k] = task[q][k] /\ left'[q][k] = left[q][k]
  BY <1>1 DEF RangeInv, RangeTypes
<1>4. \A k \in Lists, S \in SUBSET Ranges : k # l /\ Holds(k, S) => Holds(k, S)'
  BY <1>1 DEF Holds
<1>5. Holds(l, {})'
  BY <1>1 DEF Holds
<1>6. ASSUME NEW k \in Lists, ~mixed'[k], ~due'[k]
      PROVE  Holds(k, synced[k])' /\ \A q \in Syncs : task'[q][k] # "insert"
  <2>1. k # l /\ ~mixed[k] /\ ~due[k]
    BY <1>1, <1>2, <1>6
  <2>2. Holds(k, synced[k]) /\ \A q \in Syncs : task[q][k] # "insert"
    BY <2>1 DEF WholeInv
  <2> QED
    BY <1>1, <1>3, <2>1, <2>2 DEF Holds
<1>7. ASSUME NEW q \in Syncs, NEW k \in Lists, ~mixed'[k], task'[q][k] = "insert"
      PROVE  /\ left'[q][k] \subseteq got'[q][k] /\ Holds(k, got[q][k] \ left[q][k])'
             /\ \A s \in Syncs : task'[s][k] = "insert" => s = q
  <2>1. CASE k = l
    <3>1. q = p /\ \A s \in Syncs : task'[s][k] = "insert" => s = q
      BY <1>2, <1>3, <1>7, <2>1
    <3>2. left'[q][k] = got'[q][k] /\ got'[q][k] \ left'[q][k] = {}
      BY <1>1, <1>3, <2>1, <3>1
    <3> QED
      BY <1>5, <2>1, <3>1, <3>2 DEF Holds
  <2>2. CASE k # l
    <3>1. /\ task[q][k] = "insert" /\ ~mixed[k]
          /\ left'[q][k] = left[q][k] /\ got'[q][k] = got[q][k]
      BY <1>1, <1>2, <1>3, <1>7, <2>2
    <3>2. /\ left[q][k] \subseteq got[q][k] /\ Holds(k, got[q][k] \ left[q][k])
          /\ \A s \in Syncs : task[s][k] = "insert" => s = q
      BY <3>1 DEF WholeInv
    <3>3. \A s \in Syncs : task'[s][k] = task[s][k]
      BY <1>3, <2>2
    <3> QED
      BY <1>1, <2>2, <3>1, <3>2, <3>3 DEF Holds
  <2> QED
    BY <2>1, <2>2
<1> QED
  BY <1>2, <1>6, <1>7 DEF WholeInv

LEMMA WholeInsert ==
  ASSUME RangeInv, WholeInv, NEW p \in Syncs, NEW l \in Lists, NEW g \in Ranges,
         InsertNext(p, l, g)
  PROVE  WholeInv'
<1> DEFINE row == [range |-> g, list |-> l, type |-> ListType[l]]
<1>1. /\ task[p][l] = "insert" /\ g \in left[p][l]
      /\ copies' = [copies EXCEPT ![row] = @ + 1]
      /\ left' = [left EXCEPT ![p][l] = @ \ {g}]
      /\ mixed' = [m \in Lists |-> mixed[m] \/ (m = l /\ {p} = {})]
      /\ UNCHANGED <<due, task, got, synced>>
  BY DEF InsertNext, Disturb, SyncFrame
<1>2. row \in Rows /\ row.list = l
  BY RowFields
<1>3. \A r \in Rows : r # row <=> ~(r.range = g /\ r.list = l /\ r.type = ListType[l])
  BY DEF Rows
<1> HIDE DEF row
<1>4. /\ copies'[row] = copies[row] + 1
      /\ \A r \in Rows : r # row => copies'[r] = copies[r]
  BY <1>1, <1>2 DEF RangeInv, RangeTypes
<1>5. /\ left'[p][l] = left[p][l] \ {g}
      /\ \A q \in Syncs, k \in Lists : q # p \/ k # l => left'[q][k] = left[q][k]
  BY <1>1 DEF RangeInv, RangeTypes
<1>6. mixed' = mixed
  BY <1>1 DEF WholeInv
<1>7. ASSUME NEW k \in Lists, ~mixed'[k], ~due'[k]
      PROVE  Holds(k, synced[k])' /\ \A q \in Syncs : task'[q][k] # "insert"
  <2>1. Holds(k, synced[k]) /\ \A q \in Syncs : task[q][k] # "insert"
    BY <1>1, <1>6, <1>7 DEF WholeInv
  <2>2. k # l
    BY <1>1, <2>1
  <2>3. \A r \in Rows : r.list = k => copies'[r] = copies[r]
    BY <1>2, <1>4, <2>2
  <2> QED
    BY <1>1, <2>1, <2>3 DEF Holds
<1>8. ASSUME NEW q \in Syncs, NEW k \in Lists, ~mixed'[k], task'[q][k] = "insert"
      PROVE  /\ left'[q][k] \subseteq got'[q][k] /\ Holds(k, got[q][k] \ left[q][k])'
             /\ \A s \in Syncs : task'[s][k] = "insert" => s = q
  <2>1. /\ left[q][k] \subseteq got[q][k] /\ Holds(k, got[q][k] \ left[q][k])
        /\ \A s \in Syncs : task[s][k] = "insert" => s = q
    BY <1>1, <1>6, <1>8 DEF WholeInv
  <2>2. CASE k # l
    <3>1. left'[q][k] = left[q][k] /\ \A r \in Rows : r.list = k => copies'[r] = copies[r]
      BY <1>2, <1>4, <1>5, <2>2
    <3> QED
      BY <1>1, <2>1, <3>1 DEF Holds
  <2>3. CASE k = l
    <3>1. q = p /\ left'[q][k] = left[q][k] \ {g} /\ g \in left[q][k]
      BY <1>1, <1>5, <2>1, <2>3
    <3>2. got'[q][k] \ left'[q][k] = (got[q][k] \ left[q][k]) \union {g}
      BY <1>1, <2>1, <3>1
    <3>3. copies[row] = 0
      BY <1>2, <1>3, <2>1, <2>3, <3>1 DEF Holds
    <3>4. ASSUME NEW r \in Rows, r.list = k
          PROVE  copies'[r] = IF r.range \in (got[q][k] \ left[q][k]) \union {g}
                                 /\ r.type = ListType[k] THEN 1 ELSE 0
      <4>1. CASE r = row
        BY <1>2, <1>3, <1>4, <2>3, <3>3, <4>1
      <4>2. CASE r # row
        BY <1>3, <1>4, <2>1, <2>3, <3>4, <4>2 DEF Holds
      <4> QED
        BY <4>1, <4>2
    <3> QED
      BY <1>1, <2>1, <3>1, <3>2, <3>4 DEF Holds
  <2> QED
    BY <2>2, <2>3
<1> QED
  BY <1>6, <1>7, <1>8 DEF WholeInv

LEMMA WholeStamp ==
  ASSUME RangeInv, EntryTypes, WholeInv, NEW p \in Syncs, NEW l \in Lists, Stamp(p, l)
  PROVE  WholeInv'
<1>1. /\ task[p][l] = "insert" /\ left[p][l] = {}
      /\ due' = [due EXCEPT ![l] = FALSE]
      /\ synced' = [synced EXCEPT ![l] = got[p][l]]
      /\ got' = [got EXCEPT ![p][l] = {}]
      /\ task' = [task EXCEPT ![p][l] = "none"]
      /\ UNCHANGED <<copies, left, mixed>>
  BY DEF Stamp, Goto, SyncFrame
<1>2. /\ task'[p][l] = "none"
      /\ \A q \in Syncs, k \in Lists : q # p \/ k # l =>
           task'[q][k] = task[q][k] /\ got'[q][k] = got[q][k]
  BY <1>1 DEF RangeInv, RangeTypes
<1>3. /\ synced'[l] = got[p][l]
      /\ \A k \in Lists : k # l => due'[k] = due[k] /\ synced'[k] = synced[k]
  BY <1>1 DEF RangeInv, RangeTypes, EntryTypes
<1>4. ASSUME NEW k \in Lists, ~mixed'[k], ~due'[k]
      PROVE  Holds(k, synced[k])' /\ \A q \in Syncs : task'[q][k] # "insert"
  <2>1. CASE k = l
    <3>1. /\ Holds(l, got[p][l] \ left[p][l])
          /\ \A q \in Syncs : task[q][l] = "insert" => q = p
      BY <1>1, <1>4, <2>1 DEF WholeInv
    <3>2. got[p][l] \ left[p][l] = synced'[l]
      BY <1>1, <1>3
    <3> QED
      BY <1>1, <1>2, <2>1, <3>1, <3>2 DEF Holds
  <2>2. CASE k # l
    <3>1. Holds(k, synced[k]) /\ \A q \in Syncs : task[q][k] # "insert"
      BY <1>1, <1>3, <1>4, <2>2 DEF WholeInv
    <3> QED
      BY <1>1, <1>2, <1>3, <2>2, <3>1 DEF Holds
  <2> QED
    BY <2>1, <2>2
<1>5. \A q \in Syncs, k \in Lists : task'[q][k] = "insert" =>
        task[q][k] = "insert" /\ got'[q][k] = got[q][k] /\ left'[q][k] = left[q][k]
  BY <1>1, <1>2
<1>6. ASSUME NEW q \in Syncs, NEW k \in Lists, ~mixed'[k], task'[q][k] = "insert"
      PROVE  /\ left'[q][k] \subseteq got'[q][k] /\ Holds(k, got[q][k] \ left[q][k])'
             /\ \A s \in Syncs : task'[s][k] = "insert" => s = q
  BY <1>1, <1>5, <1>6 DEF WholeInv, Holds
<1> QED
  BY <1>1, <1>4, <1>6 DEF WholeInv

LEMMA WholeStep == RangeInv /\ EntryTypes /\ WholeInv /\ [Next]_vars => WholeInv'
<1> SUFFICES ASSUME RangeInv, EntryTypes, WholeInv, [Next]_vars PROVE WholeInv'
  OBVIOUS
<1>1. ASSUME NEW r \in Rows, AddBannedIp(r) \/ RemoveBannedIp(r) \/ BanIp(r)
      PROVE  WholeInv'
  BY <1>1, WholeRow DEF AddBannedIp, RemoveBannedIp, BanIp
<1>2. CASE UNCHANGED <<copies, listVars, syncVars>>
  BY <1>2, WholeFrame DEF listVars, syncVars
<1>3. ASSUME NEW l \in Lists, AddList(l) \/ RemoveList(l) \/ Elapse(l) PROVE WholeInv'
  <2>1. \A k \in Lists : ~due'[k] => ~due[k]
    BY <1>3 DEF AddList, RemoveList, Elapse, EntryTypes
  <2>2. UNCHANGED <<copies, syncVars>>
    BY <1>3 DEF AddList, RemoveList, Elapse, ListFrame
  <2> QED
    BY <2>1, <2>2, WholeFrame DEF syncVars
<1>4. ASSUME NEW p \in Syncs, NEW S \in SUBSET Lists, Abandon(p, S),
             UNCHANGED <<copies, due, synced>>
      PROVE  WholeInv'
  <2>1. UNCHANGED mixed
    BY <1>4 DEF Abandon
  <2>2. ASSUME NEW q \in Syncs, NEW k \in Lists, task'[q][k] = "insert"
        PROVE  /\ task[q][k] = "insert"
               /\ got'[q][k] = got[q][k] /\ left'[q][k] = left[q][k]
    <3>1. ~(q = p /\ k \in S)
      BY <1>4, <2>2 DEF Abandon, RangeInv, RangeTypes
    <3> QED
      BY <1>4, <2>2, <3>1 DEF Abandon, RangeInv, RangeTypes
  <2> QED
    BY <1>4, <2>1, <2>2, WholeFrame
<1>5. ASSUME NEW p \in Syncs, StartSync(p) PROVE WholeInv'
  BY <1>5, WholeFrame DEF StartSync, RangeInv, RangeTypes
<1>6. ASSUME NEW p \in Syncs, NEW l \in Lists, GetEntry(p, l) \/ Fetch(p, l)
      PROVE  WholeInv'
  <2>1. /\ \E step \in TaskSteps \ {"insert"} : task' = [task EXCEPT ![p][l] = step]
        /\ \E S : got' = [got EXCEPT ![p][l] = S]
        /\ UNCHANGED <<copies, due, left, synced, mixed>>
    <3>1. got = [got EXCEPT ![p][l] = got[p][l]]
      BY DEF RangeInv, RangeTypes
    <3> QED
      BY <1>6, <3>1 DEF GetEntry, Fetch, Goto, TaskSteps
  <2>2. ASSUME NEW q \in Syncs, NEW k \in Lists, task'[q][k] = "insert"
        PROVE  task[q][k] = "insert" /\ got'[q][k] = got[q][k] /\ left'[q][k] = left[q][k]
    <3>1. q # p \/ k # l
      BY <2>1, <2>2 DEF RangeInv, RangeTypes
    <3> QED
      BY <2>1, <2>2, <3>1 DEF RangeInv, RangeTypes
  <2> QED
    BY <2>1, <2>2, WholeFrame
<1>7. ASSUME NEW p \in Syncs, NEW l \in Lists, SyncStep(p, l) \/ SyncFails(p, l)
      PROVE  WholeInv'
  <2>1. CASE SyncFails(p, l)
    BY <1>4, <2>1 DEF SyncFails
  <2>2. CASE SyncStep(p, l)
    BY <1>6, <2>2, WholeDelete, WholeInsert, WholeStamp DEF SyncStep
  <2> QED
    BY <1>7, <2>1, <2>2
<1>8. ASSUME NEW p \in Syncs, Killed(p) PROVE WholeInv'
  BY <1>4, <1>8 DEF Killed
<1>9. CASE \/ \E a \in Admins, x \in Items : AdminStep(a, x)
           \/ \E x \in Items : CliStep(x)
  BY <1>2, <1>9, ItemFrame
<1>10. CASE \/ \E a \in Admins : InvalidateItems(a) \/ AdminDropped(a)
            \/ \E t \in Tables : CheckItem(t) \/ ListLapses(t)
            \/ Restart
            \/ UNCHANGED vars
  BY <1>2, <1>10, CacheFrame
<1> QED
  BY <1>1, <1>3, <1>5, <1>7, <1>8, <1>9, <1>10 DEF Next, AdminStep, CliStep

\* A list that is not due holds the ranges of its last stamped synchronisation,
\* so one that failed half way is still due, unless rows were written by hand or
\* a synchronisation deleted them beside another's insertions or stamp.
THEOREM UpToDateListsAreWhole == Spec => []UpToDateIsWhole
<1>1. WholeInv => UpToDateIsWhole
  BY DEF WholeInv, Holds, UpToDateIsWhole
<1>2. Init => EntryTypes
  BY DEF Init, EntryTypes
<1> QED
  BY <1>1, <1>2, EntryStep, RangeInit, RangeStep, WholeInit, WholeStep, PTL DEF Spec

\* The model is well typed.
THEOREM BansTyped == Spec => []TypeOK
<1>1. Init => EntryTypes
  BY DEF Init, EntryTypes
<1>2. ItemInv /\ RangeInv /\ EntryTypes /\ WholeInv => TypeOK
  BY DEF ItemInv, ItemTypes, RangeInv, RangeTypes, EntryTypes, WholeInv, TypeOK
<1> QED
  BY <1>1, <1>2, EntryStep, ItemInit, ItemStep, RangeInit, RangeStep, WholeInit, WholeStep,
     PTL DEF Spec

=============================================================================
