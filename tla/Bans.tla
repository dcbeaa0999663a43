-------------------------------- MODULE Bans --------------------------------
(***************************************************************************)
(* The ban tables and everything that writes them: the admin API           *)
(* (admin.rs), the command line (cli.rs), and the synchronisation of       *)
(* blacklists (sync.rs), which runs in command-line processes of its own   *)
(* and may overlap with another.  The server answers from BanCache         *)
(* (ban_cache.rs), which only its own admin handlers invalidate.           *)
(*                                                                         *)
(* A range is an entry of a list; one that a list names twice, and that    *)
(* is therefore inserted twice, is two of them.  Rows are counted,         *)
(* not numbered: removing one by its id removes one of those that are      *)
(* alike.  A lookup that refills a cache entry is one step, and an entry   *)
(* lapses at any time; TtlCache models that lookup in detail.              *)
(***************************************************************************)
EXTENDS Naturals, FiniteSets

CONSTANTS
  Ranges,     \* the ranges of addresses that are banned
  Lists,      \* the ids of blacklist entries
  NoList,     \* blacklist_id IS NULL
  ListType,   \* the type of each entry
  Syncs,      \* processes that run `blacklist sync`
  Items,      \* file names, mime types, hashes and user agents, as typed
  Lower,      \* an item in lower case
  Collate,    \* what a text column compares: less than the case of an item
  Cut,        \* what a column of 255 characters keeps of it
  Regex,      \* the file names that an item matches, if it is a regex
  Parts,      \* the texts that occur in an item
  Hashes,     \* the items that are 32 bytes of hex
  Admins,     \* admin requests that are handled at a time
  MaxChanges, \* bound on the changes of ranges and of blacklist entries
  MaxItemChanges, \* bound on the changes of items
  MaxFaults   \* bound on failures of synchronisations

Types == {1, 2}  \* BanType: ReadOnly, Full
Tables == {"filenames", "mimes", "hashes", "agents"}

ASSUME ListsAssumption == NoList \notin Lists /\ ListType \in [Lists -> Types]
ASSUME ItemsAssumption ==
  /\ Lower \in [Items -> Items] /\ Collate \in [Items -> Items]
  /\ Cut \in [Items -> Items] /\ Parts \in [Items -> SUBSET Items]
  /\ DOMAIN Regex \subseteq Items /\ Regex \in [DOMAIN Regex -> SUBSET Items]
  /\ \A x \in Items : Lower[Lower[x]] = Lower[x]
  /\ \A x \in Items : Lower[x] = x => Lower[Cut[x]] = Cut[x]
ASSUME BansBounds ==
  /\ MaxChanges \in Nat /\ MaxItemChanges \in Nat /\ MaxFaults \in Nat
  /\ IsFiniteSet(Syncs)

Rows == [range : Ranges, list : Lists \union {NoList}, type : Types]
Handled == [does : {"add", "remove"}, table : Tables, item : Items]
Idle == [does |-> "nothing"]

VARIABLES
  copies,   \* banned_ip_ranges: how many rows there are of each kind
  lists,    \* blacklist: "new", "present" or "removed"
  due,      \* whether update_interval_seconds have passed since last_update
  task,     \* how far sync_blacklist is, by process and list
  got,      \* the ranges it fetched
  left,     \* those it has yet to insert
  table,    \* the other ban tables
  cached,   \* the tables whose list is in its cache
  cache,    \* and the lists
  admin,    \* what each admin handler has written and not yet invalidated
  changes,  \* changes so far
  faults,   \* failures so far
  owed,     \* history: the keys of bans that were answered and not removed
  lone,     \* history: no one else wrote the list's rows since the deletion
  dirty,    \* history: the rows are not those of one undisturbed sync
  synced,   \* history: the ranges of the last sync that was stamped
  mixed     \* history: the rows are not the work of one sync of a due list

syncVars == <<task, got, left, faults, lone, dirty, synced, mixed>>
itemVars == <<table, cached, cache, owed>>
listVars == <<lists, due>>
vars == <<copies, itemVars, listVars, syncVars, admin, changes>>

TaskSteps == {"none", "get", "fetch", "delete", "insert"}

TypeOK ==
  /\ copies \in [Rows -> Nat]
  /\ lists \in [Lists -> {"new", "present", "removed"}]
  /\ due \in [Lists -> BOOLEAN]
  /\ task \in [Syncs -> [Lists -> TaskSteps]]
  /\ got \in [Syncs -> [Lists -> SUBSET Ranges]]
  /\ left \in [Syncs -> [Lists -> SUBSET Ranges]]
  /\ table \in [Tables -> SUBSET Items]
  /\ cached \in SUBSET Tables
  /\ cache \in [Tables -> SUBSET Items]
  /\ admin \in [Admins -> Handled \union {Idle}]
  /\ changes \in Nat /\ faults \in Nat
  /\ owed \in SUBSET (Tables \X Items)
  /\ lone \in [Syncs -> [Lists -> BOOLEAN]]
  /\ dirty \in [Lists -> BOOLEAN]
  /\ synced \in [Lists -> SUBSET Ranges]
  /\ mixed \in [Lists -> BOOLEAN]

Init ==
  /\ copies = [r \in Rows |-> 0]
  /\ lists \in [Lists -> {"new", "present"}]
  /\ due = [l \in Lists |-> TRUE]
  /\ task = [p \in Syncs |-> [l \in Lists |-> "none"]]
  /\ got = [p \in Syncs |-> [l \in Lists |-> {}]]
  /\ left = [p \in Syncs |-> [l \in Lists |-> {}]]
  /\ table = [t \in Tables |-> {}]
  /\ cached = {}
  /\ cache = [t \in Tables |-> {}]
  /\ admin = [a \in Admins |-> Idle]
  /\ changes = 0 /\ faults = 0
  /\ owed = {}
  /\ lone = [p \in Syncs |-> [l \in Lists |-> FALSE]]
  /\ dirty = [l \in Lists |-> FALSE]
  /\ synced = [l \in Lists |-> {}]
  /\ mixed = [l \in Lists |-> FALSE]

-----------------------------------------------------------------------------
(* Ranges of addresses.                                                    *)

\* A row of a list is written by the syncs in S, or, if there is none, by hand.
Disturb(l, S) ==
  /\ dirty' = [m \in Lists |-> dirty[m] \/ m = l]
  /\ mixed' = [m \in Lists |-> mixed[m] \/ (m = l /\ S = {})]
  /\ lone' = [p \in Syncs |->
                [m \in Lists |-> lone[p][m] /\ (m # l \/ p \in S)]]

\* insert_banned_ip and delete_banned_ip.
InsertRow(r) == copies' = [copies EXCEPT ![r] = @ + 1] /\ Disturb(r.list, {})

\* Mutant: the row is not looked for.
RemoveRowBlind(r) ==
  /\ copies' = [copies EXCEPT ![r] = @ - 1]
  /\ Disturb(r.list, {})
RemoveRow(r) ==
  /\ copies[r] > 0
  /\ copies' = [copies EXCEPT ![r] = @ - 1]
  /\ Disturb(r.list, {})

Change(max) == changes < max /\ changes' = changes + 1
RangeFrame ==
  UNCHANGED <<itemVars, listVars, task, got, left, faults, synced, admin>>

\* add_banned_ip, whose body may name a blacklist, and remove_banned_ip.
AddBannedIp(r) == Change(MaxChanges) /\ InsertRow(r) /\ RangeFrame
RemoveBannedIp(r) == Change(MaxChanges) /\ RemoveRow(r) /\ RangeFrame

\* `ban ip`, which names no blacklist.
BanIp(r) ==
  /\ Change(MaxChanges) /\ RangeFrame
  /\ (r.list = NoList /\ InsertRow(r)) \/ RemoveRow(r)

-----------------------------------------------------------------------------
(* File names, mime types, hashes and user agents.                         *)

\* What the key of a table compares: text by the collation, hashes as bytes.
ItemKey(t, x) == IF t = "hashes" THEN Lower[x] ELSE Collate[x]
SameKey(t, x, y) == ItemKey(t, x) = ItemKey(t, y)

\* What a refill puts into the cache.
LoadFilenames(S) == S \intersect DOMAIN Regex

\* Mutant: patterns are cached as they were typed.
LoadAgentsTyped(S) == S
LoadAgents(S) == {Lower[x] : x \in S}
Loaded(t) ==
  CASE t = "filenames" -> LoadFilenames(table[t])
    [] t = "agents" -> LoadAgents(table[t])
    [] OTHER -> table[t]

\* Whether the cached list refuses an upload with x.
FilenameMatches(S, x) == \E p \in S : x \in Regex[p]
MimeMatches(S, x) == Lower[x] \in S
HashMatches(S, x) == Lower[x] \in S
AgentMatches(S, x) == \E p \in S : p \in Parts[Lower[x]]
Matches(t, S, x) ==
  CASE t = "filenames" -> FilenameMatches(S, x)
    [] t = "mimes" -> MimeMatches(S, x)
    [] t = "hashes" -> HashMatches(S, x)
    [] t = "agents" -> AgentMatches(S, x)

\* What an upload with x is told.
Refused(t, x) == Matches(t, IF t \in cached THEN cache[t] ELSE Loaded(t), x)

\* The statements.  INSERT IGNORE cuts what is too long for the column and drops
\* a row whose key is there, in whatever spelling; DELETE goes by the whole text.
StoredAs(t, x) ==
  CASE t = "hashes" -> Lower[x]
    [] t = "mimes" -> Cut[Lower[x]]
    [] OTHER -> Cut[x]
InsertItem(t, x) ==
  /\ table' = [table EXCEPT ![t] =
       IF \E y \in @ : SameKey(t, StoredAs(t, x), y)
       THEN @ ELSE @ \union {StoredAs(t, x)}]
  /\ UNCHANGED owed
RemoveItem(t, x) ==
  /\ \E y \in table[t] : SameKey(t, x, y)
  /\ table' = [table EXCEPT ![t] = {y \in @ : ~SameKey(t, x, y)}]
  /\ owed' = {o \in owed : o[1] = t => ~SameKey(t, o[2], x)}

\* respond_created and respond_removed: the write, and then what is left to
\* invalidate.
AdminBan(a, t, x) ==
  /\ admin[a] = Idle /\ Change(MaxItemChanges)
  /\ InsertItem(t, x)
  /\ admin' = [admin EXCEPT ![a] =
                 [does |-> "add", table |-> t, item |-> StoredAs(t, x)]]
  /\ UNCHANGED <<copies, cached, cache, listVars, syncVars>>
AdminUnban(a, t, x) ==
  /\ admin[a] = Idle /\ Change(MaxItemChanges)
  /\ RemoveItem(t, x)
  /\ admin' = [admin EXCEPT ![a] = [does |-> "remove", table |-> t, item |-> x]]
  /\ UNCHANGED <<copies, cached, cache, listVars, syncVars>>

AddBannedFilename(a, x) == x \in DOMAIN Regex /\ AdminBan(a, "filenames", x)
RemoveBannedFilename(a, x) == AdminUnban(a, "filenames", x)
AddBannedMime(a, x) == AdminBan(a, "mimes", Lower[x])
RemoveBannedMime(a, x) == AdminUnban(a, "mimes", Lower[x])
AddBannedHash(a, x) == x \in Hashes /\ AdminBan(a, "hashes", x)
RemoveBannedHash(a, x) == x \in Hashes /\ AdminUnban(a, "hashes", x)
AddBannedUserAgent(a, x) == AdminBan(a, "agents", x)
RemoveBannedUserAgent(a, x) == AdminUnban(a, "agents", x)

\* The command line writes, and invalidates nothing.
CliFrame ==
  /\ Change(MaxItemChanges)
  /\ UNCHANGED <<copies, cached, cache, listVars, syncVars, admin>>
BanFilename(x) ==
  /\ \/ x \in DOMAIN Regex /\ InsertItem("filenames", x)
     \/ RemoveItem("filenames", x)
  /\ CliFrame
BanMime(x) == (InsertItem("mimes", x) \/ RemoveItem("mimes", x)) /\ CliFrame
BanHash(x) ==
  /\ x \in Hashes
  /\ InsertItem("hashes", x) \/ RemoveItem("hashes", x)
  /\ CliFrame
BanUserAgent(x) == (InsertItem("agents", x) \/ RemoveItem("agents", x)) /\ CliFrame

\* is_filename_banned, is_mime_banned, is_hash_banned, is_user_agent_banned.
CheckItem(t) ==
  /\ t \notin cached
  /\ cached' = cached \union {t}
  /\ cache' = [cache EXCEPT ![t] = Loaded(t)]
  /\ UNCHANGED <<copies, table, owed, listVars, syncVars, admin, changes>>

ListLapses(t) ==
  /\ t \in cached
  /\ cached' = cached \ {t}
  /\ cache' = [cache EXCEPT ![t] = {}]
  /\ UNCHANGED <<copies, table, owed, listVars, syncVars, admin, changes>>

-----------------------------------------------------------------------------
(* An admin handler invalidates, and answers.                              *)

\* invalidate_filenames, _mimes, _hashes or _user_agents.  A ban that has been
\* removed again in the meantime is not owed.
InvalidateItems(a) ==
  /\ admin[a] # Idle
  /\ LET t == admin[a].table
         k == admin[a].item
     IN /\ cached' = cached \ {t}
        /\ cache' = [cache EXCEPT ![t] = {}]
        /\ owed' = owed \union
             {o \in {<<t, k>>} :
                admin[a].does = "add" /\ \E y \in table[t] : SameKey(t, k, y)}
  /\ admin' = [admin EXCEPT ![a] = Idle]
  /\ UNCHANGED <<copies, table, listVars, syncVars, changes>>

\* The handler is dropped with its connection after its write.
AdminDropped(a) ==
  /\ admin[a] # Idle
  /\ admin' = [admin EXCEPT ![a] = Idle]
  /\ UNCHANGED <<copies, itemVars, listVars, syncVars, changes>>

-----------------------------------------------------------------------------
(* Blacklists.                                                             *)

ListFrame == UNCHANGED <<copies, itemVars, syncVars, admin>>

\* `blacklist add`; ids are not used twice.
AddList(l) ==
  /\ Change(MaxChanges)
  /\ lists[l] = "new"
  /\ lists' = [lists EXCEPT ![l] = "present"]
  /\ UNCHANGED due /\ ListFrame

\* `blacklist remove` leaves the ranges of the list.
RemoveList(l) ==
  /\ Change(MaxChanges)
  /\ lists[l] = "present"
  /\ lists' = [lists EXCEPT ![l] = "removed"]
  /\ UNCHANGED due /\ ListFrame

\* update_interval_seconds have passed.
Elapse(l) ==
  /\ ~due[l]
  /\ due' = [due EXCEPT ![l] = TRUE]
  /\ UNCHANGED <<lists, changes>> /\ ListFrame

Goto(p, l, step) == task' = [task EXCEPT ![p][l] = step]
SyncFrame == UNCHANGED <<itemVars, lists, admin, changes>>

\* Mutant: the lists that are not due are taken.
StartRecent(p) ==
  /\ \A l \in Lists : task[p][l] = "none"
  /\ \E l \in Lists : lists[l] = "present" /\ ~due[l]
  /\ task' = [task EXCEPT ![p] = [l \in Lists |->
       IF lists[l] = "present" /\ ~due[l] THEN "get" ELSE "none"]]
  /\ UNCHANGED <<copies, due, got, left, faults, lone, dirty, synced, mixed>>
  /\ SyncFrame

\* sync_all: the due lists, each then synchronised beside the others.
StartSync(p) ==
  /\ \A l \in Lists : task[p][l] = "none"
  /\ \E l \in Lists : lists[l] = "present" /\ due[l]
  /\ task' = [task EXCEPT ![p] = [l \in Lists |->
       IF lists[l] = "present" /\ due[l] THEN "get" ELSE "none"]]
  /\ UNCHANGED <<copies, due, got, left, faults, lone, dirty, synced, mixed>>
  /\ SyncFrame

\* get_blacklist_by_id; without an entry the task is over.
GetEntry(p, l) ==
  /\ task[p][l] = "get"
  /\ Goto(p, l, IF lists[l] = "present" THEN "fetch" ELSE "none")
  /\ UNCHANGED <<copies, due, got, left, faults, lone, dirty, synced, mixed>>
  /\ SyncFrame

\* fetch_ip_ranges: what the url publishes now.  The status of the answer is
\* not looked at, and an error page is a list without ranges.
Fetch(p, l) ==
  /\ task[p][l] = "fetch"
  /\ \E S \in SUBSET Ranges : got' = [got EXCEPT ![p][l] = S]
  /\ Goto(p, l, "delete")
  /\ UNCHANGED <<copies, due, left, faults, lone, dirty, synced, mixed>>
  /\ SyncFrame

\* Mutant: only the rows that are not on the fetched list are deleted.
DeleteStale(p, l) ==
  /\ task[p][l] = "delete"
  /\ copies' = [r \in Rows |->
       IF r.list = l /\ r.range \notin got[p][l] THEN 0 ELSE copies[r]]
  /\ left' = [left EXCEPT ![p][l] = got[p][l]]
  /\ dirty' = [dirty EXCEPT ![l] = TRUE]
  /\ lone' = [q \in Syncs |-> [lone[q] EXCEPT ![l] = (q = p)]]
  /\ mixed' = [mixed EXCEPT ![l] =
                 ~due[l] \/ \E q \in Syncs \ {p} : task[q][l] = "insert"]
  /\ Goto(p, l, "insert")
  /\ UNCHANGED <<due, got, faults, synced>>
  /\ SyncFrame

\* delete_banned_ips_by_blacklist.
DeleteOld(p, l) ==
  /\ task[p][l] = "delete"
  /\ copies' = [r \in Rows |-> IF r.list = l THEN 0 ELSE copies[r]]
  /\ left' = [left EXCEPT ![p][l] = got[p][l]]
  /\ dirty' = [dirty EXCEPT ![l] = TRUE]
  /\ lone' = [q \in Syncs |-> [lone[q] EXCEPT ![l] = (q = p)]]
  /\ mixed' = [mixed EXCEPT ![l] =
                 ~due[l] \/ \E q \in Syncs \ {p} : task[q][l] = "insert"]
  /\ Goto(p, l, "insert")
  /\ UNCHANGED <<due, got, faults, synced>>
  /\ SyncFrame

\* insert_banned_ip of the next range, with the type of the entry.
InsertNext(p, l, g) ==
  /\ task[p][l] = "insert" /\ g \in left[p][l]
  /\ copies' =
       [copies EXCEPT ![[range |-> g, list |-> l, type |-> ListType[l]]] = @ + 1]
  /\ left' = [left EXCEPT ![p][l] = @ \ {g}]
  /\ Disturb(l, {p})
  /\ UNCHANGED <<due, task, got, faults, synced>>
  /\ SyncFrame

\* UPDATE blacklist SET last_update = NOW().
Stamp(p, l) ==
  /\ task[p][l] = "insert" /\ left[p][l] = {}
  /\ due' = [due EXCEPT ![l] = FALSE]
  /\ dirty' = [dirty EXCEPT ![l] = ~lone[p][l]]
  /\ synced' = [synced EXCEPT ![l] = got[p][l]]
  /\ lone' = [lone EXCEPT ![p][l] = FALSE]
  /\ got' = [got EXCEPT ![p][l] = {}]
  /\ Goto(p, l, "none")
  /\ UNCHANGED <<copies, left, faults, mixed>>
  /\ SyncFrame

\* What tasks S of process p had done stays, what they had not is lost.
Abandon(p, S) ==
  /\ faults < MaxFaults /\ faults' = faults + 1
  /\ task' = [task EXCEPT ![p] = [l \in Lists |-> IF l \in S THEN "none" ELSE @[l]]]
  /\ got' = [got EXCEPT ![p] = [l \in Lists |-> IF l \in S THEN {} ELSE @[l]]]
  /\ left' = [left EXCEPT ![p] = [l \in Lists |-> IF l \in S THEN {} ELSE @[l]]]
  /\ lone' = [lone EXCEPT ![p] = [l \in Lists |-> l \notin S /\ @[l]]]
  /\ UNCHANGED mixed
  /\ SyncFrame

\* Mutant: a failed task is stamped like one that succeeded.
FailStamped(p, l) ==
  /\ task[p][l] # "none"
  /\ Abandon(p, {l})
  /\ due' = [due EXCEPT ![l] = FALSE]
  /\ UNCHANGED <<copies, dirty, synced>>

\* A query or the request fails; sync_all logs it and goes on.
SyncFails(p, l) ==
  /\ task[p][l] # "none"
  /\ Abandon(p, {l})
  /\ UNCHANGED <<copies, due, dirty, synced>>

\* The process is killed.
Killed(p) ==
  /\ \E l \in Lists : task[p][l] # "none"
  /\ Abandon(p, Lists)
  /\ UNCHANGED <<copies, due, dirty, synced>>

\* The server restarts with empty caches.
Restart ==
  /\ cached' = {} /\ cache' = [t \in Tables |-> {}]
  /\ admin' = [a \in Admins |-> Idle]
  /\ UNCHANGED <<copies, table, owed, listVars, syncVars, changes>>

-----------------------------------------------------------------------------
SyncStep(p, l) ==
  \/ GetEntry(p, l) \/ Fetch(p, l) \/ DeleteOld(p, l) \/ Stamp(p, l)
  \/ \E g \in Ranges : InsertNext(p, l, g)

Next ==
  \/ \E r \in Rows : AddBannedIp(r) \/ RemoveBannedIp(r) \/ BanIp(r)
  \/ \E a \in Admins, x \in Items :
       \/ AddBannedFilename(a, x) \/ RemoveBannedFilename(a, x)
       \/ AddBannedMime(a, x) \/ RemoveBannedMime(a, x)
       \/ AddBannedHash(a, x) \/ RemoveBannedHash(a, x)
       \/ AddBannedUserAgent(a, x) \/ RemoveBannedUserAgent(a, x)
  \/ \E a \in Admins : InvalidateItems(a) \/ AdminDropped(a)
  \/ \E x \in Items : BanFilename(x) \/ BanMime(x) \/ BanHash(x) \/ BanUserAgent(x)
  \/ \E t \in Tables : CheckItem(t) \/ ListLapses(t)
  \/ Restart
  \/ \E l \in Lists : AddList(l) \/ RemoveList(l) \/ Elapse(l)
  \/ \E p \in Syncs : StartSync(p) \/ Killed(p)
  \/ \E p \in Syncs, l \in Lists : SyncStep(p, l) \/ SyncFails(p, l)

Spec == Init /\ [][Next]_vars

\* `blacklist sync` is run again and again, and a task that can go on does.
FairSpec ==
  /\ Spec
  /\ \A p \in Syncs : WF_vars(StartSync(p))
  /\ \A p \in Syncs, l \in Lists : WF_vars(SyncStep(p, l))

-----------------------------------------------------------------------------
(* Properties.                                                             *)

\* The items that a row bans: the names its regex matches, the texts equal to it
\* but for case, the user agents it occurs in.
Banned(t, p) ==
  CASE t = "filenames" -> IF p \in DOMAIN Regex THEN Regex[p] ELSE {}
    [] t = "agents" -> {y \in Items : Lower[p] \in Parts[Lower[y]]}
    [] OTHER -> {y \in Items : Lower[y] = Lower[p]}

\* When an admin was told that a ban is in force, a row with its key stands for
\* it, and until someone removes that row every upload it bans is refused,
\* however requests of other admins, the command line, refills and restarts come
\* between (respond_created, BanCache).  It is the first spelling under that key
\* which counts: a later one is dropped, and the request is told the same.
ItemBanEnforced ==
  \A o \in owed :
    \E p \in table[o[1]] :
      SameKey(o[1], o[2], p) /\ \A y \in Banned(o[1], p) : Refused(o[1], y)

\* After a synchronisation that no other writer of the list's rows came
\* between, the rows of the list are the fetched ranges, once each, with the
\* type of the entry (sync_blacklist deletes all before it inserts).
SyncedExact ==
  \A l \in Lists : ~dirty[l] =>
    \A r \in Rows : r.list = l =>
      copies[r] = IF r.range \in synced[l] /\ r.type = ListType[l] THEN 1 ELSE 0

\* However synchronisations of one list overlap and fail, its rows do not pile
\* up: a range is there once for each of them at most, beside the rows that
\* admins have tagged with the list.
CopiesBound ==
  \A r \in Rows : r.list # NoList => copies[r] <= Cardinality(Syncs) + MaxChanges

\* A list that is not due is whole: its rows are the ranges of the last
\* synchronisation that was stamped, once each, with the type of the entry, and so
\* one that failed half way is due.  Excepted are lists whose rows were written by
\* hand, or deleted by a synchronisation that overlapped another's insertions or
\* came after its stamp (sync_blacklist, sync_all).
UpToDateIsWhole ==
  \A l \in Lists : ~due[l] /\ ~mixed[l] =>
    \A r \in Rows : r.list = l =>
      copies[r] = IF r.range \in synced[l] /\ r.type = ListType[l] THEN 1 ELSE 0

\* A list that is due and stays on the table is synchronised, as long as
\* `blacklist sync` is run: a failure of one run or of one list does not keep
\* it from the next.
SyncCompletes ==
  \A l \in Lists : lists[l] = "present" ~> ~due[l] \/ lists[l] = "removed"

=============================================================================
