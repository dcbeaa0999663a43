# A TLA+ model of filehost2

filehost2 is an HTTP file host: clients post files and get links, files expire
the sooner the larger they are, admins and a command line delete and ban,
uploads are scanned by clamd and an nsfw model. It is one actix-web process,
any number of short command-line processes of the same binary, a MySQL database
and a directory of files named by uuid.

This directory models the parts of it where steps of several processes meet,
checks them with TLC and proves the central properties with TLAPS.

## The system

| Component | Source | State | Operations |
|---|---|---|---|
| upload handler | `handlers.rs`, `upload.rs` | a temporary file per posted file | gates (bans, quotas, challenge), multipart reading, `process_file` |
| uploads table and file store | `db.rs`, `upload.rs` | rows with slug, hash, expiry, `deleted_timestamp`; files at `uuid_to_path` | insert, select active, mark deleted; copy, remove |
| downloads | `handlers.rs` `get_file` | - | select the row, open its file, stream it |
| deletion | `db.rs` `delete_matching`, `delete_one` | the rows selected | by id, slug, address, range, expiry; from admin requests, scans and the command line |
| scans | `handlers.rs`, `clamd.rs`, `nsfw.rs` | a background task per upload | verdict, ban of the hash, deletion; nsfw score and suspect mark |
| ban cache | `ban_cache.rs`, `ttl_cache.rs` | maps of (time, value) behind an async RwLock | `get_or_refresh`, `set`, `invalidate` |
| challenge | `challenge.rs`, `pow.rs` | verified and suspect caches, `challenge_verified_ips`, a secret in memory | issue, verify, `needs_challenge` |
| byte throttle | `rate_limit.rs`, `upload.rs` | a token bucket per address behind a mutex | `reserve`, `throttle`, `ThrottledBody::poll_next` |
| quotas | `handlers.rs`, `db.rs` | the rows of the last day | count and bytes before the body is read |
| dedup, rehash | `dedup.rs` | symbolic links between stored files | find pairs, replace by link |
| blacklist sync | `sync.rs` | `blacklist`, `banned_ip_ranges` | fetch, delete old ranges, insert new ones |
| database pool | `db_pool.rs` | connections | check out with a timeout of 30 s |
| addresses | `ip.rs` | - | ranges, quotas by /64, client address behind proxies |

They interact through the database, the directory and the shared caches.
Nothing is done in a transaction that spans two statements, and there is no lock
around any sequence of database and file steps; the only locks are the RwLock of
each cache, held across a query, and the mutex of each throttle. What makes the
code hard to test is therefore the order in which awaits of different tasks and
processes interleave, and what is left behind when one of them fails, is dropped
with its connection, or dies with the server. `PROJECT.json` lists each such
place with the properties that cover it.

## Modules

| Module | What it is |
|---|---|
| `FileHost` | abstract specification: what the holder of a link is promised |
| `UploadStore` | upload handler, table, store, deletions, clamd scans, hash ban cache, downloads, restarts; implements `FileHost` |
| `MCUploadStore` | symmetries for TLC |
| `UploadStoreProofs` | inductive invariant, safety, refinement |
| `AtomicCache` | abstract specification: a cache in which a lookup takes effect in one step |
| `TtlCache` | one `KeyedTtlCache` with its lock, readers, invalidating admin handlers, outside changes; implements `AtomicCache` |
| `MCTtlCache`, `TtlCacheProofs` | symmetries; types, `Freshness`, `OneFetch`, `Staleness`, the refinement proved |
| `Throttle` | the token bucket of one address and its connections |
| `MCThrottle`, `ThrottleProofs` | symmetries; pacing, burst, wait and total bounds proved |
| `Bans` | the ban tables: addresses, names, types, hashes, user agents, with admin API, command line and blacklist syncs as writers |
| `MCBans`, `BansProofs` | instance; bans in force, exactness and growth of lists proved |
| `DedupLinks` | `dedup` and `rehash` over a store with symbolic links, beside uploads and deletions |
| `MCDedupLinks`, `DedupLinksProofs` | symmetries; links lead forward and to the same content and lose nothing, proved |
| `Challenge` | who must solve a challenge: two caches with `set`, proof of work, nsfw marks, restarts |
| `MCChallenge`, `ChallengeProofs` | symmetries; exemption, mark and staleness proved |
| `Address` | `ip.rs` at a small width: ranges, quota ranges, the client behind proxies |
| `ContentTypes` | what type an upload is stored and served as |
| `ClamdStream` | one `scan_file` and the clamd at the other end |
| `Request` | upload and download handlers from the first gate to the row, with `Address` and `ContentTypes` |
| `Intake` | `Request` composed with `ClamdStream` |
| `MCIntake`, `IntakeProofs` | worlds (settings, proxies, bans, files); client, bans, limits, types of content, links and verdicts proved |
| `Sums` | lemmas on sums over finite sets, powers of two and largest elements, for the proofs that count |

Operators whose comment begins with "Mutant" are wrong variants of the operation
that follows them; nothing uses them. `PROJECT.json` names for each property the
variant that TLC must reject when it takes the operation's place.

### UploadStore

A step is what a process does between two awaits that another process can
notice. Uploads are named by the uuid the handler draws. The correspondence:

- `pc`, `slug`, `link`: the handler of each posted file. `Start` enters
  `process_file`; `RefuseByName` is a filename or mime ban; `CheckHash` is
  `is_hash_banned`, through the cache; `Lookup` is the dedup query;
  `AllocateSlug` is `is_slug_taken` on a candidate; `Persist` is the rename of the
  temporary file, `BeginCopy`/`EndCopy` the copy when it lies on another
  filesystem; `InsertRow` is the INSERT with the answer and the start of the
  scan; `LoseInsert` and `HandlerFails` are the failures, dropped requests included.
- `row`, `file`: the table and the directory. A copy in progress is `partial`.
- `job`, `todo`, `doing`: a deletion. `SelectMatching` takes the active rows of
  any set, which stands for every WHERE clause `delete_matching` is called with;
  `RemoveFile` (or `RemoveFails`, only logged) and `MarkDeleted` are the halves
  of `delete_one`; `JobFails` is the `?` that abandons the rest. The job of an
  upload is its clamd task: `Scan`, `BanHash`, `FlushCache`, `SelectScanned`,
  then the same deletion steps.
- `bans`, `cached`, `cache`: `banned_file_hashes` and its entry in the ban cache.
  Here a lookup that refills the cache is one step and the cache lapses at any
  time, as in `AtomicCache`; `TtlCache` is the fine-grained model of that lookup and
  is shown to implement `AtomicCache`: an invalidation cannot slip into a refill.
- `rphase`, `asked`, `picked`, `had`: a download, two steps.
- `Restart` ends everything that lives in the server process. A command-line
  process goes on.
- `torn`, `stuck`, `banned`, `had`, `faults` are history or bounds; no guard of
  the code depends on them, apart from the fault bound.

Abstracted: file contents are their hash; sizes and expiry times become the step
`Expire`; slugs are drawn from a set (build_slug's text is not modelled, the
retry after a taken slug is the choice of another one).

### TtlCache

The database is a counter of changes and a cached value is the count it was
computed from, so that "stale" can be said. `holder` is the write guard kept
across the fetch, `queue` tokio's fair wait queue. A lookup is `Call`,
`ReadLookup`, `WriteLookup`, `ReadDatabase`, `Insert`, or `FetchFails`; a waiting
request can be dropped (`DropGet`, `DropChange`). Admin handlers write and then
invalidate, as `respond_created` and `respond_removed` do; a command-line process
(`ChangeOutside`) only writes. Concurrent readers are one after the other here:
a lookup under the read lock changes nothing but its own answer, so their overlap
cannot be observed.

`AtomicSpec` refines `AtomicCache`. The mapping: from `ReadDatabase` to `Insert` the
value a fetch has read is the copy of its key, otherwise an entry that is fresh is;
a lookup is `asked` until it is answered or has read the database, `found` until
its value is inserted; a changer that waits for the lock is in `telling`. Lapses
by time, by `retain` and by a failed fetch are abstract lapses.

### Throttle

`Pass`, `Hold`, `Release` and `Disconnect` are the outcomes of polling a
`ThrottledBody` and, on the upload side, of `ByteThrottle::throttle` before a chunk
is written. The clock ticks once per byte at the configured rate; a chunk that
became free may be polled later. Addresses have separate buckets, so one address
is modelled; an upload is charged to its /64, a download to its address. The
floating-point arithmetic of the code is modelled by exact integers.

### Bans

- `copies` counts the rows of `banned_ip_ranges` of each kind (range, blacklist,
  type), where a range that a list names twice is two; nothing tells two alike rows apart but the id by which one is removed.
  `AddBannedIp`, `RemoveBannedIp` and `BanIp` are the other writers.
- `task`, `got`, `left`: `sync_blacklist` of a process for a list, one statement
  a step: `StartSync` is `sync_all`'s choice of due lists, then `GetEntry`, `Fetch`,
  `DeleteOld`, one `InsertNext` per range and `Stamp`. `SyncFails` is any error
  (logged; the other lists go on) and `Killed` the end of the process.
- `table`, `cached`, `cache`: the four tables of items with the rules of each:
  what a column keeps (`StoredAs`, which cuts with `Cut` at 255 characters), what
  its key compares (`ItemKey`: bytes of a hash, `Collate` of a text), what a refill
  takes over (`Loaded`: file names only if they compile, user agents in lower
  case) and the comparison (`Matches`). Items are a set; their lower case,
  collation, beginning, parts and, for those that are regexes (`DOMAIN Regex`),
  the names they match are functions on it, so that two regexes may have one key
  and different matches.
- `admin`: what each of the admin requests under way (`Admins`) has written and not
  yet invalidated; `respond_created` and `respond_removed` are two steps
  (`AdminBan` or `AdminUnban`, and `InvalidateItems`), between which other requests
  write and invalidate. `AdminDropped` is a request dropped after its write.
- `owed`, `lone`, `dirty`, `synced`, `mixed` are history: the keys of bans that were
  answered, and which synchronisations had a list's rows to themselves.

### DedupLinks

An upload is its rank in the order (`upload_timestamp`, id); `file` is absent, a
regular file or the upload it links to, and `Opened` follows links as `open(2)`
does. `Query`, `CheckCanonical`, `Canonicalize` (one readlink a step), `CheckDup`,
`ClearTmp`, `LinkTmp`, `RenameTmp`, `NextDup` are the system calls of `dedup`; all
runs share the temporary name of a duplicate (`tmp`). `ReadFile` and `UpdateHash`
are `rehash`. `deletion` says how far the deletion of an upload is: `Select` is
`delete_matching` for any reason, `RemovePath` or `RemoveFails` (only logged) and
`MarkDeleted` are `delete_one`. Which upload of a content is deleted first is left
open: when one expires depends on the settings it was stored under, and the rank
is the database's time of the INSERT.

### Challenge

`row` is `challenge_verified_ips` as ticks to live, `scored` the existence of a
row with a high score in the last week (shared by a quota range), `verified` and
`suspect` the caches with the age of each entry. A lookup holds its cache's
write lock from `Read` to the insertion; `SetVerified` and `MarkSuspect`
(`KeyedTtlCache::set`) wait for it (`Free`). `Upsert` and `SetVerified` are the two
halves of `captcha_verify`. `Restart` loses caches, tokens (the secret), handlers
and scans. `Lag` bounds the ticks a lookup takes and `Ttl` the age of an entry.

### Request, Address, ContentTypes

`Begin` is `extract_ip` and the ban; `CountGate` and `BytesGate` read one limit
each; `Leave` is every other gate, error or disconnect; `ReadForm` the body;
`AllocateSlug` one candidate; `InsertUpload` the row. `GetFile` is a download as
one step, its race with deletion being `UploadStore`'s. What varies without
changing during a run (trusted proxies, bans, files, limits) is a *world*, chosen
in `ReqInit`: how the proxies fill the header is `Header`, what address a socket
shows is `Peer`, and neither is code of the repository. What a world may be is said
by named assumptions: `ProxyAssumption` (as many proxies as `xff_trusted_hops`, the
last of them trusted, which is what the setting means), `WorldAssumption` (clients
have addresses of their family, limits are numbers, a file is at most the largest
size), `FileAssumption` (`infer` finds one signature or none), `LengthAssumption`
(`min_id_length` is not above `max_id_length`, or `clamp` would panic, and
`MAX_SLUG_ATTEMPTS` is not 0; the settings bound the first attempts at a link only) and
`BoundAssumption` (the bounds of the model).

In `Address` an address is a family and a number of `Width` bits with IPv4 as
2^`V4Bits` numbers from `MappedBase`; text is already read, and what is not an
address is `Junk`. `HostMask` keeps the code's own case for a block of every
address. The media type in `ContentTypes` is its two parts; what `mime_guess` and
`file_type` say of a name or a signature belongs to the file.

### ClamdStream and Intake

One action for each call of `scan_file`: `Connect`, `Hello`, `OpenFile`, `Write`
(length and bytes), `EndOfFile`, `WriteClosed` (the errors that
`is_connection_closed` names), `Terminate`, `ReadReply`; `ScanBreaks` is every other
error. clamd reads, answers early or at the end, closes, dies; `Reset` drops an
answer that is under way when data was left unread. `Intake` starts the scan after
the first row and lets a deletion take the file before it is opened.

## What is checked

| Run | Instance | Shows |
|---|---|---|
| `store_service` | 2 uploads of one content, 2 slugs, 1 reader, an admin, a command-line process, 2 faults | `RowHasFile`, `FileHasRow`; `HostSpec`: the refinement of `FileHost` |
| `store_liveness` | 2 infected uploads, scans, ban cache, dedup, a command-line process, 1 fault | `TypeOK`, `NoPassAfterBan`, `InfectedGone`, `ExpiredGone` |
| `store_dedup_race` | 2 uploads of one content, dedup | violation of `DedupSingleCopy` |
| `cache_safety` | 2 keys, 2 requests, an admin handler, 2 changes, ttl 2, clock to 3 | `TypeOK`, `Freshness`, `Staleness`, `OneFetch`; `AtomicSpec`: the refinement of `AtomicCache` |
| `cache_liveness` | 1 key, ttl 1, clock to 2 | `Served` |
| `throttle_pace` | 2 connections, burst 4, eviction after 3, chunks to 4, clock to 5 | `TypeOK`, `Paced`, `BurstBound`, `NoStarvation`, `TotalBound` |
| `throttle_rate` | 1 connection, no eviction | violation of `RateLimited` |
| `ban_tables` | 2 ranges, 1 list, 2 sync processes, 2 admin requests at a time, 4 items (one in two cases, which are different regexes; a long one and its beginning, which is no regex), 3 item changes, 1 change of ranges or entries, 1 fault | `TypeOK`, `ItemBanEnforced`, `SyncedExact`, `CopiesBound`, `UpToDateIsWhole`, `SyncCompletes` |
| `links_dedup` | 3 uploads of 2 contents, 2 dedup processes, a rehash, 2 uploads that are deleted | `TypeOK`, `LinksForward`, `Faithful`, `LostOnlyByDeletion` |
| `challenge_gate` | 2 addresses, one uploads and solves, 2 requests, ttl 1, life 2, lag 1 | `TypeOK`, `AnsweredExempt`, `MarkedChallenged`, `StaleBound` |
| `intake_gates` | 2 uploads of up to 2 files, 5 rows, 5-bit addresses, worlds below; a scan of 2 chunks | `TypeOK`, `QuotaBound`, `SharedOnlyByOverlap`, `ClientKnown`, `BannedRefused`, `FoundTypeKept`, `VerdictHeard`, `CleanWhole` |
| `link_length` | the world `linked` with two ids of each length, 3 attempts, both length settings 1, 3 rows | violation of `IdLengthBounded` |

Two uploads are the least for which one handler, scan or deletion can work on
what another is about to change, and every hazard of the table and the store
involves a pair; two slugs let uploads share one or not. Two faults allow a
failure of one process and then a restart or a failure of the one that would
repair it. In the cache, ttl 2 makes a hit possible at an instant other than the
insertion, so that a renewed entry would be noticed, and a clock of 3 runs past
it. In the throttle, chunks may exceed what is left and equal the burst, the
burst exceeds what one eviction period refills, and the clock passes an eviction.
In `ban_tables` items and ranges share no state, so `Focus` lets one half move
while the other is at rest; a list of two ranges is the least that can be cut in
half, two processes the least that overlap; three changes let two admins and a
removal, or the command line, meet in one table; the tables share nothing, so two
of them are in use at a time. In `links_dedup` three uploads make
a chain of links possible, and two processes with one temporary name. In
`challenge_gate` two ticks of life and one of cache put the expiry of the row
before, at and after that of an entry. In `intake_gates` a world is `counted`
(two hosts of a network against the number of files), `weighed` (bytes), `linked`
(one name, so links run out and are given again), `address` (one, two or any
proxies; IPv4, IPv6 and mapped peers; forged headers with and without junk), `ban`
(blocks of one address, of half, of everything, with a prefix too long) or `file`;
`Focus` keeps the upload alone in the last three and explores the scan by itself,
since the two share only the row of the scanned file. With 5 bits, 2 of IPv4 and
3 of host, there are networks inside, across and outside the mapped block.

Deadlock checking is off only where the model may stop: when every posted file
has been answered and deleted without readers to go on asking, when a
throttle's clock has reached its bound, and when every upload is gone and no
command runs.

### Fairness

`store_liveness` assumes that tokio polls a task that can go on (weak fairness of
handler, scan and deletion steps; the arrival of a file is not fair) and that an
operator keeps running `delete-expired`: nothing inside the server does.
`InfectedGone` is claimed only while nothing has failed, because a failed scan is
never repeated; `ExpiredGone` survives every failure in the bound.
`cache_liveness` assumes that the holder of the lock is polled and its query
answered or failed, and that the head of the queue is woken, which is what tokio's
RwLock guarantees. `ban_tables` assumes that `blacklist sync` is run again and
again (a cron job; nothing in the server does it) and that a synchronisation that
can take its next step does; failures and kills are bounded by `MaxFaults` and not
fair.

### What the checks show beside

Facts of the code that the models have, that no document denies, and that a
reader should know:

- The limits of a day are read before the body and nothing is reserved: the bound
  that holds is the limit plus all files of the uploads in progress (`QuotaBound`).
  For a peer that a dual-stack socket shows as a mapped IPv6 address,
  `quota_range` takes the IPv6 case, whose /64 holds all of IPv4: such clients
  share one quota.
- A link is shared by two files only if both were chosen before either had its row.
- A verified address stays exempt for up to the cache's ttl and one lookup after
  its row expired (`StaleBound`), and a neighbour of a scored address clean as long.
- Between `DeleteOld` and the last `InsertNext` a list bans less than before or
  after; a failure there leaves it so until the next run, which takes the list
  again because it was not stamped (`UpToDateIsWhole`). That does not hold when two
  runs overlap: one that deletes after the other has stamped, and then fails,
  leaves a part of a list which is not due for a whole interval. Removing a
  blacklist leaves its ranges banned.
- The status of the answer to a blacklist's url is not looked at: an error page
  without addresses empties the list and stamps it.
- Deleting a canonical upload leaves the links to it dangling
  (`LostOnlyByDeletion` says that only a deletion does). The canonical one is the
  newest, which usually lives the longest, but nothing ensures that it does: an
  expiry is computed before the INSERT from settings that change with a restart,
  so a lower `max_fileage` makes the canonical upload expire first.
- A file name pattern may be stored nowhere although the admin is told that it is
  banned: `INSERT IGNORE` drops a regex whose key is there, under a collation that
  ignores case, so `\s+` after `\S+` is lost, and cuts one that is longer than the
  column, whose beginning may be no regex and is then left out of the cache.
  `ItemBanEnforced` therefore promises the bans of the row that stands under the
  key, not those of the text that was sent.

### Findings

- `DedupSingleCopy`: the dedup lookup and the INSERT are separated by several
  awaits, so two concurrent uploads of a new file leave two rows.
- `RateLimited`: `reserve` sets an overdrawn bucket to zero and restarts its
  refill at once, so the time a client waits for its deficit also fills the
  bucket. A single connection settles at up to twice `rate_bps`. `Paced` is the
  bound that does hold, and `TotalBound` that of an address with several
  connections.
- `IdLengthBounded`: `settings.rs` calls `max_id_length` the maximum length of the
  random id, but it only bounds the length that is asked for:
  `allocate_unique_slug` adds one after every three ids that are taken, without
  bound.

## What is proved

For every value of the constants, without bounds on uploads, readers, keys or
connections (the assumptions are those named ASSUME in the modules: identities
are disjoint, bounds are numbers):

- `UploadStoreProofs`: `TypeCorrect`; `Invariance` of the inductive invariant
  `IInv`; from it `StoreConsistent` (`RowHasFile` and `FileHasRow`, the latter also as `FileKeepsRow`), `BanIsFinal`
  (`NoPassAfterBan`) and `Refinement` (`HostSpec`). The two consistency
  properties are not inductive alone: a deletion that holds an upload in `doing`
  must know that its file is gone unless stuck, a handler past saving that its
  file is whole, a handler before its INSERT that nobody else has selected its
  upload, and the cache that it lacks no ban that was completed. `IInv` has one
  part for each of the processes: handler, deletions, removal, bans, readers.
  The refinement proof sends each step to a step of `FileHost` or a stutter; a
  reader between its two steps is mapped by whether its row had a file then.
- `TtlCacheProofs`: `CacheTyped`, `CacheInvariance`, `CacheFresh` (`Freshness`),
  `CacheOneFetch` (`OneFetch`). What carries `Freshness` is that from the
  database read of a fetch to its insertion nobody is answered and nothing is
  invalidated, because the fetch has the lock.
  `CacheStaleness` (`Staleness`) assumes a positive ttl (with a ttl of zero every
  lookup fetches, and there is no age to bound). Its invariant `Ages` dates each
  value: a fetched one has all that was stored when the database was read, an
  entry all that was stored before it by the longest fetch.
  `CacheIsAtomic` (`AtomicSpec`) is the refinement, step by step. Beside `OneFetch` it
  needs `StaleFetch`: while a fetch is under way the entry of its key is stale, so a
  refill happens only where there is no copy, and a failed one leaves none.
- `ThrottleProofs`: `ThrottleTyped`, `ThrottleInvariance`, `ThrottlePaced`
  (`Paced`), `ThrottleBurst` (`BurstBound`), `ThrottleNoStarvation`. The
  invariant keeps an account: tokens a bucket has given out, plus one wait at a
  time, cover all a connection was sent. `ThrottleTotal` (`TotalBound`) keeps the
  same account for all connections at once (`Books`: the sum of what they were
  sent or hold is within the tokens given out and the sum of their waits) and
  counts the bursts (`Grants`: every new entry after the first took an eviction
  period without use).
- `BansProofs`: `BansTyped`; `ItemBansHold` (`ItemBanEnforced`) from `ItemInv`: a
  ban that is owed has a row under its key, and the cached list, if there is one,
  covers all that this row bans, for any number of admin requests at a time;
  `TableCovers` shows that refill and comparison fit. It assumes of the functions
  on items only that a text in lower case stays so when it is put into lower case
  again or cut.
  `SyncIsExact` (`SyncedExact`) and `RowsDoNotPileUp` (`CopiesBound`) from
  `RangeInv`: an undisturbed task has inserted what it fetched less what is left,
  and a range has one row at most for each process that is not about to insert
  it. `UpToDateListsAreWhole` (`UpToDateIsWhole`) from `WholeInv`: where no two
  tasks insert at once and none has deleted after a stamp, a list that is not due
  has no task that inserts, and one that inserts has inserted what it fetched less
  what is left.
- `DedupLinksProofs`: `TypesKept` (`TypeOK`), `LinksLeadForward`, `LinksAreFaithful`.
  `LinksInv` says of every place where a process keeps a target (`pairs`, `canon`,
  `target`, `tmp`) that it is newer than the duplicate and of its content: two
  runs may therefore rename each other's temporary links. `LinksLoseNothing`
  (`LostOnlyByDeletion`) adds `LostInv`: a path is there unless a deletion removed
  it, and links lead to uploads the table knows. The chain from an upload is the
  least set closed under links (`Reach`); if no deletion removed a path of
  it, its newest element has a path that is no link.
- `ChallengeProofs`: `ChallengeTyped`, `AnsweredIsExempt`, `MarkedIsChallenged`,
  `StaleBounded`. The invariants say that a cached "no" and a "no" that a lookup
  has read under the lock are impossible for an address that was answered (or
  marked), because `set` came after every lookup that could hold one.
- `IntakeProofs`: `TypesKept` (the shapes of handlers and rows) and, with the
  bounds of links, forms and table (`Bounded`), `BoundsAreKept` (`TypeOK`).
  `ClientIsKnown` (`ClientKnown`): `ClientFound` shows that the entry counted from
  the right is the one the outermost trusted proxy wrote, whatever precedes it; it
  rests on `ProxyAssumption`.
  `BannedAreRefused` (`BannedRefused`) from `Refused`: who has passed the first gate
  is in no banned block. It needs `RangeIsBlock`: rounding down to a multiple of the
  block's size and adding all but one of it gives the addresses with the same
  prefix, for every width and prefix, the block of every address included.
  `FoundTypeIsKept` (`FoundTypeKept`) from `Settled`: type and classification of a row
  and a download are those computed for its kind of file.
  `QuotaIsBound` (`QuotaBound`): for each limit and network, `Quota` bounds the sum of
  what is in the table and what the handlers past the gate can still bring;
  passing the gate adds a full form to a load that was below the limit, every
  other step moves files from a handler to the table or lets them go. `Traced` says
  that a handler counts its own client, in one of its two forms, and
  `QuotaRangeIsNetwork` that the range counted is exactly the client's network.
  `LinksSharedByOverlap`, `VerdictIsHeard`, `CleanIsWhole` as named; the scan's
  invariant is `Heard`.
- `Sums` gives `TotalBound` and `QuotaBound` their arithmetic. The library defines a
  sum by recursion over the subsets of its domain; the lemmas show that this
  recursion has a solution, the number of units when an element of weight n
  stands for n of them, and no other, by a minimal set on which two solutions
  differ. That is how induction is done here: by minimal elements of a
  well-founded order on sets, which needs no operator as a parameter.

Only model-checked: the liveness properties `InfectedGone`, `ExpiredGone`, `Served`
and `SyncCompletes`, because the prover has neither liveness under fairness nor
ENABLED. Every invariant and action property of a passing run is a theorem; the
three properties of the violation runs are false.

## Not modelled

- The pool of connections: deadpool's state, whose waits end after 30 s. A query
  that fails for it is a fault of every module.
- `calculate_expiry`: a power of floating-point sizes. Expiry comes at any time
  and in any order.
- Text: `build_slug`, parsing of addresses and durations; regular expressions,
  collation and the length of columns are functions on a small set of items.
- The access log, which no other part reads; range requests and conditional
  requests (actix-files); the ONNX classifier and `rensfw`; `dedup --dry-run`.
- Bans and trusted proxies that change while a request runs: `TtlCache` and `Bans`
  have the changes, `Request` the gates.
- Templates, HTTP headers, JSON, statistics, lists of the admin API, bearer tokens,
  logging, TLS and ACME, argument parsing, settings, and the migrations except as
  the shape of the tables: no state of their own after start.
