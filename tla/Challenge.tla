----------------------------- MODULE Challenge ------------------------------
(***************************************************************************)
(* Who must solve a challenge: ChallengeCache (challenge.rs) with its two  *)
(* caches, the proof of work (pow.rs), captcha_verify and spawn_nsfw_scan  *)
(* (handlers.rs), and the lookups of uploads and downloads.                *)
(*                                                                         *)
(* The addresses share one quota_range: an upload of one with a high nsfw  *)
(* score makes all of them suspect in the database, and itself at once in  *)
(* the cache.  Time passes in ticks.  A lookup reads the database under    *)
(* the write lock of its cache and then inserts; `set` waits for the lock. *)
(***************************************************************************)
EXTENDS Naturals

CONSTANTS
  Addrs,      \* addresses of one quota_range
  NoAddr,     \* no address
  Solvers,    \* those that solve challenges
  Uploaders,  \* those that upload images
  Requests,   \* requests in flight
  Ttl,        \* ban_cache_ttl_seconds
  Life,       \* challenge_verified_ttl_seconds
  Lag         \* the longest that a lookup takes to answer

ASSUME AddrsAssumption ==
  NoAddr \notin Addrs /\ Solvers \subseteq Addrs /\ Uploaders \subseteq Addrs
ASSUME TimesAssumption ==
  /\ Ttl \in Nat \ {0} /\ Life \in Nat \ {0} /\ Lag \in Nat

\* Longer than any entry, lag included, is kept.
Long == Ttl + Lag + 1

NoEntry == [known |-> FALSE]
Entry(v, a) == [known |-> TRUE, value |-> v, age |-> a]
Entries == {NoEntry} \union {Entry(v, a) : v \in BOOLEAN, a \in 0 .. Ttl - 1}

VARIABLES
  row,        \* challenge_verified_ips: the ticks the row has yet to live
  over,       \* ticks since it expired, up to Long
  scored,     \* whether a row of the last week has a high nsfw_score
  scoredFor,  \* for how many ticks, up to Long
  verified,   \* verified_ips
  suspect,    \* suspect_ips
  at,         \* how far each request is
  ip,         \* its address
  got,        \* what its lookup read
  lag,        \* and how many ticks ago
  promise,    \* history: what has held since the request began
  token,      \* whether the client has a token of this life that is unexpired
  solver,     \* captcha_verify: "idle" or "stored"
  scans,      \* nsfw scan tasks that are about to mark an address
  answered,   \* history: addresses told that they are verified
  marked      \* history: addresses marked suspect while they were scored

dbVars == <<row, over, scored, scoredFor>>
requestVars == <<at, ip, got, lag, promise>>
solverVars == <<token, solver, answered>>
scanVars == <<scans, marked>>
vars == <<dbVars, verified, suspect, requestVars, solverVars, scanVars>>

Steps == {"idle", "verified", "readVerified", "suspect", "readSuspect",
          "exempt", "clean", "challenged"}

TypeOK ==
  /\ row \in [Addrs -> 0 .. Life] /\ over \in [Addrs -> 0 .. Long]
  /\ scored \in BOOLEAN /\ scoredFor \in 0 .. Long
  /\ verified \in [Addrs -> Entries] /\ suspect \in [Addrs -> Entries]
  /\ at \in [Requests -> Steps]
  /\ ip \in [Requests -> Addrs \union {NoAddr}]
  /\ got \in [Requests -> BOOLEAN]
  /\ lag \in [Requests -> 0 .. Lag]
  /\ promise \in [Requests -> SUBSET {"answered", "marked"}]
  /\ token \in [Addrs -> BOOLEAN]
  /\ solver \in [Addrs -> {"idle", "stored"}]
  /\ scans \subseteq Addrs
  /\ answered \subseteq Addrs /\ marked \subseteq Addrs

Init ==
  /\ row = [i \in Addrs |-> 0] /\ over = [i \in Addrs |-> Long]
  /\ scored = FALSE /\ scoredFor = 0
  /\ verified = [i \in Addrs |-> NoEntry]
  /\ suspect = [i \in Addrs |-> NoEntry]
  /\ at = [r \in Requests |-> "idle"]
  /\ ip = [r \in Requests |-> NoAddr]
  /\ got = [r \in Requests |-> FALSE]
  /\ lag = [r \in Requests |-> 0]
  /\ promise = [r \in Requests |-> {}]
  /\ token = [i \in Addrs |-> FALSE]
  /\ solver = [i \in Addrs |-> "idle"]
  /\ scans = {} /\ answered = {} /\ marked = {}

-----------------------------------------------------------------------------
(* The requests: needs_challenge in enforce_upload_gates and get_file.     *)

Goto(r, s) == at' = [at EXCEPT ![r] = s]
Free(step) == \A r \in Requests : at[r] # step

Begin(r, i) ==
  /\ at[r] = "idle"
  /\ Goto(r, "verified")
  /\ ip' = [ip EXCEPT ![r] = i]
  /\ promise' = [promise EXCEPT ![r] =
       {w \in {"answered"} : i \in answered} \union
       {w \in {"marked"} : i \in marked}]
  /\ UNCHANGED <<dbVars, verified, suspect, got, lag, solverVars, scanVars>>

\* get_or_refresh of one cache: a hit, a read of the database, its insertion.
Hit(r, step, cache, yes, no) ==
  /\ at[r] = step /\ cache[ip[r]].known
  /\ Goto(r, IF cache[ip[r]].value THEN yes ELSE no)
  /\ UNCHANGED <<dbVars, verified, suspect, ip, got, lag, promise, solverVars,
                 scanVars>>
Read(r, step, cache, reading, value) ==
  /\ at[r] = step /\ ~cache[ip[r]].known /\ Free(reading)
  /\ Goto(r, reading)
  /\ got' = [got EXCEPT ![r] = value]
  /\ UNCHANGED <<dbVars, verified, suspect, ip, lag, promise, solverVars,
                 scanVars>>
Inserted(cache, r) == [cache EXCEPT ![ip[r]] = Entry(got[r], 0)]
Answer(r, yes, no) ==
  /\ Goto(r, IF got[r] THEN yes ELSE no)
  /\ got' = [got EXCEPT ![r] = FALSE] /\ lag' = [lag EXCEPT ![r] = 0]
  /\ UNCHANGED <<dbVars, ip, promise, solverVars, scanVars>>

\* is_ip_challenge_verified and has_nsfw_upload_last_week.
ReadVerified(r) ==
  Read(r, "verified", verified, "readVerified", row[ip[r]] > 0)
ReadSuspect(r) == Read(r, "suspect", suspect, "readSuspect", scored)

IsIpVerified(r) ==
  \/ Hit(r, "verified", verified, "exempt", "suspect")
  \/ ReadVerified(r)
  \/ /\ at[r] = "readVerified"
     /\ verified' = Inserted(verified, r)
     /\ Answer(r, "exempt", "suspect")
     /\ UNCHANGED suspect

IsIpSuspect(r) ==
  \/ Hit(r, "suspect", suspect, "challenged", "clean")
  \/ ReadSuspect(r)
  \/ /\ at[r] = "readSuspect"
     /\ suspect' = Inserted(suspect, r)
     /\ Answer(r, "challenged", "clean")
     /\ UNCHANGED verified

\* The request is answered, the lookup fails, or the handler is dropped.
End(r) ==
  /\ at[r] # "idle"
  /\ Goto(r, "idle")
  /\ got' = [got EXCEPT ![r] = FALSE] /\ lag' = [lag EXCEPT ![r] = 0]
  /\ ip' = [ip EXCEPT ![r] = NoAddr]
  /\ promise' = [promise EXCEPT ![r] = {}]
  /\ UNCHANGED <<dbVars, verified, suspect, solverVars, scanVars>>

-----------------------------------------------------------------------------
(* Challenges.                                                             *)

SolverFrame == UNCHANGED <<suspect, requestVars, scanVars, scored, scoredFor>>

\* captcha_challenge; PowSecret::issue.
Issue(i) ==
  /\ ~token[i]
  /\ token' = [token EXCEPT ![i] = TRUE]
  /\ UNCHANGED <<row, over, verified, solver, answered>> /\ SolverFrame

TokenExpires(i) ==
  /\ token[i]
  /\ token' = [token EXCEPT ![i] = FALSE]
  /\ UNCHANGED <<row, over, verified, solver, answered>> /\ SolverFrame

\* PowSecret::verify: the token is of this life of the server, unexpired, and
\* solved; it can be used again.
Verified(i) == token[i]

\* captcha_verify up to upsert_challenge_verified_ip.
Upsert(i) ==
  /\ solver[i] = "idle" /\ Verified(i)
  /\ row' = [row EXCEPT ![i] = Life] /\ over' = [over EXCEPT ![i] = 0]
  /\ solver' = [solver EXCEPT ![i] = "stored"]
  /\ UNCHANGED <<verified, token, answered>> /\ SolverFrame

\* Mutant: the entry is set while a lookup holds the lock.
SetUnlocked(i) ==
  /\ solver[i] = "stored"
  /\ verified' = [verified EXCEPT ![i] = Entry(TRUE, 0)]
  /\ answered' = answered \union {i}
  /\ solver' = [solver EXCEPT ![i] = "idle"]
  /\ UNCHANGED <<row, over, token>> /\ SolverFrame

\* The end of mark_ip_verified, and the answer.
SetVerified(i) ==
  /\ solver[i] = "stored" /\ Free("readVerified")
  /\ verified' = [verified EXCEPT ![i] = Entry(TRUE, 0)]
  /\ answered' = answered \union {i}
  /\ solver' = [solver EXCEPT ![i] = "idle"]
  /\ UNCHANGED <<row, over, token>> /\ SolverFrame

\* The handler is dropped with its connection.
VerifyFails(i) ==
  /\ solver[i] # "idle"
  /\ solver' = [solver EXCEPT ![i] = "idle"]
  /\ UNCHANGED <<row, over, verified, token, answered>> /\ SolverFrame

-----------------------------------------------------------------------------
(* nsfw scans.                                                             *)

ScanFrame ==
  UNCHANGED <<row, over, verified, requestVars, solverVars>>

\* The scan of an image that i has uploaded ends with a score of the threshold
\* or more: update_nsfw_score, which may fail.
StoreScore(i) ==
  /\ \/ scored' = TRUE /\ scoredFor' = IF scored THEN scoredFor ELSE 0
     \/ UNCHANGED <<scored, scoredFor>>
  /\ scans' = scans \union {i}
  /\ UNCHANGED <<suspect, marked>> /\ ScanFrame

\* Mutant: a lookup that holds the lock is not waited for.
MarkUnlocked(i) ==
  /\ i \in scans
  /\ suspect' = [suspect EXCEPT ![i] = Entry(TRUE, 0)]
  /\ scans' = scans \ {i}
  /\ marked' = marked \union {j \in {i} : scored}
  /\ UNCHANGED <<scored, scoredFor>> /\ ScanFrame

\* mark_ip_suspect.
MarkSuspect(i) ==
  /\ i \in scans
  /\ Free("readSuspect")
  /\ suspect' = [suspect EXCEPT ![i] = Entry(TRUE, 0)]
  /\ scans' = scans \ {i}
  /\ marked' = marked \union {j \in {i} : scored}
  /\ UNCHANGED <<scored, scoredFor>> /\ ScanFrame

-----------------------------------------------------------------------------
(* Time, and a restart.                                                    *)

Older(n) == IF n < Long THEN n + 1 ELSE n

\* Mutant: an entry does not age.
AgedNever(cache) == cache

\* Mutant: an entry is used for one tick more.
AgedOver(cache) == [i \in Addrs |->
  IF cache[i].known /\ cache[i].age < Ttl
  THEN Entry(cache[i].value, cache[i].age + 1) ELSE NoEntry]

\* fetched_at.elapsed() < ttl.
Aged(cache) == [i \in Addrs |->
  IF cache[i].known /\ cache[i].age + 1 < Ttl
  THEN Entry(cache[i].value, cache[i].age + 1) ELSE NoEntry]
InFlight(r) == at[r] \in {"readVerified", "readSuspect"}

\* A lookup takes Lag at most, and a row lives until it is in the cache.
Tick ==
  /\ \A r \in Requests : InFlight(r) => lag[r] < Lag
  /\ \A i \in Addrs : solver[i] = "stored" => row[i] > 1
  /\ row' = [i \in Addrs |-> IF row[i] > 0 THEN row[i] - 1 ELSE 0]
  /\ over' = [i \in Addrs |-> IF row[i] > 1 THEN 0 ELSE Older(over[i])]
  /\ scoredFor' = IF scored THEN Older(scoredFor) ELSE 0
  /\ verified' = Aged(verified) /\ suspect' = Aged(suspect)
  /\ lag' = [r \in Requests |-> IF InFlight(r) THEN lag[r] + 1 ELSE 0]
  /\ answered' = {i \in answered : row[i] > 1}
  /\ promise' = [r \in Requests |->
       promise[r] \ {w \in {"answered"} : ip[r] \notin answered'}]
  /\ UNCHANGED <<scored, at, ip, got, token, solver, scanVars>>

\* The last row with a high score is more than a week old.
WeekPasses ==
  /\ scored /\ scoredFor = Long
  /\ scored' = FALSE /\ scoredFor' = 0
  /\ marked' = {}
  /\ promise' = [r \in Requests |-> promise[r] \ {"marked"}]
  /\ UNCHANGED <<row, over, verified, suspect, at, ip, got, lag, solverVars,
                 scans>>

\* The caches and the secret live in memory, and the tasks with them.
Restart ==
  /\ verified' = [i \in Addrs |-> NoEntry]
  /\ suspect' = [i \in Addrs |-> NoEntry]
  /\ at' = [r \in Requests |-> "idle"]
  /\ got' = [r \in Requests |-> FALSE]
  /\ lag' = [r \in Requests |-> 0]
  /\ promise' = [r \in Requests |-> {}]
  /\ token' = [i \in Addrs |-> FALSE]
  /\ solver' = [i \in Addrs |-> "idle"]
  /\ scans' = {}
  /\ ip' = [r \in Requests |-> NoAddr]
  /\ UNCHANGED <<dbVars, answered, marked>>

-----------------------------------------------------------------------------
Next ==
  \/ \E r \in Requests :
       \/ \E i \in Addrs : Begin(r, i)
       \/ IsIpVerified(r) \/ IsIpSuspect(r) \/ End(r)
  \/ \E i \in Solvers :
       \/ Issue(i) \/ TokenExpires(i) \/ Upsert(i)
       \/ SetVerified(i) \/ VerifyFails(i)
  \/ \E i \in Uploaders :
       \/ StoreScore(i) \/ MarkSuspect(i)
  \/ Tick \/ WeekPasses \/ Restart

Spec == Init /\ [][Next]_vars

-----------------------------------------------------------------------------
(* Properties.                                                             *)

\* A client that was told it is verified is not challenged by any request it
\* begins from then on, until its row expires: neither by a lookup that read
\* the database before the row was there, nor after a restart.
AnsweredExempt ==
  \A r \in Requests :
    at[r] = "challenged" => "answered" \notin promise[r]

\* A request that begins after its address was scored and marked does not pass
\* as clean while the score is of the last week: no lookup overtakes the mark.
MarkedChallenged ==
  \A r \in Requests :
    at[r] = "clean" => "marked" \notin promise[r]

\* What a cache says is older than the database by no more than the age of the
\* entry and the time of one lookup: an address is exempt for Ttl + Lag after
\* its row expired, and a neighbour of a scored address is clean for as long
\* after the score was stored.
StaleBound ==
  \A i \in Addrs :
    /\ verified[i].known /\ verified[i].value => over[i] <= verified[i].age + Lag
    /\ suspect[i].known /\ ~suspect[i].value /\ scored =>
         scoredFor <= suspect[i].age + Lag

=============================================================================
