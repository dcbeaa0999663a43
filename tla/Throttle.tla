------------------------------ MODULE Throttle ------------------------------
(***************************************************************************)
(* The byte throttle (rate_limit.rs) of one address, shared by the         *)
(* connections it has open: downloads paced chunk by chunk by              *)
(* ThrottledBody::poll_next, or uploads paced by ByteThrottle::throttle in *)
(* the multipart reader (upload.rs read_field).  Addresses have buckets of *)
(* their own and share nothing but the map's lock.                         *)
(*                                                                         *)
(* Time is counted in the time one byte takes at rate_bps, so that the     *)
(* rate is one byte per tick and a deficit is the length of its wait; the  *)
(* code computes with floating-point seconds and bytes.                    *)
(***************************************************************************)
EXTENDS Integers, FiniteSets, Functions

CONSTANTS
  Conns,     \* the connections of the address
  Burst,     \* the burst setting, in bytes
  Idle,      \* the 60 s after which an unused bucket is evicted, in ticks
  MaxChunk,  \* bound on the size of a chunk
  MaxTime    \* bound on the clock

ASSUME ThrottleAssumption ==
  /\ IsFiniteSet(Conns)
  /\ Burst \in Nat /\ Idle \in Nat \ {0}
  /\ MaxChunk \in Nat \ {0} /\ MaxTime \in Nat

Chunks == 1 .. MaxChunk
Min2(a, b) == IF a <= b THEN a ELSE b

VARIABLES
  now,      \* Instant::now()
  known,    \* whether the map has an entry for the address
  last,     \* last_refill of the entry
  tokens,   \* tokens of the entry
  held,     \* the bytes a connection holds back, 0 for none
  until,    \* when the sleep of a connection that holds bytes ends
  sent,     \* bytes a connection has been let pass
  since,    \* history: when the bytes held back were charged
  atOnce,   \* history: bytes let pass without waiting at this instant
  granted   \* history: tokens given with new entries

bucket == <<known, last, tokens>>
conns == <<held, until, sent, since>>
vars == <<now, bucket, conns, atOnce, granted>>

\* The clock is never behind a bucket's or a chunk's time, and the bucket
\* holds at most the burst.
TypeOK ==
  /\ now \in 0 .. MaxTime
  /\ known \in BOOLEAN
  /\ last \in 0 .. now
  /\ tokens \in 0 .. Burst
  /\ held \in [Conns -> 0 .. MaxChunk]
  /\ until \in [Conns -> Nat]
  /\ sent \in [Conns -> Nat]
  /\ since \in [Conns -> 0 .. now]
  /\ atOnce \in Nat
  /\ granted \in Nat

Init ==
  /\ now = 0
  /\ known = FALSE /\ last = 0 /\ tokens = 0
  /\ held = [c \in Conns |-> 0]
  /\ until = [c \in Conns |-> 0]
  /\ sent = [c \in Conns |-> 0]
  /\ since = [c \in Conns |-> 0]
  /\ atOnce = 0
  /\ granted = 0

-----------------------------------------------------------------------------
(* reserve: one critical section of the map's mutex.                       *)

\* Mutant: an entry's age is counted from the start of the program.
EvictedByAge == ~known \/ now >= Idle

\* Entries unused for Idle are evicted, the caller's own included.
Evicted == ~known \/ now - last >= Idle

\* Mutant: the time already credited is not forgotten.
RefilledTwice == IF Evicted THEN Burst ELSE Min2(tokens + now, Burst)

\* Mutant: the bucket is not capped.
RefilledOver == IF Evicted THEN Burst ELSE tokens + (now - last)

\* What the bucket holds when it is charged: a new entry starts full.
Refilled == IF Evicted THEN Burst ELSE Min2(tokens + (now - last), Burst)

\* Mutant: the wait is for a full bucket.
WaitForBurst(b) == IF Refilled >= b THEN 0 ELSE Burst - Refilled

\* How long b bytes must wait; 0 if the bucket covers them.
Deficit(b) == IF Refilled >= b THEN 0 ELSE b - Refilled

Touch ==
  /\ known' = TRUE
  /\ last' = now
  /\ granted' = IF Evicted THEN granted + Burst ELSE granted

\* The bucket covers the chunk, which passes at once.
Pass(c, b) ==
  /\ held[c] = 0
  /\ Deficit(b) = 0
  /\ Touch
  /\ tokens' = Refilled - b
  /\ sent' = [sent EXCEPT ![c] = @ + b]
  /\ atOnce' = atOnce + b
  /\ UNCHANGED <<now, held, until, since>>

\* Mutant: the deficit stays in the bucket.
HoldOwing(c, b) ==
  /\ held[c] = 0
  /\ Deficit(b) > 0
  /\ Touch
  /\ tokens' = Refilled - b
  /\ held' = [held EXCEPT ![c] = b]
  /\ until' = [until EXCEPT ![c] = now + Deficit(b)]
  /\ since' = [since EXCEPT ![c] = now]
  /\ UNCHANGED <<now, sent, atOnce>>

\* The bucket is overdrawn: it is emptied and the chunk held back for the
\* time the deficit takes.
Hold(c, b) ==
  /\ held[c] = 0
  /\ Deficit(b) > 0
  /\ Touch
  /\ tokens' = 0
  /\ held' = [held EXCEPT ![c] = b]
  /\ until' = [until EXCEPT ![c] = now + Deficit(b)]
  /\ since' = [since EXCEPT ![c] = now]
  /\ UNCHANGED <<now, sent, atOnce>>

\* The sleep has ended and the connection is polled: the chunk held back is
\* handed out and nothing is charged for it again.
Release(c) ==
  /\ held[c] > 0 /\ now >= until[c]
  /\ sent' = [sent EXCEPT ![c] = @ + held[c]]
  /\ held' = [held EXCEPT ![c] = 0]
  /\ until' = [until EXCEPT ![c] = 0]
  /\ since' = [since EXCEPT ![c] = 0]
  /\ UNCHANGED <<now, bucket, atOnce, granted>>

\* The client goes away: what was held back is dropped, charged or not, and
\* the address opens another connection.
Disconnect(c) ==
  /\ held[c] > 0
  /\ held' = [held EXCEPT ![c] = 0]
  /\ until' = [until EXCEPT ![c] = 0]
  /\ since' = [since EXCEPT ![c] = 0]
  /\ UNCHANGED <<now, bucket, sent, atOnce, granted>>

Tick ==
  /\ now < MaxTime
  /\ now' = now + 1
  /\ atOnce' = 0
  /\ UNCHANGED <<bucket, conns, granted>>

Next ==
  \/ \E c \in Conns, b \in Chunks : Pass(c, b) \/ Hold(c, b)
  \/ \E c \in Conns : Release(c) \/ Disconnect(c)
  \/ Tick

Spec == Init /\ [][Next]_vars

-----------------------------------------------------------------------------
\* One connection gets the tokens of the bucket and, one wait at a time, the
\* deficits it waits for: at most the burst of each new entry and twice the
\* rate, whatever the other connections do.
Paced == \A c \in Conns : sent[c] <= granted + 2 * now

\* What passes without waiting at any instant, over all connections, is at
\* most the burst.
BurstBound == atOnce <= Burst

\* A chunk waits no longer than its own bytes take at the rate: the chunks of
\* other connections never lengthen the wait.
NoStarvation ==
  \A c \in Conns : held[c] > 0 => until[c] - since[c] <= held[c]

Total == SumFunctionOnSet(sent, Conns)

\* The most an address gets over all its connections: one burst per eviction
\* period, the rate once through the bucket and once more for every connection
\* that waits.
TotalBound ==
  Total <= Burst * (1 + now \div Idle) + (1 + Cardinality(Conns)) * now

\* The rate is the maximum: apart from the burst, a connection gets one byte
\* per tick (rate_limit.rs, documentation of reserve).
RateLimited == \A c \in Conns : sent[c] <= granted + now

=============================================================================
