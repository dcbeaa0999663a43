--------------------------- MODULE ThrottleProofs ---------------------------
(***************************************************************************)
(* What Throttle keeps for any number of connections, any burst, eviction  *)
(* period and chunk size.                                                  *)
(*                                                                         *)
(* Drawn, the tokens a bucket has given out at most, is the account the    *)
(* proof keeps: a step that lets b bytes through at once raises it by b,   *)
(* one that holds a chunk back raises it by what the bucket still had, and *)
(* no step lowers it.  What a connection was sent beyond Drawn it has      *)
(* waited for, one chunk after the other, so that part is at most the      *)
(* time that has passed.                                                   *)
(***************************************************************************)
EXTENDS Throttle, Sums

Drawn == granted + last - tokens

\* The account of a connection between chunks, and while it waits.
Account ==
  \A c \in Conns :
    /\ held[c] = 0 => sent[c] <= Drawn + now
    /\ held[c] > 0 => sent[c] + held[c] <= Drawn + until[c]

\* What passed at this instant is missing from the bucket.
Instant ==
  /\ known /\ last = now => atOnce + tokens <= Burst
  /\ ~known \/ last < now => atOnce = 0

IInv == TypeOK /\ Account /\ Instant /\ NoStarvation

-----------------------------------------------------------------------------
\* A charge of the bucket: what it held, and what it owes to Drawn.
LEMMA Charge ==
  ASSUME TypeOK, NEW b \in Chunks
  PROVE  /\ Refilled \in 0 .. Burst
         /\ Deficit(b) \in 0 .. b
         /\ Deficit(b) = 0 => Refilled >= b
         /\ Deficit(b) > 0 => Deficit(b) = b - Refilled
         /\ ~Evicted => Refilled <= tokens + (now - last)
         /\ Evicted => Refilled = Burst
BY ThrottleAssumption DEF TypeOK, Refilled, Deficit, Evicted, Min2, Chunks

LEMMA TypeStep ==
  ASSUME TypeOK, [Next]_vars
  PROVE  TypeOK'
<1> USE ThrottleAssumption
<1>1. CASE UNCHANGED vars
  BY <1>1 DEF TypeOK, vars, bucket, conns
<1>2. ASSUME NEW c \in Conns, NEW b \in Chunks, Pass(c, b)  PROVE TypeOK'
  BY <1>2, Charge DEF TypeOK, Pass, Touch, Chunks
<1>3. ASSUME NEW c \in Conns, NEW b \in Chunks, Hold(c, b)  PROVE TypeOK'
  BY <1>3, Charge DEF TypeOK, Hold, Touch, Chunks
<1>4. ASSUME NEW c \in Conns, Release(c)  PROVE TypeOK'
  BY <1>4 DEF TypeOK, Release, bucket
<1>5. ASSUME NEW c \in Conns, Disconnect(c)  PROVE TypeOK'
  BY <1>5 DEF TypeOK, Disconnect, bucket
<1>6. CASE Tick
  BY <1>6 DEF TypeOK, Tick, bucket, conns
<1> QED
  BY <1>1, <1>2, <1>3, <1>4, <1>5, <1>6 DEF Next

\* Charging the bucket for b bytes of which it covers n leaves the accounts of
\* the other connections in order and makes room for the n.
LEMMA DrawnGrows ==
  ASSUME TypeOK, TypeOK', NEW n \in Nat, Touch, n <= Refilled,
         tokens' = Refilled - n, now' = now
  PROVE  Drawn + n <= Drawn'
<1>1. Refilled \in 0 .. Burst
      /\ (~Evicted => Refilled <= tokens + (now - last))
      /\ (Evicted => Refilled = Burst)
  BY ThrottleAssumption DEF TypeOK, Refilled, Evicted, Min2
<1>2. CASE Evicted
  BY <1>1, <1>2, ThrottleAssumption DEF TypeOK, Touch, Drawn
<1>3. CASE ~Evicted
  BY <1>1, <1>3, ThrottleAssumption DEF TypeOK, Touch, Drawn
<1> QED
  BY <1>2, <1>3

LEMMA AccountStep ==
  ASSUME TypeOK, TypeOK', Account, NoStarvation, [Next]_vars
  PROVE  Account'
<1> USE ThrottleAssumption
<1>0. Drawn \in Int /\ Drawn' \in Int
  BY DEF TypeOK, Drawn
<1>1. CASE UNCHANGED vars
  BY <1>1 DEF Account, Drawn, vars, bucket, conns
<1>2. ASSUME NEW c \in Conns, NEW b \in Chunks, Pass(c, b)  PROVE Account'
  <2>1. Drawn + b <= Drawn'
    BY <1>2, Charge, DrawnGrows DEF Pass, Chunks
  <2>2. UNCHANGED <<now, held, until, since>> /\ sent' = [sent EXCEPT ![c] = @ + b]
        /\ held[c] = 0 /\ b \in Nat
    BY <1>2 DEF Pass, Chunks
  <2> QED
    BY <1>0, <2>1, <2>2 DEF Account, TypeOK
<1>3. ASSUME NEW c \in Conns, NEW b \in Chunks, Hold(c, b)  PROVE Account'
  <2>1. Drawn + Refilled <= Drawn'
    BY <1>3, Charge, DrawnGrows DEF Hold
  <2>2. /\ Refilled \in Nat /\ b \in Nat /\ Deficit(b) = b - Refilled
        /\ Deficit(b) \in Nat /\ b > 0
    BY <1>3, Charge DEF Hold, Chunks
  <2>3. /\ held[c] = 0 /\ UNCHANGED <<now, sent>>
        /\ held' = [held EXCEPT ![c] = b]
        /\ until' = [until EXCEPT ![c] = now + Deficit(b)]
        /\ since' = [since EXCEPT ![c] = now]
    BY <1>3 DEF Hold
  <2> QED
    BY <1>0, <2>1, <2>2, <2>3 DEF Account, TypeOK
<1>4. ASSUME NEW c \in Conns, Release(c)  PROVE Account'
  BY <1>0, <1>4 DEF Account, Drawn, TypeOK, Release, bucket
<1>5. ASSUME NEW c \in Conns, Disconnect(c)  PROVE Account'
  BY <1>0, <1>5 DEF Account, Drawn, TypeOK, Disconnect, NoStarvation, bucket
<1>6. CASE Tick
  BY <1>0, <1>6 DEF Account, Drawn, TypeOK, Tick, bucket, conns
<1> QED
  BY <1>1, <1>2, <1>3, <1>4, <1>5, <1>6 DEF Next

LEMMA InstantStep ==
  ASSUME TypeOK, TypeOK', Instant, [Next]_vars
  PROVE  Instant'
<1> USE ThrottleAssumption
<1>1. CASE UNCHANGED vars
  BY <1>1 DEF Instant, vars, bucket
<1>2. ASSUME NEW c \in Conns, NEW b \in Chunks, Pass(c, b)  PROVE Instant'
  <2>1. /\ known' = TRUE /\ last' = now /\ now' = now
        /\ tokens' = Refilled - b /\ atOnce' = atOnce + b /\ b \in Nat
    BY <1>2 DEF Pass, Touch, Chunks
  <2>2. Refilled \in 0 .. Burst
    BY Charge
  <2>3. CASE known /\ last = now
    <3>1. Refilled <= tokens
      BY <2>3, Charge DEF Evicted, TypeOK
    <3> QED
      BY <2>1, <2>2, <2>3, <3>1 DEF Instant, TypeOK
  <2>4. CASE ~known \/ last < now
    BY <2>1, <2>2, <2>4 DEF Instant, TypeOK
  <2> QED
    BY <2>3, <2>4 DEF TypeOK
<1>3. ASSUME NEW c \in Conns, NEW b \in Chunks, Hold(c, b)  PROVE Instant'
  BY <1>3 DEF Instant, TypeOK, Hold, Touch
<1>4. ASSUME NEW c \in Conns, Release(c) \/ Disconnect(c)  PROVE Instant'
  BY <1>4 DEF Instant, Release, Disconnect, bucket
<1>5. CASE Tick
  BY <1>5 DEF Instant, TypeOK, Tick, bucket
<1> QED
  BY <1>1, <1>2, <1>3, <1>4, <1>5 DEF Next

LEMMA WaitStep ==
  ASSUME TypeOK, NoStarvation, [Next]_vars
  PROVE  NoStarvation'
<1>1. CASE UNCHANGED vars
  BY <1>1 DEF NoStarvation, vars, conns
<1>2. ASSUME NEW c \in Conns, NEW b \in Chunks, Pass(c, b)  PROVE NoStarvation'
  BY <1>2 DEF NoStarvation, Pass
<1>3. ASSUME NEW c \in Conns, NEW b \in Chunks, Hold(c, b)  PROVE NoStarvation'
  BY <1>3, Charge DEF NoStarvation, TypeOK, Hold, Chunks
<1>4. ASSUME NEW c \in Conns, Release(c) \/ Disconnect(c)  PROVE NoStarvation'
  BY <1>4 DEF NoStarvation, TypeOK, Release, Disconnect
<1>5. CASE Tick
  BY <1>5 DEF NoStarvation, Tick, conns
<1> QED
  BY <1>1, <1>2, <1>3, <1>4, <1>5 DEF Next

-----------------------------------------------------------------------------
LEMMA IInvInit == Init => IInv
<1> SUFFICES ASSUME Init  PROVE IInv
  OBVIOUS
<1>1. TypeOK
  <2>1. known \in BOOLEAN
    BY DEF Init
  <2>2. /\ now = 0 /\ last = 0 /\ tokens = 0 /\ atOnce = 0 /\ granted = 0
        /\ held = [c \in Conns |-> 0] /\ until = [c \in Conns |-> 0]
        /\ sent = [c \in Conns |-> 0] /\ since = [c \in Conns |-> 0]
    BY DEF Init
  <2> QED
    BY <2>1, <2>2, ThrottleAssumption DEF TypeOK
<1>2. Account
  <2>1. \A c \in Conns : held[c] = 0 /\ sent[c] = 0
    BY DEF Init
  <2>2. Drawn = 0 /\ now = 0
    BY DEF Init, Drawn
  <2> QED
    <3> SUFFICES ASSUME NEW c \in Conns
                 PROVE  /\ held[c] = 0 => sent[c] <= Drawn + now
                        /\ held[c] > 0 => sent[c] + held[c] <= Drawn + until[c]
      BY DEF Account
    <3> QED
      BY <2>1, <2>2
<1>3. Instant
  BY DEF Init, Instant
<1>4. NoStarvation
  BY DEF Init, NoStarvation
<1> QED
  BY <1>1, <1>2, <1>3, <1>4 DEF IInv

LEMMA IInvStep == IInv /\ [Next]_vars => IInv'
BY TypeStep, AccountStep, InstantStep, WaitStep DEF IInv

\* The inductive invariant: the types, the account of every connection, the
\* bytes of the instant and the length of the waits.
THEOREM ThrottleInvariance == Spec => []IInv
BY IInvInit, IInvStep, PTL DEF Spec

\* Every variable of the throttle keeps its type: the bucket stays between
\* empty and full, and no time lies in the future.
THEOREM ThrottleTyped == Spec => []TypeOK
<1>1. IInv => TypeOK
  BY DEF IInv
<1> QED
  BY <1>1, ThrottleInvariance, PTL

\* One connection gets no more than the bursts of its address's entries and
\* twice the rate.
THEOREM ThrottlePaced == Spec => []Paced
<1>1. IInv => Paced
  <2> SUFFICES ASSUME IInv, NEW c \in Conns
               PROVE  sent[c] <= granted + 2 * now
    BY DEF Paced
  <2>1. Drawn <= granted + now /\ Drawn \in Int
    BY ThrottleAssumption DEF Drawn, IInv, TypeOK
  <2>2. CASE held[c] = 0
    BY <2>1, <2>2 DEF IInv, TypeOK, Account
  <2>3. CASE held[c] > 0
    BY <2>1, <2>3 DEF IInv, TypeOK, Account, NoStarvation
  <2> QED
    BY <2>2, <2>3 DEF IInv, TypeOK
<1> QED
  BY <1>1, ThrottleInvariance, PTL

\* What passes without waiting at an instant is at most the burst.
THEOREM ThrottleBurst == Spec => []BurstBound
<1>1. IInv => BurstBound
  BY ThrottleAssumption DEF IInv, TypeOK, Instant, BurstBound
<1> QED
  BY <1>1, ThrottleInvariance, PTL

\* No chunk waits for the chunks of other connections.
THEOREM ThrottleNoStarvation == Spec => []NoStarvation
<1>1. IInv => NoStarvation
  BY DEF IInv
<1> QED
  BY <1>1, ThrottleInvariance, PTL

-----------------------------------------------------------------------------
(* All connections together: what they were sent or hold is what the bucket *)
(* has given out and what each of them has waited or has still to wait.     *)

Charged == [c \in Conns |-> sent[c] + held[c]]
Waited == [c \in Conns |-> IF held[c] = 0 THEN now ELSE until[c]]

Books == SumFunctionOnSet(Charged, Conns) <= Drawn + SumFunctionOnSet(Waited, Conns)

\* Every new entry but the first comes after an eviction period without use.
Grants ==
  /\ ~known => granted = 0
  /\ known => granted <= Burst * (1 + last \div Idle)

LEMMA WeightsTyped ==
  ASSUME TypeOK
  PROVE  /\ \A c \in Conns : Charged[c] \in Nat /\ Waited[c] \in Nat
         /\ SumFunctionOnSet(Charged, Conns) \in Nat
         /\ SumFunctionOnSet(Waited, Conns) \in Nat
         /\ Drawn \in Int
<1>1. \A c \in Conns : Charged[c] \in Nat /\ Waited[c] \in Nat
  BY ThrottleAssumption DEF TypeOK, Charged, Waited
<1>2. Drawn \in Int
  BY ThrottleAssumption DEF TypeOK, Drawn
<1> QED
  BY <1>1, <1>2, SumNat, ThrottleAssumption

\* A step of one connection balances when what it is charged grows by no more
\* than what the bucket gives out and what it has to wait.
LEMMA OneBalances ==
  ASSUME TypeOK, TypeOK', Books, NEW c \in Conns,
         \A d \in Conns \ {c} : Charged'[d] = Charged[d] /\ Waited'[d] = Waited[d],
         Charged'[c] - Charged[c] <= (Drawn' - Drawn) + (Waited'[c] - Waited[c])
  PROVE  Books'
<1> DEFINE f == Charged
           g == Charged'
           v == Waited
           w == Waited'
<1>1. \A d \in Conns : f[d] \in Nat /\ v[d] \in Nat
  BY WeightsTyped
<1>2. \A d \in Conns : g[d] \in Nat /\ w[d] \in Nat
  BY ThrottleAssumption DEF TypeOK, Charged, Waited
<1>3. Drawn \in Int /\ Drawn' \in Int
  BY ThrottleAssumption DEF TypeOK, Drawn
<1>4. /\ \A d \in Conns \ {c} : g[d] = f[d] /\ w[d] = v[d]
      /\ g[c] - f[c] <= (Drawn' - Drawn) + (w[c] - v[c])
      /\ SumFunctionOnSet(f, Conns) <= Drawn + SumFunctionOnSet(v, Conns)
  BY DEF Books
<1>5. SumFunctionOnSet(f, Conns) \in Nat /\ SumFunctionOnSet(v, Conns) \in Nat
  BY WeightsTyped
<1>6. Books' <=> SumFunctionOnSet(g, Conns) <= Drawn' + SumFunctionOnSet(w, Conns)
  BY DEF Books
<1> HIDE DEF f, g, v, w
<1>7. SumFunctionOnSet(g, Conns) = SumFunctionOnSet(f, Conns) - f[c] + g[c]
  BY <1>1, <1>2, <1>4, SumUpdate, ThrottleAssumption
<1>8. SumFunctionOnSet(w, Conns) = SumFunctionOnSet(v, Conns) - v[c] + w[c]
  BY <1>1, <1>2, <1>4, SumUpdate, ThrottleAssumption
<1>9. f[c] \in Nat /\ g[c] \in Nat /\ v[c] \in Nat /\ w[c] \in Nat
  BY <1>1, <1>2
<1>10. SumFunctionOnSet(g, Conns) <= Drawn' + SumFunctionOnSet(w, Conns)
  BY <1>3, <1>4, <1>5, <1>7, <1>8, <1>9
<1> QED
  BY <1>6, <1>10

LEMMA BooksStep ==
  ASSUME TypeOK, TypeOK', NoStarvation, Books, [Next]_vars
  PROVE  Books'
<1> USE ThrottleAssumption
<1>0. Drawn \in Int /\ Drawn' \in Int /\ now \in Nat
  BY DEF TypeOK, Drawn
<1>1. CASE UNCHANGED vars
  BY <1>1 DEF Books, Charged, Waited, Drawn, vars, bucket, conns
<1>2. ASSUME NEW c \in Conns, NEW b \in Chunks, Pass(c, b)  PROVE Books'
  <2>1. Drawn + b <= Drawn'
    BY <1>2, Charge, DrawnGrows DEF Pass, Chunks
  <2>2. UNCHANGED <<now, held, until>> /\ sent' = [sent EXCEPT ![c] = @ + b]
        /\ held[c] = 0 /\ b \in Nat
    BY <1>2 DEF Pass, Chunks
  <2>3. \A d \in Conns : Waited'[d] = Waited[d]
    BY <2>2 DEF Waited
  <2>4. /\ \A d \in Conns \ {c} : Charged'[d] = Charged[d]
        /\ Charged'[c] = Charged[c] + b
    BY <2>2 DEF Charged, TypeOK
  <2>5. Charged[c] \in Nat /\ Waited[c] \in Nat
    BY WeightsTyped
  <2> QED
    BY <1>0, <2>1, <2>2, <2>3, <2>4, <2>5, OneBalances
<1>3. ASSUME NEW c \in Conns, NEW b \in Chunks, Hold(c, b)  PROVE Books'
  <2>1. Drawn + Refilled <= Drawn'
    BY <1>3, Charge, DrawnGrows DEF Hold
  <2>2. Refilled \in Nat /\ b \in Nat /\ Deficit(b) = b - Refilled /\ b > 0
    BY <1>3, Charge DEF Hold, Chunks
  <2>3. /\ held[c] = 0 /\ UNCHANGED <<now, sent>>
        /\ held' = [held EXCEPT ![c] = b]
        /\ until' = [until EXCEPT ![c] = now + Deficit(b)]
    BY <1>3 DEF Hold
  <2>4. /\ \A d \in Conns \ {c} : Charged'[d] = Charged[d] /\ Waited'[d] = Waited[d]
        /\ Charged'[c] = Charged[c] + b
        /\ Waited[c] = now /\ Waited'[c] = now + (b - Refilled)
    BY <2>2, <2>3 DEF Charged, Waited, TypeOK
  <2>5. Charged[c] \in Nat
    BY WeightsTyped
  <2>6. Charged'[c] - Charged[c] <= (Drawn' - Drawn) + (Waited'[c] - Waited[c])
    BY <1>0, <2>1, <2>2, <2>4, <2>5
  <2> QED
    BY <2>4, <2>6, OneBalances
<1>4. ASSUME NEW c \in Conns, Release(c)  PROVE Books'
  <2>1. /\ held[c] > 0 /\ now >= until[c] /\ UNCHANGED <<now, bucket, granted>>
        /\ sent' = [sent EXCEPT ![c] = @ + held[c]] /\ held' = [held EXCEPT ![c] = 0]
        /\ until' = [until EXCEPT ![c] = 0]
    BY <1>4 DEF Release
  <2>2. /\ \A d \in Conns \ {c} : Charged'[d] = Charged[d] /\ Waited'[d] = Waited[d]
        /\ Charged'[c] = Charged[c] /\ Waited[c] = until[c] /\ Waited'[c] = now
    BY <2>1 DEF Charged, Waited, TypeOK
  <2>3. Drawn' = Drawn /\ Charged[c] \in Nat /\ until[c] \in Nat
    BY <2>1, WeightsTyped DEF Drawn, bucket, TypeOK
  <2>4. Charged'[c] - Charged[c] <= (Drawn' - Drawn) + (Waited'[c] - Waited[c])
    BY <1>0, <2>1, <2>2, <2>3
  <2> QED
    BY <2>2, <2>4, OneBalances
<1>5. ASSUME NEW c \in Conns, Disconnect(c)  PROVE Books'
  <2>1. /\ held[c] > 0 /\ UNCHANGED <<now, bucket, sent, granted>>
        /\ held' = [held EXCEPT ![c] = 0] /\ until' = [until EXCEPT ![c] = 0]
    BY <1>5 DEF Disconnect
  <2>2. /\ \A d \in Conns \ {c} : Charged'[d] = Charged[d] /\ Waited'[d] = Waited[d]
        /\ Charged'[c] = Charged[c] - held[c] /\ Waited[c] = until[c] /\ Waited'[c] = now
    BY <2>1 DEF Charged, Waited, TypeOK
  <2>3. /\ Drawn' = Drawn /\ Charged[c] \in Nat /\ until[c] \in Nat /\ held[c] \in Nat
        /\ since[c] \in Nat /\ since[c] <= now /\ until[c] - since[c] <= held[c]
    BY <2>1, WeightsTyped DEF Drawn, bucket, TypeOK, NoStarvation
  <2>4. Charged'[c] - Charged[c] <= (Drawn' - Drawn) + (Waited'[c] - Waited[c])
    BY <1>0, <2>2, <2>3
  <2> QED
    BY <2>2, <2>4, OneBalances
<1>6. CASE Tick
  <2>1. UNCHANGED <<bucket, conns, granted>> /\ now' = now + 1
    BY <1>6 DEF Tick
  <2> DEFINE v == Waited
             w == Waited'
  <2>2. \A c \in Conns : v[c] \in Nat /\ w[c] \in Nat /\ v[c] <= w[c]
    BY <1>0, <2>1 DEF Waited, TypeOK, conns
  <2>3. Charged' = Charged /\ Drawn' = Drawn
    BY <2>1 DEF Charged, Drawn, bucket, conns
  <2>4. /\ SumFunctionOnSet(Charged, Conns) \in Nat /\ SumFunctionOnSet(v, Conns) \in Nat
        /\ SumFunctionOnSet(Charged, Conns) <= Drawn + SumFunctionOnSet(v, Conns)
    BY WeightsTyped DEF Books
  <2>5. Books' <=> SumFunctionOnSet(Charged', Conns) <= Drawn' + SumFunctionOnSet(w, Conns)
    BY DEF Books
  <2> HIDE DEF v, w
  <2>6. /\ SumFunctionOnSet(v, Conns) <= SumFunctionOnSet(w, Conns)
        /\ SumFunctionOnSet(w, Conns) \in Nat
    BY <2>2, SumMonotone, SumNat
  <2> QED
    BY <1>0, <2>3, <2>4, <2>5, <2>6
<1> QED
  BY <1>1, <1>2, <1>3, <1>4, <1>5, <1>6 DEF Next

-----------------------------------------------------------------------------
(* The bursts that new entries gave out.                                    *)

LEMMA Periods ==
  ASSUME NEW a \in Nat, NEW b \in Nat, a <= b
  PROVE  /\ a \div Idle \in Nat /\ b \div Idle \in Nat
         /\ a \div Idle <= b \div Idle
         /\ b - a >= Idle => a \div Idle + 1 <= b \div Idle
BY ThrottleAssumption

LEMMA BurstsGrow ==
  ASSUME NEW i \in Nat, NEW j \in Nat, i <= j
  PROVE  Burst * i <= Burst * j
BY ThrottleAssumption

LEMMA GrantsTouch ==
  ASSUME TypeOK, Grants, Touch
  PROVE  Grants'
<1> DEFINE p == last \div Idle
           q == now \div Idle
<1>1. /\ p \in Nat /\ q \in Nat /\ p <= q /\ (now - last >= Idle => p + 1 <= q)
      /\ granted \in Nat /\ Burst \in Nat
  <2>1. last \in Nat /\ now \in Nat /\ last <= now /\ granted \in Nat /\ Burst \in Nat
    BY ThrottleAssumption DEF TypeOK
  <2> QED
    BY <2>1, Periods
<1>2. /\ known' = TRUE /\ last' = now
      /\ granted' = IF Evicted THEN granted + Burst ELSE granted
  BY DEF Touch
<1>3. (~known => granted = 0) /\ (known => granted <= Burst * (1 + p))
  BY DEF Grants
<1> SUFFICES granted' <= Burst * (1 + q)
  BY <1>2 DEF Grants
<1> HIDE DEF p, q
<1>4. CASE ~known
  <2>1. Burst * 1 <= Burst * (1 + q)
    BY <1>1, BurstsGrow
  <2> QED
    BY <1>1, <1>2, <1>3, <1>4, <2>1 DEF Evicted
<1>5. CASE known /\ Evicted
  <2>1. p + 1 <= q
    BY <1>1, <1>5 DEF Evicted
  <2>2. Burst * (2 + p) <= Burst * (1 + q)
    BY <1>1, <2>1, BurstsGrow
  <2>3. Burst * (2 + p) = Burst * (1 + p) + Burst
    BY <1>1
  <2> QED
    <3> DEFINE x == Burst * (1 + p)
               y == Burst * (1 + q)
    <3>1. x \in Nat /\ y \in Nat /\ granted <= x /\ x + Burst <= y
      BY <1>1, <1>3, <1>5, <2>2, <2>3
    <3> HIDE DEF x, y
    <3>2. granted' <= y
      BY <1>1, <1>2, <1>5, <3>1
    <3> QED
      BY <3>2 DEF y
<1>6. CASE known /\ ~Evicted
  <2>1. Burst * (1 + p) <= Burst * (1 + q)
    BY <1>1, BurstsGrow
  <2> QED
    <3> DEFINE x == Burst * (1 + p)
               y == Burst * (1 + q)
    <3>1. x \in Nat /\ y \in Nat /\ granted <= x /\ x <= y
      BY <1>1, <1>3, <1>6, <2>1
    <3> HIDE DEF x, y
    <3>2. granted' <= y
      BY <1>1, <1>2, <1>6, <3>1
    <3> QED
      BY <3>2 DEF y
<1> QED
  BY <1>4, <1>5, <1>6 DEF TypeOK

LEMMA GrantsStep ==
  ASSUME TypeOK, Grants, [Next]_vars
  PROVE  Grants'
<1>1. CASE UNCHANGED <<bucket, granted>>
  BY <1>1 DEF Grants, bucket
<1>2. ASSUME NEW c \in Conns, NEW b \in Chunks, Pass(c, b) \/ Hold(c, b)  PROVE Grants'
  BY <1>2, GrantsTouch DEF Pass, Hold
<1> QED
  BY <1>1, <1>2 DEF Next, vars, Release, Disconnect, Tick

-----------------------------------------------------------------------------
LEMMA AddressInit == Init => Books /\ Grants
<1> SUFFICES ASSUME Init  PROVE Books /\ Grants
  OBVIOUS
<1>1. \A c \in Conns : Charged[c] = 0 /\ Waited[c] = 0
  BY DEF Init, Charged, Waited
<1>2. SumFunctionOnSet(Charged, Conns) = Cardinality(Conns) * 0
      /\ SumFunctionOnSet(Waited, Conns) = Cardinality(Conns) * 0
  BY <1>1, SumConstant, ThrottleAssumption
<1>3. Cardinality(Conns) \in Nat /\ Drawn = 0
  BY FS_CardinalityType, ThrottleAssumption DEF Init, Drawn
<1>4. Books
  BY <1>2, <1>3 DEF Books
<1> QED
  BY <1>4 DEF Init, Grants

\* Each connection has waited at most the time there was, and what it still has
\* to wait is at most what it holds.
LEMMA TotalCovered ==
  ASSUME TypeOK, NoStarvation, Books
  PROVE  Total <= Drawn + Cardinality(Conns) * now
<1> DEFINE n == Cardinality(Conns)
           w == Waited
           e == Charged
           h == held
           h2 == [c \in Conns |-> now + held[c]]
           t == [c \in Conns |-> now]
<1>1. /\ \A c \in Conns : /\ sent[c] \in Nat /\ h[c] \in Nat /\ e[c] = sent[c] + h[c]
                          /\ e[c] \in Nat /\ w[c] \in Nat
                          /\ h2[c] \in Nat /\ t[c] \in Nat /\ t[c] = now /\ h2[c] = t[c] + h[c]
      /\ now \in Nat
  BY ThrottleAssumption DEF TypeOK, Charged, Waited
<1>2. \A c \in Conns : w[c] <= h2[c]
  <2>1. ASSUME NEW c \in Conns, held[c] # 0
        PROVE  until[c] <= now + held[c]
    <3>1. held[c] \in Nat /\ until[c] \in Nat /\ since[c] \in Nat /\ since[c] <= now
      BY ThrottleAssumption DEF TypeOK
    <3>2. until[c] - since[c] <= held[c]
      BY <2>1, <3>1 DEF NoStarvation
    <3> QED
      BY <1>1, <3>1, <3>2
  <2> QED
    BY <1>1, <2>1 DEF Waited
<1>3. SumFunctionOnSet(e, Conns) <= Drawn + SumFunctionOnSet(w, Conns) /\ Drawn \in Int
  BY WeightsTyped DEF Books
<1>4. Total = SumFunctionOnSet(sent, Conns)
  BY DEF Total
<1> HIDE DEF e, w, h, h2, t, n
<1>5. SumFunctionOnSet(e, Conns) = SumFunctionOnSet(sent, Conns) + SumFunctionOnSet(h, Conns)
  BY <1>1, SumAdds, ThrottleAssumption
<1>6. SumFunctionOnSet(w, Conns) <= SumFunctionOnSet(h2, Conns)
  BY <1>1, <1>2, SumMonotone, ThrottleAssumption
<1>7. SumFunctionOnSet(h2, Conns) = SumFunctionOnSet(t, Conns) + SumFunctionOnSet(h, Conns)
  BY <1>1, SumAdds, ThrottleAssumption
<1>8. SumFunctionOnSet(t, Conns) = n * now
  BY <1>1, SumConstant, ThrottleAssumption DEF n
<1>9. /\ SumFunctionOnSet(e, Conns) \in Nat /\ SumFunctionOnSet(sent, Conns) \in Nat
      /\ SumFunctionOnSet(h, Conns) \in Nat /\ SumFunctionOnSet(w, Conns) \in Nat
      /\ SumFunctionOnSet(h2, Conns) \in Nat /\ SumFunctionOnSet(t, Conns) \in Nat
  BY <1>1, SumNat, ThrottleAssumption
<1>10. SumFunctionOnSet(sent, Conns) <= Drawn + SumFunctionOnSet(t, Conns)
  BY <1>3, <1>5, <1>6, <1>7, <1>9
<1> QED
  BY <1>4, <1>8, <1>10 DEF n

\* Whatever the number of connections, an address gets no more than a burst per
\* eviction period, the rate, and the rate again for each connection that waits.
THEOREM ThrottleTotal == Spec => []TotalBound
<1>1. IInv /\ IInv' /\ Books /\ Grants /\ [Next]_vars => Books' /\ Grants'
  BY BooksStep, GrantsStep DEF IInv
<1>2. IInv /\ Books /\ Grants => TotalBound
  <2> SUFFICES ASSUME IInv, Books, Grants
               PROVE  Total <= Burst * (1 + now \div Idle) + (1 + Cardinality(Conns)) * now
    BY DEF TotalBound
  <2> DEFINE n == Cardinality(Conns)
             p == last \div Idle
             q == now \div Idle
  <2>1. /\ n \in Nat /\ now \in Nat /\ last \in Nat /\ tokens \in Nat /\ last <= now
        /\ granted \in Nat /\ Burst \in Nat
    BY FS_CardinalityType, ThrottleAssumption DEF IInv, TypeOK
  <2>2. p \in Nat /\ q \in Nat /\ p <= q
    BY <2>1, Periods
  <2>3. granted <= Burst * (1 + q)
    <3>1. Burst * (1 + p) <= Burst * (1 + q) /\ Burst * 0 <= Burst * (1 + q)
      BY <2>2, BurstsGrow
    <3>2. Burst * (1 + p) \in Nat /\ Burst * (1 + q) \in Nat /\ Burst * 0 = 0
      BY <2>1, <2>2
    <3>3. granted = 0 \/ granted <= Burst * (1 + p)
      BY DEF Grants, IInv, TypeOK
    <3> HIDE DEF p, q
    <3> QED
      BY <2>1, <3>1, <3>2, <3>3
  <2>4. Total <= Drawn + n * now
    BY TotalCovered DEF IInv
  <2>5. Drawn <= granted + now /\ Drawn \in Int
    BY <2>1 DEF Drawn
  <2>6. (1 + n) * now = now + n * now /\ n * now \in Nat
    BY <2>1
  <2>7. Total \in Nat
    <3>1. \A c \in Conns : sent[c] \in Nat
      BY DEF IInv, TypeOK
    <3> QED
      BY <3>1, SumNat, ThrottleAssumption DEF Total
  <2>8. Burst * (1 + q) \in Nat
    BY <2>1, <2>2
  <2> DEFINE x == Burst * (1 + q)
             y == n * now
  <2>9. granted <= x /\ Total <= Drawn + y /\ x \in Nat /\ y \in Nat
    BY <2>3, <2>4, <2>6, <2>8
  <2> HIDE DEF n, p, q, x, y
  <2>10. Total <= x + (now + y)
    BY <2>1, <2>5, <2>7, <2>9
  <2> QED
    BY <2>6, <2>10 DEF n, q, x, y
<1> QED
  BY <1>1, <1>2, AddressInit, ThrottleInvariance, PTL DEF Spec
=============================================================================
