---------------------------- MODULE AtomicCache ----------------------------
(***************************************************************************)
(* What the callers of a KeyedTtlCache may take it for: a table of copies  *)
(* of the database in which a lookup has its effect in one step, whatever  *)
(* it waits for before and after.  It finds a copy, or there is none and   *)
(* it makes one of the database as it is at that moment.  Copies lapse at  *)
(* any time, and a flush after a change leaves none made before it.        *)
(* UploadStore and Bans look their caches up in this way.                  *)
(***************************************************************************)
EXTENDS Naturals

CONSTANTS Keys,     \* what is looked up
          Getters,  \* the lookups
          Changers  \* those who change the database and then flush the copies

VARIABLES db,       \* the version of the database
          copy,     \* the version of each key that has a copy
          telling,  \* the changers that have still to flush
          phase,    \* how far each lookup is
          asked,    \* the key it is for
          answer    \* the version it found

vars == <<db, copy, telling, phase, asked, answer>>

Without(K) == [k \in DOMAIN copy \ K |-> copy[k]]

Init ==
  /\ db = 0 /\ copy = [k \in {} |-> 0] /\ telling = {}
  /\ phase = [g \in Getters |-> "idle"]
  /\ asked \in [Getters -> Keys]
  /\ answer = [g \in Getters |-> 0]

Ask(g, k) ==
  /\ phase[g] \in {"idle", "done"}
  /\ phase' = [phase EXCEPT ![g] = "asked"]
  /\ asked' = [asked EXCEPT ![g] = k]
  /\ answer' = [answer EXCEPT ![g] = 0]
  /\ UNCHANGED <<db, copy, telling>>

\* There is a copy, and it is the answer.
Hit(g) ==
  /\ phase[g] = "asked" /\ asked[g] \in DOMAIN copy
  /\ phase' = [phase EXCEPT ![g] = "done"]
  /\ answer' = [answer EXCEPT ![g] = copy[asked[g]]]
  /\ UNCHANGED <<db, copy, telling, asked>>

\* There is none, and the database becomes copy and answer.
Miss(g) ==
  /\ phase[g] = "asked" /\ asked[g] \notin DOMAIN copy
  /\ phase' = [phase EXCEPT ![g] = "found"]
  /\ copy' = [k \in DOMAIN copy \union {asked[g]} |-> IF k = asked[g] THEN db ELSE copy[k]]
  /\ answer' = [answer EXCEPT ![g] = db]
  /\ UNCHANGED <<db, telling, asked>>

\* The answer is returned; copies may have lapsed by then, its own too.
Return(g, K) ==
  /\ phase[g] = "found"
  /\ phase' = [phase EXCEPT ![g] = "done"]
  /\ copy' = Without(K)
  /\ UNCHANGED <<db, telling, asked, answer>>

\* A lookup fails or is dropped; what it found may be lost.
Abandon(g, K) ==
  /\ phase[g] \in {"asked", "found"}
  /\ phase' = [phase EXCEPT ![g] = "idle"]
  /\ answer' = [answer EXCEPT ![g] = 0]
  /\ copy' = Without(K)
  /\ UNCHANGED <<db, telling, asked>>

Lapse(K) ==
  /\ copy' = Without(K)
  /\ UNCHANGED <<db, telling, phase, asked, answer>>

Change(c) ==
  /\ c \notin telling
  /\ db' = db + 1
  /\ telling' = telling \union {c}
  /\ UNCHANGED <<copy, phase, asked, answer>>

\* Every copy goes at once.
Flush(c) ==
  /\ c \in telling
  /\ copy' = Without(Keys)
  /\ telling' = telling \ {c}
  /\ UNCHANGED <<db, phase, asked, answer>>

\* A changer may be dropped before it flushes.
Forget(c) ==
  /\ c \in telling
  /\ telling' = telling \ {c}
  /\ UNCHANGED <<db, copy, phase, asked, answer>>

ChangeOutside ==
  /\ db' = db + 1
  /\ UNCHANGED <<copy, telling, phase, asked, answer>>

Next ==
  \/ \E g \in Getters, k \in Keys : Ask(g, k)
  \/ \E g \in Getters : Hit(g) \/ Miss(g)
  \/ \E g \in Getters, K \in SUBSET Keys : Return(g, K) \/ Abandon(g, K)
  \/ \E K \in SUBSET Keys : Lapse(K)
  \/ \E c \in Changers : Change(c) \/ Flush(c) \/ Forget(c)
  \/ ChangeOutside

Spec == Init /\ [][Next]_vars
=============================================================================
