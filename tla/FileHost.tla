------------------------------ MODULE FileHost ------------------------------
(***************************************************************************)
(* What the file host promises the people who hold a link, without its     *)
(* database, its disk or its processes: an upload is published once, is    *)
(* available until its withdrawal begins, and never comes back.  A request *)
(* for a link is either sent an upload published under it or told that     *)
(* there is none, and it may be told so only when no upload of the link is *)
(* available or when one of them is being withdrawn.                       *)
(***************************************************************************)
CONSTANTS Uploads,  \* the identities of uploads
          Slugs,    \* the links
          Readers,  \* the clients that follow links
          Nobody,   \* not an upload
          NoSlug    \* not a link

VARIABLES live,     \* the uploads that are available
          leaving,  \* the uploads whose withdrawal has begun, not ended
          gone,     \* the uploads that are withdrawn
          name,     \* the link of each published upload
          asked,    \* the link each reader follows
          from,     \* the upload a reader is being sent
          phase     \* how far a reader's request is

vars == <<live, leaving, gone, name, asked, from, phase>>

TypeOK ==
  /\ live \in SUBSET Uploads
  /\ leaving \in SUBSET Uploads
  /\ gone \in SUBSET Uploads
  /\ name \in [Uploads -> Slugs \union {NoSlug}]
  /\ asked \in [Readers -> Slugs \union {NoSlug}]
  /\ from \in [Readers -> Uploads \union {Nobody}]
  /\ phase \in [Readers -> {"idle", "sending", "served", "missed"}]

Init ==
  /\ live = {} /\ leaving = {} /\ gone = {}
  /\ name = [u \in Uploads |-> NoSlug]
  /\ asked = [r \in Readers |-> NoSlug]
  /\ from = [r \in Readers |-> Nobody]
  /\ phase = [r \in Readers |-> "idle"]

Publish(u, s) ==
  /\ u \notin live \union leaving \union gone
  /\ live' = live \union {u}
  /\ name' = [name EXCEPT ![u] = s]
  /\ UNCHANGED <<leaving, gone, asked, from, phase>>

\* A withdrawal may be noticed before it is complete.
Withdraw(u) ==
  /\ u \in live
  /\ live' = live \ {u}
  /\ leaving' = leaving \union {u}
  /\ UNCHANGED <<gone, name, asked, from, phase>>

Retire(u) ==
  /\ u \in live \union leaving
  /\ live' = live \ {u}
  /\ leaving' = leaving \ {u}
  /\ gone' = gone \union {u}
  /\ UNCHANGED <<name, asked, from, phase>>

\* A request for link s finds an upload and begins to send it.
Ask(r, s, u) ==
  /\ phase[r] # "sending"
  /\ u \in live /\ name[u] = s
  /\ phase' = [phase EXCEPT ![r] = "sending"]
  /\ from' = [from EXCEPT ![r] = u]
  /\ asked' = [asked EXCEPT ![r] = s]
  /\ UNCHANGED <<live, leaving, gone, name>>

\* Nothing to send: a link that is fully available is never missed.
Miss(r, s, u) ==
  /\ phase[r] # "sending"
  /\ \/ \A v \in live : name[v] # s
     \/ \E v \in leaving : name[v] = s
  /\ phase' = [phase EXCEPT ![r] = "missed"]
  /\ from' = [from EXCEPT ![r] = u]
  /\ asked' = [asked EXCEPT ![r] = s]
  /\ UNCHANGED <<live, leaving, gone, name>>

Deliver(r) ==
  /\ phase[r] = "sending"
  /\ phase' = [phase EXCEPT ![r] = "served"]
  /\ UNCHANGED <<live, leaving, gone, name, asked, from>>

\* A request that had found its upload fails only if that was withdrawn since.
Break(r) ==
  /\ phase[r] = "sending"
  /\ from[r] \in leaving \union gone
  /\ phase' = [phase EXCEPT ![r] = "missed"]
  /\ UNCHANGED <<live, leaving, gone, name, asked, from>>

\* The host stops: every unfinished request is dropped.
Drop(R) ==
  /\ phase' = [r \in Readers |-> IF r \in R THEN "idle" ELSE phase[r]]
  /\ UNCHANGED <<live, leaving, gone, name, asked, from>>

Next ==
  \/ \E u \in Uploads, s \in Slugs : Publish(u, s)
  \/ \E u \in Uploads : Withdraw(u) \/ Retire(u)
  \/ \E r \in Readers, s \in Slugs, u \in Uploads : Ask(r, s, u)
  \/ \E r \in Readers, s \in Slugs, u \in Uploads \union {Nobody} : Miss(r, s, u)
  \/ \E r \in Readers : Deliver(r) \/ Break(r)
  \/ \E R \in SUBSET Readers : Drop(R)

Spec == Init /\ [][Next]_vars
=============================================================================
