---------------------------- MODULE IntakeProofs ----------------------------
(* What holds of Intake for every world, number of slots, rows and files. *)
EXTENDS Intake, SequenceTheorems, Sums

-----------------------------------------------------------------------------
(* The address of a request. *)

\* The entry client_ip picks is the one the first trusted proxy wrote, however
\* many the client had put before it.
LEMMA ForgedIgnored ==
  ASSUME NEW forged \in Seq(Entry), NEW client \in Entry \ {Junk},
         NEW rest \in Seq(Entry), NEW peer, NEW trust,
         trust.hops = Len(rest) + 1, TrustsPeer(trust, peer)
  PROVE  ClientIp(forged \o <<client>> \o rest, peer, trust) = client
<1> DEFINE head == forged \o <<client>>
           header == head \o rest
<1>1. <<client>> \in Seq(Entry) /\ Len(<<client>>) = 1 /\ <<client>>[1] = client
  OBVIOUS
<1>2. head \in Seq(Entry) /\ Len(head) = Len(forged) + 1 /\ head[Len(forged) + 1] = client
  BY <1>1, ConcatProperties
<1>3. header \in Seq(Entry) /\ Len(header) = Len(forged) + 1 + Len(rest)
  BY <1>2, ConcatProperties
<1>4. header[Len(forged) + 1] = client
  BY <1>2, <1>3, ConcatProperties
<1>5. client.fam # "junk"
  BY DEF Entry, Junk
<1>6. Len(header) - trust.hops + 1 = Len(forged) + 1 /\ Len(forged) + 1 >= 1
  BY <1>3
<1> QED
  BY <1>4, <1>5, <1>6 DEF ClientIp

-----------------------------------------------------------------------------
(* Types. *)

Worlds == DOMAIN WorldOf
Slugs == (Nat \X UNION {WorldOf[w].names : w \in Worlds}) \union {<<>>}
AllSizes == UNION {WorldOf[w].sizes : w \in Worlds}
Kinds == {in.kind : in \in UNION {WorldOf[w].inputs : w \in Worlds}}

Upload ==
  [client : Entry, ip : Entry, kind : Kinds, base : Nat, len : Nat, tries : Nat,
   left : Seq(AllSizes), slug : Slugs, since : Nat]
Row ==
  [ip : Entry, client : Entry, size : AllSizes, slug : Slugs, raced : BOOLEAN,
   active : BOOLEAN, kind : Kinds, mime : {StoredMime(k) : k \in Kinds},
   classified : BOOLEAN]

HandlersTyped ==
  /\ pc \in [Slots -> {"idle", "count", "bytes", "body", "file", "store"}]
  /\ req \in [Slots -> Upload \union {NoRequest}]
  /\ \A s \in Slots : pc[s] # "idle" => req[s] \in Upload
  /\ \A s \in Slots : pc[s] \in {"file", "store"} => req[s].left # <<>>

Typed == HandlersTyped /\ rows \in Seq(Row) /\ world \in Worlds

\* What the steps write into a record leaves it one of its type.
LEMMA UploadUpdates ==
  ASSUME NEW r \in Upload, NEW left \in Seq(AllSizes), NEW slug \in Slugs,
         NEW len \in Nat, NEW tries \in Nat, NEW since \in Nat
  PROVE  /\ [r EXCEPT !.left = left] \in Upload
         /\ [r EXCEPT !.tries = tries] \in Upload
         /\ [r EXCEPT !.tries = tries, !.len = len] \in Upload
         /\ [r EXCEPT !.slug = slug, !.since = since] \in Upload
         /\ [r EXCEPT !.left = left, !.len = len, !.tries = tries, !.slug = slug,
                      !.since = since] \in Upload
<1>1. [r EXCEPT !.left = left] \in Upload
  BY DEF Upload
<1>2. [r EXCEPT !.tries = tries] \in Upload
  BY DEF Upload
<1>3. [r EXCEPT !.tries = tries, !.len = len] \in Upload
  BY DEF Upload
<1>4. [r EXCEPT !.slug = slug, !.since = since] \in Upload
  BY DEF Upload
<1>5. [r EXCEPT !.left = left, !.len = len, !.tries = tries, !.slug = slug,
               !.since = since] \in Upload
  BY DEF Upload
<1> QED
  BY <1>1, <1>2, <1>3, <1>4, <1>5

LEMMA RowUpdates ==
  ASSUME NEW row \in Row
  PROVE  [row EXCEPT !.active = FALSE] \in Row
BY DEF Row

LEMMA PeerTyped ==
  ASSUME Typed, NEW in \in World.inputs
  PROVE  ExtractIp(in) \in Entry
<1>1. /\ World.chain \in Seq(Entry) /\ Len(World.chain) >= 1
      /\ in.client \in Entry \ {Junk} /\ in.forged \in Seq(Entry)
  BY ProxyAssumption, WorldAssumption DEF Typed, Worlds, World
<1>2. World.chain[Len(World.chain)] \in Entry
  BY <1>1
<1>3. ToDbBytes(in.client) \in Nat
  BY <1>1, AddressAssumption DEF ToDbBytes, Entry, Junk
<1>4. V6(ToDbBytes(in.client)) \in Entry
  BY <1>3 DEF V6, Entry
<1>5. Peer(in) \in Entry
  BY <1>1, <1>2, <1>4 DEF Peer
<1>6. SubSeq(World.chain, 1, Len(World.chain) - 1) \in Seq(Entry)
  BY <1>1, SubSeqProperties
<1>7. Header(in) \in Seq(Entry)
  BY <1>1, <1>6, ConcatProperties DEF Header
<1>8. CASE ExtractIp(in) = Peer(in)
  BY <1>5, <1>8
<1>9. CASE ExtractIp(in) # Peer(in)
  <2> DEFINE i == Len(Header(in)) - Trust.hops + 1
  <2>1. ExtractIp(in) = Header(in)[i] /\ i >= 1
    BY <1>9 DEF ExtractIp, ClientIp
  <2>2. Trust.hops >= 1 /\ Trust.hops \in Int
    <3>1. World.hops \in Int
      BY ProxyAssumption DEF Typed, Worlds, World
    <3>2. Trust.hops = IF World.hops < 1 THEN 1 ELSE World.hops
      BY DEF Trust, XffTrust
    <3> QED
      BY <3>1, <3>2
  <2> QED
    BY <1>7, <2>1, <2>2
<1> QED
  BY <1>8, <1>9

\* Through the proxies a request counts as its client's, and from its own socket
\* too, perhaps as an IPv6 address.
LEMMA ClientFound ==
  ASSUME Typed, NEW in \in World.inputs, Possible(in)
  PROVE  ExtractIp(in) \in {in.client, V6(ToDbBytes(in.client))}
<1>1. /\ World.chain \in Seq(Entry) /\ World.hops \in Int
      /\ Len(World.chain) = IF World.hops < 1 THEN 1 ELSE World.hops
      /\ TrustsPeer(Trust, World.chain[Len(World.chain)])
      /\ in.client \in Entry \ {Junk} /\ in.forged \in Seq(Entry)
  BY ProxyAssumption, WorldAssumption DEF Typed, Worlds, World, Trust
<1>2. CASE in.via = "proxied"
  <2> DEFINE rest == SubSeq(World.chain, 1, Len(World.chain) - 1)
  <2>1. rest \in Seq(Entry) /\ Len(rest) = Len(World.chain) - 1
    BY <1>1, SubSeqProperties
  <2>2. Trust.hops = IF World.hops < 1 THEN 1 ELSE World.hops
    BY DEF Trust, XffTrust
  <2>3. Trust.hops = Len(rest) + 1
    BY <1>1, <2>1, <2>2
  <2>4. Peer(in) = World.chain[Len(World.chain)]
    BY <1>2 DEF Peer
  <2>5. Header(in) = in.forged \o <<in.client>> \o rest
    BY <1>2 DEF Header
  <2>6. ClientIp(in.forged \o <<in.client>> \o rest, Peer(in), Trust) = in.client
    <3> HIDE DEF rest
    <3> QED
      BY <1>1, <2>1, <2>3, <2>4, ForgedIgnored
  <2> QED
    BY <2>5, <2>6 DEF ExtractIp
<1>3. CASE in.via # "proxied"
  <2>1. ~TrustsPeer(Trust, Peer(in))
    BY <1>3 DEF Possible
  <2>2. ExtractIp(in) = Peer(in)
    BY <2>1 DEF ExtractIp, ClientIp
  <2>3. Peer(in) = IF in.via = "dual" THEN V6(ToDbBytes(in.client)) ELSE in.client
    BY <1>3 DEF Peer
  <2> QED
    BY <2>2, <2>3
<1> QED
  BY <1>2, <1>3

\* Both are the same in the table's bytes.
LEMMA SameBytes ==
  ASSUME NEW a
  PROVE  ToDbBytes(V6(ToDbBytes(a))) = ToDbBytes(a)
BY DEF ToDbBytes, V6

-----------------------------------------------------------------------------
LEMMA TypedInit == Init => Typed
BY DEF Init, ReqInit, Typed, HandlersTyped, Worlds

LEMMA TypedStep == Typed /\ [Next]_vars => Typed'
<1> SUFFICES ASSUME Typed, [Next]_vars PROVE Typed'
  OBVIOUS
<1> USE DEF Typed, HandlersTyped
<1>1. CASE UNCHANGED reqVars
  BY <1>1 DEF reqVars
<1>2. ASSUME NEW s \in Slots, NEW in \in World.inputs, Begin(s, in)
      PROVE  Typed'
  <2> DEFINE new == [client |-> in.client, ip |-> ExtractIp(in), kind |-> in.kind,
             base |-> IdLength(in.asked), len |-> IdLength(in.asked), tries |-> 0,
             left |-> <<>>, slug |-> <<>>, since |-> 0]
  <2>1. /\ \/ UNCHANGED <<pc, req>>
           \/ pc' = [pc EXCEPT ![s] = "count"] /\ req' = [req EXCEPT ![s] = new]
        /\ UNCHANGED <<rows, world>>
    BY <1>2 DEF Begin, Same
  <2>2. in.client \in Entry /\ in.asked \in Int
    BY WorldAssumption DEF Worlds, World
  <2>3. in.kind \in Kinds
    BY DEF Kinds, Worlds, World
  <2>4. IdLength(in.asked) \in Nat
    BY <2>2, LengthAssumption DEF IdLength
  <2>5. ExtractIp(in) \in Entry
    BY PeerTyped
  <2>6. <<>> \in Slugs /\ <<>> \in Seq(AllSizes)
    BY DEF Slugs
  <2>7. new \in Upload
    BY <2>2, <2>3, <2>4, <2>5, <2>6 DEF Upload
  <2> HIDE DEF new
  <2> QED
    BY <2>1, <2>7
<1>3. ASSUME NEW s \in Slots, CountGate(s) \/ BytesGate(s) \/ Leave(s)
      PROVE  Typed'
  <2>1. /\ \/ \E to \in {"bytes", "body"} : Go(s, to) /\ pc[s] # "idle"
           \/ End(s)
        /\ UNCHANGED <<rows, world>>
    BY <1>3 DEF CountGate, BytesGate, Leave, Same
  <2> QED
    BY <2>1 DEF Go, End
<1>4. ASSUME NEW s \in Slots, ReadForm(s)
      PROVE  Typed'
  <2>0. PICK n \in 1 .. MaxFiles :
          \E sizes \in [1 .. n -> World.sizes] : req' = [req EXCEPT ![s].left = sizes]
    BY <1>4 DEF ReadForm
  <2>1. PICK sizes \in [1 .. n -> World.sizes] : req' = [req EXCEPT ![s].left = sizes]
    BY <2>0
  <2>2. World.sizes \subseteq AllSizes
    BY DEF AllSizes, Worlds, World
  <2>3. sizes \in Seq(AllSizes) /\ sizes # <<>>
    BY <2>2
  <2>4. pc' = [pc EXCEPT ![s] = "file"] /\ UNCHANGED <<rows, world>> /\ pc[s] = "body"
    BY <1>4 DEF ReadForm, Same
  <2>5. req'[s] \in Upload /\ req'[s].left # <<>>
    BY <2>1, <2>3, <2>4 DEF Upload
  <2> QED
    BY <2>1, <2>4, <2>5
<1>5. ASSUME NEW s \in Slots, pc[s] \in {"file", "store"}, NextFile(s)
      PROVE  HandlersTyped'
  <2>1. CASE End(s)
    BY <2>1 DEF End
  <2>2. CASE ~End(s)
    <3> DEFINE r == [req[s] EXCEPT !.left = Tail(@), !.len = req[s].base,
                                   !.tries = 0, !.slug = <<>>, !.since = 0]
    <3>1. pc' = [pc EXCEPT ![s] = "file"] /\ req' = [req EXCEPT ![s] = r] /\ Len(req[s].left) # 1
      BY <1>5, <2>2 DEF NextFile
    <3>2. req[s] \in Upload /\ req[s].left # <<>>
      BY <1>5
    <3>3. req[s].left \in Seq(AllSizes)
      BY <3>2 DEF Upload
    <3>4. Tail(req[s].left) \in Seq(AllSizes) /\ Len(Tail(req[s].left)) = Len(req[s].left) - 1
      BY <3>2, <3>3, HeadTailProperties
    <3>5. Len(req[s].left) \in Nat \ {0}
      BY <3>2, <3>3, EmptySeq
    <3>6. Tail(req[s].left) # <<>>
      <4>1. Len(Tail(req[s].left)) # 0
        BY <3>1, <3>4, <3>5
      <4> QED
        BY <4>1, EmptySeq
    <3>7. r \in Upload /\ r.left # <<>>
      BY <3>2, <3>4, <3>6 DEF Upload, Slugs
    <3> HIDE DEF r
    <3> QED
      BY <3>1, <3>7
  <2> QED
    BY <2>1, <2>2
<1>6. ASSUME NEW s \in Slots, ReuseFile(s)
      PROVE  Typed'
  BY <1>5, <1>6 DEF ReuseFile, Same
<1>7. ASSUME NEW s \in Slots, AllocateSlug(s)
      PROVE  Typed'
  <2>1. PICK name \in World.names :
          LET r == req[s]
              slug == <<r.len, name>>
          IN IF IsSlugTaken(slug)
               THEN /\ req' = [req EXCEPT ![s] =
                         IF r.tries + 1 < MaxSlugAttempts
                           THEN [r EXCEPT !.tries = @ + 1]
                           ELSE [r EXCEPT !.tries = 0, !.len = @ + 1]]
                    /\ UNCHANGED pc
               ELSE /\ req' = [req EXCEPT ![s].slug = slug, ![s].since = Len(rows)]
                    /\ pc' = [pc EXCEPT ![s] = "store"]
    BY <1>7 DEF AllocateSlug
  <2>2. req[s] \in Upload /\ req[s].left # <<>> /\ UNCHANGED <<rows, world>>
    BY <1>7 DEF AllocateSlug, Same
  <2>3. <<req[s].len, name>> \in Slugs
    BY <2>2 DEF Slugs, Upload, Worlds, World
  <2>4. CASE IsSlugTaken(<<req[s].len, name>>)
    <3>0. /\ req[s].left \in Seq(AllSizes) /\ req[s].slug \in Slugs
          /\ req[s].len \in Nat /\ req[s].tries \in Nat /\ req[s].since \in Nat
      BY <2>2 DEF Upload
    <3> DEFINE again == [req[s] EXCEPT !.tries = @ + 1]
               longer == [req[s] EXCEPT !.tries = 0, !.len = @ + 1]
    <3>1. req' \in {[req EXCEPT ![s] = again], [req EXCEPT ![s] = longer]} /\ UNCHANGED pc
      BY <2>1, <2>4
    <3>2. again \in Upload /\ longer \in Upload
      <4>1. req[s].tries + 1 \in Nat /\ req[s].len + 1 \in Nat /\ 0 \in Nat
        BY <3>0
      <4>2. again \in Upload
        BY <2>2, <3>0, <4>1, UploadUpdates
      <4>3. longer = [req[s] EXCEPT !.tries = 0, !.len = req[s].len + 1]
        BY <2>2 DEF Upload
      <4>4. longer \in Upload
        BY <2>2, <3>0, <4>1, <4>3, UploadUpdates
      <4> QED
        BY <4>2, <4>4
    <3>3. again.left = req[s].left /\ longer.left = req[s].left
      BY <2>2 DEF Upload
    <3> HIDE DEF again, longer
    <3> QED
      BY <2>2, <3>1, <3>2, <3>3
  <2>5. CASE ~IsSlugTaken(<<req[s].len, name>>)
    <3> DEFINE r == [req[s] EXCEPT !.slug = <<req[s].len, name>>, !.since = Len(rows)]
    <3>1. pc' = [pc EXCEPT ![s] = "store"] /\ req' = [req EXCEPT ![s] = r]
      BY <2>1, <2>5
    <3>2. /\ req[s].left \in Seq(AllSizes) /\ Len(rows) \in Nat
          /\ req[s].len \in Nat /\ req[s].tries \in Nat /\ req[s].since \in Nat
      BY <2>2 DEF Upload
    <3>3. r \in Upload
      BY <2>2, <2>3, <3>2, UploadUpdates
    <3>4. r.left = req[s].left
      BY <2>2 DEF Upload
    <3> HIDE DEF r
    <3> QED
      BY <2>2, <3>1, <3>3, <3>4
  <2> QED
    BY <2>4, <2>5
<1>8. ASSUME NEW s \in Slots, InsertUpload(s)
      PROVE  Typed'
  <2> DEFINE r == req[s]
             mime == StoredMime(r.kind)
             row == [ip |-> V6(ToDbBytes(r.ip)), client |-> r.client, size |-> Head(r.left),
                     slug |-> r.slug, raced |-> r.since < Len(rows), active |-> TRUE,
                     kind |-> r.kind, mime |-> mime, classified |-> mime.type = "image"]
  <2>1. pc[s] = "store" /\ rows' = Append(rows, row) /\ NextFile(s) /\ UNCHANGED world
    BY <1>8 DEF InsertUpload, Same
  <2>2. r \in Upload /\ r.left # <<>>
    BY <2>1
  <2>3. Head(r.left) \in AllSizes
    BY <2>2, HeadTailProperties DEF Upload
  <2>4. V6(ToDbBytes(r.ip)) \in Entry
    BY <2>2, AddressAssumption DEF V6, ToDbBytes, Entry, Junk, Upload
  <2>5. row \in Row
    <3>1. mime \in {StoredMime(k) : k \in Kinds}
      BY <2>2 DEF Upload
    <3> HIDE DEF mime
    <3> QED
      BY <2>2, <2>3, <2>4, <3>1 DEF Upload, Row
  <2> HIDE DEF row
  <2>6. rows' \in Seq(Row)
    BY <2>1, <2>5, AppendProperties
  <2> QED
    BY <1>5, <2>1, <2>6
<1>9. ASSUME NEW i \in 1 .. Len(rows), DeleteUpload(i)
      PROVE  Typed'
  <2>1. rows' = [rows EXCEPT ![i].active = FALSE] /\ UNCHANGED <<pc, req, world>>
    BY <1>9 DEF DeleteUpload, Same
  <2> DEFINE row == [rows[i] EXCEPT !.active = FALSE]
  <2>2. rows' = [rows EXCEPT ![i] = row]
    BY <2>1
  <2>3. row \in Row
    BY ElementOfSeq, RowUpdates
  <2> HIDE DEF row
  <2>4. rows' \in Seq(Row)
    BY <2>2, <2>3, ExceptSeq
  <2> QED
    BY <2>1, <2>4
<1>10. ASSUME UNCHANGED <<pc, req, rows, world>>
       PROVE  Typed'
  BY <1>10
<1>11. CASE ReqNext
  BY <1>2, <1>3, <1>4, <1>6, <1>7, <1>8, <1>9, <1>10, <1>11 DEF ReqNext, DayPasses, GetFile
<1> QED
  BY <1>1, <1>11 DEF Next, vars

\* Handlers and table have their types in every state.
THEOREM TypesKept == Spec => []Typed
BY TypedInit, TypedStep, PTL DEF Spec

-----------------------------------------------------------------------------
(* What a step leaves of a handler and of the table. *)

\* A row keeps what is asked of it here; a deleted one stays deleted.
RowKept(i) ==
  /\ rows'[i].slug = rows[i].slug /\ rows'[i].raced = rows[i].raced
  /\ rows'[i].ip = rows[i].ip /\ rows'[i].client = rows[i].client
  /\ rows'[i].size = rows[i].size /\ rows'[i].kind = rows[i].kind
  /\ rows'[i].mime = rows[i].mime /\ rows'[i].classified = rows[i].classified
  /\ rows'[i].active => rows[i].active

\* The row that is new is of a handler that was about to insert it.
Inserted(s) ==
  LET row == rows'[Len(rows) + 1]
  IN /\ pc[s] = "store"
     /\ row.ip = V6(ToDbBytes(req[s].ip)) /\ row.client = req[s].client
     /\ row.slug = req[s].slug /\ row.raced = (req[s].since < Len(rows))
     /\ row.size = Head(req[s].left) /\ row.kind = req[s].kind
     /\ row.mime = StoredMime(req[s].kind)
     /\ row.classified = (StoredMime(req[s].kind).type = "image")
     /\ Len(rows) < MaxRows /\ UNCHANGED out /\ NextFile(s)

LEMMA TableFrame ==
  ASSUME Typed, Typed', ReqNext
  PROVE  /\ \A i \in 1 .. Len(rows) : RowKept(i)
         /\ Len(rows') \in {Len(rows), Len(rows) + 1}
         /\ Len(rows') = Len(rows) + 1 => \E s \in Slots : Inserted(s)
<1>1. Len(rows) \in Nat
  BY LenProperties DEF Typed
<1>2. ASSUME NEW k \in 1 .. Len(rows), DeleteUpload(k)
      PROVE  Len(rows') = Len(rows) /\ \A i \in 1 .. Len(rows) : RowKept(i)
  <2> DEFINE row == [rows[k] EXCEPT !.active = FALSE]
  <2>1. rows' = [rows EXCEPT ![k] = row]
    BY <1>2 DEF DeleteUpload
  <2>2. rows[k] \in Row /\ row \in Row /\ rows \in Seq(Row)
    BY ElementOfSeq, RowUpdates DEF Typed
  <2>3. /\ row.slug = rows[k].slug /\ row.raced = rows[k].raced /\ row.ip = rows[k].ip
        /\ row.client = rows[k].client /\ row.active = FALSE
        /\ row.size = rows[k].size /\ row.kind = rows[k].kind /\ row.mime = rows[k].mime
        /\ row.classified = rows[k].classified
    BY <2>2 DEF Row
  <2> HIDE DEF row
  <2>4. /\ Len(rows') = Len(rows)
        /\ \A i \in 1 .. Len(rows) : rows'[i] = IF i = k THEN row ELSE rows[i]
    BY <2>1, <2>2, ExceptSeq
  <2> QED
    BY <2>3, <2>4 DEF RowKept
<1>3. ASSUME NEW s \in Slots, InsertUpload(s)
      PROVE  /\ \A i \in 1 .. Len(rows) : RowKept(i)
             /\ Len(rows') = Len(rows) + 1 /\ Inserted(s)
  <2> DEFINE r == req[s]
             mime == StoredMime(r.kind)
             row == [ip |-> V6(ToDbBytes(r.ip)), client |-> r.client, size |-> Head(r.left),
                     slug |-> r.slug, raced |-> r.since < Len(rows), active |-> TRUE,
                     kind |-> r.kind, mime |-> mime, classified |-> mime.type = "image"]
  <2>1. pc[s] = "store" /\ rows' = Append(rows, row) /\ rows \in Seq(Row)
    BY <1>3 DEF InsertUpload, Typed
  <2>2. /\ Len(rows') = Len(rows) + 1 /\ rows'[Len(rows) + 1] = row
        /\ \A i \in 1 .. Len(rows) : rows'[i] = rows[i]
    <3> HIDE DEF row
    <3>1. rows \in Seq(Row \union {row}) /\ row \in Row \union {row}
      BY <2>1, SeqMonotonic
    <3> QED
      BY <2>1, <3>1, AppendProperties
  <2>3. /\ row.ip = V6(ToDbBytes(r.ip)) /\ row.client = r.client /\ row.slug = r.slug
        /\ row.raced = (r.since < Len(rows)) /\ row.size = Head(r.left)
        /\ row.kind = r.kind /\ row.mime = mime /\ row.classified = (mime.type = "image")
    <3> HIDE DEF mime
    <3> QED
      OBVIOUS
  <2>4. Len(rows) < MaxRows /\ UNCHANGED out /\ NextFile(s)
    BY <1>3 DEF InsertUpload, Same
  <2> HIDE DEF row
  <2> QED
    BY <2>1, <2>2, <2>3, <2>4 DEF RowKept, Inserted
<1>4. \/ rows' = rows
      \/ \E k \in 1 .. Len(rows) : DeleteUpload(k)
      \/ \E s \in Slots : InsertUpload(s)
  BY DEF ReqNext, Begin, CountGate, BytesGate, Leave, ReadForm, ReuseFile, AllocateSlug,
     GetFile, DayPasses
<1>5. CASE rows' = rows
  BY <1>1, <1>5 DEF RowKept
<1> QED
  BY <1>1, <1>2, <1>3, <1>4, <1>5

-----------------------------------------------------------------------------
(* What becomes of a handler's record. *)

New(in) ==
  [client |-> in.client, ip |-> ExtractIp(in), kind |-> in.kind,
   base |-> IdLength(in.asked), len |-> IdLength(in.asked), tries |-> 0,
   left |-> <<>>, slug |-> <<>>, since |-> 0]

Starts(t) ==
  \E in \in World.inputs :
    /\ Possible(in) /\ ~IsIpBanned(ExtractIp(in), ReadOnly)
    /\ pc'[t] = "count" /\ req'[t] = New(in)

Stays(t) == pc'[t] = pc[t] /\ req'[t] = req[t]

Passes(t) ==
  /\ req'[t] = req[t] /\ UNCHANGED <<rows, out>>
  /\ \/ /\ pc[t] = "count" /\ pc'[t] = "bytes"
        /\ CheckUnderLimit(World.maxUploads, UploadsCountLastDay(req[t].ip))
     \/ /\ pc[t] = "bytes" /\ pc'[t] = "body"
        /\ CheckUnderLimit(World.maxBytes, UploadsBytesLastDay(req[t].ip))

Reads(t) ==
  /\ pc[t] = "body" /\ pc'[t] = "file"
  /\ \E n \in 1 .. MaxFiles : \E sizes \in [1 .. n -> World.sizes] :
       req'[t] = [req[t] EXCEPT !.left = sizes]

Advances(t) ==
  /\ pc[t] \in {"file", "store"} /\ pc'[t] = "file" /\ Len(req[t].left) # 1
  /\ req'[t] = [req[t] EXCEPT !.left = Tail(req[t].left), !.len = req[t].base, !.tries = 0,
                              !.slug = <<>>, !.since = 0]

Draws(t) ==
  /\ pc[t] = "file"
  /\ \/ /\ pc'[t] = "file" /\ req[t].tries + 1 < MaxSlugAttempts
        /\ req'[t] = [req[t] EXCEPT !.tries = req[t].tries + 1]
     \/ /\ pc'[t] = "file"
        /\ req'[t] = [req[t] EXCEPT !.tries = 0, !.len = req[t].len + 1]
     \/ /\ pc'[t] = "store"
        /\ \E slug \in Slugs :
             /\ ~IsSlugTaken(slug) /\ UNCHANGED rows
             /\ req'[t] = [req[t] EXCEPT !.slug = slug, !.since = Len(rows)]

Moves(t) == Starts(t) \/ Stays(t) \/ Passes(t) \/ Reads(t) \/ Advances(t) \/ Draws(t)

LEMMA HandlerMoves ==
  ASSUME Typed, ReqNext, NEW t \in Slots
  PROVE  \/ pc'[t] = "idle" /\ req'[t] = NoRequest
         \/ Moves(t)
<1> DEFINE Goal == (pc'[t] = "idle" /\ req'[t] = NoRequest) \/ Moves(t)
<1>0. DOMAIN pc = Slots /\ DOMAIN req = Slots
  BY DEF Typed, HandlersTyped
<1>1. ASSUME NEW s \in Slots, s # t, NEW p, NEW r,
             pc' = [pc EXCEPT ![s] = p], req' = [req EXCEPT ![s] = r]
      PROVE  Goal
  BY <1>0, <1>1 DEF Moves, Stays, Typed, HandlersTyped
<1>2. ASSUME NEW s \in Slots, End(s)
      PROVE  Goal
  BY <1>0, <1>1, <1>2 DEF End, Typed, HandlersTyped
<1>3. ASSUME NEW s \in Slots, NEW in \in World.inputs, Begin(s, in)
      PROVE  Goal
  <2>1. CASE UNCHANGED <<pc, req>>
    BY <2>1 DEF Moves, Stays
  <2>2. CASE /\ ~IsIpBanned(ExtractIp(in), ReadOnly)
             /\ pc' = [pc EXCEPT ![s] = "count"] /\ req' = [req EXCEPT ![s] = New(in)]
    <3>1. CASE s = t
      <4>1. pc'[t] = "count" /\ req'[t] = New(in)
        BY <2>2, <3>1 DEF Typed, HandlersTyped
      <4> QED
        BY <1>3, <2>2, <4>1 DEF Begin, Moves, Starts
    <3> QED
      BY <1>1, <2>2, <3>1
  <2> QED
    BY <1>3, <2>1, <2>2 DEF Begin, New
<1>4. ASSUME NEW s \in Slots, CountGate(s) \/ BytesGate(s) \/ Leave(s)
      PROVE  Goal
  <2>1. CASE End(s)
    BY <1>2, <2>1
  <2>2. CASE ~End(s)
    <3>1. PICK to \in {"bytes", "body"} : Go(s, to)
      BY <1>4, <2>2 DEF CountGate, BytesGate, Leave
    <3>2. req' = req /\ pc' = [pc EXCEPT ![s] = to]
      BY <3>1 DEF Go
    <3>3. UNCHANGED <<rows, out>>
      BY <1>4 DEF CountGate, BytesGate, Leave, Same
    <3>4. CASE s = t
      <4>1. pc'[t] = to
        BY <3>2, <3>4 DEF Typed, HandlersTyped
      <4>2. CASE CountGate(s)
        <5>1. pc[t] = "count" /\ Go(s, "bytes")
              /\ CheckUnderLimit(World.maxUploads, UploadsCountLastDay(req[t].ip))
          BY <2>2, <3>4, <4>2 DEF CountGate
        <5>2. pc'[t] = "bytes"
          BY <3>4, <5>1 DEF Go, Typed, HandlersTyped
        <5> QED
          BY <3>2, <3>3, <5>1, <5>2 DEF Moves, Passes
      <4>3. CASE BytesGate(s)
        <5>1. pc[t] = "bytes" /\ Go(s, "body")
              /\ CheckUnderLimit(World.maxBytes, UploadsBytesLastDay(req[t].ip))
          BY <2>2, <3>4, <4>3 DEF BytesGate
        <5>2. pc'[t] = "body"
          BY <3>4, <5>1 DEF Go, Typed, HandlersTyped
        <5> QED
          BY <3>2, <3>3, <5>1, <5>2 DEF Moves, Passes
      <4> QED
        BY <1>4, <2>2, <4>2, <4>3 DEF Leave
    <3>5. CASE s # t
      BY <3>2, <3>5 DEF Moves, Stays, Typed, HandlersTyped
    <3> QED
      BY <3>4, <3>5
  <2> QED
    BY <2>1, <2>2
<1>5. ASSUME NEW s \in Slots, ReadForm(s)
      PROVE  Goal
  <2>1. PICK n \in 1 .. MaxFiles : \E sizes \in [1 .. n -> World.sizes] :
          req' = [req EXCEPT ![s].left = sizes]
    BY <1>5 DEF ReadForm
  <2>2. PICK sizes \in [1 .. n -> World.sizes] : req' = [req EXCEPT ![s].left = sizes]
    BY <2>1
  <2>3. pc[s] = "body" /\ pc' = [pc EXCEPT ![s] = "file"]
    BY <1>5 DEF ReadForm
  <2>4. CASE s = t
    <3>1. req'[t] = [req[t] EXCEPT !.left = sizes] /\ pc[t] = "body" /\ pc'[t] = "file"
      BY <2>2, <2>3, <2>4 DEF Typed, HandlersTyped
    <3> QED
      BY <3>1 DEF Moves, Reads
  <2>5. CASE s # t
    BY <2>2, <2>3, <2>5 DEF Moves, Stays, Typed, HandlersTyped
  <2> QED
    BY <2>4, <2>5
<1>6. ASSUME NEW s \in Slots, pc[s] \in {"file", "store"}, NextFile(s)
      PROVE  Goal
  <2>1. CASE End(s)
    BY <1>2, <2>1
  <2>2. CASE ~End(s)
    <3> DEFINE r == [req[s] EXCEPT !.left = Tail(req[s].left), !.len = req[s].base,
                                   !.tries = 0, !.slug = <<>>, !.since = 0]
    <3>1. /\ pc' = [pc EXCEPT ![s] = "file"] /\ Len(req[s].left) # 1
          /\ req' = [req EXCEPT ![s] = r]
      <4>1. req[s] \in Upload
        BY <1>6 DEF Typed, HandlersTyped
      <4> QED
        BY <1>6, <2>2, <4>1 DEF NextFile, Upload
    <3>2. CASE s = t
      <4>1. req'[t] = r /\ pc'[t] = "file"
        BY <3>1, <3>2 DEF Typed, HandlersTyped
      <4> QED
        BY <1>6, <3>1, <3>2, <4>1 DEF Moves, Advances
    <3> QED
      BY <1>1, <3>1, <3>2
  <2> QED
    BY <2>1, <2>2
<1>7. ASSUME NEW s \in Slots, AllocateSlug(s)
      PROVE  Goal
  <2>1. PICK name \in World.names :
          LET r == req[s]
              slug == <<r.len, name>>
          IN IF IsSlugTaken(slug)
               THEN /\ req' = [req EXCEPT ![s] =
                         IF r.tries + 1 < MaxSlugAttempts
                           THEN [r EXCEPT !.tries = @ + 1]
                           ELSE [r EXCEPT !.tries = 0, !.len = @ + 1]]
                    /\ UNCHANGED pc
               ELSE /\ req' = [req EXCEPT ![s].slug = slug, ![s].since = Len(rows)]
                    /\ pc' = [pc EXCEPT ![s] = "store"]
    BY <1>7 DEF AllocateSlug
  <2>2. req[s] \in Upload /\ pc[s] = "file"
    BY <1>7 DEF AllocateSlug, Typed, HandlersTyped
  <2>3. CASE s # t
    BY <2>1, <2>3 DEF Moves, Stays, Typed, HandlersTyped
  <2>4. CASE s = t
    <3>1. CASE IsSlugTaken(<<req[s].len, name>>)
      <4>1. /\ pc'[t] = "file"
            /\ req'[t] = IF req[t].tries + 1 < MaxSlugAttempts
                           THEN [req[t] EXCEPT !.tries = req[t].tries + 1]
                           ELSE [req[t] EXCEPT !.tries = 0, !.len = req[t].len + 1]
        BY <2>1, <2>2, <2>4, <3>1 DEF Upload, Typed, HandlersTyped
      <4> QED
        BY <2>2, <2>4, <4>1 DEF Moves, Draws
    <3>2. CASE ~IsSlugTaken(<<req[s].len, name>>)
      <4> DEFINE slug == <<req[s].len, name>>
      <4>1. slug \in Slugs
        BY <2>2 DEF Slugs, Upload, Worlds, World, Typed
      <4>2. req'[t] = [req[t] EXCEPT !.slug = slug, !.since = Len(rows)] /\ pc'[t] = "store"
        BY <2>1, <2>4, <3>2 DEF Typed, HandlersTyped
      <4>3. ~IsSlugTaken(slug) /\ UNCHANGED rows
        BY <1>7, <3>2 DEF AllocateSlug
      <4> HIDE DEF slug
      <4> QED
        BY <2>2, <2>4, <4>1, <4>2, <4>3 DEF Moves, Draws
    <3> QED
      BY <3>1, <3>2
  <2> QED
    BY <2>3, <2>4
<1>8. ASSUME UNCHANGED <<pc, req>>
      PROVE  Goal
  BY <1>8 DEF Moves, Stays
<1> QED
  BY <1>3, <1>4, <1>5, <1>6, <1>7, <1>8
     DEF ReqNext, ReuseFile, InsertUpload, DeleteUpload, GetFile, DayPasses, Same

Begun(s) ==
  \E in \in World.inputs :
    Possible(in) /\ req'[s].ip = ExtractIp(in) /\ req'[s].client = in.client

Carried(s) == pc[s] # "idle" /\ req'[s].ip = req[s].ip /\ req'[s].client = req[s].client

\* A handler that is about to insert has just found its link free, or was so before.
Chosen(s) ==
  \/ pc[s] = "store" /\ req'[s] = req[s]
  \/ rows' = rows /\ req'[s].since = Len(rows) /\ ~IsSlugTaken(req'[s].slug)

Framed(s) == (pc'[s] # "idle" => Begun(s) \/ Carried(s)) /\ (pc'[s] = "store" => Chosen(s))

LEMMA HandlerFrame ==
  ASSUME Typed, ReqNext, NEW t \in Slots
  PROVE  Framed(t)
<1>1. SUFFICES ASSUME pc'[t] # "idle", Moves(t) PROVE Framed(t)
  BY HandlerMoves DEF Framed
<1>2. CASE Starts(t)
  BY <1>2 DEF Starts, New, Framed, Begun
<1>3. CASE ~Starts(t)
  <2>1. pc[t] # "idle"
    BY <1>1, <1>3 DEF Moves, Stays, Passes, Reads, Advances, Draws
  <2>2. req[t] \in Upload
    BY <2>1 DEF Typed, HandlersTyped
  <2>3. req'[t].ip = req[t].ip /\ req'[t].client = req[t].client
    BY <1>1, <1>3, <2>2 DEF Moves, Stays, Passes, Reads, Advances, Draws, Upload
  <2>4. ASSUME pc'[t] = "store" PROVE Chosen(t)
    <3>1. CASE Stays(t)
      BY <2>4, <3>1 DEF Stays, Chosen
    <3>2. CASE Draws(t)
      <4>1. PICK slug \in Slugs :
              /\ ~IsSlugTaken(slug) /\ UNCHANGED rows
              /\ req'[t] = [req[t] EXCEPT !.slug = slug, !.since = Len(rows)]
        BY <2>4, <3>2 DEF Draws
      <4>2. req'[t].slug = slug /\ req'[t].since = Len(rows)
        BY <2>2, <4>1 DEF Upload
      <4> QED
        BY <4>1, <4>2 DEF Chosen
    <3> QED
      BY <1>1, <1>3, <2>4, <3>1, <3>2 DEF Moves, Passes, Reads, Advances
  <2> QED
    BY <2>1, <2>3, <2>4 DEF Framed, Carried
<1> QED
  BY <1>2, <1>3

-----------------------------------------------------------------------------
(* Whose a request is. *)

LEMMA ClientStep == Typed /\ Typed' /\ ClientKnown /\ [Next]_vars => ClientKnown'
<1> SUFFICES ASSUME Typed, Typed', ClientKnown, [Next]_vars PROVE ClientKnown'
  OBVIOUS
<1>1. CASE UNCHANGED reqVars
  BY <1>1 DEF reqVars, ClientKnown
<1>2. CASE ReqNext
  <2>1. ASSUME NEW s \in Slots, pc'[s] # "idle"
        PROVE  ToDbBytes(req'[s].ip) = ToDbBytes(req'[s].client)
    <3>1. Begun(s) \/ Carried(s)
      BY <1>2, <2>1, HandlerFrame DEF Framed
    <3>2. CASE Begun(s)
      BY <3>2, ClientFound, SameBytes DEF Begun
    <3>3. CASE Carried(s)
      BY <3>3 DEF Carried, ClientKnown
    <3> QED
      BY <3>1, <3>2, <3>3
  <2>2. ASSUME NEW i \in 1 .. Len(rows')
        PROVE  ToDbBytes(rows'[i].ip) = ToDbBytes(rows'[i].client)
    <3>1. CASE i \in 1 .. Len(rows)
      BY <1>2, <3>1, TableFrame DEF RowKept, ClientKnown
    <3>2. CASE i \notin 1 .. Len(rows)
      <4>1. Len(rows) \in Nat /\ Len(rows') \in Nat
        BY LenProperties DEF Typed
      <4>2. Len(rows') = Len(rows) + 1 /\ i = Len(rows) + 1
        BY <1>2, <3>2, <4>1, TableFrame
      <4>3. PICK s \in Slots : Inserted(s)
        BY <1>2, <4>2, TableFrame
      <4>4. ToDbBytes(req[s].ip) = ToDbBytes(req[s].client)
        BY <4>3 DEF Inserted, ClientKnown
      <4>5. ToDbBytes(V6(ToDbBytes(req[s].ip))) = ToDbBytes(req[s].ip)
        BY DEF ToDbBytes, V6
      <4> QED
        BY <4>2, <4>3, <4>4, <4>5 DEF Inserted
    <3> QED
      BY <3>1, <3>2
  <2> QED
    BY <2>1, <2>2 DEF ClientKnown
<1> QED
  BY <1>1, <1>2 DEF Next, vars

\* Whatever a client writes into the header, and however many proxies there are,
\* its request counts as its own.
THEOREM ClientIsKnown == Spec => []ClientKnown
<1>1. Init => ClientKnown
  BY DEF Init, ReqInit, ClientKnown
<1> QED
  BY <1>1, ClientStep, TypesKept, PTL DEF Spec

-----------------------------------------------------------------------------
(* The bounds that TypeOK adds to the types. *)

\* Uploading, of a table of n rows.
Fits(r, sizes, n) ==
  /\ r.kind \in DOMAIN FileOf
  /\ IsAddress(r.client) /\ IsAddress(r.ip)
  /\ r.base \in MinIdLength .. MaxIdLength
  /\ r.len >= r.base /\ r.tries \in 0 .. MaxSlugAttempts - 1
  /\ Len(r.left) <= MaxFiles /\ \A k \in DOMAIN r.left : r.left[k] \in sizes
  /\ r.since <= n

LEMMA FitsUpdates ==
  ASSUME NEW r \in Upload, NEW sizes, NEW n \in Nat, Fits(r, sizes, n)
  PROVE  /\ \A m \in Nat : m >= n => Fits(r, sizes, m)
         /\ \A left : Len(left) <= MaxFiles /\ (\A k \in DOMAIN left : left[k] \in sizes) =>
              Fits([r EXCEPT !.left = left], sizes, n)
         /\ r.tries + 1 < MaxSlugAttempts =>
              Fits([r EXCEPT !.tries = r.tries + 1], sizes, n)
         /\ Fits([r EXCEPT !.tries = 0, !.len = r.len + 1], sizes, n)
         /\ \A slug : Fits([r EXCEPT !.slug = slug, !.since = n], sizes, n)
         /\ r.left # <<>> =>
              Fits([r EXCEPT !.left = Tail(r.left), !.len = r.base, !.tries = 0,
                             !.slug = <<>>, !.since = 0], sizes, n)
<1>0. /\ r.base \in Nat /\ r.len \in Nat /\ r.tries \in Nat /\ r.since \in Nat
      /\ r.left \in Seq(AllSizes)
  BY DEF Upload
<1>1. \A m \in Nat : m >= n => Fits(r, sizes, m)
  BY <1>0 DEF Fits
<1>2. ASSUME NEW left, Len(left) <= MaxFiles, \A k \in DOMAIN left : left[k] \in sizes
      PROVE  Fits([r EXCEPT !.left = left], sizes, n)
  <2> DEFINE new == [r EXCEPT !.left = left]
  <2>1. /\ new.kind = r.kind /\ new.client = r.client /\ new.ip = r.ip /\ new.base = r.base
        /\ new.len = r.len /\ new.tries = r.tries /\ new.left = left /\ new.since = r.since
    BY DEF Upload
  <2> HIDE DEF new
  <2> QED
    BY <1>2, <2>1 DEF Fits
<1>3. ASSUME r.tries + 1 < MaxSlugAttempts
      PROVE  Fits([r EXCEPT !.tries = r.tries + 1], sizes, n)
  <2> DEFINE new == [r EXCEPT !.tries = r.tries + 1]
  <2>1. /\ new.kind = r.kind /\ new.client = r.client /\ new.ip = r.ip /\ new.base = r.base
        /\ new.len = r.len /\ new.tries = r.tries + 1 /\ new.left = r.left
        /\ new.since = r.since
    BY DEF Upload
  <2>2. new.tries \in 0 .. MaxSlugAttempts - 1
    BY <1>0, <1>3, <2>1, LengthAssumption
  <2> HIDE DEF new
  <2> QED
    BY <2>1, <2>2 DEF Fits
<1>4. Fits([r EXCEPT !.tries = 0, !.len = r.len + 1], sizes, n)
  <2> DEFINE new == [r EXCEPT !.tries = 0, !.len = r.len + 1]
  <2>1. /\ new.kind = r.kind /\ new.client = r.client /\ new.ip = r.ip /\ new.base = r.base
        /\ new.len = r.len + 1 /\ new.tries = 0 /\ new.left = r.left /\ new.since = r.since
    BY DEF Upload
  <2> HIDE DEF new
  <2> QED
    BY <1>0, <2>1, LengthAssumption DEF Fits
<1>5. ASSUME NEW slug
      PROVE  Fits([r EXCEPT !.slug = slug, !.since = n], sizes, n)
  <2> DEFINE new == [r EXCEPT !.slug = slug, !.since = n]
  <2>1. /\ new.kind = r.kind /\ new.client = r.client /\ new.ip = r.ip /\ new.base = r.base
        /\ new.len = r.len /\ new.tries = r.tries /\ new.left = r.left /\ new.since = n
    BY DEF Upload
  <2> HIDE DEF new
  <2> QED
    BY <2>1 DEF Fits
<1>6. ASSUME r.left # <<>>
      PROVE  Fits([r EXCEPT !.left = Tail(r.left), !.len = r.base, !.tries = 0,
                            !.slug = <<>>, !.since = 0], sizes, n)
  <2> DEFINE new == [r EXCEPT !.left = Tail(r.left), !.len = r.base, !.tries = 0,
                              !.slug = <<>>, !.since = 0]
             rest == Tail(r.left)
  <2>1. /\ new.kind = r.kind /\ new.client = r.client /\ new.ip = r.ip /\ new.base = r.base
        /\ new.len = r.base /\ new.tries = 0 /\ new.left = rest /\ new.since = 0
    BY DEF Upload
  <2>2. /\ Len(rest) = Len(r.left) - 1 /\ Len(r.left) \in Nat /\ rest \in Seq(AllSizes)
        /\ \A k \in 1 .. Len(rest) : rest[k] = r.left[k + 1]
    BY <1>0, <1>6, HeadTailProperties, LenProperties
  <2>3. DOMAIN rest = 1 .. Len(rest) /\ DOMAIN r.left = 1 .. Len(r.left)
    BY <1>0, <2>2, LenProperties
  <2>4. Len(rest) <= MaxFiles /\ \A k \in DOMAIN rest : rest[k] \in sizes
    <3>1. ASSUME NEW k \in DOMAIN rest PROVE rest[k] \in sizes
      <4>1. k + 1 \in DOMAIN r.left /\ rest[k] = r.left[k + 1]
        BY <2>2, <2>3, <3>1
      <4> QED
        BY <4>1 DEF Fits
    <3>2. Len(r.left) <= MaxFiles
      BY DEF Fits
    <3> QED
      BY <2>2, <3>1, <3>2, BoundAssumption
  <2> HIDE DEF new, rest
  <2>5. new.len >= new.base /\ new.tries \in 0 .. MaxSlugAttempts - 1 /\ new.since <= n
    BY <1>0, <2>1, LengthAssumption
  <2>6. Fits(new, sizes, n)
    BY <2>1, <2>4, <2>5 DEF Fits
  <2> QED
    BY <2>6 DEF new, rest
<1> QED
  BY <1>1, <1>2, <1>3, <1>4, <1>5, <1>6

\* Every address is one of IPv6 in bits.
LEMMA BytesAddress ==
  ASSUME NEW a, IsAddress(a)
  PROVE  IsAddress(V6(ToDbBytes(a)))
<1>1. 2 ^ V4Bits \in Nat \ {0} /\ 2 ^ Width \in Nat \ {0}
  BY PowerPositive, AddressAssumption
<1> DEFINE four == 2 ^ V4Bits
           six == 2 ^ Width
<1>2. MappedBase + four <= six /\ MappedBase \in Nat /\ four \in Nat \ {0} /\ six \in Nat \ {0}
  BY <1>1, AddressAssumption
<1>3. \/ a.fam = "v4" /\ a.n \in 0 .. four - 1
      \/ a.fam = "v6" /\ a.n \in 0 .. six - 1
  BY DEF IsAddress
<1> HIDE DEF four, six
<1>4. ToDbBytes(a) \in 0 .. six - 1
  BY <1>2, <1>3 DEF ToDbBytes
<1> QED
  BY <1>4 DEF IsAddress, V6, six

LEMMA NewFits ==
  ASSUME Typed, NEW in \in World.inputs, Possible(in), NEW sizes, NEW n \in Nat
  PROVE  Fits(New(in), sizes, n)
<1>1. /\ in.kind \in DOMAIN FileOf /\ IsAddress(in.client) /\ in.asked \in Int
  BY WorldAssumption DEF Typed, Worlds, World
<1>2. IsAddress(ExtractIp(in))
  BY <1>1, ClientFound, BytesAddress
<1>3. IdLength(in.asked) \in MinIdLength .. MaxIdLength
  BY <1>1, LengthAssumption DEF IdLength
<1> DEFINE r == New(in)
<1>4. /\ r.kind = in.kind /\ r.client = in.client /\ r.ip = ExtractIp(in)
      /\ r.base = IdLength(in.asked) /\ r.len = r.base /\ r.tries = 0 /\ r.left = <<>>
      /\ r.since = 0
  BY DEF New
<1>5. Len(r.left) <= MaxFiles /\ DOMAIN r.left = {}
  BY <1>4, BoundAssumption
<1> HIDE DEF r
<1>6. Fits(r, sizes, n)
  BY <1>1, <1>2, <1>3, <1>4, <1>5, LengthAssumption DEF Fits
<1> QED
  BY <1>6 DEF r

Bounded ==
  /\ \A s \in Slots :
       IF pc[s] = "idle" THEN req[s] = NoRequest ELSE Fits(req[s], World.sizes, Len(rows))
  /\ Len(rows) <= MaxRows /\ out \in 0 .. Len(rows)
  /\ \A i \in 1 .. Len(rows) : rows[i].size \in World.sizes

LEMMA BoundedIsTypeOK == Typed /\ Bounded => ReqTypeOK
BY DEF Typed, HandlersTyped, Bounded, ReqTypeOK, Uploading, Fits

LEMMA BoundedStep == Typed /\ Typed' /\ Bounded /\ [Next]_vars => Bounded'
<1> SUFFICES ASSUME Typed, Typed', Bounded, [Next]_vars PROVE Bounded'
  OBVIOUS
<1>1. CASE UNCHANGED reqVars
  BY <1>1 DEF reqVars, Bounded, World
<1>2. CASE ReqNext
  <2> DEFINE sizes == World.sizes
             n == Len(rows)
             m == Len(rows')
  <2>1. n \in Nat /\ m \in Nat
    BY LenProperties DEF Typed
  <2>2. m \in {n, n + 1} /\ m >= n
    BY <1>2, <2>1, TableFrame
  <2>3. UNCHANGED world
    BY <1>2 DEF ReqNext, Begin, CountGate, BytesGate, Leave, ReadForm, ReuseFile, AllocateSlug,
       InsertUpload, DeleteUpload, GetFile, DayPasses, Same
  <2>4. ASSUME NEW t \in Slots, pc'[t] # "idle"
        PROVE  Fits(req'[t], sizes, m)
    <3>1. Moves(t)
      BY <1>2, <2>4, HandlerMoves
    <3>2. CASE Starts(t)
      BY <2>1, <3>2, NewFits DEF Starts
    <3>3. CASE ~Starts(t)
      <4>1. pc[t] # "idle"
        BY <2>4, <3>1, <3>3 DEF Moves, Stays, Passes, Reads, Advances, Draws
      <4>2. req[t] \in Upload /\ Fits(req[t], sizes, n)
        BY <4>1 DEF Typed, HandlersTyped, Bounded
      <4> DEFINE r == req[t]
      <4> HIDE DEF r, sizes, n, m
      <4>0. /\ Fits(r, sizes, m)
            /\ \A left : Len(left) <= MaxFiles /\ (\A k \in DOMAIN left : left[k] \in sizes) =>
                 Fits([r EXCEPT !.left = left], sizes, n)
            /\ r.tries + 1 < MaxSlugAttempts =>
                 Fits([r EXCEPT !.tries = r.tries + 1], sizes, n)
            /\ Fits([r EXCEPT !.tries = 0, !.len = r.len + 1], sizes, n)
            /\ \A slug : Fits([r EXCEPT !.slug = slug, !.since = n], sizes, n)
            /\ r.left # <<>> =>
                 Fits([r EXCEPT !.left = Tail(r.left), !.len = r.base, !.tries = 0,
                                !.slug = <<>>, !.since = 0], sizes, n)
        <5>1. r \in Upload /\ Fits(r, sizes, n)
          BY <4>2 DEF r
        <5> QED
          BY <2>1, <2>2, <5>1, FitsUpdates
      <4>3. CASE Stays(t) \/ Passes(t)
        BY <4>0, <4>3 DEF Stays, Passes, r
      <4>4. req'[t] \in Upload
        BY <2>4 DEF Typed, HandlersTyped
      <4>5. SUFFICES ASSUME ~Stays(t), ~Passes(t) PROVE Fits(req'[t], sizes, n)
        BY <2>1, <2>2, <4>3, <4>4, FitsUpdates
      <4>6. CASE Reads(t)
        <5>1. PICK k \in 1 .. MaxFiles : \E left \in [1 .. k -> sizes] :
                req'[t] = [r EXCEPT !.left = left]
          BY <4>6 DEF Reads, r, sizes
        <5>2. PICK left \in [1 .. k -> sizes] : req'[t] = [r EXCEPT !.left = left]
          BY <5>1
        <5>3. left \in Seq(sizes) /\ Len(left) = k /\ DOMAIN left = 1 .. k
          OBVIOUS
        <5>4. Len(left) <= MaxFiles /\ \A i \in DOMAIN left : left[i] \in sizes
          BY <5>3, BoundAssumption
        <5> QED
          BY <4>0, <5>2, <5>4
      <4>7. CASE Advances(t)
        <5>1. r.left # <<>>
          BY <4>7 DEF Advances, Typed, HandlersTyped, r
        <5> QED
          BY <4>0, <4>7, <5>1 DEF Advances, r
      <4>8. CASE Draws(t)
        BY <4>0, <4>8 DEF Draws, r, n
      <4> QED
        BY <3>1, <3>3, <4>5, <4>6, <4>7, <4>8 DEF Moves
    <3> QED
      BY <3>2, <3>3
  <2>5. ASSUME NEW t \in Slots, pc'[t] = "idle"
        PROVE  req'[t] = NoRequest
    <3>1. req'[t] = NoRequest \/ Stays(t)
      BY <1>2, <2>5, HandlerMoves DEF Moves, Starts, Passes, Reads, Advances, Draws
    <3> QED
      BY <2>5, <3>1 DEF Stays, Bounded
  <2>6. m <= MaxRows /\ out' \in 0 .. m
    <3>1. n <= MaxRows /\ out \in 0 .. n /\ MaxRows \in Nat
      BY BoundAssumption DEF Bounded
    <3>2. CASE m = n + 1
      <4>1. n < MaxRows /\ out' = out
        BY <1>2, <3>2, TableFrame DEF Inserted
      <4> QED
        BY <2>1, <3>1, <3>2, <4>1
    <3>3. CASE m = n
      <4>1. out' = out \/ out' \in out + 1 .. n
        BY <1>2 DEF ReqNext, Begin, CountGate, BytesGate, Leave, ReadForm, ReuseFile,
           AllocateSlug, InsertUpload, DeleteUpload, GetFile, DayPasses, Same
      <4> QED
        BY <2>1, <3>1, <3>3, <4>1
    <3> QED
      BY <2>2, <3>2, <3>3
  <2>7. ASSUME NEW i \in 1 .. m
        PROVE  rows'[i].size \in sizes
    <3>1. CASE i \in 1 .. n
      BY <1>2, <3>1, TableFrame DEF RowKept, Bounded
    <3>2. CASE i \notin 1 .. n
      <4>1. m = n + 1 /\ i = n + 1
        BY <2>1, <2>2, <2>7, <3>2
      <4>2. PICK s \in Slots : Inserted(s)
        BY <1>2, <4>1, TableFrame
      <4>3. rows'[i].size = Head(req[s].left) /\ pc[s] = "store"
        BY <4>1, <4>2 DEF Inserted
      <4>4. req[s].left # <<>> /\ req[s].left \in Seq(AllSizes)
        BY <4>3 DEF Typed, HandlersTyped, Upload
      <4>5. Head(req[s].left) = req[s].left[1] /\ 1 \in DOMAIN req[s].left
        BY <4>4
      <4>6. Fits(req[s], sizes, n)
        BY <4>3 DEF Bounded
      <4> QED
        BY <4>3, <4>5, <4>6 DEF Fits
    <3> QED
      BY <3>1, <3>2
  <2>8. World' = World
    BY <2>3 DEF World
  <2>9. (\A s \in Slots : IF pc[s] = "idle" THEN req[s] = NoRequest
                          ELSE Fits(req[s], World.sizes, Len(rows)))'
    BY <2>4, <2>5, <2>8
  <2> QED
    BY <2>6, <2>7, <2>8, <2>9 DEF Bounded
<1> QED
  BY <1>1, <1>2 DEF Next, vars

LEMMA BoundsKept == Spec => [](Typed /\ Bounded)
<1>1. Init => Bounded
  BY BoundAssumption DEF Init, ReqInit, Bounded
<1> QED
  BY <1>1, BoundedStep, TypesKept, PTL DEF Spec

LEMMA ScanTypes == Spec => []ScanTypeOK
<1> USE DEF SameClamd, SameClient, Return
<1>0. 0 \in 0 .. 2 * Chunks + 1 /\ 0 \in 0 .. MaxVirus
  BY ChunksAssumption
<1>1. Init => ScanTypeOK
  BY <1>0 DEF Init, ScanInit, ScanTypeOK, Results
<1>2. ASSUME ScanTypeOK, [ScanFile \/ Clamd]_scanVars PROVE ScanTypeOK'
  <2> USE <1>2 DEF ScanTypeOK, Results
  <2>1. CASE ScanBreaks \/ Connect \/ Hello
    BY <2>1 DEF ScanBreaks, Connect, Hello
  <2>2. CASE OpenFile
    BY <2>2 DEF OpenFile
  <2>3. CASE Write
    BY <2>3, ChunksAssumption DEF Write
  <2>4. CASE WriteClosed \/ EndOfFile
    BY <2>4 DEF WriteClosed, EndOfFile
  <2>5. CASE Terminate
    BY <2>5, ChunksAssumption DEF Terminate
  <2>6. CASE ReadReply
    BY <2>6 DEF ReadReply
  <2>7. CASE ClamdReads
    <3>1. received' = received + 1 /\ received < written
      BY <2>7 DEF ClamdReads
    <3>2. received' \in 0 .. 2 * Chunks + 1
      BY <3>1, ChunksAssumption
    <3> QED
      BY <2>7, <3>2 DEF ClamdReads
  <2>8. CASE ClamdAnswers \/ ClamdCloses \/ Reset
    BY <2>8 DEF ClamdAnswers, ClamdCloses, Reset
  <2>9. CASE UNCHANGED scanVars
    BY <2>9 DEF scanVars
  <2> QED
    BY <2>1, <2>2, <2>3, <2>4, <2>5, <2>6, <2>7, <2>8, <2>9 DEF ScanFile, Clamd
<1>3. [Next]_vars => [ScanFile \/ Clamd]_scanVars
  BY DEF Next, ScanStep, vars, scanVars
<1> QED
  BY <1>1, <1>2, <1>3, PTL DEF Spec

\* Handlers stay within the limits of the settings, with links of a length in
\* bounds and as many files as a form may have; the table and the scan too.
THEOREM BoundsAreKept == Spec => []TypeOK
BY BoundsKept, ScanTypes, BoundedIsTypeOK, PTL DEF TypeOK

-----------------------------------------------------------------------------
(* Who is banned. *)

\* The mask of as many host bits as a family has, or fewer, leaves one out of
\* each 2^bits numbers; no block is too wide for the shift.
LEMMA HostMaskIs ==
  ASSUME NEW bits \in 0 .. Width
  PROVE  HostMask(bits) = (2 ^ bits) - 1
<1>1. bits # Width => bits % Width = bits
  BY AddressAssumption
<1> QED
  BY <1>1 DEF HostMask

\* Numbers with the same first bits are those between the bounds of their block.
LEMMA SameBlock ==
  ASSUME NEW a \in Nat, NEW n \in Nat, NEW size \in Nat \ {0}
  PROVE  a \div size = n \div size <=>
           n - (n % size) <= a /\ a <= n - (n % size) + (size - 1)
<1>1. ASSUME a \div size = n \div size
      PROVE  n - (n % size) <= a /\ a <= n - (n % size) + (size - 1)
  BY <1>1
<1>2. ASSUME n - (n % size) <= a, a <= n - (n % size) + (size - 1)
      PROVE  a \div size = n \div size
  BY <1>2
<1> QED
  BY <1>1, <1>2

\* The range parsed from a block is the addresses of its family with its first
\* bits, those and no others: a ban refuses exactly whom it names.  A prefix
\* that is too long names nobody.
THEOREM RangeIsBlock ==
  ASSUME NEW a \in Entry, IsAddress(a),
         NEW block, block.addr \in Entry, block.prefix \in Int, block.prefix >= -1,
         a.fam = block.addr.fam
  PROVE  (\E range \in ParseBody({block}) : Contains(range, a)) <=> InBlock(a, block)
<1> DEFINE width == IF block.addr.fam = "v4" THEN V4Bits ELSE Width
           prefix == IF block.prefix = -1 THEN width ELSE block.prefix
           n == block.addr.n
           size == 2 ^ (width - prefix)
           low == n - (n % size)
<1>1. /\ a.fam \in {"v4", "v6"} /\ a.n \in Nat /\ n \in Nat
      /\ a = [fam |-> a.fam, n |-> a.n] /\ block.addr = [fam |-> a.fam, n |-> n]
  BY DEF IsAddress, Entry, Junk
<1>2. width \in Nat /\ width <= Width /\ Width \in Nat
  BY AddressAssumption
<1>3. CASE block.prefix > width
  <2>1. prefix > width
    <3> HIDE DEF width
    <3> QED
      BY <1>2, <1>3
  <2>2. CidrParse(block) = {}
    BY <2>1 DEF CidrParse
  <2>3. ~InBlock(a, block)
    <3>1. InBlock(a, block) => block.prefix <= width
      BY DEF InBlock
    <3> HIDE DEF width
    <3> QED
      BY <1>2, <1>3, <3>1
  <2> QED
    BY <2>2, <2>3 DEF ParseBody
<1>4. CASE block.prefix <= width
  <2>1. prefix \in Nat /\ prefix <= width
    <3> HIDE DEF width
    <3> QED
      BY <1>2, <1>4
  <2>2. width - prefix \in 0 .. Width
    <3> HIDE DEF width, prefix
    <3> QED
      BY <1>2, <2>1
  <2>3. size \in Nat \ {0} /\ HostMask(width - prefix) = size - 1
    <3> HIDE DEF width, prefix
    <3> QED
      BY <2>2, PowerPositive, HostMaskIs
  <2>4. (size - 1) + 1 = size
    <3> HIDE DEF size
    <3> QED
      BY <2>3
  <2>5. InBlock(a, block) <=> a.n \div size = n \div size
    <3>1. CASE block.prefix = -1
      <4>1. InBlock(a, block) <=> a = block.addr
        BY <1>1, <1>2, <3>1 DEF InBlock
      <4>2. width - prefix = 0
        <5> HIDE DEF width
        <5> QED
          BY <1>2, <3>1
      <4>3. size = 1
        <5>1. 2 ^ 0 = 1
          OBVIOUS
        <5> HIDE DEF width, prefix
        <5> QED
          BY <4>2, <5>1
      <4>4. a.n \div size = a.n /\ n \div size = n
        <5> HIDE DEF size, n
        <5> QED
          BY <1>1, <4>3
      <4>5. a = block.addr <=> a.n = n
        BY <1>1
      <4> HIDE DEF size, n
      <4> QED
        BY <4>1, <4>4, <4>5
    <3>2. CASE block.prefix # -1
      BY <1>1, <1>4, <3>2 DEF InBlock
    <3> QED
      BY <3>1, <3>2
  <2>6. /\ a.n \div size = n \div size <=> low <= a.n /\ a.n <= low + (size - 1)
        /\ low \in Int
    <3> HIDE DEF size, n
    <3> QED
      BY <1>1, <2>3, SameBlock
  <2>7. CidrBounds(n, prefix, width) = <<low, low + (size - 1)>>
    <3> HIDE DEF size, n, prefix, width
    <3> QED
      BY <2>3, <2>4 DEF CidrBounds
  <2> DEFINE range == [start |-> [fam |-> a.fam, n |-> low],
                       end |-> [fam |-> a.fam, n |-> low + (size - 1)]]
  <2>8. CidrParse(block) = {range}
    <3>1. ~(block.addr.fam = "junk" \/ prefix > width)
      <4> HIDE DEF prefix, width
      <4> QED
        BY <1>1, <1>2, <2>1
    <3> HIDE DEF size, low
    <3> QED
      BY <1>1, <2>7, <3>1 DEF CidrParse
  <2>9. Contains(range, a) <=> low <= a.n /\ a.n <= low + (size - 1)
    <3> HIDE DEF low, size
    <3> QED
      BY <1>1, <2>3, <2>6, AddressAssumption DEF Contains, Between, ToDbBytes
  <2> HIDE DEF range, low, size, n
  <2> QED
    BY <2>5, <2>6, <2>8, <2>9 DEF ParseBody
<1> QED
  <2>1. block.prefix \in Int /\ width \in Int
    BY <1>2
  <2> HIDE DEF width
  <2> QED
    BY <1>3, <1>4, <2>1

LEMMA NotBanned ==
  ASSUME Typed, NEW in \in World.inputs, Possible(in), NEW type,
         ~IsIpBanned(ExtractIp(in), type), NEW entry \in World.bans, entry.type >= type
  PROVE  ~InBlock(in.client, entry.block)
<1>1. /\ in.client \in Entry /\ IsAddress(in.client) /\ entry.block.addr \in Entry
      /\ entry.block.prefix \in Int /\ entry.block.prefix >= -1
  BY WorldAssumption DEF Typed, Worlds, World
<1>2. SUFFICES ASSUME InBlock(in.client, entry.block) PROVE FALSE
  OBVIOUS
<1>3. PICK range \in ParseBody({entry.block}) : Contains(range, in.client)
  BY <1>1, <1>2, RangeIsBlock DEF InBlock
<1>4. ToDbBytes(ExtractIp(in)) = ToDbBytes(in.client)
  BY ClientFound, SameBytes
<1>5. Contains(range, ExtractIp(in))
  BY <1>3, <1>4 DEF Contains, Between
<1> QED
  BY <1>3, <1>5 DEF IsIpBanned

\* The last download changes only with one.
LEMMA ServedFrame ==
  ASSUME ReqNext
  PROVE  /\ UNCHANGED world
         /\ \/ UNCHANGED served
            \/ \E i \in 1 .. Len(rows) : \E in \in World.downloads : GetFile(in, i)
<1>1. UNCHANGED world
  BY DEF ReqNext, Begin, CountGate, BytesGate, Leave, ReadForm, ReuseFile, AllocateSlug,
     InsertUpload, DeleteUpload, DayPasses, GetFile, Same
<1>2. \/ UNCHANGED served
      \/ \E i \in 1 .. Len(rows) : \E in \in World.downloads : GetFile(in, i)
  BY DEF ReqNext, Begin, CountGate, BytesGate, Leave, ReadForm, ReuseFile, AllocateSlug,
     InsertUpload, DeleteUpload, DayPasses, Same
<1> QED
  BY <1>1, <1>2

\* Those who have passed the first gate are not banned either.
Refused ==
  \A s \in Slots : pc[s] # "idle" =>
    \A entry \in World.bans : ~InBlock(req[s].client, entry.block)

LEMMA RefusedStep ==
  ASSUME Typed, Typed', Refused, BannedRefused, [Next]_vars
  PROVE  Refused' /\ BannedRefused'
<1>1. CASE UNCHANGED reqVars
  BY <1>1 DEF reqVars, Refused, BannedRefused, World
<1>2. CASE ReqNext
  <2>1. World' = World
    BY <1>2, ServedFrame DEF World
  <2>2. ASSUME NEW t \in Slots, pc'[t] # "idle", NEW entry \in World.bans
        PROVE  ~InBlock(req'[t].client, entry.block)
    <3>1. Moves(t)
      BY <1>2, <2>2, HandlerMoves
    <3>2. CASE Starts(t)
      <4>1. PICK in \in World.inputs :
              Possible(in) /\ ~IsIpBanned(ExtractIp(in), ReadOnly) /\ req'[t] = New(in)
        BY <3>2 DEF Starts
      <4>2. entry.type >= ReadOnly
        BY WorldAssumption DEF Typed, Worlds, World, ReadOnly, Full
      <4>3. req'[t].client = in.client
        BY <4>1 DEF New
      <4> QED
        BY <4>1, <4>2, <4>3, NotBanned
    <3>3. CASE ~Starts(t)
      <4>1. pc[t] # "idle" /\ req'[t].client = req[t].client
        <5>1. pc[t] # "idle"
          BY <2>2, <3>1, <3>3 DEF Moves, Stays, Passes, Reads, Advances, Draws
        <5>2. req[t] \in Upload
          BY <5>1 DEF Typed, HandlersTyped
        <5> QED
          BY <3>1, <3>3, <5>1, <5>2 DEF Moves, Stays, Passes, Reads, Advances, Draws, Upload
      <4> QED
        BY <2>2, <4>1 DEF Refused
    <3> QED
      BY <3>2, <3>3
  <2>3. ASSUME NEW i \in 1 .. Len(rows'), NEW entry \in World.bans
        PROVE  ~InBlock(rows'[i].client, entry.block)
    <3>1. CASE i \in 1 .. Len(rows)
      BY <1>2, <3>1, TableFrame DEF RowKept, BannedRefused
    <3>2. CASE i \notin 1 .. Len(rows)
      <4>1. Len(rows) \in Nat /\ Len(rows') \in Nat
        BY LenProperties DEF Typed
      <4>2. Len(rows') = Len(rows) + 1 /\ i = Len(rows) + 1
        BY <1>2, <3>2, <4>1, TableFrame
      <4>3. PICK s \in Slots : Inserted(s)
        BY <1>2, <4>2, TableFrame
      <4>4. rows'[i].client = req[s].client /\ pc[s] # "idle"
        BY <4>2, <4>3 DEF Inserted
      <4> QED
        BY <4>4 DEF Refused
    <3> QED
      BY <3>1, <3>2
  <2>4. ASSUME NEW entry \in World.bans, served' # NoDownload, entry.type = Full
        PROVE  ~InBlock(served'.client, entry.block)
    <3>1. CASE UNCHANGED served
      BY <2>4, <3>1 DEF BannedRefused
    <3>2. CASE ~UNCHANGED served
      <4>1. PICK i \in 1 .. Len(rows) : \E in \in World.downloads : GetFile(in, i)
        BY <1>2, <3>2, ServedFrame
      <4>2. PICK in \in World.downloads : GetFile(in, i)
        BY <4>1
      <4>3. in \in World.inputs
        BY WorldAssumption DEF Typed, Worlds, World
      <4>4. Possible(in) /\ ~IsIpBanned(ExtractIp(in), Full) /\ served'.client = in.client
        BY <4>2 DEF GetFile
      <4>5. entry.type >= Full
        BY <2>4 DEF Full
      <4> QED
        BY <4>3, <4>4, <4>5, NotBanned
    <3> QED
      BY <3>1, <3>2
  <2>5. Refused'
    BY <2>1, <2>2 DEF Refused
  <2>6. BannedRefused'
    <3>1. \A entry \in World'.bans :
            /\ \A i \in 1 .. Len(rows') : ~InBlock(rows'[i].client, entry.block)
            /\ served' # NoDownload /\ entry.type = Full =>
                 ~InBlock(served'.client, entry.block)
      BY <2>1, <2>3, <2>4
    <3> QED
      BY <3>1 DEF BannedRefused
  <2> QED
    BY <2>5, <2>6
<1> QED
  BY <1>1, <1>2 DEF Next, vars

\* No file of somebody in a banned block is stored, and nobody in one banned
\* from everything is served, for blocks of any prefix and addresses of any width.
THEOREM BannedAreRefused == Spec => []BannedRefused
<1>1. Init => Refused /\ BannedRefused
  BY DEF Init, ReqInit, Refused, BannedRefused
<1> QED
  BY <1>1, RefusedStep, TypesKept, PTL DEF Spec

-----------------------------------------------------------------------------
(* What is served. *)

\* A file whose bytes say that it is an image, a video or a sound is stored as that.
LEMMA EvidenceWins ==
  ASSUME NEW kind \in DOMAIN FileOf, NEW mime \in Evident(FileOf[kind]), mime.type \in Media
  PROVE  StoredMime(kind) = mime
<1> DEFINE file == FileOf[kind]
<1>1. mime # NoMime /\ mime # Octet /\ mime.type # "text"
  <2>1. NoMime.type = "" /\ Octet.type = "application"
    BY DEF NoMime, Octet, Mime
  <2>2. mime.type \notin {"", "application", "text"}
    BY DEF Media
  <2> QED
    BY <2>1, <2>2
<1>2. CASE file.signature # {}
  <2>1. PICK ft \in file.signature : mime = ft.byExtension
    BY <1>2 DEF Evident
  <2>2. (CHOOSE x \in file.signature : TRUE) = ft
    BY FileAssumption
  <2>3. DetectContentType(file) = mime
    BY <1>1, <1>2, <2>1, <2>2 DEF DetectContentType, ResolveMime, OrElse
  <2> QED
    BY <1>1, <2>3 DEF StoredMime, ReconcileContentType
<1>3. CASE file.signature = {}
  <2>1. file.wellKnown = mime
    BY <1>3 DEF Evident
  <2>2. DetectContentType(file) = mime
    BY <1>1, <1>3, <2>1 DEF DetectContentType, OrElse
  <2> QED
    BY <1>1, <2>2 DEF StoredMime, ReconcileContentType
<1> QED
  BY <1>2, <1>3

\* A row has the type found for its kind of file, and a download that of its row.
Settled ==
  /\ \A i \in 1 .. Len(rows) :
       /\ rows[i].mime = StoredMime(rows[i].kind)
       /\ rows[i].classified = (StoredMime(rows[i].kind).type = "image")
  /\ served # NoDownload =>
       /\ served.kind \in Kinds
       /\ served.mime = ServeMime(StoredMime(served.kind))
       /\ served.disposition = Disposition(StoredMime(served.kind))

LEMMA SettledStep ==
  ASSUME Typed, Typed', Settled, [Next]_vars
  PROVE  Settled'
<1>1. CASE UNCHANGED reqVars
  BY <1>1 DEF reqVars, Settled
<1>2. CASE ReqNext
  <2>1. ASSUME NEW i \in 1 .. Len(rows')
        PROVE  /\ rows'[i].mime = StoredMime(rows'[i].kind)
               /\ rows'[i].classified = (StoredMime(rows'[i].kind).type = "image")
    <3>1. CASE i \in 1 .. Len(rows)
      BY <1>2, <3>1, TableFrame DEF RowKept, Settled
    <3>2. CASE i \notin 1 .. Len(rows)
      <4>1. Len(rows) \in Nat /\ Len(rows') \in Nat
        BY LenProperties DEF Typed
      <4>2. Len(rows') = Len(rows) + 1 /\ i = Len(rows) + 1
        BY <1>2, <3>2, <4>1, TableFrame
      <4>3. PICK s \in Slots : Inserted(s)
        BY <1>2, <4>2, TableFrame
      <4> QED
        BY <4>2, <4>3 DEF Inserted
    <3> QED
      BY <3>1, <3>2
  <2>2. ASSUME served' # NoDownload
        PROVE  /\ served'.kind \in Kinds
               /\ served'.mime = ServeMime(StoredMime(served'.kind))
               /\ served'.disposition = Disposition(StoredMime(served'.kind))
    <3>1. CASE UNCHANGED served
      BY <2>2, <3>1 DEF Settled
    <3>2. CASE ~UNCHANGED served
      <4>1. PICK i \in 1 .. Len(rows) : \E in \in World.downloads : GetFile(in, i)
        BY <1>2, <3>2, ServedFrame
      <4>2. /\ served'.kind = rows[i].kind /\ served'.mime = ServeMime(rows[i].mime)
            /\ served'.disposition = Disposition(rows[i].mime)
        BY <4>1 DEF GetFile
      <4>3. rows[i] \in Row
        BY ElementOfSeq DEF Typed
      <4> QED
        BY <4>2, <4>3 DEF Settled, Row
    <3> QED
      BY <3>1, <3>2
  <2> QED
    BY <2>1, <2>2 DEF Settled
<1> QED
  BY <1>1, <1>2 DEF Next, vars

LEMMA SettledFound == Typed /\ Settled => FoundTypeKept
<1> SUFFICES ASSUME Typed, Settled PROVE FoundTypeKept
  OBVIOUS
<1>1. Kinds \subseteq DOMAIN FileOf
  BY WorldAssumption DEF Kinds, Worlds
<1>2. ASSUME NEW i \in 1 .. Len(rows), NEW m \in Evident(FileOf[rows[i].kind]),
             m.type = "image"
      PROVE  rows[i].classified
  <2>1. rows[i].kind \in DOMAIN FileOf
    <3>1. rows[i] \in Row
      BY ElementOfSeq DEF Typed
    <3> QED
      BY <1>1, <3>1 DEF Row
  <2>2. StoredMime(rows[i].kind) = m
    BY <1>2, <2>1, EvidenceWins DEF Media
  <2> QED
    BY <1>2, <2>2 DEF Settled
<1>3. ASSUME served # NoDownload, NEW m \in Evident(FileOf[served.kind]), m.type \in Media
      PROVE  served.mime = m /\ served.disposition = "inline"
  <2>1. StoredMime(served.kind) = m
    BY <1>1, <1>3, EvidenceWins DEF Settled
  <2>2. ServeMime(m) = m
    BY <1>3 DEF ServeMime, Media
  <2>3. Disposition(m) = "inline"
    BY <1>3 DEF Disposition, Media
  <2> QED
    BY <1>3, <2>1, <2>2, <2>3 DEF Settled
<1> QED
  BY <1>2, <1>3 DEF FoundTypeKept

\* What the bytes of a file say wins over its name and its sender's word, for
\* every kind of file.
THEOREM FoundTypeIsKept == Spec => []FoundTypeKept
<1>1. Init => Settled
  BY DEF Init, ReqInit, Settled
<1> QED
  BY <1>1, SettledStep, SettledFound, TypesKept, PTL DEF Spec

-----------------------------------------------------------------------------
(* What a client can store in a day.  The two limits are the same argument, of
   the files or of their bytes: whoever has passed a gate can still bring its
   form, and counts with that until the files are rows. *)

Limits == {"files", "bytes"}

Limit(w) == IF w = "files" THEN World.maxUploads ELSE World.maxBytes
Most(w) == IF w = "files" THEN 1 ELSE Max(World.sizes)
Share(w) == MaxFiles * Most(w)

Amounts(table, w) == [i \in 1 .. Len(table) |-> IF w = "files" THEN 1 ELSE table[i].size]
Mine(table, n, net) == {i \in n + 1 .. Len(table) : Network(table[i].client) = net}
Load(table, n, w, net) == SumFunctionOnSet(Amounts(table, w), Mine(table, n, net))

\* Past the gate of a limit, with the files that can still come of it.
Inside(w) == IF w = "files" THEN {"bytes", "body", "file", "store"} ELSE {"body", "file", "store"}
Files(p, r) == IF p \in {"file", "store"} THEN Len(r.left) ELSE MaxFiles
Due(p, r, w, most, net) ==
  IF p \in Inside(w) /\ Network(r.client) = net THEN Files(p, r) * most ELSE 0
Coming(w, net) == [s \in Slots |-> Due(pc[s], req[s], w, Most(w), net)]

Quota(w) ==
  /\ Limit(w) = 0 => rows = <<>> /\ \A s \in Slots : pc[s] \notin Inside(w)
  /\ Limit(w) > 0 => \A net :
       Load(rows, out, w, net) + SumFunctionOnSet(Coming(w, net), Slots)
         < Limit(w) + Cardinality(Slots) * Share(w)

\* The address a handler has is its client's, in one of the two forms.
Traced ==
  /\ \A s \in Slots : pc[s] # "idle" =>
       req[s].ip \in {req[s].client, V6(ToDbBytes(req[s].client))}
  /\ \A i \in 1 .. Len(rows) : rows[i].client # Junk

LEMMA TimesKeepsOrder ==
  ASSUME NEW a \in Nat, NEW b \in Nat, NEW c \in Nat, a <= b
  PROVE  a * c <= b * c /\ a * c \in Nat /\ (a + 1) * c = a * c + c
OBVIOUS

LEMMA SettingsTyped ==
  ASSUME Typed, NEW w \in Limits
  PROVE  /\ Limit(w) \in Nat /\ Most(w) \in Nat /\ Share(w) \in Nat
         /\ World.sizes \subseteq Nat
         /\ \A size \in World.sizes : size <= Most("bytes")
<1>1. /\ World.maxUploads \in Nat /\ World.maxBytes \in Nat /\ World.sizes \subseteq Nat
      /\ \E most \in World.sizes : \A size \in World.sizes : size <= most
  BY WorldAssumption DEF Typed, Worlds, World
<1> DEFINE sizes == World.sizes
<1>2. \E most \in sizes : \A size \in sizes : most >= size
  BY <1>1
<1>3. Max(sizes) \in sizes /\ \A size \in sizes : Max(sizes) >= size
  <2> HIDE DEF sizes
  <2> QED
    BY <1>2 DEF Max
<1>4. Max(sizes) \in Nat /\ \A size \in sizes : size <= Max(sizes)
  BY <1>1, <1>3
<1>5. Most(w) \in Nat
  BY <1>4 DEF Most
<1>6. Share(w) \in Nat
  BY <1>5, BoundAssumption, TimesKeepsOrder DEF Share
<1> QED
  BY <1>1, <1>4, <1>5, <1>6 DEF Limit, Most

LEMMA DueBound ==
  ASSUME NEW p, NEW r, NEW w, NEW most \in Nat, NEW net,
         p \in {"file", "store"} => Len(r.left) \in Nat /\ Len(r.left) <= MaxFiles
  PROVE  Due(p, r, w, most, net) \in Nat /\ Due(p, r, w, most, net) <= MaxFiles * most
<1> DEFINE k == Files(p, r)
<1>1. MaxFiles \in Nat /\ k \in Nat /\ k <= MaxFiles
  BY BoundAssumption DEF Files
<1> HIDE DEF k
<1>2. k * most <= MaxFiles * most /\ k * most \in Nat /\ 0 <= k * most
  BY <1>1, TimesKeepsOrder
<1>3. MaxFiles * most \in Nat
  BY <1>1, TimesKeepsOrder
<1> QED
  BY <1>2, <1>3 DEF Due, k

LEMMA DueTyped ==
  ASSUME Typed, Bounded, NEW w \in Limits, NEW net, NEW t \in Slots
  PROVE  /\ Due(pc[t], req[t], w, Most(w), net) \in Nat
         /\ Due(pc[t], req[t], w, Most(w), net) <= Share(w)
<1>1. ASSUME pc[t] \in {"file", "store"}
      PROVE  Len(req[t].left) \in Nat /\ Len(req[t].left) <= MaxFiles
  <2>1. req[t] \in Upload /\ Fits(req[t], World.sizes, Len(rows))
    BY <1>1 DEF Typed, HandlersTyped, Bounded
  <2> QED
    BY <2>1, LenProperties DEF Upload, Fits
<1>2. Most(w) \in Nat
  BY SettingsTyped
<1> QED
  BY <1>1, <1>2, DueBound DEF Share

-----------------------------------------------------------------------------
(* A step of a handler brings nothing more for a client, unless it passes a gate. *)

Admitted(w, t) == Passes(t) /\ pc[t] \notin Inside(w) /\ pc'[t] \in Inside(w)

LEMMA FilesStep ==
  ASSUME Typed, Typed', Bounded, ReqNext, NEW w \in Limits, NEW t \in Slots,
         pc'[t] \in Inside(w), ~Admitted(w, t)
  PROVE  /\ pc[t] \in Inside(w) /\ req'[t].client = req[t].client
         /\ Files(pc'[t], req'[t]) \in Nat /\ Files(pc[t], req[t]) \in Nat
         /\ Files(pc'[t], req'[t]) <= Files(pc[t], req[t])
<1>1. pc'[t] \in {"bytes", "body", "file", "store"} /\ MaxFiles \in Nat
  BY BoundAssumption DEF Inside
<1>2. Moves(t)
  BY <1>1, HandlerMoves
<1>3. ~Starts(t)
  BY <1>1 DEF Starts
<1>4. pc[t] # "idle" /\ req[t] \in Upload /\ Fits(req[t], World.sizes, Len(rows))
  BY <1>1, <1>2, <1>3
     DEF Moves, Stays, Passes, Reads, Advances, Draws, Typed, HandlersTyped, Bounded
<1>5. req[t].left \in Seq(AllSizes) /\ Len(req[t].left) \in Nat /\ Len(req[t].left) <= MaxFiles
  BY <1>4, LenProperties DEF Upload, Fits
<1>6. CASE Stays(t)
  BY <1>1, <1>5, <1>6 DEF Stays, Files
<1>7. CASE Passes(t)
  <2>1. pc[t] = "bytes" /\ pc'[t] = "body" /\ req'[t] = req[t] /\ w = "files"
    BY <1>7 DEF Passes, Admitted, Inside, Limits
  <2> QED
    BY <1>1, <2>1 DEF Inside, Files
<1>8. CASE Reads(t)
  <2>1. PICK n \in 1 .. MaxFiles : \E sizes \in [1 .. n -> World.sizes] :
          req'[t] = [req[t] EXCEPT !.left = sizes]
    BY <1>8 DEF Reads
  <2>2. PICK sizes \in [1 .. n -> World.sizes] : req'[t] = [req[t] EXCEPT !.left = sizes]
    BY <2>1
  <2>3. req'[t].left = sizes /\ req'[t].client = req[t].client
    BY <1>4, <2>2 DEF Upload
  <2>4. Len(sizes) = n
    BY <1>1
  <2>5. pc[t] = "body" /\ pc'[t] = "file"
    BY <1>8 DEF Reads
  <2> QED
    BY <1>1, <2>3, <2>4, <2>5 DEF Files, Inside
<1>9. CASE Advances(t)
  <2>1. /\ pc[t] \in {"file", "store"} /\ pc'[t] = "file"
        /\ req'[t].left = Tail(req[t].left) /\ req'[t].client = req[t].client
    BY <1>4, <1>9 DEF Advances, Upload
  <2>2. req[t].left # <<>>
    BY <2>1 DEF Typed, HandlersTyped
  <2>3. Len(Tail(req[t].left)) = Len(req[t].left) - 1
    BY <1>5, <2>2, HeadTailProperties
  <2>4. Len(req[t].left) # 0
    BY <1>5, <2>2, EmptySeq
  <2> QED
    BY <1>5, <2>1, <2>3, <2>4 DEF Files, Inside
<1>10. CASE Draws(t)
  <2>1. /\ pc[t] = "file" /\ pc'[t] \in {"file", "store"}
        /\ req'[t].left = req[t].left /\ req'[t].client = req[t].client
    BY <1>4, <1>10 DEF Draws, Upload
  <2> QED
    BY <1>5, <2>1 DEF Files, Inside
<1> QED
  BY <1>2, <1>3, <1>6, <1>7, <1>8, <1>9, <1>10 DEF Moves

LEMMA DueStep ==
  ASSUME Typed, Typed', Bounded, ReqNext, NEW w \in Limits, NEW net, NEW t \in Slots,
         ~(Admitted(w, t) /\ Network(req[t].client) = net)
  PROVE  Due(pc'[t], req'[t], w, Most(w), net) <= Due(pc[t], req[t], w, Most(w), net)
<1>1. Due(pc[t], req[t], w, Most(w), net) \in Nat
  BY DueTyped
<1>2. CASE pc'[t] \notin Inside(w) \/ Network(req'[t].client) # net
  BY <1>1, <1>2 DEF Due
<1>3. CASE pc'[t] \in Inside(w) /\ Network(req'[t].client) = net
  <2>1. ~Admitted(w, t)
    BY <1>3 DEF Admitted, Passes
  <2>2. /\ pc[t] \in Inside(w) /\ req'[t].client = req[t].client
        /\ Files(pc'[t], req'[t]) \in Nat /\ Files(pc[t], req[t]) \in Nat
        /\ Files(pc'[t], req'[t]) <= Files(pc[t], req[t])
    BY <1>3, <2>1, FilesStep
  <2> DEFINE a == Files(pc'[t], req'[t])
             b == Files(pc[t], req[t])
             most == Most(w)
  <2>3. most \in Nat
    BY SettingsTyped
  <2> HIDE DEF a, b, most
  <2>4. a * most <= b * most
    BY <2>2, <2>3, TimesKeepsOrder DEF a, b
  <2> QED
    BY <1>3, <2>2, <2>4 DEF Due, a, b, most
<1> QED
  BY <1>2, <1>3

\* A file that becomes a row does not come any more.
LEMMA DueInserted ==
  ASSUME Typed, Typed', Bounded, ReqNext, NEW w \in Limits, NEW net, NEW s \in Slots,
         Inserted(s), Network(req[s].client) = net
  PROVE  Due(pc'[s], req'[s], w, Most(w), net) + Most(w) <= Due(pc[s], req[s], w, Most(w), net)
<1>1. pc[s] = "store" /\ NextFile(s) /\ req[s] \in Upload /\ req[s].left # <<>>
  BY DEF Inserted, Typed, HandlersTyped
<1> DEFINE k == Len(req[s].left)
           most == Most(w)
<1>2. req[s].left \in Seq(AllSizes) /\ k \in Nat /\ k # 0
  BY <1>1, LenProperties, EmptySeq DEF Upload
<1>3. Due(pc[s], req[s], w, most, net) = k * most
  BY <1>1 DEF Due, Inside, Files
<1>4. most \in Nat
  BY SettingsTyped
<1>5. (k - 1) * most + most = k * most /\ (k - 1) * most \in Nat
  <2> DEFINE j == k - 1
  <2>1. j \in Nat /\ k = j + 1
    BY <1>2
  <2>2. (j + 1) * most = j * most + most /\ j * most \in Nat
    <3> HIDE DEF most, j
    <3> QED
      BY <1>4, <2>1, TimesKeepsOrder
  <2> HIDE DEF most, k, j
  <2> QED
    BY <2>1, <2>2 DEF j
<1>6. CASE k = 1
  <2>1. pc'[s] = "idle"
    BY <1>1, <1>6 DEF NextFile, End, Typed, HandlersTyped
  <2>2. Due(pc'[s], req'[s], w, most, net) = 0
    BY <2>1 DEF Due, Inside
  <2>3. k * most = most
    <3> HIDE DEF most
    <3> QED
      BY <1>4, <1>6
  <2> HIDE DEF most, k
  <2> QED
    BY <1>3, <1>4, <2>2, <2>3 DEF most
<1>7. CASE k # 1
  <2>1. /\ pc'[s] = "file" /\ req'[s].left = Tail(req[s].left)
        /\ req'[s].client = req[s].client
    BY <1>1, <1>7 DEF NextFile, Typed, HandlersTyped, Upload
  <2>2. Len(Tail(req[s].left)) = k - 1
    BY <1>1, <1>2, HeadTailProperties
  <2>3. Due(pc'[s], req'[s], w, most, net) = (k - 1) * most
    BY <2>1, <2>2 DEF Due, Inside, Files
  <2> HIDE DEF most, k
  <2>4. Due(pc'[s], req'[s], w, most, net) + most <= Due(pc[s], req[s], w, most, net)
    BY <1>2, <1>3, <1>4, <1>5, <2>3
  <2> QED
    BY <2>4 DEF most
<1> QED
  BY <1>6, <1>7

-----------------------------------------------------------------------------
(* What a gate counts for a client has all its rows of the day. *)

\* The range of an address has the addresses of its network.
LEMMA NetworkInRange ==
  ASSUME NEW client \in Entry \ {Junk}, NEW other \in Entry, other # Junk,
         Network(other) = Network(client), NEW ip \in {client, V6(ToDbBytes(client))},
         NEW seen, ToDbBytes(seen) = ToDbBytes(other)
  PROVE  Between(seen, QuotaRange(ip)[1], QuotaRange(ip)[2])
<1> DEFINE size == 2 ^ NetBits
<1>1. size \in Nat \ {0}
  BY PowerPositive, AddressAssumption
<1>2. \A a \in Nat : a - (a % size) <= a /\ a <= a - (a % size) + size - 1
  <2> HIDE DEF size
  <2> QED
    BY <1>1
<1>3. /\ client.fam \in {"v4", "v6"} /\ other.fam \in {"v4", "v6"}
      /\ client.n \in Nat /\ other.n \in Nat /\ ToDbBytes(client) \in Nat
  BY AddressAssumption DEF Entry, Junk, ToDbBytes
<1>4. CASE client.fam = "v4"
  <2>1. other = client
    BY <1>3, <1>4 DEF Network, V6
  <2>2. ToDbBytes(seen) = ToDbBytes(client)
    BY <2>1
  <2>3. CASE ip = client
    BY <1>3, <1>4, <2>2, <2>3 DEF QuotaRange, Between
  <2>4. CASE ip = V6(ToDbBytes(client))
    <3> DEFINE n == ToDbBytes(client)
    <3>1. /\ QuotaRange(ip)[1] = V6(n - (n % size))
          /\ QuotaRange(ip)[2] = V6(n - (n % size) + size - 1)
      <4> HIDE DEF n
      <4> QED
        BY <2>4 DEF QuotaRange, NormalizeForQuota, NetStart, V6, n
    <3>2. n - (n % size) <= n /\ n <= n - (n % size) + size - 1
      BY <1>2, <1>3
    <3> HIDE DEF n, size
    <3>3. /\ ToDbBytes(V6(n - (n % size))) = n - (n % size)
          /\ ToDbBytes(V6(n - (n % size) + size - 1)) = n - (n % size) + size - 1
      BY DEF ToDbBytes, V6
    <3>4. ToDbBytes(seen) = n
      BY <2>2 DEF n
    <3> QED
      BY <3>1, <3>2, <3>3, <3>4 DEF Between
  <2> QED
    BY <2>3, <2>4
<1>5. CASE client.fam = "v6"
  <2> DEFINE n == client.n
             a == other.n
  <2>1. other.fam = "v6" /\ a \div size = n \div size
    BY <1>3, <1>5 DEF Network, V6
  <2>2. ip.fam = "v6" /\ ip.n = n
    BY <1>5 DEF V6, ToDbBytes
  <2>3. /\ QuotaRange(ip)[1] = V6(n - (n % size))
        /\ QuotaRange(ip)[2] = V6(n - (n % size) + size - 1)
    <3> HIDE DEF n
    <3> QED
      BY <2>2 DEF QuotaRange, NormalizeForQuota, NetStart
  <2>4. n - (n % size) <= a /\ a <= n - (n % size) + (size - 1)
    <3>1. a \in Nat /\ n \in Nat
      BY <1>3
    <3> HIDE DEF n, a, size
    <3> QED
      BY <1>1, <2>1, <3>1, SameBlock
  <2>5. ToDbBytes(seen) = a
    BY <2>1 DEF ToDbBytes
  <2>6. /\ ToDbBytes(V6(n - (n % size))) = n - (n % size)
        /\ ToDbBytes(V6(n - (n % size) + size - 1)) = n - (n % size) + size - 1
    <3> HIDE DEF n, size
    <3> QED
      BY DEF ToDbBytes, V6
  <2>7. n \in Nat /\ a \in Nat /\ n % size \in Int
    <3>1. n \in Nat /\ a \in Nat
      BY <1>3
    <3> HIDE DEF n, size
    <3> QED
      BY <1>1, <3>1
  <2> HIDE DEF n, a, size
  <2> QED
    BY <1>1, <2>3, <2>4, <2>5, <2>6, <2>7 DEF Between
<1> QED
  BY <1>3, <1>4, <1>5

\* Of the addresses of its own family a client's limits count those of its
\* network, a single one in IPv4, and no others.
THEOREM QuotaRangeIsNetwork ==
  ASSUME NEW client \in Entry \ {Junk}, NEW other \in Entry \ {Junk}, client.fam = other.fam
  PROVE  Between(other, QuotaRange(client)[1], QuotaRange(client)[2])
           <=> Network(other) = Network(client)
<1> DEFINE size == 2 ^ NetBits
           n == client.n
           a == other.n
<1>1. /\ client.fam \in {"v4", "v6"} /\ n \in Nat /\ a \in Nat
      /\ client = [fam |-> client.fam, n |-> n] /\ other = [fam |-> client.fam, n |-> a]
  BY DEF Entry, Junk
<1>2. size \in Nat \ {0}
  BY PowerPositive, AddressAssumption
<1>3. CASE client.fam = "v4"
  <2>1. Between(other, QuotaRange(client)[1], QuotaRange(client)[2]) <=> a = n
    BY <1>1, <1>3, AddressAssumption DEF Between, QuotaRange, ToDbBytes
  <2>2. Network(other) = Network(client) <=> a = n
    BY <1>1, <1>3 DEF Network
  <2> QED
    BY <2>1, <2>2
<1>4. CASE client.fam = "v6"
  <2>1. /\ QuotaRange(client)[1] = V6(n - (n % size))
        /\ QuotaRange(client)[2] = V6(n - (n % size) + size - 1)
    BY <1>4 DEF QuotaRange, NormalizeForQuota, NetStart
  <2>2. Network(other) = Network(client) <=> a \div size = n \div size
    BY <1>1, <1>4 DEF Network, V6
  <2> HIDE DEF size, n, a
  <2>3. n % size \in Int /\ n - (n % size) + size - 1 = n - (n % size) + (size - 1)
    BY <1>1, <1>2
  <2>4. a \div size = n \div size <=> n - (n % size) <= a /\ a <= n - (n % size) + (size - 1)
    BY <1>1, <1>2, SameBlock
  <2>5. /\ ToDbBytes(V6(n - (n % size))) = n - (n % size)
        /\ ToDbBytes(V6(n - (n % size) + size - 1)) = n - (n % size) + size - 1
        /\ ToDbBytes(other) = a
    BY <1>1, <1>4 DEF ToDbBytes, V6
  <2> QED
    BY <2>1, <2>2, <2>3, <2>4, <2>5 DEF Between
<1> QED
  BY <1>1, <1>3, <1>4

LEMMA TracedStep ==
  ASSUME Typed, Typed', Bounded, Traced, ReqNext
  PROVE  Traced'
<1>1. ASSUME NEW t \in Slots, pc'[t] # "idle"
      PROVE  req'[t].ip \in {req'[t].client, V6(ToDbBytes(req'[t].client))}
  <2>1. Begun(t) \/ Carried(t)
    BY <1>1, HandlerFrame DEF Framed
  <2>2. CASE Begun(t)
    BY <2>2, ClientFound DEF Begun
  <2>3. CASE Carried(t)
    BY <2>3 DEF Carried, Traced
  <2> QED
    BY <2>1, <2>2, <2>3
<1>2. ASSUME NEW i \in 1 .. Len(rows')
      PROVE  rows'[i].client # Junk
  <2>1. CASE i \in 1 .. Len(rows)
    BY <2>1, TableFrame DEF RowKept, Traced
  <2>2. CASE i \notin 1 .. Len(rows)
    <3>1. Len(rows) \in Nat /\ Len(rows') \in Nat
      BY LenProperties DEF Typed
    <3>2. Len(rows') = Len(rows) + 1 /\ i = Len(rows) + 1
      BY <1>2, <2>2, <3>1, TableFrame
    <3>3. PICK s \in Slots : Inserted(s)
      BY <3>2, TableFrame
    <3>4. rows'[i].client = req[s].client /\ Fits(req[s], World.sizes, Len(rows))
      BY <3>2, <3>3 DEF Inserted, Bounded
    <3> QED
      BY <3>4 DEF Fits, IsAddress, Junk
  <2> QED
    BY <2>1, <2>2
<1> QED
  BY <1>1, <1>2 DEF Traced

\* The rows of a table that count are finitely many, each for a natural number.
LEMMA AmountsTyped ==
  ASSUME NEW table \in Seq(Row), NEW sizes \in SUBSET Nat,
         \A i \in 1 .. Len(table) : table[i].size \in sizes,
         NEW n \in Nat, NEW w \in Limits, NEW net
  PROVE  /\ Mine(table, n, net) \subseteq 1 .. Len(table)
         /\ IsFiniteSet(1 .. Len(table)) /\ IsFiniteSet(Mine(table, n, net))
         /\ \A i \in 1 .. Len(table) : Amounts(table, w)[i] \in Nat
         /\ Load(table, n, w, net) \in Nat
<1>1. Mine(table, n, net) \subseteq 1 .. Len(table)
  BY LenProperties DEF Mine
<1>2. IsFiniteSet(1 .. Len(table))
  BY LenProperties, FS_Interval
<1>3. IsFiniteSet(Mine(table, n, net))
  BY <1>1, <1>2, FS_Subset
<1>4. \A i \in 1 .. Len(table) : Amounts(table, w)[i] \in Nat
  BY DEF Amounts
<1>5. Load(table, n, w, net) \in Nat
  BY <1>1, <1>3, <1>4, SumNat DEF Load
<1> QED
  BY <1>1, <1>2, <1>3, <1>4, <1>5

LEMMA GateCounts ==
  ASSUME Typed, Bounded, ClientKnown, Traced, NEW t \in Slots, pc[t] # "idle"
  PROVE  LET net == Network(req[t].client)
         IN /\ Load(rows, out, "files", net) <= UploadsCountLastDay(req[t].ip)
            /\ Load(rows, out, "bytes", net) <= UploadsBytesLastDay(req[t].ip)
            /\ UploadsCountLastDay(req[t].ip) \in Nat /\ UploadsBytesLastDay(req[t].ip) \in Nat
<1> DEFINE net == Network(req[t].client)
           mine == Mine(rows, out, net)
           day == LastDay(req[t].ip)
           n == Len(rows)
<1>1. n \in Nat /\ out \in Nat /\ World.sizes \in SUBSET Nat
  BY LenProperties, SettingsTyped DEF Typed, Bounded, Limits
<1>2. day \subseteq 1 .. n
  BY <1>1 DEF LastDay
<1>3. mine \subseteq day
  <2>1. ASSUME NEW i \in mine
        PROVE  Between(rows[i].ip, QuotaRange(req[t].ip)[1], QuotaRange(req[t].ip)[2])
    <3>1. i \in 1 .. n /\ Network(rows[i].client) = net
      BY <1>1 DEF Mine
    <3>2. rows[i] \in Row /\ rows[i].client # Junk
      BY <3>1, ElementOfSeq DEF Typed, Traced
    <3>3. req[t] \in Upload /\ Fits(req[t], World.sizes, Len(rows))
      BY DEF Typed, HandlersTyped, Bounded
    <3>4. req[t].client # Junk
      BY <3>3 DEF Fits, IsAddress, Junk
    <3>5. ToDbBytes(rows[i].ip) = ToDbBytes(rows[i].client)
      BY <3>1 DEF ClientKnown
    <3>6. req[t].ip \in {req[t].client, V6(ToDbBytes(req[t].client))}
      BY DEF Traced
    <3>7. rows[i].client \in Entry /\ req[t].client \in Entry \ {Junk}
      BY <3>2, <3>3, <3>4 DEF Row, Upload
    <3> QED
      BY <3>1, <3>2, <3>5, <3>6, <3>7, NetworkInRange
  <2> QED
    BY <1>1, <2>1 DEF Mine, LastDay
<1>4. IsFiniteSet(day)
  <2>1. IsFiniteSet(1 .. n)
    BY <1>1, FS_Interval
  <2> HIDE DEF day, n
  <2> QED
    BY <1>2, <2>1, FS_Subset
<1>5. ASSUME NEW w \in Limits
      PROVE  /\ Load(rows, out, w, net) <= SumFunctionOnSet(Amounts(rows, w), day)
             /\ SumFunctionOnSet(Amounts(rows, w), day) \in Nat
  <2>1. \A i \in 1 .. n : Amounts(rows, w)[i] \in Nat
    BY <1>1, AmountsTyped DEF Typed, Bounded
  <2> HIDE DEF day, mine
  <2>2. \A i \in day : Amounts(rows, w)[i] \in Nat
    BY <1>2, <2>1
  <2> QED
    BY <1>3, <1>4, <2>2, SumPart, SumNat DEF Load, mine
<1>6. UploadsCountLastDay(req[t].ip) = SumFunctionOnSet(Amounts(rows, "files"), day)
  <2>1. \A i \in day : Amounts(rows, "files")[i] = 1
    BY <1>2 DEF Amounts
  <2> DEFINE f == Amounts(rows, "files")
  <2> HIDE DEF day, f
  <2>2. SumFunctionOnSet(f, day) = Cardinality(day) * 1
    BY <1>4, <2>1, SumConstant DEF f
  <2>3. Cardinality(day) \in Nat
    BY <1>4, FS_CardinalityType
  <2> QED
    BY <2>2, <2>3 DEF UploadsCountLastDay, day, f
<1>7. UploadsBytesLastDay(req[t].ip) = SumFunctionOnSet(Amounts(rows, "bytes"), day)
  <2>1. Sizes = Amounts(rows, "bytes")
    BY DEF Sizes, Amounts
  <2> QED
    BY <2>1 DEF UploadsBytesLastDay
<1> QED
  BY <1>5, <1>6, <1>7 DEF Limits

LEMMA AdmittedBelow ==
  ASSUME Typed, Bounded, ClientKnown, Traced, NEW w \in Limits, NEW t \in Slots, Admitted(w, t)
  PROVE  /\ Load(rows, out, w, Network(req[t].client)) < Limit(w)
         /\ Limit(w) > 0 /\ UNCHANGED <<rows, out>>
<1>1. pc[t] # "idle"
  BY DEF Admitted, Passes
<1>2. \/ w = "files" /\ CheckUnderLimit(World.maxUploads, UploadsCountLastDay(req[t].ip))
      \/ w = "bytes" /\ CheckUnderLimit(World.maxBytes, UploadsBytesLastDay(req[t].ip))
  BY DEF Admitted, Passes, Inside, Limits
<1>3. Limit(w) \in Nat
  BY SettingsTyped
<1> DEFINE net == Network(req[t].client)
           uploads == UploadsCountLastDay(req[t].ip)
           bytes == UploadsBytesLastDay(req[t].ip)
<1>4. /\ Load(rows, out, "files", net) <= uploads
      /\ Load(rows, out, "bytes", net) <= bytes
      /\ uploads \in Nat /\ bytes \in Nat
  BY <1>1, GateCounts
<1>5. Load(rows, out, w, net) \in Nat
  <2>1. out \in Nat /\ World.sizes \in SUBSET Nat
    BY LenProperties, SettingsTyped DEF Typed, Bounded
  <2> HIDE DEF net
  <2> QED
    BY <2>1, AmountsTyped DEF Typed, Bounded
<1>6. Load(rows, out, w, net) < Limit(w) /\ Limit(w) > 0
  <2> HIDE DEF net, uploads, bytes
  <2>1. CASE w = "files"
    <3>1. uploads < Limit(w)
      BY <1>2, <2>1 DEF CheckUnderLimit, Limit, uploads
    <3> QED
      BY <1>3, <1>4, <1>5, <2>1, <3>1
  <2>2. CASE w = "bytes"
    <3>1. bytes < Limit(w)
      BY <1>2, <2>2 DEF CheckUnderLimit, Limit, bytes
    <3> QED
      BY <1>3, <1>4, <1>5, <2>2, <3>1
  <2> QED
    BY <2>1, <2>2 DEF Limits
<1> QED
  BY <1>6 DEF Admitted, Passes

-----------------------------------------------------------------------------
(* The rows of a day after a step. *)

\* Without an insertion a client has no more of them.
LEMMA LoadKept ==
  ASSUME Typed, Typed', Bounded, Bounded', ReqNext, Len(rows') = Len(rows),
         NEW w \in Limits, NEW net
  PROVE  Load(rows', out', w, net) <= Load(rows, out, w, net)
<1> DEFINE f == Amounts(rows, w)
           g == Amounts(rows', w)
           old == Mine(rows, out, net)
           new == Mine(rows', out', net)
           n == Len(rows)
<1>1. n \in Nat /\ out \in Nat /\ out' \in Nat /\ World.sizes \in SUBSET Nat
  BY LenProperties, SettingsTyped DEF Typed, Bounded
<1>2. out' >= out
  <2>1. out' = out \/ out' \in out + 1 .. n
    BY DEF ReqNext, Begin, CountGate, BytesGate, Leave, ReadForm, ReuseFile,
       AllocateSlug, InsertUpload, DeleteUpload, GetFile, DayPasses, Same
  <2> QED
    BY <1>1, <2>1
<1>3. \A i \in 1 .. n : rows'[i].size = rows[i].size /\ rows'[i].client = rows[i].client
  BY TableFrame DEF RowKept
<1>4. new \subseteq old
  BY <1>1, <1>2, <1>3 DEF Mine
<1>5. /\ old \subseteq 1 .. n /\ IsFiniteSet(old)
      /\ \A i \in 1 .. n : f[i] \in Nat
  BY <1>1, AmountsTyped DEF Typed, Bounded
<1>6. \A i \in 1 .. n : g[i] = f[i]
  BY <1>3 DEF Amounts
<1> HIDE DEF f, g, old, new, n
<1>7. IsFiniteSet(new) /\ \A i \in new : f[i] \in Nat /\ g[i] = f[i]
  BY <1>4, <1>5, <1>6, FS_Subset
<1>8. SumFunctionOnSet(g, new) = SumFunctionOnSet(f, new)
  BY <1>7, SumCongruent
<1>9. SumFunctionOnSet(f, new) <= SumFunctionOnSet(f, old)
  <2>1. \A i \in old : f[i] \in Nat
    BY <1>5
  <2> QED
    BY <1>4, <1>5, <2>1, SumPart
<1>10. SumFunctionOnSet(g, new) <= SumFunctionOnSet(f, old)
  BY <1>8, <1>9
<1> QED
  BY <1>10 DEF Load, f, g, old, new

\* An insertion adds to the load of its client, and what it adds is no larger
\* than the largest file.
LEMMA LoadInserted ==
  ASSUME Typed, Typed', Bounded, Bounded', ReqNext, Len(rows') = Len(rows) + 1,
         NEW s \in Slots, Inserted(s), NEW w \in Limits, NEW net
  PROVE  /\ Network(req[s].client) # net =>
              Load(rows', out', w, net) = Load(rows, out, w, net)
         /\ Network(req[s].client) = net =>
              Load(rows', out', w, net) <= Load(rows, out, w, net) + Most(w)
<1> DEFINE f == Amounts(rows, w)
           g == Amounts(rows', w)
           old == Mine(rows, out, net)
           new == Mine(rows', out', net)
           n == Len(rows)
<1>1. n \in Nat /\ out \in Nat /\ out <= n /\ World.sizes \in SUBSET Nat /\ World' = World
  BY LenProperties, SettingsTyped, ServedFrame DEF Typed, Bounded, World
<1>2. out' = out /\ rows'[n + 1].client = req[s].client
  BY DEF Inserted
<1>3. \A i \in 1 .. n : rows'[i].size = rows[i].size /\ rows'[i].client = rows[i].client
  BY TableFrame DEF RowKept
<1>4. new = IF Network(req[s].client) = net THEN old \cup {n + 1} ELSE old
  <2>1. \A i \in out + 1 .. n + 1 : i = n + 1 \/ i \in 1 .. n
    BY <1>1
  <2>2. \A i : i \in new <=> i \in out + 1 .. n + 1 /\ Network(rows'[i].client) = net
    BY <1>2 DEF Mine
  <2>3. \A i : i \in old <=> i \in out + 1 .. n /\ Network(rows[i].client) = net
    BY DEF Mine
  <2>4. \A i : i \in out + 1 .. n + 1 <=> i \in out + 1 .. n \/ i = n + 1
    BY <1>1
  <2>5. \A i \in out + 1 .. n : i \in 1 .. n
    BY <1>1
  <2> HIDE DEF new, old, n
  <2>6. \A i \in out + 1 .. n : i \in new <=> i \in old
    BY <1>3, <2>2, <2>3, <2>4, <2>5
  <2>7. n + 1 \in new <=> Network(req[s].client) = net
    BY <1>2, <2>2, <2>4
  <2>8. \A i : (i \in new => i \in out + 1 .. n + 1) /\ (i \in old => i \in out + 1 .. n)
    BY <2>2, <2>3
  <2> DEFINE last == n + 1
             earlier == out + 1 .. n
             all == out + 1 .. n + 1
  <2>9. /\ \A i : i \in all <=> i \in earlier \/ i = last
        /\ \A i \in earlier : i \in new <=> i \in old
        /\ last \in new <=> Network(req[s].client) = net
        /\ new \subseteq all /\ old \subseteq earlier
    BY <2>4, <2>6, <2>7, <2>8
  <2> HIDE DEF last, earlier, all
  <2>10. new = IF Network(req[s].client) = net THEN old \cup {last} ELSE old
    <3>1. CASE Network(req[s].client) = net
      BY <2>9, <3>1
    <3>2. CASE Network(req[s].client) # net
      BY <2>9, <3>2
    <3> QED
      BY <3>1, <3>2
  <2> QED
    BY <2>10 DEF last
<1>5. /\ old \subseteq 1 .. n /\ IsFiniteSet(old)
      /\ \A i \in 1 .. n : f[i] \in Nat
      /\ SumFunctionOnSet(f, old) \in Nat
  BY <1>1, AmountsTyped DEF Typed, Bounded, Load
<1>6. \A i \in 1 .. n : g[i] = f[i]
  BY <1>1, <1>3 DEF Amounts
<1>7. g[n + 1] \in Nat /\ g[n + 1] <= Most(w)
  <2>1. rows'[n + 1].size \in World.sizes
    BY <1>1 DEF Bounded
  <2>2. rows'[n + 1].size \in Nat /\ rows'[n + 1].size <= Most("bytes")
    BY <1>1, <2>1, SettingsTyped
  <2>3. g[n + 1] = IF w = "files" THEN 1 ELSE rows'[n + 1].size
    BY <1>1 DEF Amounts
  <2>4. w # "files" => w = "bytes"
    BY DEF Limits
  <2>5. Most("files") = 1
    BY DEF Most
  <2> HIDE DEF g, n
  <2> QED
    BY <2>2, <2>3, <2>4, <2>5
<1>8. Most(w) \in Nat
  BY SettingsTyped
<1> DEFINE last == n + 1
<1>9. last \notin 1 .. n
  BY <1>1
<1> HIDE DEF f, g, old, new, n, last
<1>10. SumFunctionOnSet(g, old) = SumFunctionOnSet(f, old)
  <2>1. \A i \in old : f[i] \in Nat /\ g[i] = f[i]
    BY <1>5, <1>6
  <2> QED
    BY <1>5, <2>1, SumCongruent
<1>11. CASE Network(req[s].client) # net
  BY <1>4, <1>10, <1>11 DEF Load, f, g, old, new
<1>12. CASE Network(req[s].client) = net
  <2>1. new = old \cup {last} /\ last \notin old
    BY <1>4, <1>5, <1>9, <1>12 DEF last
  <2>2. IsFiniteSet(new) /\ last \in new /\ new \ {last} = old
    BY <1>5, <2>1, FS_AddElement
  <2>3. \A i \in new : g[i] \in Nat
    BY <1>5, <1>6, <1>7, <2>1 DEF last
  <2>4. SumFunctionOnSet(g, new) = g[last] + SumFunctionOnSet(g, old)
    BY <2>2, <2>3, SumSplit
  <2>5. SumFunctionOnSet(g, new) <= SumFunctionOnSet(f, old) + Most(w)
    BY <1>5, <1>7, <1>8, <1>10, <2>4 DEF last
  <2> QED
    BY <1>12, <2>5 DEF Load, f, g, old, new
<1> QED
  BY <1>11, <1>12

-----------------------------------------------------------------------------
(* The limits. *)

LEMMA QuotaStep ==
  ASSUME Typed, Typed', Bounded, Bounded', ClientKnown, Traced, ReqNext,
         NEW w \in Limits, Quota(w)
  PROVE  Quota(w)'
<1> DEFINE limit == Limit(w)
           share == Share(w)
           most == Most(w)
           due(t, net) == Due(pc[t], req[t], w, most, net)
           due1(t, net) == Due(pc'[t], req'[t], w, most, net)
<1>1. /\ limit \in Nat /\ share \in Nat /\ most \in Nat
      /\ Limit(w)' = limit /\ Share(w)' = share /\ Most(w)' = most
  <2>1. World' = World
    BY ServedFrame DEF World
  <2> QED
    BY <2>1, SettingsTyped DEF Limit, Share, Most
<1>2. IsFiniteSet(Slots) /\ Cardinality(Slots) \in Nat
  BY BoundAssumption, FS_CardinalityType
<1>3. \A t \in Slots : Admitted(w, t) => limit > 0 /\ UNCHANGED <<rows, out>>
  BY AdmittedBelow
<1>4. Len(rows) \in Nat /\ Len(rows') \in {Len(rows), Len(rows) + 1}
  BY LenProperties, TableFrame DEF Typed
<1>5. ASSUME limit = 0
      PROVE  rows' = <<>> /\ \A t \in Slots : pc'[t] \notin Inside(w)
  <2>1. rows = <<>> /\ \A t \in Slots : pc[t] \notin Inside(w)
    BY <1>5 DEF Quota
  <2>2. \A t \in Slots : ~Admitted(w, t)
    BY <1>1, <1>3, <1>5
  <2>3. \A t \in Slots : pc'[t] \notin Inside(w)
    BY <2>1, <2>2, FilesStep
  <2>4. Len(rows') # Len(rows) + 1
    <3>1. ASSUME NEW s \in Slots, Inserted(s) PROVE FALSE
      BY <2>1, <3>1 DEF Inserted, Inside
    <3> QED
      BY <3>1, TableFrame
  <2>5. Len(rows') = 0
    BY <1>4, <2>1, <2>4
  <2> QED
    BY <2>3, <2>5, EmptySeq DEF Typed
<1>6. ASSUME limit > 0, NEW net
      PROVE  Load(rows', out', w, net) + SumFunctionOnSet([t \in Slots |-> due1(t, net)], Slots)
               < limit + Cardinality(Slots) * share
  <2> DEFINE f == [t \in Slots |-> due(t, net)]
             g == [t \in Slots |-> due1(t, net)]
             old == Load(rows, out, w, net)
             new == Load(rows', out', w, net)
             bound == Cardinality(Slots) * share
  <2>1. old + SumFunctionOnSet(f, Slots) < limit + bound
    BY <1>6 DEF Quota, Coming
  <2>2. \A t \in Slots : f[t] \in Nat
    BY DueTyped
  <2>3. \A t \in Slots : g[t] \in Nat /\ g[t] <= share
    <3>1. ASSUME NEW t \in Slots
          PROVE  due1(t, net) \in Nat /\ due1(t, net) <= share
      <4>1. ASSUME pc'[t] \in {"file", "store"}
            PROVE  Len(req'[t].left) \in Nat /\ Len(req'[t].left) <= MaxFiles
        <5>1. req'[t] \in Upload /\ Fits(req'[t], World'.sizes, Len(rows'))
          BY <4>1 DEF Typed, HandlersTyped, Bounded
        <5> QED
          BY <5>1, LenProperties DEF Upload, Fits
      <4> HIDE DEF most
      <4>2. /\ Due(pc'[t], req'[t], w, most, net) \in Nat
            /\ Due(pc'[t], req'[t], w, most, net) <= MaxFiles * most
        BY <1>1, <4>1, DueBound
      <4> QED
        BY <4>2 DEF Share, most
    <3> QED
      BY <3>1
  <2>4. old \in Nat /\ new \in Nat /\ bound \in Nat
    <3>1. out \in Nat /\ out' \in Nat /\ World.sizes \in SUBSET Nat /\ World' = World
      BY LenProperties, SettingsTyped, ServedFrame DEF Typed, Bounded, World
    <3>2. old \in Nat
      BY <3>1, AmountsTyped DEF Typed, Bounded
    <3>3. new \in Nat
      <4>1. \A i \in 1 .. Len(rows') : rows'[i].size \in World.sizes
        BY <3>1 DEF Bounded
      <4>2. rows' \in Seq(Row)
        BY DEF Typed
      <4> QED
        BY <3>1, <4>1, <4>2, AmountsTyped
    <3>4. bound \in Nat
      <4> HIDE DEF share
      <4> QED
        BY <1>1, <1>2, TimesKeepsOrder
    <3> QED
      BY <3>2, <3>3, <3>4
  <2>5. SumFunctionOnSet(f, Slots) \in Nat /\ SumFunctionOnSet(g, Slots) \in Nat
    <3> HIDE DEF f, g
    <3> QED
      BY <1>2, <2>2, <2>3, SumNat
  <2>6. CASE \E t \in Slots : Admitted(w, t) /\ Network(req[t].client) = net
    <3>1. old < limit /\ new = old
      BY <2>6, AdmittedBelow
    <3>2. SumFunctionOnSet(g, Slots) <= bound
      <4> HIDE DEF g, share
      <4> QED
        BY <1>1, <1>2, <2>3, SumBound
    <3> HIDE DEF g, old, new, bound, limit
    <3>3. new + SumFunctionOnSet(g, Slots) < limit + bound
      BY <1>1, <2>4, <2>5, <3>1, <3>2
    <3> QED
      BY <3>3 DEF g, new, bound, limit
  <2>7. CASE ~\E t \in Slots : Admitted(w, t) /\ Network(req[t].client) = net
    <3>1. \A t \in Slots : g[t] <= f[t]
      BY <2>7, DueStep
    <3>2. new + SumFunctionOnSet(g, Slots) <= old + SumFunctionOnSet(f, Slots)
      <4>1. SumFunctionOnSet(g, Slots) <= SumFunctionOnSet(f, Slots)
        <5> HIDE DEF f, g
        <5> QED
          BY <1>2, <2>2, <2>3, <3>1, SumMonotone
      <4>2. CASE Len(rows') = Len(rows)
        <5>1. new <= old
          BY <4>2, LoadKept
        <5> HIDE DEF new, old, f, g
        <5> QED
          BY <2>4, <2>5, <4>1, <5>1
      <4>3. CASE Len(rows') = Len(rows) + 1
        <5>1. PICK s \in Slots : Inserted(s)
          BY <4>3, TableFrame
        <5>2. CASE Network(req[s].client) # net
          <6>1. new = old
            BY <4>3, <5>1, <5>2, LoadInserted
          <6> HIDE DEF new, old, f, g
          <6> QED
            BY <2>4, <2>5, <4>1, <6>1
        <5>3. CASE Network(req[s].client) = net
          <6> DEFINE h == [g EXCEPT ![s] = @ + most]
          <6>1. new <= old + most
            BY <4>3, <5>1, <5>3, LoadInserted
          <6>2. g[s] + most <= f[s]
            BY <5>1, <5>3, DueInserted
          <6>3. \A t \in Slots : h[t] \in Nat /\ h[t] <= f[t]
            <7>1. DOMAIN g = Slots
              OBVIOUS
            <7> HIDE DEF g, f, most
            <7> QED
              BY <1>1, <2>2, <2>3, <3>1, <6>2, <7>1 DEF most
          <6>4. h[s] = g[s] + most /\ \A t \in Slots \ {s} : h[t] = g[t]
            OBVIOUS
          <6> HIDE DEF f, g, h, most
          <6>5. SumFunctionOnSet(h, Slots) = SumFunctionOnSet(g, Slots) - g[s] + h[s]
            BY <1>2, <2>3, <6>3, <6>4, SumUpdate
          <6>6. SumFunctionOnSet(h, Slots) <= SumFunctionOnSet(f, Slots)
            BY <1>2, <2>2, <6>3, SumMonotone
          <6>7. g[s] \in Nat /\ h[s] \in Nat /\ most \in Nat
            BY <1>1, <2>3, <6>3 DEF most
          <6> HIDE DEF new, old
          <6> QED
            BY <2>4, <2>5, <6>1, <6>4, <6>5, <6>6, <6>7
        <5> QED
          BY <5>2, <5>3
      <4> QED
        BY <1>4, <4>2, <4>3
    <3> HIDE DEF f, g, old, new, bound, limit
    <3>3. new + SumFunctionOnSet(g, Slots) < limit + bound
      BY <1>1, <2>1, <2>4, <2>5, <3>2 DEF limit
    <3> QED
      BY <3>3 DEF g, new, bound, limit
  <2> QED
    BY <2>6, <2>7
<1>7. \A net : Coming(w, net)' = [t \in Slots |-> due1(t, net)]
  BY <1>1 DEF Coming
<1> HIDE DEF limit, share, most
<1> QED
  BY <1>1, <1>5, <1>6, <1>7 DEF Quota

LEMMA LoadEmpty ==
  ASSUME NEW w, NEW net
  PROVE  Load(<<>>, 0, w, net) = 0
<1>1. Mine(<<>>, 0, net) = {}
  BY DEF Mine
<1>2. IsFiniteSet({})
  BY FS_EmptySet
<1>3. SumFunctionOnSet(Amounts(<<>>, w), {}) = Cardinality({}) * 0
  <2> DEFINE f == Amounts(<<>>, w)
  <2> HIDE DEF f
  <2> QED
    BY <1>2, SumConstant
<1>4. Cardinality({}) = 0
  BY FS_EmptySet
<1> QED
  BY <1>1, <1>3, <1>4 DEF Load

LEMMA QuotaInit ==
  ASSUME Init, Typed, NEW w \in Limits
  PROVE  Quota(w)
<1>1. /\ rows = <<>> /\ out = 0 /\ pc = [s \in Slots |-> "idle"]
  BY DEF Init, ReqInit
<1>2. \A s \in Slots : pc[s] \notin Inside(w)
  BY <1>1 DEF Inside
<1>3. ASSUME Limit(w) > 0, NEW net
      PROVE  Load(rows, out, w, net) + SumFunctionOnSet(Coming(w, net), Slots)
               < Limit(w) + Cardinality(Slots) * Share(w)
  <2>1. Load(rows, out, w, net) = 0
    BY <1>1, LoadEmpty
  <2>2. \A s \in Slots : Coming(w, net)[s] = 0
    BY <1>2 DEF Coming, Due
  <2> DEFINE f == Coming(w, net)
             share == Share(w)
             k == Cardinality(Slots)
             limit == Limit(w)
  <2>3. limit \in Nat /\ share \in Nat /\ k \in Nat /\ IsFiniteSet(Slots)
    BY SettingsTyped, BoundAssumption, FS_CardinalityType
  <2> HIDE DEF f, share, limit
  <2>4. SumFunctionOnSet(f, Slots) = k * 0
    BY <2>2, <2>3, SumConstant DEF f
  <2> HIDE DEF k
  <2>5. k * share \in Nat /\ k * 0 = 0
    BY <2>3, TimesKeepsOrder
  <2> QED
    BY <1>3, <2>1, <2>3, <2>4, <2>5 DEF f, share, k, limit
<1> QED
  BY <1>1, <1>2, <1>3 DEF Quota

LEMMA QuotaHolds ==
  ASSUME Typed, Bounded, \A w \in Limits : Quota(w)
  PROVE  QuotaBound
<1>1. SUFFICES ASSUME NEW i \in out + 1 .. Len(rows)
               PROVE  LET net == Network(rows[i].client)
                          mine == Mine(rows, out, net)
                          files == MaxFiles * Cardinality(Slots)
                      IN /\ Cardinality(mine) < World.maxUploads + files
                         /\ SumFunctionOnSet(Sizes, mine)
                              < World.maxBytes + files * Max(World.sizes)
  BY DEF QuotaBound, Mine
<1> DEFINE net == Network(rows[i].client)
           mine == Mine(rows, out, net)
           slots == Cardinality(Slots)
           most == Max(World.sizes)
<1>2. /\ out \in Nat /\ World.sizes \in SUBSET Nat /\ IsFiniteSet(Slots)
      /\ slots \in Nat /\ MaxFiles \in Nat /\ Most("bytes") = most /\ most \in Nat
  <2>1. "bytes" \in Limits /\ Most("bytes") = most
    BY DEF Limits, Most
  <2> QED
    BY <2>1, LenProperties, SettingsTyped, BoundAssumption, FS_CardinalityType DEF Typed, Bounded
<1>3. rows # <<>>
  BY <1>2
<1>4. ASSUME NEW w \in Limits
      PROVE  /\ Load(rows, out, w, net) < Limit(w) + slots * Share(w)
             /\ Load(rows, out, w, net) \in Nat
  <2> DEFINE f == Coming(w, net)
             load == Load(rows, out, w, net)
             limit == Limit(w)
             share == Share(w)
  <2>1. limit \in Nat /\ share \in Nat
    BY SettingsTyped
  <2>2. limit > 0
    BY <1>3, <2>1 DEF Quota
  <2>3. load + SumFunctionOnSet(f, Slots) < limit + slots * share
    BY <2>2 DEF Quota
  <2>4. \A t \in Slots : f[t] \in Nat
    BY DueTyped DEF Coming
  <2>5. load \in Nat
    <3> HIDE DEF net
    <3> QED
      BY <1>2, AmountsTyped DEF Typed, Bounded
  <2> HIDE DEF f, load, limit, share, slots
  <2>6. SumFunctionOnSet(f, Slots) \in Nat
    BY <1>2, <2>4, SumNat
  <2>7. slots * share \in Nat
    BY <1>2, <2>1, TimesKeepsOrder
  <2>8. load < limit + slots * share /\ load \in Nat
    BY <2>1, <2>3, <2>5, <2>6, <2>7
  <2> QED
    BY <2>8 DEF load, limit, share, slots
<1>5. Cardinality(mine) < World.maxUploads + MaxFiles * slots
  <2>1. /\ mine \subseteq 1 .. Len(rows) /\ IsFiniteSet(mine)
    <3> HIDE DEF net
    <3> QED
      BY <1>2, AmountsTyped DEF Typed, Bounded, Limits
  <2>2. \A j \in mine : Amounts(rows, "files")[j] = 1
    BY <2>1 DEF Amounts
  <2> DEFINE f == Amounts(rows, "files")
  <2>3. SumFunctionOnSet(f, mine) = Cardinality(mine) * 1 /\ Cardinality(mine) \in Nat
    <3> HIDE DEF f, mine
    <3> QED
      BY <2>1, <2>2, SumConstant, FS_CardinalityType DEF f
  <2>4. SumFunctionOnSet(f, mine) < World.maxUploads + slots * (MaxFiles * 1)
    BY <1>4 DEF Load, Limits, Limit, Share, Most
  <2> HIDE DEF f, mine, slots
  <2>5. slots * (MaxFiles * 1) = MaxFiles * slots
    BY <1>2
  <2> QED
    BY <2>3, <2>4, <2>5
<1>6. SumFunctionOnSet(Sizes, mine) < World.maxBytes + (MaxFiles * slots) * most
  <2>1. Sizes = Amounts(rows, "bytes")
    BY DEF Sizes, Amounts
  <2>2. SumFunctionOnSet(Sizes, mine) < World.maxBytes + slots * (MaxFiles * most)
    BY <1>4, <2>1 DEF Load, Limits, Limit, Share, Most
  <2>3. slots * (MaxFiles * most) = (MaxFiles * slots) * most
    <3> HIDE DEF slots, most
    <3> QED
      BY <1>2
  <2> QED
    BY <2>2, <2>3
<1> QED
  BY <1>5, <1>6

\* A client, or a network of them, never has more in a day than the limit and
\* what the uploads in progress at a time can bring, for any number of uploads,
\* files, sizes and widths of a network.
THEOREM QuotaIsBound == Spec => []QuotaBound
<1> DEFINE All == Traced /\ \A w \in Limits : Quota(w)
<1>1. Init => All
  BY TypedInit, QuotaInit DEF Init, ReqInit, Traced
<1>2. ASSUME Typed, Typed', Bounded, Bounded', ClientKnown, All, [Next]_vars
      PROVE  All'
  <2>1. CASE UNCHANGED reqVars
    BY <1>2, <2>1
       DEF reqVars, Traced, Quota, Limit, Share, Most, Coming, World, Load, Mine, Amounts
  <2>2. CASE ReqNext
    <3>1. Traced'
      BY <1>2, <2>2, TracedStep
    <3>2. ASSUME NEW w \in Limits PROVE Quota(w)'
      BY <1>2, <2>2, QuotaStep
    <3> QED
      BY <3>1, <3>2
  <2> QED
    BY <1>2, <2>1, <2>2 DEF Next, vars
<1>3. Typed /\ Bounded /\ All => QuotaBound
  BY QuotaHolds
<1> HIDE DEF All
<1> QED
  BY <1>1, <1>2, <1>3, BoundsKept, ClientIsKnown, PTL DEF Spec

-----------------------------------------------------------------------------
(* Which links can be shared. *)

\* Of the rows there were when a handler chose its link none in use has it.
FreeWhenChosen ==
  \A s \in Slots : pc[s] = "store" =>
    /\ req[s].since <= Len(rows)
    /\ \A i \in 1 .. req[s].since : rows[i].active => rows[i].slug # req[s].slug

Sharing == FreeWhenChosen /\ SharedOnlyByOverlap

LEMMA SharingStep == Typed /\ Typed' /\ Sharing /\ [Next]_vars => Sharing'
<1> SUFFICES ASSUME Typed, Typed', Sharing, [Next]_vars PROVE Sharing'
  OBVIOUS
<1>1. CASE UNCHANGED reqVars
  BY <1>1 DEF reqVars, Sharing, FreeWhenChosen, SharedOnlyByOverlap
<1>2. CASE ReqNext
  <2>1. Len(rows) \in Nat /\ Len(rows') \in Nat /\ Len(rows') >= Len(rows)
    <3>1. Len(rows) \in Nat /\ Len(rows') \in Nat
      BY LenProperties DEF Typed
    <3> QED
      BY <1>2, <3>1, TableFrame
  <2>2. \A i \in 1 .. Len(rows) : RowKept(i)
    BY <1>2, TableFrame
  <2>3. ASSUME NEW s \in Slots, pc'[s] = "store"
        PROVE  /\ req'[s].since <= Len(rows')
               /\ \A i \in 1 .. req'[s].since : rows'[i].active => rows'[i].slug # req'[s].slug
    <3>1. Chosen(s) /\ req'[s].since \in Nat
      BY <1>2, <2>3, HandlerFrame DEF Framed, Typed, HandlersTyped, Upload
    <3>2. CASE pc[s] = "store" /\ req'[s] = req[s]
      <4>1. /\ req[s].since <= Len(rows)
            /\ \A i \in 1 .. req[s].since : rows[i].active => rows[i].slug # req[s].slug
        BY <3>2 DEF Sharing, FreeWhenChosen
      <4> QED
        BY <2>1, <2>2, <3>1, <3>2, <4>1 DEF RowKept
    <3>3. CASE rows' = rows /\ req'[s].since = Len(rows) /\ ~IsSlugTaken(req'[s].slug)
      BY <2>1, <3>3 DEF IsSlugTaken
    <3> QED
      BY <3>1, <3>2, <3>3 DEF Chosen
  <2>4. ASSUME NEW i \in 1 .. Len(rows'), NEW j \in 1 .. Len(rows'), i < j,
               rows'[i].active, rows'[j].active, rows'[i].slug = rows'[j].slug
        PROVE  rows'[j].raced
    <3>1. i \in 1 .. Len(rows)
      BY <1>2, <2>1, <2>4, TableFrame
    <3>2. CASE j \in 1 .. Len(rows)
      <4>1. rows[i].active /\ rows[j].active /\ rows[i].slug = rows[j].slug
            /\ rows'[j].raced = rows[j].raced
        BY <2>2, <2>4, <3>1, <3>2 DEF RowKept
      <4> QED
        BY <2>4, <3>1, <3>2, <4>1 DEF Sharing, SharedOnlyByOverlap
    <3>3. CASE j \notin 1 .. Len(rows)
      <4>1. Len(rows') = Len(rows) + 1 /\ j = Len(rows) + 1
        BY <1>2, <2>1, <3>3, TableFrame
      <4>2. PICK s \in Slots : Inserted(s)
        BY <1>2, <4>1, TableFrame
      <4>3. /\ pc[s] = "store" /\ rows'[j].slug = req[s].slug
            /\ rows'[j].raced = (req[s].since < Len(rows))
        BY <4>1, <4>2 DEF Inserted
      <4>4. req[s].since \in Nat /\ req[s].since <= Len(rows)
        BY <4>3 DEF Sharing, FreeWhenChosen, Typed, HandlersTyped, Upload
      <4>5. rows[i].active /\ rows[i].slug = req[s].slug
        BY <2>2, <2>4, <3>1, <4>3 DEF RowKept
      <4>6. i \notin 1 .. req[s].since
        BY <4>3, <4>5 DEF Sharing, FreeWhenChosen
      <4>7. req[s].since < Len(rows)
        BY <2>1, <3>1, <4>4, <4>6
      <4> QED
        BY <4>3, <4>7
    <3> QED
      BY <3>2, <3>3
  <2>5. FreeWhenChosen'
    BY <2>3 DEF FreeWhenChosen
  <2>6. SharedOnlyByOverlap'
    BY <2>4 DEF SharedOnlyByOverlap
  <2> QED
    BY <2>5, <2>6 DEF Sharing
<1> QED
  BY <1>1, <1>2 DEF Next, vars

\* A later file shares the link of another one in use only when one was inserted
\* between its choice and its own row, however many handlers there are.
THEOREM LinksSharedByOverlap == Spec => []SharedOnlyByOverlap
<1>1. Init => Sharing
  BY DEF Init, ReqInit, Sharing, FreeWhenChosen, SharedOnlyByOverlap
<1>2. Sharing => SharedOnlyByOverlap
  BY DEF Sharing
<1> QED
  BY <1>1, <1>2, SharingStep, TypesKept, PTL DEF Spec

-----------------------------------------------------------------------------
(* What a scan returns. *)

\* Nothing is sent before the file is opened; what clamd answers is about what
\* it has read; and when scan_file has returned nothing more is answered, unless
\* a call failed.
Heard ==
  /\ written \in Nat /\ received \in Nat /\ virus \in Nat
  /\ received <= written
  /\ sc \in {"start", "hello", "open"} => written = 0
  /\ reply = "found" => virus > 0 /\ received >= 2 * virus
  /\ reply = "ok" => virus = 0 /\ received = 2 * Chunks + 1
  /\ result # "none" => sc = "done"
  /\ sc = "done" => broken \/ reply # "none" \/ clamd = "closed"

ScanSound == Heard /\ VerdictHeard /\ CleanWhole

LEMMA ScanStepSound == ScanSound /\ [ScanFile \/ Clamd]_scanVars => ScanSound'
<1> SUFFICES ASSUME ScanSound, [ScanFile \/ Clamd]_scanVars PROVE ScanSound'
  OBVIOUS
<1> USE DEF ScanSound, Heard, VerdictHeard, CleanWhole, SameClamd, SameClient, Return
<1>1. CASE ScanBreaks
  BY <1>1 DEF ScanBreaks
<1>2. CASE Connect
  BY <1>2 DEF Connect
<1>3. CASE Hello
  BY <1>3 DEF Hello
<1>4. CASE OpenFile
  <2>1. received = 0 /\ reply \notin {"ok", "found"}
    BY <1>4, ChunksAssumption DEF OpenFile
  <2>2. virus' \in Nat /\ sc' = "send"
    BY <1>4, ChunksAssumption DEF OpenFile
  <2>3. UNCHANGED <<received, clamd, reply, lost, written, broken, result>> /\ result = "none"
    BY <1>4 DEF OpenFile
  <2> QED
    BY <2>1, <2>2, <2>3
<1>5. CASE Write
  BY <1>5 DEF Write
<1>6. CASE WriteClosed
  BY <1>6 DEF WriteClosed
<1>7. CASE EndOfFile
  BY <1>7 DEF EndOfFile
<1>8. CASE Terminate
  BY <1>8 DEF Terminate
<1>9. CASE ReadReply
  BY <1>9 DEF ReadReply, Verdict
<1>10. CASE ClamdReads
  BY <1>10 DEF ClamdReads
<1>11. CASE ClamdAnswers
  BY <1>11 DEF ClamdAnswers
<1>12. CASE ClamdCloses
  BY <1>12 DEF ClamdCloses
<1>13. CASE Reset
  BY <1>13 DEF Reset
<1>14. CASE UNCHANGED scanVars
  BY <1>14 DEF scanVars
<1> QED
  BY <1>1, <1>2, <1>3, <1>4, <1>5, <1>6, <1>7, <1>8, <1>9, <1>10, <1>11, <1>12, <1>13, <1>14
     DEF ScanFile, Clamd

LEMMA ScanIsSound == Spec => []ScanSound
<1>1. Init => ScanSound
  BY DEF Init, ScanInit, ScanSound, Heard, VerdictHeard, CleanWhole
<1>2. [Next]_vars => [ScanFile \/ Clamd]_scanVars
  BY DEF Next, ScanStep, vars, scanVars
<1> QED
  BY <1>1, <1>2, ScanStepSound, PTL DEF Spec

\* A virus that clamd reported is returned as found even when writing the rest
\* of the file failed, for a file of any length.
THEOREM VerdictIsHeard == Spec => []VerdictHeard
<1>1. ScanSound => VerdictHeard
  BY DEF ScanSound
<1> QED
  BY <1>1, ScanIsSound, PTL

\* Clean means that clamd read the whole file, of any length, and said so.
THEOREM CleanIsWhole == Spec => []CleanWhole
<1>1. ScanSound => CleanWhole
  BY DEF ScanSound
<1> QED
  BY <1>1, ScanIsSound, PTL
=============================================================================
