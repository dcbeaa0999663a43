------------------------------ MODULE Request ------------------------------
(* The upload and download handlers of src/handlers.rs: the gates before the
   body is read, the files of a form one after the other, the choice of their
   links, their rows, and who is served what.  Several uploads run at a time;
   each step is what a handler does between two awaits.  Bans and the list of
   trusted proxies do not change while this runs (Bans and TtlCache are about
   their changes), and an answer other than a link ends the handler. *)
EXTENDS Address, ContentTypes, FiniteSetsExt

CONSTANTS
  Slots,               \* uploads that can be in progress at a time
  FileOf,              \* the file of a kind
  WorldOf,             \* settings, what is banned, and what requests come how
  MaxFiles,            \* files of one form
  MaxRows,             \* rows there will be
  MinIdLength,
  MaxIdLength,
  MaxSlugAttempts

VARIABLES
  pc,         \* where the handler of a slot is
  req,        \* what it holds
  rows,       \* rows of the uploads table in the order of their insertion
  out,        \* the first "out" rows are a day old
  world,      \* the one of WorldOf this is
  served      \* the last download

reqVars == <<pc, req, rows, out, world, served>>

World == WorldOf[world]
ReadOnly == 1
Full == 2
NoRequest == [kind |-> "none"]
NoDownload == [kind |-> "none"]

-----------------------------------------------------------------------------
\* What a request brings.  Behind the proxies each of them adds the address it
\* was called from to the header, after whatever the client had put there; a
\* socket for both families shows an IPv4 peer as an IPv6 address.
Header(in) ==
  IF in.via = "proxied"
    THEN in.forged \o <<in.client>> \o SubSeq(World.chain, 1, Len(World.chain) - 1)
    ELSE in.forged

Peer(in) ==
  CASE in.via = "proxied" -> World.chain[Len(World.chain)]
    [] in.via = "dual" -> V6(ToDbBytes(in.client))
    [] OTHER -> in.client

Trust == XffTrust(World.proxies, World.hops)

ExtractIp(in) == ClientIp(Header(in), Peer(in), Trust)

\* A client is not one of the proxies itself.
Possible(in) ==
  in.via = "proxied" \/ ~TrustsPeer(Trust, Peer(in))

\* The deployment the settings describe: as many proxies as hops (one at least),
\* the last of them trusted.  What a client writes into the header is its own.
ASSUME ProxyAssumption ==
  \A w \in DOMAIN WorldOf :
    LET W == WorldOf[w]
    IN /\ W.chain \in Seq(Entry) /\ W.hops \in Int
       /\ Len(W.chain) = IF W.hops < 1 THEN 1 ELSE W.hops
       /\ TrustsPeer(XffTrust(W.proxies, W.hops), W.chain[Len(W.chain)])

\* Clients have addresses, and no file is larger than the settings allow.
ASSUME WorldAssumption ==
  \A w \in DOMAIN WorldOf :
    LET W == WorldOf[w]
    IN /\ \A in \in W.inputs : /\ in.client \in Entry \ {Junk} /\ IsAddress(in.client)
                               /\ in.forged \in Seq(Entry) /\ in.asked \in Int
                               /\ in.kind \in DOMAIN FileOf
       /\ \A in \in W.downloads : in \in W.inputs
       /\ \A entry \in W.bans :
            /\ entry.type \in {ReadOnly, Full} /\ entry.block.addr \in Entry
            /\ entry.block.prefix \in Int /\ entry.block.prefix >= -1
       /\ W.maxUploads \in Nat /\ W.maxBytes \in Nat /\ W.sizes \subseteq Nat
       /\ \E most \in W.sizes : \A size \in W.sizes : size <= most

\* A content has one signature or none that is known.
ASSUME FileAssumption ==
  \A kind \in DOMAIN FileOf : \A a, b \in FileOf[kind].signature : a = b

ASSUME LengthAssumption ==
  /\ MinIdLength \in Nat /\ MaxIdLength \in Nat /\ MinIdLength <= MaxIdLength
  /\ MaxSlugAttempts \in Nat \ {0}

ASSUME BoundAssumption == IsFiniteSet(Slots) /\ MaxFiles \in Nat /\ MaxRows \in Nat

-----------------------------------------------------------------------------
\* The ranges a list makes of its entries: a prefix that is too long leaves the
\* entry out.
ParseBody(entries) == UNION {CidrParse(e) : e \in entries}

\* Only a ban of exactly the type asked for.
IsIpBannedAs(ip, type) ==
  \E entry \in World.bans : \E range \in ParseBody({entry.block}) :
    Contains(range, ip) /\ entry.type = type

IsIpBanned(ip, type) ==
  \E entry \in World.bans : \E range \in ParseBody({entry.block}) :
    Contains(range, ip) /\ entry.type >= type

\* Rows of the last day, deleted ones too, whose address is in the range of ip.
LastDay(ip) ==
  LET range == QuotaRange(ip)
  IN {i \in out + 1 .. Len(rows) : Between(rows[i].ip, range[1], range[2])}

Sizes == [i \in 1 .. Len(rows) |-> rows[i].size]

UploadsCountLastDay(ip) == Cardinality(LastDay(ip))
UploadsBytesLastDay(ip) == SumFunctionOnSet(Sizes, LastDay(ip))

\* Lets the upload that finds the limit reached through.
CheckNotOverLimit(limit, n) == n <= limit

CheckUnderLimit(limit, n) == n < limit

\* Takes what the form asks for as it is.
IdLengthAsked(asked) == asked

IdLength(asked) ==
  IF asked < MinIdLength THEN MinIdLength
  ELSE IF asked > MaxIdLength THEN MaxIdLength ELSE asked

-----------------------------------------------------------------------------
ReqInit ==
  /\ pc = [s \in Slots |-> "idle"]
  /\ req = [s \in Slots |-> NoRequest]
  /\ rows = <<>> /\ out = 0
  /\ world \in DOMAIN WorldOf
  /\ served = NoDownload

Same == UNCHANGED <<out, world, served>>

\* The handler ends: with its links, with an error page for any gate, file or
\* failure, or dropped with its connection.
End(s) == pc' = [pc EXCEPT ![s] = "idle"] /\ req' = [req EXCEPT ![s] = NoRequest]

Go(s, to) == pc' = [pc EXCEPT ![s] = to] /\ UNCHANGED req

\* The client's address and the first gate.
Begin(s, in) ==
  /\ pc[s] = "idle"
  /\ Possible(in)
  /\ IF IsIpBanned(ExtractIp(in), ReadOnly)
       THEN UNCHANGED <<pc, req>>
       ELSE /\ pc' = [pc EXCEPT ![s] = "count"]
            /\ req' = [req EXCEPT ![s] =
                 [client |-> in.client, ip |-> ExtractIp(in), kind |-> in.kind,
                  base |-> IdLength(in.asked), len |-> IdLength(in.asked), tries |-> 0,
                  left |-> <<>>, slug |-> <<>>, since |-> 0]]
  /\ UNCHANGED rows /\ Same

\* The two limits of a day, each read by itself.
CountGate(s) ==
  /\ pc[s] = "count"
  /\ IF CheckUnderLimit(World.maxUploads, UploadsCountLastDay(req[s].ip))
       THEN Go(s, "bytes") ELSE End(s)
  /\ UNCHANGED rows /\ Same

BytesGate(s) ==
  /\ pc[s] = "bytes"
  /\ IF CheckUnderLimit(World.maxBytes, UploadsBytesLastDay(req[s].ip))
       THEN Go(s, "body") ELSE End(s)
  /\ UNCHANGED rows /\ Same

\* Gates of user agents and challenges, a body that is no form or too large, a
\* banned file, any error, and a client that hangs up.
Leave(s) ==
  /\ pc[s] # "idle"
  /\ End(s)
  /\ UNCHANGED rows /\ Same

ReadForm(s) ==
  /\ pc[s] = "body"
  /\ \E n \in 1 .. MaxFiles : \E sizes \in [1 .. n -> World.sizes] :
       req' = [req EXCEPT ![s].left = sizes]
  /\ pc' = [pc EXCEPT ![s] = "file"]
  /\ UNCHANGED rows /\ Same

\* After a file the next one, with the length of link the form asked for.
NextFile(s) ==
  IF Len(req[s].left) = 1
    THEN End(s)
    ELSE /\ pc' = [pc EXCEPT ![s] = "file"]
         /\ req' = [req EXCEPT ![s].left = Tail(@), ![s].len = req[s].base,
                               ![s].tries = 0, ![s].slug = <<>>, ![s].since = 0]

\* The same content is already there: its link is given again.
ReuseFile(s) ==
  /\ pc[s] = "file" /\ req[s].tries = 0 /\ req[s].len = req[s].base
  /\ \E i \in 1 .. Len(rows) :
       rows[i].active /\ rows[i].kind = req[s].kind /\ rows[i].size = Head(req[s].left)
  /\ NextFile(s)
  /\ UNCHANGED rows /\ Same

\* Never finds a link taken.
IsSlugTakenNever(slug) == FALSE

IsSlugTaken(slug) == \E i \in 1 .. Len(rows) : rows[i].active /\ rows[i].slug = slug

\* One candidate: taken, it is drawn again, and after some attempts one longer.
AllocateSlug(s) ==
  /\ pc[s] = "file"
  /\ \E name \in World.names :
       LET r == req[s]
           slug == <<r.len, name>>
       IN IF IsSlugTaken(slug)
            THEN /\ req' = [req EXCEPT ![s] =
                      IF r.tries + 1 < MaxSlugAttempts
                        THEN [r EXCEPT !.tries = @ + 1]
                        ELSE [r EXCEPT !.tries = 0, !.len = @ + 1]]
                 /\ UNCHANGED pc
            ELSE /\ req' = [req EXCEPT ![s].slug = slug, ![s].since = Len(rows)]
                 /\ pc' = [pc EXCEPT ![s] = "store"]
  /\ UNCHANGED rows /\ Same

\* The type that is stored, and whether the classifier is given the file.
StoredMime(kind) ==
  ReconcileContentType(DetectContentType(FileOf[kind]), DetermineContentType(FileOf[kind]))

InsertUpload(s) ==
  /\ pc[s] = "store" /\ Len(rows) < MaxRows
  /\ LET r == req[s]
         mime == StoredMime(r.kind)
     IN rows' = Append(rows,
          [ip |-> V6(ToDbBytes(r.ip)), client |-> r.client, size |-> Head(r.left),
           slug |-> r.slug, raced |-> r.since < Len(rows), active |-> TRUE, kind |-> r.kind,
           mime |-> mime, classified |-> mime.type = "image"])
  /\ NextFile(s)
  /\ Same

\* A deletion by anyone, or the expiry.
DeleteUpload(i) ==
  /\ rows[i].active
  /\ rows' = [rows EXCEPT ![i].active = FALSE]
  /\ UNCHANGED <<pc, req>> /\ Same

DayPasses ==
  /\ \E n \in out + 1 .. Len(rows) : out' = n
  /\ UNCHANGED <<pc, req, rows, world, served>>

\* A download as one step: its row and the file are UploadStore's concern.
GetFile(in, i) ==
  /\ Possible(in)
  /\ ~IsIpBanned(ExtractIp(in), Full)
  /\ rows[i].active
  /\ served' = [kind |-> rows[i].kind, client |-> in.client,
                mime |-> ServeMime(rows[i].mime), disposition |-> Disposition(rows[i].mime)]
  /\ UNCHANGED <<pc, req, rows, out, world>>

ReqNext ==
  \/ \E s \in Slots :
       \/ \E in \in World.inputs : Begin(s, in)
       \/ CountGate(s) \/ BytesGate(s) \/ Leave(s) \/ ReadForm(s) \/ ReuseFile(s)
       \/ AllocateSlug(s) \/ InsertUpload(s)
  \/ \E i \in 1 .. Len(rows) : DeleteUpload(i) \/ \E in \in World.downloads : GetFile(in, i)
  \/ DayPasses

-----------------------------------------------------------------------------
Uploading(r) ==
  /\ r.kind \in DOMAIN FileOf
  /\ IsAddress(r.client) /\ IsAddress(r.ip)
  /\ r.base \in MinIdLength .. MaxIdLength
  /\ r.len >= r.base /\ r.tries \in 0 .. MaxSlugAttempts - 1
  /\ Len(r.left) <= MaxFiles /\ \A k \in DOMAIN r.left : r.left[k] \in World.sizes
  /\ r.since <= Len(rows)

\* The handlers and the table keep their types.
ReqTypeOK ==
  /\ DOMAIN pc = Slots /\ DOMAIN req = Slots
  /\ \A s \in Slots :
       /\ pc[s] \in {"idle", "count", "bytes", "body", "file", "store"}
       /\ IF pc[s] = "idle" THEN req[s] = NoRequest ELSE Uploading(req[s])
       /\ pc[s] \in {"file", "store"} => req[s].left # <<>>
  /\ Len(rows) <= MaxRows /\ out \in 0 .. Len(rows)
  /\ \A i \in 1 .. Len(rows) : rows[i].size \in World.sizes

Network(a) == IF a.fam = "v4" THEN a ELSE V6(a.n \div (2 ^ NetBits))

\* Over a day a client, a network of them for IPv6, stores less than the limit
\* and what the uploads in progress at a time can bring in all their files: the
\* limits are read before the body and nothing is held for it.
QuotaBound ==
  \A net \in {Network(rows[i].client) : i \in out + 1 .. Len(rows)} :
    LET mine == {i \in out + 1 .. Len(rows) : Network(rows[i].client) = net}
        files == MaxFiles * Cardinality(Slots)
    IN /\ Cardinality(mine) < World.maxUploads + files
       /\ SumFunctionOnSet(Sizes, mine) < World.maxBytes + files * Max(World.sizes)

\* max_id_length is the "max. length of the random file id, set to min_id_length
\* to disable" (settings.rs): no file has a link whose random part is longer.
IdLengthBounded == \A i \in 1 .. Len(rows) : rows[i].slug[1] <= MaxIdLength

\* Two files share a link only when the later one chose it while the other, or
\* one more, was not yet inserted: it was free when it was chosen.
SharedOnlyByOverlap ==
  \A i, j \in 1 .. Len(rows) :
    i < j /\ rows[i].active /\ rows[j].active /\ rows[i].slug = rows[j].slug =>
      rows[j].raced

\* A request counts as its client's, whatever the client wrote into the header:
\* directly, behind one proxy or several, and from a socket for both families.
ClientKnown ==
  /\ \A s \in Slots : pc[s] # "idle" => ToDbBytes(req[s].ip) = ToDbBytes(req[s].client)
  /\ \A i \in 1 .. Len(rows) : ToDbBytes(rows[i].ip) = ToDbBytes(rows[i].client)

\* An address is in a block when the first bits are the same.
InBlock(a, block) ==
  LET width == IF a.fam = "v4" THEN V4Bits ELSE Width
  IN /\ a.fam = block.addr.fam /\ block.prefix <= width
     /\ block.prefix # -1 =>
          a.n \div (2 ^ (width - block.prefix)) = block.addr.n \div (2 ^ (width - block.prefix))
     /\ block.prefix = -1 => a = block.addr

\* Nobody in a banned block stores a file, and nobody in one banned from
\* everything is served one, through whatever proxies they come.
BannedRefused ==
  \A entry \in World.bans :
    /\ \A i \in 1 .. Len(rows) : ~InBlock(rows[i].client, entry.block)
    /\ served # NoDownload /\ entry.type = Full => ~InBlock(served.client, entry.block)

\* What a file's own bytes say it is.
Evident(file) ==
  IF file.signature # {}
    THEN {ft.byExtension : ft \in file.signature}
    ELSE {file.wellKnown}

Media == {"image", "video", "audio"}

\* An image, a video or a sound known by its bytes is served as such, and an
\* image is classified, whatever its name or its sender says.
FoundTypeKept ==
  /\ \A i \in 1 .. Len(rows) : \A m \in Evident(FileOf[rows[i].kind]) :
       m.type = "image" => rows[i].classified
  /\ served # NoDownload => \A m \in Evident(FileOf[served.kind]) :
       m.type \in Media => served.mime = m /\ served.disposition = "inline"
=============================================================================
