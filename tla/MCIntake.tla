------------------------------ MODULE MCIntake ------------------------------
(* A small instance of Intake.  Uploads at a time have one kind of file and two
   clients of one network; the variety of addresses, proxies, bans, files and
   downloads meets one upload, and so does the scan. *)
EXTENDS Intake, TLC

Symmetric == Permutations(Slots)

Block(a, prefix) == [addr |-> a, prefix |-> prefix]
Ban(block, type) == {[block |-> block, type |-> type]}
Proxies(proxies, hops, chain) == [proxies |-> proxies, hops |-> hops, chain |-> chain]

ProxiesNamed ==
  [one |-> Proxies({Block(V4(3), -1), Block(Junk, -1)}, 1, <<V4(3)>>),
   two |-> Proxies({Block(V4(3), -1), Block(V6(25), 3)}, 2, <<V6(24), V4(3)>>),
   any |-> Proxies({Block(V6(2), 0)}, 0, <<V6(26)>>)]
BansNamed ==
  [read |-> Ban(Block(V4(1), 1), ReadOnly), full |-> Ban(Block(V4(1), 1), Full),
   all |-> Ban(Block(V4(0), 0), Full), wrong |-> Ban(Block(V4(2), 3), Full),
   six |-> Ban(Block(V6(9), 2), ReadOnly)]
ClientNamed == [near |-> V6(9), beside |-> V6(10), far |-> V6(17), old |-> V4(1), older |-> V4(2)]
ForgedNamed == [none |-> <<>>, one |-> <<V4(0)>>, two |-> <<V6(17), Junk>>]
Vias == {"direct", "dual", "proxied"}

File(signature, wellKnown, extension, fallback, claimed, guess) ==
  [signature |-> signature, wellKnown |-> wellKnown, extension |-> extension,
   fallback |-> fallback, claimed |-> claimed, guess |-> guess]
Known(mime) == [byExtension |-> mime, media |-> NoMime]
Fallback == [byExtension |-> NoMime, media |-> Octet]
Html == Mime("text", "html")
Png == Mime("image", "png")
MCFileOf ==
  [text |-> File({}, NoMime, {}, Known(TextPlain), Octet, NoMime),
   html |-> File({}, NoMime, {Known(Html)}, Known(TextPlain), Html, Html),
   png |-> File({Known(Png)}, NoMime, {Known(Html)}, Fallback, Html, Html),
   mp4 |-> File({}, Mime("video", "mp4"), {Known(Html)}, Fallback, NoMime, Html),
   odd |-> File({Fallback}, NoMime, {Known(Html)}, Fallback, NoMime, Png)]

Input(client, via, forged, kind, asked) ==
  [client |-> client, via |-> via, forged |-> forged, kind |-> kind, asked |-> asked]

Setting(proxies, bans, inputs) ==
  [proxies |-> proxies.proxies, hops |-> proxies.hops, chain |-> proxies.chain,
   bans |-> bans, inputs |-> inputs, downloads |-> inputs, names |-> {1},
   maxUploads |-> 1, maxBytes |-> 8, sizes |-> {1}]

Near == Input(V6(9), "direct", <<>>, "text", 0)
Far == Input(V6(17), "proxied", <<>>, "text", 0)
Crowd(inputs) ==
  [Setting(ProxiesNamed.one, {}, inputs) EXCEPT !.downloads = {}, !.names = 1 .. MaxRows]

\* A world is named by its part and by what varies in it.
Key(part, proxies, client, via, other) == <<part, proxies, client, via, other>>

\* Two hosts of one network against the number of files, one against the bytes,
\* and links that are taken and free again.
Crowds == {Key(part, "one", "near", "direct", "none") : part \in {"counted", "weighed", "linked"}}
Singles ==
  {Key("address", p, c, via, forged) :
     p \in {"one", "two"}, c \in {"near", "old"}, via \in Vias, forged \in DOMAIN ForgedNamed}
  \union {Key("address", "any", c, "proxied", forged) :
     c \in {"near", "old"}, forged \in DOMAIN ForgedNamed}
  \union {Key("ban", "one", c, via, b) :
     c \in {"near", "old", "older"}, via \in Vias, b \in DOMAIN BansNamed}
  \union {Key("file", "one", "near", "direct", kind) : kind \in DOMAIN MCFileOf}

MCWorldOf ==
  [key \in Crowds \union Singles |->
     LET client == ClientNamed[key[3]]
         proxies == ProxiesNamed[key[2]]
     IN CASE key[1] = "counted" -> Crowd({Near, [Near EXCEPT !.client = ClientNamed.beside]})
          [] key[1] = "weighed" ->
               [Crowd({Near}) EXCEPT !.maxUploads = 8, !.maxBytes = 2, !.sizes = {2}]
          [] key[1] = "linked" -> [Crowd({Near}) EXCEPT !.maxUploads = 8, !.names = {1}]
          [] key[1] = "address" ->
               Setting(proxies, {}, {Input(client, key[4], ForgedNamed[key[5]], "text", 0)})
          [] key[1] = "ban" ->
               Setting(proxies, BansNamed[key[5]],
                       {Far, Input(client, key[4], ForgedNamed.two, "text", 0)})
          [] OTHER -> Setting(proxies, {}, {[Near EXCEPT !.kind = key[5], !.asked = 9]})]

\* Two ids there are of each length.
MCLinked ==
  [key \in {Key("linked", "one", "near", "direct", "none")} |->
     [Crowd({Near}) EXCEPT !.maxUploads = 8, !.names = {1, 2}]]

Busy == {s \in Slots : pc[s] # "idle"}
Alone == Cardinality(Busy) <= 1 /\ Len(rows) <= 1 /\ out = 0

\* Against the limits every file draws a link of its own, and the second host
\* stores after the first.
Fresh ==
  /\ \A i, j \in 1 .. Len(rows) : i < j => rows[i].client.n <= rows[j].client.n
  /\ \A i \in 1 .. Len(rows) : rows[i].active
  /\ \A s \in Busy : req[s].tries = 0 /\ req[s].len = req[s].base
  /\ \A s \in Busy : pc[s] = "store" => req[s].slug[2] = req[s].since + 1

Focus ==
  CASE sc # "start" -> world[1] = "counted" /\ Busy = {} /\ Len(rows) = 1 /\ out = 0
    [] world[1] \in {"counted", "weighed"} -> Fresh
    [] world[1] = "linked" -> Len(rows) <= 3 /\ out = 0
    [] OTHER -> Alone
=============================================================================
