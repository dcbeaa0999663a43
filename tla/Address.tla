------------------------------ MODULE Address ------------------------------
(* Addresses as src/ip.rs handles them, at a small width.  An address is of a
   family and a number; IPv4 is the block of 2^V4Bits numbers from MappedBase
   among the 2^Width numbers of IPv6 (::ffff:0:0/96 in 128 bits), and the last
   NetBits bits of an IPv6 address are its place in its network (64 of 128).
   What the code reads from text is a record here; text that is not an address
   is Junk. *)
EXTENDS Integers, Sequences

CONSTANTS
  Width,
  V4Bits,
  NetBits,
  MappedBase

ASSUME AddressAssumption ==
  /\ Width \in Nat /\ V4Bits \in Nat /\ NetBits \in Nat /\ MappedBase \in Nat
  /\ V4Bits < NetBits /\ NetBits < Width /\ MappedBase + (2 ^ V4Bits) <= 2 ^ Width

V4(n) == [fam |-> "v4", n |-> n]
V6(n) == [fam |-> "v6", n |-> n]
Junk == [fam |-> "junk", n |-> 0]
Entry == [fam : {"v4", "v6"}, n : Nat] \union {Junk}

IsAddress(a) ==
  \/ a.fam = "v4" /\ a.n \in 0 .. (2 ^ V4Bits) - 1
  \/ a.fam = "v6" /\ a.n \in 0 .. (2 ^ Width) - 1

-----------------------------------------------------------------------------
ToDbBytes(a) == IF a.fam = "v4" THEN MappedBase + a.n ELSE a.n

NetStart(a) == a.n - (a.n % (2 ^ NetBits))

NormalizeForQuota(a) == IF a.fam = "v4" THEN a ELSE V6(NetStart(a))

\* The two addresses between which an upload counts as of the same client.
QuotaRange(a) ==
  IF a.fam = "v4"
    THEN <<a, a>>
    ELSE <<NormalizeForQuota(a), V6(NetStart(a) + (2 ^ NetBits) - 1)>>

\* An address kept in bits, between two others.
Between(a, lo, hi) ==
  /\ ToDbBytes(lo) <= ToDbBytes(a)
  /\ ToDbBytes(a) <= ToDbBytes(hi)

\* Without that case a release build shifts by the width modulo the width.
HostMaskWrapped(bits) == (2 ^ (bits % Width)) - 1

-----------------------------------------------------------------------------
\* The mask of the host bits, with its own case for a block of every address:
\* the shift would be as wide as the word.
HostMask(bits) ==
  IF bits = Width THEN (2 ^ Width) - 1 ELSE (2 ^ (bits % Width)) - 1

CidrBounds(n, prefix, width) ==
  LET mask == HostMask(width - prefix)
      low == n - (n % (mask + 1))
  IN <<low, low + mask>>

\* A block is written as an address and perhaps a prefix; "prefix" is -1 when
\* there is none.  A prefix beyond the family's width is not a block.
CidrParse(block) ==
  LET width == IF block.addr.fam = "v4" THEN V4Bits ELSE Width
      prefix == IF block.prefix = -1 THEN width ELSE block.prefix
      bounds == CidrBounds(block.addr.n, prefix, width)
  IN IF block.addr.fam = "junk" \/ prefix > width
       THEN {}
       ELSE {[start |-> [fam |-> block.addr.fam, n |-> bounds[1]],
              end |-> [fam |-> block.addr.fam, n |-> bounds[2]]]}

Contains(cidr, a) == Between(a, cidr.start, cidr.end)

-----------------------------------------------------------------------------
\* The proxies and the hops that are trusted; what is not a block is left out.
XffTrust(proxies, hops) ==
  [proxies |-> UNION {CidrParse(p) : p \in proxies}, hops |-> IF hops < 1 THEN 1 ELSE hops]

TrustsPeer(trust, peer) == \E cidr \in trust.proxies : Contains(cidr, peer)

\* Counts the hops from the left, where the client writes.
ClientIpLeft(xff, peer, trust) ==
  IF TrustsPeer(trust, peer) /\ Len(xff) >= trust.hops /\ xff[trust.hops].fam # "junk"
    THEN xff[trust.hops]
    ELSE peer

\* The entry as many places from the right as there are hops, when the peer is
\* trusted, the header long enough and the entry an address; else the peer.
\* "xff" is the sequence of the header's entries that are not blank.
ClientIp(xff, peer, trust) ==
  LET index == Len(xff) - trust.hops + 1
  IN IF TrustsPeer(trust, peer) /\ index >= 1 /\ xff[index].fam # "junk"
       THEN xff[index]
       ELSE peer
=============================================================================
