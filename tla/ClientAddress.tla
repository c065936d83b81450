----------------------------- MODULE ClientAddress -----------------------------
(***************************************************************************)
(* src/middleware/trustedProxy.ts: whose request it is.  A request has the *)
(* address of the connection it came on and two headers that may name      *)
(* another client; they count when the connection is from a trusted proxy. *)
(*                                                                         *)
(* An address is the list of its octets, or for IPv6 the lists of groups   *)
(* before and after the "::" of its text, or one list without "::".        *)
(* Networks are well-formed CIDR ranges; other entries are not modelled.   *)
(***************************************************************************)
EXTENDS Naturals, Sequences

CONSTANTS
  Octets, OctetBits,  \* of an IPv4 address: 4 octets of 8 bits
  Groups, GroupBits,  \* of an IPv6 address: 8 groups of 16 bits
  NoHeader,           \* an absent header, or the address of a closed connection
  Empty               \* a header without a text

ASSUME WidthsAssumption ==
  /\ Octets \in Nat \ {0} /\ OctetBits \in Nat \ {0}
  /\ Groups \in Nat \ {0} /\ GroupBits \in Nat \ {0}

V4Bits == Octets * OctetBits
V6Bits == Groups * GroupBits

Power2[n \in Nat] == IF n = 0 THEN 1 ELSE 2 * Power2[n - 1]

(* What the first of some digits stand for, and all of them. *)
Numbers(digits, bits) ==
  LET number[i \in 0 .. Len(digits)] ==
        IF i = 0 THEN 0 ELSE number[i - 1] * Power2[bits] + digits[i]
  IN  number
Number(digits, bits) == Numbers(digits, bits)[Len(digits)]

(* The network of a CIDR range is an address too, "prefix" bits of it count. *)
V4(octets) == [family |-> "v4", text |-> octets]
Mapped(octets) == [family |-> "mapped", text |-> octets]    \* ::ffff:a.b.c.d
V6(text) == [family |-> "v6", text |-> text]
Cidr(network, prefix) == [network |-> network, prefix |-> prefix]

(* n & (~0 << count): a shift takes its count modulo the width. *)
Masked(n, count) == n - (n % Power2[count % V4Bits])

(* A mistake: the prefix 0, which the shift cannot express, is not special. *)
IsIPv4InCIDRShifted(ip, cidr) ==
  Masked(Number(ip, OctetBits), V4Bits - cidr.prefix)
    = Masked(Number(cidr.network.text, OctetBits), V4Bits - cidr.prefix)

IsIPv4InCIDR(ip, cidr) ==
  \/ cidr.prefix = 0
  \/ Masked(Number(ip, OctetBits), V4Bits - cidr.prefix)
       = Masked(Number(cidr.network.text, OctetBits), V4Bits - cidr.prefix)

ExpandIPv6(text) ==
  IF Len(text) = 1 THEN text[1]
  ELSE LET missing == Groups - Len(text[1]) - Len(text[2])
       IN  text[1] \o [i \in 1 .. missing |-> 0] \o text[2]

(* The bits of the groups one after the other, as a string. *)
Bits(groups) ==
  [i \in 1 .. Len(groups) * GroupBits |->
     (groups[((i - 1) \div GroupBits) + 1]
        \div Power2[GroupBits - 1 - ((i - 1) % GroupBits)]) % 2]

First(n, bits) == [i \in {j \in DOMAIN bits : j <= n} |-> bits[i]]

IsIPv6InCIDR(text, cidr) ==
  First(cidr.prefix, Bits(ExpandIPv6(text)))
    = First(cidr.prefix, Bits(ExpandIPv6(cidr.network.text)))

(* IPv4-mapped addresses are unwrapped: "::ffff:" is cut off every text    *)
(* that begins with it, whatever follows. *)
BeginsAsMapped(text) ==
  Len(text) = 2 /\ text[1] = <<>> /\ Len(text[2]) > 1 /\ text[2][1] = Power2[GroupBits] - 1
Unwrapped(text) == IF BeginsAsMapped(text) THEN <<Tail(text[2])>> ELSE text

(* The families do not mix. *)
IsIPInCIDRList(ip, cidrs) ==
  \E cidr \in cidrs :
    IF ip.family = "v6"
      THEN cidr.network.family = "v6" /\ IsIPv6InCIDR(Unwrapped(ip.text), cidr)
      ELSE cidr.network.family = "v4" /\ IsIPv4InCIDR(ip.text, cidr)

(* trustedProxyMiddleware, where some proxies are trusted. "forwardedFor"  *)
(* is the first address of the header; the connection has no address any   *)
(* more when it is closed already.  An empty CF-Connecting-IP hides the    *)
(* other header; a name that is empty counts as none.                      *)
Named(r) == IF r.cfConnectingIP # NoHeader THEN r.cfConnectingIP ELSE r.forwardedFor
Names(r) == Named(r) \notin {NoHeader, Empty}

ClientIp(r, trustedProxies) ==
  IF /\ r.remote # NoHeader /\ IsIPInCIDRList(r.remote, trustedProxies)
     /\ Names(r)
    THEN Named(r)
    ELSE r.remote

--------------------------------------------------------------------------------
(* What the matching is meant to be: an address belongs to a network when  *)
(* the number it stands for lies in the range of the network.              *)
Value(ip) ==
  IF ip.family # "v6" THEN Number(ip.text, OctetBits)
  ELSE IF Len(ip.text) = 1 THEN Number(ip.text[1], GroupBits)
  ELSE Number(ip.text[1], GroupBits) * Power2[GroupBits * (Groups - Len(ip.text[1]))]
         + Number(ip.text[2], GroupBits)

Belongs(ip, cidr) ==
  LET v6 == ip.family = "v6"
      range == Power2[(IF v6 THEN V6Bits ELSE V4Bits) - cidr.prefix]
  IN  /\ v6 <=> cidr.network.family = "v6"
      /\ Value(ip) \div range = Value(cidr.network) \div range

(* Every address of either family, in each of its spellings. *)
Lists(n, bits) == [1 .. n -> 0 .. Power2[bits] - 1]
V4Addresses == {V4(octets) : octets \in Lists(Octets, OctetBits)}
V6Addresses ==
  {V6(<<groups>>) : groups \in Lists(Groups, GroupBits)}
    \cup UNION {{V6(text) : text \in Lists(l, GroupBits) \X Lists(r, GroupBits)}
                 : l \in 0 .. Groups - 1, r \in 0 .. Groups - 1}
Addresses ==
  V4Addresses \cup {Mapped(ip.text) : ip \in V4Addresses}
    \cup {ip \in V6Addresses :
            Len(ip.text) = 1 \/ Len(ip.text[1]) + Len(ip.text[2]) < Groups}
(* Those that only an IPv4 address in the dotted form makes begin so. *)
PlainAddresses == {ip \in Addresses : ip.family = "v6" => ~BeginsAsMapped(ip.text)}
Cidrs ==
  {Cidr(ip, prefix) : ip \in V4Addresses, prefix \in 0 .. V4Bits}
    \cup {Cidr(ip, prefix) : ip \in Addresses \cap V6Addresses, prefix \in 0 .. V6Bits}

================================================================================
