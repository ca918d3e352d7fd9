---------------------------- MODULE AddressCheck ----------------------------
(* How the vault learns who is calling and whether the caller's user may    *)
(* call from there.  A request leaves its client, perhaps with an           *)
(* X-Forwarded-For header of its own, and passes a chain of proxies, each   *)
(* of which adds the address it was called from; the vault is told how long *)
(* the chain is (--trusted-proxy-hops), derives the client's address        *)
(* (clientip.js) and looks it up in the user's allowedIP (ipmatch.js).      *)
EXTENDS IpMatch

CONSTANTS Proxy, \* the address of every proxy
          Calls  \* the calls considered, each a record of the client's address
                 \* and the X-Forwarded-For it sends, the length of the chain of
                 \* proxies, the hops the vault is told, and the allowedIP

ASSUME CallsAssumption ==
  /\ Proxy \in Text \ {<<Empty>>}
  /\ Calls \subseteq [client : Text, header : Seq(Text), chain : Nat, hops : Nat,
                      allowed : SUBSET Entry]

VARIABLES client, allowed, \* the calling client, the entries of its user
          chain, hops,     \* the length of the chain, and what the vault is told
          passed,          \* proxies passed so far
          peer, header,    \* the sender of the last leg and the header it sent
          derived, verdict

addressVars == <<client, allowed, chain, hops, passed, peer, header, derived, verdict>>

Blank == <<Empty>>

(* An IPv4 address in IPv6 clothes, ::ffff: and a quad.                     *)
IsMapped(text) == /\ Len(text) = 4
                  /\ SubSeq(text, 1, 3) = <<Empty, Empty, Hex(Pow2[GroupBits] - 1)>>
                  /\ text[4].t = "quad"
NormIp(text) == IF IsMapped(text) THEN <<text[4]>> ELSE text

(* The peer, then the header from its right end.                            *)
Hops(xff) ==
  LET kept[i \in 0..Len(xff)] == IF i = 0 THEN <<>>
                                 ELSE IF NormIp(xff[i]) = Blank THEN kept[i - 1]
                                 ELSE Append(kept[i - 1], NormIp(xff[i]))
  IN  kept[Len(xff)]
LeftToRight(sender, xff) == <<NormIp(sender)>> \o Hops(xff)
Hopwise(sender, xff) == <<NormIp(sender)>> \o Reverse(Hops(xff))

DeriveClientIp(sender, xff, n) ==
  LET list == Hopwise(sender, xff) IN
    IF n > Len(list) - 1 THEN Last(list) ELSE list[n + 1]

Sent(call) == /\ client = call.client
              /\ allowed = call.allowed
              /\ chain = call.chain
              /\ hops = call.hops
              /\ passed = 0
              /\ peer = client
              /\ header = call.header
              /\ derived = None
              /\ verdict = None

AddressInit == \E call \in Calls : Sent(call)

Forward == /\ passed < chain
           /\ passed' = passed + 1
           /\ header' = Append(header, peer)
           /\ peer' = Proxy
           /\ UNCHANGED <<client, allowed, chain, hops, derived, verdict>>

(* The address check of authenticate; no address is never allowed.          *)
Judge == /\ passed = chain
         /\ verdict = None
         /\ derived' = DeriveClientIp(peer, header, hops)
         /\ verdict' = (derived' # Blank /\ IpAllowed(derived', allowed))
         /\ UNCHANGED <<client, allowed, chain, hops, passed, peer, header>>

AddressNext == Forward \/ Judge

AddressSpec == AddressInit /\ [][AddressNext]_addressVars

-----------------------------------------------------------------------------
(* What a text means, group by group: an IPv6 text is written from the      *)
(* groups of an address by leaving out one run of at least one zero group.  *)
HexSeq(v) == [i \in 1..NGroups |-> Hex((v \div Pow2[GroupBits * (NGroups - i)]) % Pow2[GroupBits])]
OrEmpty(s) == IF s = <<>> THEN <<Empty>> ELSE s
Shortened(g, i, j) == OrEmpty(SubSeq(g, 1, i)) \o <<Empty>> \o OrEmpty(SubSeq(g, j, NGroups))
ZeroRun(g, i, j) == i + 1 < j /\ \A z \in (i + 1)..(j - 1) : g[z] = Hex(0)
WritingsOf(v) ==
  LET g == HexSeq(v) IN
    {g} \cup {Shortened(g, run[1], run[2]) :
                run \in {p \in (0..NGroups) \X (1..NGroups + 1) : ZeroRun(g, p[1], p[2])}}
Writings == [v \in 0..(Pow2[V6Bits] - 1) |-> WritingsOf(v)]
WithoutQuad(text) == IF Len(text) > 1 /\ Last(text).t = "quad"
                     THEN LET q == Last(text).v IN
                            Front(text) \o [i \in 1..2 |->
                              Hex((Value(q, OctetBits) \div Pow2[GroupBits * (2 - i)]) % Pow2[GroupBits])]
                     ELSE text
GoodQuads(text) == \A i \in DOMAIN text :
                     text[i].t = "quad" => \A o \in DOMAIN text[i].v : text[i].v[o] < Pow2[OctetBits]
MeantV4(text) == IF Len(text) = 1 /\ text[1].t = "quad" /\ GoodQuads(text)
                 THEN {Value(text[1].v, OctetBits)} ELSE {}
MeantV6(text) == {v \in 0..(Pow2[V6Bits] - 1) : GoodQuads(text) /\ WithoutQuad(text) \in Writings[v]}

(* The addresses of one family an entry stands for.                         *)
SameNet(family, a, len) == {b \in 0..(Pow2[Bits(family)] - 1) :
  /\ len <= Bits(family)
  /\ b \div Pow2[Bits(family) - len] = a \div Pow2[Bits(family) - len]}
Meant(family, text) == IF family = 4 THEN MeantV4(text) ELSE MeantV6(text)
Denoted(family, entry) ==
  CASE entry.form = "addr" -> Meant(family, entry.text)
    [] entry.form = "cidr" -> UNION {SameNet(family, a, entry.len) : a \in Meant(family, entry.text)}
    [] entry.form = "range" ->
         {v \in 0..(Pow2[V4Bits] - 1) :
            /\ family = 4
            /\ \E a \in MeantV4(entry.start), b \in MeantV4(entry.end) : v \in a..b}

(* Whoever sends whatever header, the vault takes the client's own address  *)
(* for the client, if it is told the true length of the chain               *)
(* (clientip.js 6-17).                                                      *)
RouteYieldsClient == verdict # None => derived = NormIp(client)

(* A caller is let in exactly if its address is one that some entry of its  *)
(* user's allowedIP stands for; entries that mean nothing let nobody in     *)
(* (ipmatch.js 161-187).                                                    *)
AllowedIffDenoted ==
  verdict # None => (verdict <=> \E entry \in allowed, family \in {4, 6} :
                                   Meant(family, derived) \cap Denoted(family, entry) # {})

(* kv-admin refuses the entries that can let nobody in, and only those      *)
(* (ipmatch.js 189-196).                                                    *)
InvalidIffNothing ==
  InvalidEntries(allowed) = {entry \in allowed : Denoted(4, entry) \cup Denoted(6, entry) = {}}

(* When the header has fewer entries than the configured hops, the peer is  *)
(* taken (clientip.js 19-20).                                               *)
ShortHeaderMeansPeer ==
  (verdict # None /\ Len(Hops(header)) < hops) => derived = NormIp(peer)
=============================================================================
