------------------------------- MODULE IpMatch ------------------------------
(* The addresses and allowedIP entries of ipmatch.js.  A text is the        *)
(* sequence of its fields between colons: a hexadecimal group, a dotted     *)
(* quad, nothing, or something else; a text without a colon is one field.   *)
(* The widths are parameters: 8, 4, 16 and 8 in the code.                   *)
EXTENDS Integers, Sequences, SequencesExt, Optional

CONSTANTS OctetBits, NOctets, GroupBits, NGroups

ASSUME WidthAssumption ==
  /\ {OctetBits, NOctets, GroupBits, NGroups} \subseteq Nat \ {0}
  /\ NOctets * OctetBits = 2 * GroupBits

V4Bits == NOctets * OctetBits
V6Bits == NGroups * GroupBits

(* The powers of two; the provers do not know the operator ^.               *)
Pow2[n \in Nat] == IF n = 0 THEN 1 ELSE 2 * Pow2[n - 1]

Hex(v) == [t |-> "hex", v |-> v]
Quad(octets) == [t |-> "quad", v |-> octets]
Empty == [t |-> "empty"]
Other == [t |-> "other"]

(* What a text is made of: at most four hexadecimal digits are a group, and *)
(* an octet of a quad may be too large.                                     *)
Field == [t : {"hex"}, v : 0..(Pow2[GroupBits] - 1)] \cup [t : {"quad"}, v : [1..NOctets -> Nat]]
         \cup {Empty, Other}
Text == Seq(Field) \ {<<>>}

(* The number whose digits these are, the first first.                      *)
Value(digits, bits) ==
  LET v[i \in 0..Len(digits)] == IF i = 0 THEN 0 ELSE v[i - 1] * Pow2[bits] + digits[i]
  IN  v[Len(digits)]

(* A parser yields the one value of a text as a set, none if there is none. *)
ParseIPv4(text) ==
  {Value(field.v, OctetBits) :
     field \in {f \in Range(text) : /\ Len(text) = 1
                                    /\ f.t = "quad"
                                    /\ \A i \in 1..NOctets : f.v[i] < Pow2[OctetBits]}}

(* A dotted quad at the end stands for two groups.                          *)
WithoutTail(text) ==
  IF Len(text) > 1 /\ Last(text).t = "quad"
  THEN {Front(text) \o <<Hex(v4 \div Pow2[GroupBits]), Hex(v4 % Pow2[GroupBits])>> :
          v4 \in ParseIPv4(<<Last(text)>>)}
  ELSE {text}

(* How many groups may stand beside a double colon.                         *)
EveryGroup == NGroups
GroupsBesideGap == NGroups - 1

(* The groups before and after a double colon; an empty field at either end *)
(* belongs to the colons.                                                   *)
Before(s, gap) == IF gap = 2 /\ s[1] = Empty THEN <<>> ELSE SubSeq(s, 1, gap - 1)
After(s, gap) == IF gap = Len(s) - 1 /\ Last(s) = Empty THEN <<>> ELSE SubSeq(s, gap + 1, Len(s))
Gaps(s) == {i \in 2..(Len(s) - 1) : s[i] = Empty}
Filled(before, after) ==
  {before \o [i \in 1..n |-> Hex(0)] \o after :
     n \in {k \in 0..NGroups : /\ k + Len(before) + Len(after) = NGroups
                               /\ NGroups - k <= GroupsBesideGap}}
AllGroups(s) ==
  IF Gaps(s) = {}
  THEN {g \in {s} : Len(g) = NGroups}
  ELSE UNION {Filled(Before(s, gap), After(s, gap)) : gap \in {i \in Gaps(s) : Gaps(s) = {i}}}

ParseIPv6(text) ==
  {Value([i \in DOMAIN groups |-> groups[i].v], GroupBits) :
     groups \in {g \in UNION {AllGroups(s) : s \in WithoutTail(text)} :
                   \A i \in DOMAIN g : g[i].t = "hex"}}

-----------------------------------------------------------------------------
(* An entry is an address with a prefix length, two addresses with a dash,  *)
(* or an address.                                                           *)
Cidr(text, len) == [form |-> "cidr", text |-> text, len |-> len]
Span(start, end) == [form |-> "range", start |-> start, end |-> end]
Plain(text) == [form |-> "addr", text |-> text]
Entry == [form : {"cidr"}, text : Text, len : Nat] \cup [form : {"range"}, start : Text, end : Text]
         \cup [form : {"addr"}, text : Text]

(* A quad alone is never an IPv6 address, so the two never meet.            *)
Parsed(text) == {[family |-> 4, addr |-> v4] : v4 \in ParseIPv4(text)}
                \cup {[family |-> 6, addr |-> v6] : v6 \in ParseIPv6(text)}

Bits(family) == IF family = 4 THEN V4Bits ELSE V6Bits

AnyOrder(start, end) == TRUE
Ordered(start, end) == start <= end

ParseEntry(entry) ==
  CASE entry.form = "cidr" ->
         {[type |-> "cidr", family |-> a.family, addr |-> a.addr, len |-> entry.len] :
            a \in {p \in Parsed(entry.text) : entry.len <= Bits(p.family)}}
    [] entry.form = "range" ->
         {[type |-> "range", family |-> 4, start |-> ends[1], end |-> ends[2]] :
            ends \in {e \in ParseIPv4(entry.start) \X ParseIPv4(entry.end) : Ordered(e[1], e[2])}}
    [] OTHER ->
         {[type |-> "addr", family |-> a.family, addr |-> a.addr] : a \in Parsed(entry.text)}

(* A bitwise AND keeps the bits set in both.                                *)
Mask(len) == (Pow2[V4Bits] - 1) - (Pow2[V4Bits - len] - 1)
OneBits(v) == {i \in 0..(V4Bits - 1) : (v \div Pow2[i]) % 2 = 1}
Masked(v, len) == OneBits(v) \cap OneBits(Mask(len))

MatchEntry(desc, family, addr) ==
  /\ desc.family = family
  /\ CASE desc.type = "addr" -> desc.addr = addr
       [] desc.type = "range" -> addr >= desc.start /\ addr <= desc.end
       [] desc.type = "cidr" ->
            \/ desc.len = 0
            \/ family = 4 /\ Masked(addr, desc.len) = Masked(desc.addr, desc.len)
            \/ /\ family = 6
               /\ addr \div Pow2[V6Bits - desc.len] = desc.addr \div Pow2[V6Bits - desc.len]

IpAllowed(text, allowed) ==
  \E caller \in Parsed(text), entry \in allowed :
    \E desc \in ParseEntry(entry) : MatchEntry(desc, caller.family, caller.addr)

InvalidEntries(entries) == {entry \in entries : ParseEntry(entry) = {}}
=============================================================================
