--------------------------- MODULE MCAddressCheck ---------------------------
(* Instances of AddressCheck for TLC with short addresses: two octets of    *)
(* two bits, four groups of two bits.                                       *)
EXTENDS AddressCheck

V4(a, b) == <<Quad(<<a, b>>)>>
Mapped(a, b) == <<Empty, Empty, Hex(3), Quad(<<a, b>>)>>
V6(s) == [i \in DOMAIN s |-> IF s[i] = -1 THEN Empty ELSE Hex(s[i])]

MCProxy == V4(0, 1)

Call(from, xff, n, told, entries) ==
  [client |-> from, header |-> xff, chain |-> n, hops |-> told, allowed |-> entries]

(* The route: clients of both families, some seen in mapped form, with      *)
(* headers that claim another address, nothing, or no address at all.       *)
RouteClients == {V4(1, 2), Mapped(1, 2), V6(<<1, -1, 2>>), <<Other>>}
RouteHeaders == SeqOf({V4(3, 3), Blank, <<Other>>, Mapped(0, 1)}, 2)
RouteLists == {{Cidr(V4(1, 0), 2), Plain(V6(<<1, 0, 0, 2>>))}, {Plain(MCProxy)}, {}}
RouteCalls(surplus) ==
  {Call(from, xff, n, n + extra, entries) :
     from \in RouteClients, xff \in RouteHeaders, n \in 0..2, extra \in surplus,
     entries \in RouteLists}

(* The vault is told of more proxies than there are.                        *)
MCMoreHops == RouteCalls(0..2)

(* The entries: every address against every kind of entry, some nonsense.   *)
SomeV4 == {V4(a, b) : a \in {0, 1, 3}, b \in {0, 2, 3, 4}}
SomeV6 == {V6(<<1, -1, 2>>), V6(<<-1, -1, -1>>), V6(<<3, 3, -1, -1>>), V6(<<1, 0, 2>>),
           <<Empty, Empty, Quad(<<1, 2>>)>>, <<Other>>}
EntryClients == {V4(a, b) : a, b \in 0..3} \cup {V6(<<1, 0, 0, a>>) : a \in 0..3}
                \cup {V6(<<3, 3, 1, 2>>), V6(<<-1, -1, 1>>), V6(<<0, 0, 1, 2>>), Mapped(1, 2)}
EntryLists == {{Cidr(a, len)} : a \in SomeV4, len \in 0..5}
              \cup {{Cidr(a, len)} : a \in SomeV6, len \in {0, 1, 3, 6, 8, 9}}
              \cup {{Span(a, b)} : a, b \in SomeV4 \cup {V6(<<1, -1, 2>>)}}
              \cup {{Plain(a)} : a \in SomeV4 \cup SomeV6}
              \cup {{Plain(<<Other>>), Cidr(V4(0, 0), 0), Cidr(V6(<<0, -1, -1>>), 0)}}
EntryCalls == {Call(from, <<>>, 0, 0, entries) : from \in EntryClients, entries \in EntryLists}

(* The syntax: every text of up to five fields.                             *)
SyntaxClients == SeqOf({Empty, Hex(0), Hex(2), Quad(<<1, 2>>), Other}, 5) \ {<<>>}
SyntaxList == {Cidr(V6(<<-1, -1, -1>>), 1), Plain(V4(1, 2)), Plain(V6(<<2, -1, 2>>))}
SyntaxCalls == {Call(from, <<>>, 0, 0, SyntaxList) : from \in SyntaxClients}

MCCalls == RouteCalls({0}) \cup EntryCalls \cup SyntaxCalls
=============================================================================
