---------------------------- MODULE BridgeConfig ----------------------------
(***************************************************************************)
(* The interface configuration of the bridge instances config.c builds     *)
(* from one [port] section: the settings an interface can get from the     *)
(* four interface lists, the address families of each interface, the      *)
(* checks of validate_draft_bridge, and add_bridge, which keeps for each   *)
(* family the interfaces with an address of that family and forces        *)
(* DYNAMIC inbound interfaces to FORCED when some other interface is a     *)
(* STATIC outbound.                                                        *)
(***************************************************************************)
EXTENDS Naturals, FiniteSets, Sequences

CONSTANT N          \* number of interfaces of a bridge instance (interface_count)

ASSUME N \in Nat \ {0}

\* The positions of bridge->interface_list, in list order.
Ifaces == 1..N

\* interface_config_type_t (common.h).
NONE == "none"
DYNAMIC == "dynamic"
STATIC == "static"
FORCED == "forced"
ConfigTypes == {NONE, DYNAMIC, STATIC, FORCED}

\* AF_INET and AF_INET6.
Families == {"IPv4", "IPv6"}

\* What the interface lists of a draft bridge can give one interface:
\* "inbound-interfaces" / "outbound-interfaces" make a direction DYNAMIC
\* unless it is already STATIC, the "static-" lists make it STATIC, and
\* add_draft_interface only creates an interface that some list names.
DraftSettings ==
    {s \in [inbound : {NONE, DYNAMIC, STATIC}, outbound : {NONE, DYNAMIC, STATIC}] :
        s.inbound # NONE \/ s.outbound # NONE}

\* A draft interface: its settings and the families it has an address of;
\* add_draft_interface rejects an interface with no address at all.
DraftIfaces ==
    {[inbound |-> s.inbound, outbound |-> s.outbound, addrs |-> a] :
        s \in DraftSettings, a \in SUBSET Families \ {{}}}

Inbounds(d) == {i \in DOMAIN d : d[i].inbound # NONE}
Outbounds(d) == {i \in DOMAIN d : d[i].outbound # NONE}

\* The single-interface rule of one family: at least one inbound and one
\* outbound interface, and not one interface that is both the only inbound
\* and the only outbound one.
FamilyValid(ins, outs) ==
    /\ ins # {}
    /\ outs # {}
    /\ ~(Cardinality(ins) = 1 /\ ins = outs)

\* The interfaces of draft d with an address of family f.
OfFamily(d, f, ifs) == {i \in ifs : f \in d[i].addrs}

\* validate_draft_bridge for a draft with the multicast group addresses of
\* the families mcast: a group address, at least one inbound and one
\* outbound interface, a single inbound (outbound) interface that is not
\* also an outbound (inbound) one, and the rule of each family with a
\* group address; a draft that fails is fatal.
ValidDraft(d, mcast) ==
    /\ mcast # {}
    /\ Inbounds(d) # {}
    /\ Outbounds(d) # {}
    /\ Cardinality(Inbounds(d)) = 1 =>
          \A i \in Inbounds(d) : d[i].outbound = NONE
    /\ Cardinality(Outbounds(d)) = 1 =>
          \A i \in Outbounds(d) : d[i].inbound = NONE
    /\ \A f \in mcast :
          FamilyValid(OfFamily(d, f, Inbounds(d)), OfFamily(d, f, Outbounds(d)))

\* The end of add_bridge: if an outbound interface is STATIC, every other
\* DYNAMIC inbound interface becomes FORCED.
ForceInbound(b) ==
    [i \in DOMAIN b |->
        IF b[i].inbound = DYNAMIC /\ \E o \in DOMAIN b \ {i} : b[o].outbound = STATIC
        THEN [b[i] EXCEPT !.inbound = FORCED]
        ELSE b[i]]

\* add_bridge(draft, f): the interfaces with an address of family f, in
\* draft order, with their two settings, then forced.
AddBridge(d, f) ==
    LET kept == SelectSeq(d, LAMBDA x : f \in x.addrs)
    IN  ForceInbound([k \in 1..Len(kept) |->
                        [inbound |-> kept[k].inbound, outbound |-> kept[k].outbound]])

\* The drafts of N + 1 interfaces, each of the first N with an IPv4
\* address and the last with none, so that the IPv4 bridge of a draft has
\* N interfaces.  The position of the interface left out does not change
\* the IPv4 bridge, and IPv6 is handled by the same code, so these drafts
\* give every bridge of N interfaces config.c can build; a draft of only
\* N interfaces gives fewer, as its own checks over all interfaces are
\* the family's.
BridgeDrafts ==
    {d \o <<x>> : d \in [Ifaces -> {y \in DraftIfaces : "IPv4" \in y.addrs}],
                  x \in {y \in DraftIfaces : "IPv4" \notin y.addrs}}

\* Every interface list of N interfaces a bridge instance can start with:
\* the IPv4 bridge read_config adds for a draft that validate_draft_bridge
\* accepts with an IPv4 group address.
ConfiguredBridges ==
    {AddBridge(d, "IPv4") :
        d \in {d \in BridgeDrafts :
                 \E mcast \in SUBSET Families : "IPv4" \in mcast /\ ValidDraft(d, mcast)}}

Bridges == ConfiguredBridges

=============================================================================
