------------------------------ MODULE Coupling ------------------------------
(***************************************************************************)
(* The activation coupling of interface.c together with the forwarding    *)
(* loop of bridge.c, for one bridge instance.                               *)
(*                                                                          *)
(* initialize_interfaces runs before any thread starts, so it is the       *)
(* initial state.  Afterwards the single control thread of the bridge's    *)
(* family (IGMP for AF_INET, MLD for AF_INET6) calls                       *)
(* interface_activate_outbound and interface_deactivate_outbound on the    *)
(* registered (DYNAMIC outbound) interfaces, one call at a time; each call *)
(* writes its own outbound flag first and then visits the peers one by     *)
(* one, and the bridge thread's bridge_receive may read the flags between  *)
(* any two of those steps.                                                 *)
(***************************************************************************)
EXTENDS BridgeConfig

VARIABLES
    config,             \* bridge->interface_list configurations, fixed at start
    inbound_active,     \* bridge_interface->inbound_active
    outbound_active,    \* bridge_interface->outbound_active
    call,               \* the control thread's activate/deactivate call in progress
    forwarded           \* (receiving, sending) interface pairs of the last datagram

vars == <<config, inbound_active, outbound_active, call, forwarded>>

\* No call in progress.
Idle == [op |-> "idle", h |-> 1, k |-> 1]

-----------------------------------------------------------------------------
(* interface_activate_inbound / interface_deactivate_inbound on a flag     *)
(* function: the group join or leave on the socket is left out, its       *)
(* failure is only logged.                                                 *)

ActivateInbound(in, i) == IF in[i] THEN in ELSE [in EXCEPT ![i] = TRUE]

DeactivateInbound(in, i) ==
    IF ~in[i] \/ config[i].inbound # DYNAMIC THEN in
    ELSE [in EXCEPT ![i] = FALSE]

\* The peer2 scan of interface_deactivate_outbound: is some interface other
\* than peer p an active outbound?
OtherOutboundActiveWithSelf(out, p) == \E q \in Ifaces : out[q]
OtherOutboundActive(out, p) == \E q \in Ifaces \ {p} : out[q]

\* One iteration of the peer loop of an activate (deactivate) call made on
\* interface h, visiting peer p.
PeerStep(op, h, p, in, out) ==
    IF p = h \/ config[p].inbound # DYNAMIC THEN in
    ELSE IF op = "activate" THEN ActivateInbound(in, p)
    ELSE IF OtherOutboundActive(out, p) THEN in
    ELSE DeactivateInbound(in, p)

\* The rest of the peer loop, from peer k to the end of the list.
RECURSIVE PeerLoop(_, _, _, _, _)
PeerLoop(op, h, k, in, out) ==
    IF k > N THEN in
    ELSE PeerLoop(op, h, k + 1, PeerStep(op, h, k, in, out), out)

\* A whole interface_activate_outbound call, as initialize_interfaces makes
\* it: the <<inbound, outbound>> flags after it.
ActivateOutboundCall(h, in, out) ==
    IF out[h] THEN <<in, out>>
    ELSE LET out1 == [out EXCEPT ![h] = TRUE]
         IN  <<PeerLoop("activate", h, 1, in, out1), out1>>

\* initialize_interfaces from interface k on: activate every inbound that
\* is not DYNAMIC, register every DYNAMIC outbound with the control plane
\* (no flag changes) and activate every other outbound.
RECURSIVE InitializeInterfaces(_, _, _)
InitializeInterfaces(k, in, out) ==
    IF k > N THEN <<in, out>>
    ELSE LET in1 == IF config[k].inbound # DYNAMIC
                    THEN ActivateInbound(in, k) ELSE in
         IN  IF config[k].outbound = DYNAMIC
             THEN InitializeInterfaces(k + 1, in1, out)
             ELSE LET r == ActivateOutboundCall(k, in1, out)
                  IN  InitializeInterfaces(k + 1, r[1], r[2])

Init ==
    /\ config \in Bridges
    /\ LET r == InitializeInterfaces(1, [i \in Ifaces |-> FALSE],
                                        [i \in Ifaces |-> FALSE])
       IN  /\ inbound_active = r[1]
           /\ outbound_active = r[2]
    /\ call = Idle
    /\ forwarded = {}

-----------------------------------------------------------------------------
(* The control thread.  Only registered interfaces (DYNAMIC outbound) are *)
(* ever passed to the two calls; a call that returns early changes        *)
(* nothing and is not a step.                                             *)

\* interface_activate_outbound(h): return if already active, set the flag,
\* then start the peer loop.
ActivateOutbound(h) ==
    /\ call = Idle
    /\ config[h].outbound = DYNAMIC
    /\ ~outbound_active[h]
    /\ outbound_active' = [outbound_active EXCEPT ![h] = TRUE]
    /\ call' = [op |-> "activate", h |-> h, k |-> 1]
    /\ UNCHANGED <<config, inbound_active, forwarded>>

\* interface_deactivate_outbound(h): return if inactive or not DYNAMIC,
\* clear the flag, then start the peer loop.
DeactivateOutbound(h) ==
    /\ call = Idle
    /\ config[h].outbound = DYNAMIC
    /\ outbound_active[h]
    /\ outbound_active' = [outbound_active EXCEPT ![h] = FALSE]
    /\ call' = [op |-> "deactivate", h |-> h, k |-> 1]
    /\ UNCHANGED <<config, inbound_active, forwarded>>

\* One iteration of the peer loop of the call in progress; after the last
\* peer the call returns.
VisitPeerNoExit ==
    /\ call # Idle
    /\ inbound_active' = PeerStep(call.op, call.h, call.k, inbound_active, outbound_active)
    /\ call' = [call EXCEPT !.k = @ + 1]
    /\ UNCHANGED <<config, outbound_active, forwarded>>
VisitPeer ==
    /\ call # Idle
    /\ inbound_active' = PeerStep(call.op, call.h, call.k, inbound_active, outbound_active)
    /\ call' = IF call.k = N THEN Idle ELSE [call EXCEPT !.k = @ + 1]
    /\ UNCHANGED <<config, outbound_active, forwarded>>

-----------------------------------------------------------------------------
(* The bridge thread.                                                      *)

\* bridge_receive on interface src: drop the datagram if src's inbound is
\* inactive, otherwise send it on every other active outbound interface.
BridgeReceive(src) ==
    /\ forwarded' = IF inbound_active[src]
                    THEN {<<src, d>> : d \in {d \in Ifaces \ {src} : outbound_active[d]}}
                    ELSE {}
    /\ UNCHANGED <<config, inbound_active, outbound_active, call>>

Next ==
    \/ \E h \in Ifaces : ActivateOutbound(h) \/ DeactivateOutbound(h)
    \/ VisitPeer
    \/ \E src \in Ifaces : BridgeReceive(src)

Spec == Init /\ [][Next]_vars

-----------------------------------------------------------------------------
(* Properties.                                                             *)

\* Every variable keeps its type; in particular the peer loop of a call
\* never runs past the end of the interface list.
TypeOK ==
    /\ config \in [Ifaces -> [inbound : ConfigTypes, outbound : ConfigTypes]]
    /\ inbound_active \in [Ifaces -> BOOLEAN]
    /\ outbound_active \in [Ifaces -> BOOLEAN]
    /\ call \in {Idle} \cup [op : {"activate", "deactivate"}, h : Ifaces, k : Ifaces]
    /\ forwarded \subseteq Ifaces \X Ifaces

\* The inbound flags the call in progress leaves once its peer loop is done.
CommittedInbound ==
    IF call = Idle THEN inbound_active
    ELSE PeerLoop(call.op, call.h, call.k, inbound_active, outbound_active)

Atomic == INSTANCE CouplingAtomic WITH inbound_active <- CommittedInbound

\* initialize_interfaces and each activate or deactivate call, with its
\* peer loop run to the end, implement the coupling of CouplingAtomic: a
\* DYNAMIC inbound listens exactly while another interface is an active
\* outbound, and no other direction ever changes.
AtomicSpec == Atomic!Spec

\* A datagram is received only on an interface configured as inbound and
\* sent only on interfaces configured as outbound (spec section 1: the
\* bridge "receives UDP datagrams from a set of inbound interfaces and
\* re-emits them on a set of outbound interfaces"), whatever bridge_receive
\* and the activation flags do.
ForwardsOnlyConfigured ==
    \A f \in forwarded : config[f[1]].inbound # NONE /\ config[f[2]].outbound # NONE


=============================================================================
