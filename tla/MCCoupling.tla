----------------------------- MODULE MCCoupling -----------------------------
(***************************************************************************)
(* Coupling for TLC.  initialize_interfaces also activates the directions  *)
(* configured NONE (the run coupling_none_forwarded), and an outbound      *)
(* activated that way makes every other DYNAMIC inbound listen at once.    *)
(* The refinement run checks the coupling on the interface lists where     *)
(* that cannot happen: no interface has outbound NONE while another has a  *)
(* DYNAMIC inbound.                                                        *)
(***************************************************************************)
EXTENDS Coupling

NoneOutboundListened(b) ==
    \E i, j \in Ifaces : i # j /\ b[j].outbound = NONE /\ b[i].inbound = DYNAMIC

CouplingBridges == {b \in ConfiguredBridges : ~NoneOutboundListened(b)}

=============================================================================
