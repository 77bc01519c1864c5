--------------------------- MODULE CouplingAtomic ---------------------------
(***************************************************************************)
(* What the activation coupling of one bridge promises, with every call of *)
(* the control plane a single step: a configured direction that is not    *)
(* DYNAMIC is active from the start and stays so; a DYNAMIC outbound       *)
(* interface is switched on and off by group activity; a DYNAMIC inbound   *)
(* interface listens exactly while some other interface configured as      *)
(* outbound is active, so that nothing is received that could go nowhere   *)
(* and nothing is dropped that some outbound wants.  A direction that is   *)
(* not configured (NONE) is no part of the coupling: its flag is whatever  *)
(* the implementation starts it with, and never changes.                   *)
(***************************************************************************)
EXTENDS BridgeConfig

VARIABLES
    config,             \* the interface list of the bridge, fixed at start
    inbound_active,     \* inbound_active of each interface
    outbound_active     \* outbound_active of each interface

vars == <<config, inbound_active, outbound_active>>

\* Some other interface of the bridge configured as outbound forwards what
\* interface i receives.
Listened(out, i) == \E j \in Ifaces \ {i} : config[j].outbound # NONE /\ out[j]

\* The inbound flag of a configured inbound interface i that goes with the
\* active outbound interfaces out.
Coupled(out, i) == config[i].inbound # DYNAMIC \/ Listened(out, i)

Init ==
    /\ config \in Bridges
    /\ outbound_active \in [Ifaces -> BOOLEAN]
    /\ inbound_active \in [Ifaces -> BOOLEAN]
    /\ \A i \in Ifaces :
          /\ config[i].outbound # NONE =>
                outbound_active[i] = (config[i].outbound # DYNAMIC)
          /\ config[i].inbound # NONE =>
                inbound_active[i] = Coupled(outbound_active, i)

\* Group activity switches a DYNAMIC outbound interface on or off.
Switch(h) ==
    /\ config[h].outbound = DYNAMIC
    /\ outbound_active' = [outbound_active EXCEPT ![h] = ~@]
    /\ inbound_active' =
          [i \in Ifaces |-> IF config[i].inbound = NONE THEN inbound_active[i]
                            ELSE Coupled(outbound_active', i)]
    /\ UNCHANGED config

Next == \E h \in Ifaces : Switch(h)

Spec == Init /\ [][Next]_vars

=============================================================================
