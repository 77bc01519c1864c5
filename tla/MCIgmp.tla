------------------------------- MODULE MCIgmp -------------------------------
(***************************************************************************)
(* Small instances of Igmp for TLC.  Addresses are ordered numbers: the    *)
(* local interface sits between a lower and a higher remote host, so both  *)
(* outcomes of every address comparison in the election happen.  One      *)
(* registered group with one bridge interface, one dynamic slot, one more *)
(* dynamic group to compete for it and one link-scope group.               *)
(***************************************************************************)
EXTENDS Igmp

MCMe == 2
MCRemotes == {1, 3}
MCAllOnes == 255
MCGroupAddrs == {"G1", "G2", "G3", "LL"}
MCLinkLocal == {"LL"}
MCFixedGroups == <<"G1">>
MCSubscribers == [g \in {"G1"} |-> {"h1"}]
MCQueryGroups == {AnyAddr, "G1"}
MCLeaveGroups == {"G1", "G2"}
MCV1Groups == {"G1", "G2"}

\* Protocol timing in ticks, keeping the code's ratios: the query interval
\* longer than the response interval, the last-member interval shortest.
\* QQIC and Max Resp Code are below 128, so they decode to themselves.
MCQueryParams == {[qrv |-> 2, qqic |-> 2, code |-> 1],
                  [qrv |-> 1, qqic |-> 2, code |-> 1]}

\* An IGMPv3 querier that lowers the robustness to 1.
MCLowRobustness == {[qrv |-> 1, qqic |-> 2, code |-> 1]}

\* An IGMPv3 querier whose robustness is above 7: QRV 0 on the wire.
MCHighRobustness == {[qrv |-> 0, qqic |-> 2, code |-> 1]}

MCV3Records == {[type |-> "IS_EX", srcs |-> 0, group |-> "G1"],
                [type |-> "TO_EX", srcs |-> 0, group |-> "G2"],
                [type |-> "TO_IN", srcs |-> 0, group |-> "G1"],
                [type |-> "BLOCK", srcs |-> 1, group |-> "G1"]}

\* The evm_create capacity of initialize_igmp for one interface and the
\* groups above: interfaces * 2 + (fixed + non-configured) * 2.
CodeTimerCapacity == 1 * 2 + (Len(MCFixedGroups) + 1) * 2
=============================================================================
