-------------------------------- MODULE MCMld --------------------------------
(***************************************************************************)
(* Small instances of Mld for TLC, shaped like those of MCIgmp: the local  *)
(* link-local address between a lower and a higher remote host, one        *)
(* registered group with one bridge interface, one dynamic slot with two   *)
(* groups competing for it, and one ff02::/16 group.                       *)
(***************************************************************************)
EXTENDS Mld

MCMe == 2
MCRemotes == {1, 3}
MCAllOnes == 255
MCGroupAddrs == {"G1", "G2", "G3", "LL"}
MCLinkLocal == {"LL"}
MCFixedGroups == <<"G1">>
MCSubscribers == [g \in {"G1"} |-> {"h1"}]
MCQueryGroups == {AnyAddr, "G1"}
MCDoneGroups == {"G1", "G2"}

\* MLDv2 query fields: robustness 2 or 1; QQIC and Maximum Response Code
\* below 128 and 32768, which decode to themselves, read as ticks.
MCQueryParams == {[qrv |-> 2, qqic |-> 2, response |-> 1],
                  [qrv |-> 1, qqic |-> 2, response |-> 1]}

MCV2Records == {[type |-> "IS_EX", srcs |-> 0, group |-> "G1"],
                [type |-> "TO_EX", srcs |-> 0, group |-> "G2"],
                [type |-> "TO_IN", srcs |-> 0, group |-> "G1"],
                [type |-> "BLOCK", srcs |-> 1, group |-> "G1"]}

\* The evm_create capacity of initialize_mld for one interface and the
\* groups above: interfaces * 2 + (fixed + non-configured) * 2.
CodeTimerCapacity == 1 * 2 + (Len(MCFixedGroups) + 1) * 2
=============================================================================
