-------------------------------- MODULE Igmp --------------------------------
(***************************************************************************)
(* The IGMP control plane of one interface (igmp.c): the querier state     *)
(* machine, the per-group membership state machine, the bounded group      *)
(* table, the Multicast Router Discovery advertisements and the call-outs  *)
(* that switch the outbound bridge interfaces of registered groups.        *)
(*                                                                         *)
(* Everything runs on the IGMP thread's event loop: an action is one whole *)
(* socket or timer callback, run to completion.  Packets arrive from the   *)
(* network at any time; timers fire from the head of the evm timer list    *)
(* when their deadline is reached; Tick is one unit of the clock.          *)
(*                                                                         *)
(* Times are in ticks.  The code's unit conversions (seconds * 1000,       *)
(* tenths * 100, tenths / 10) all map a protocol value onto the clock, so  *)
(* protocol values are given here directly in ticks and every timer keeps *)
(* the code's formula: which values are multiplied by the robustness,      *)
(* which are halved, and where the grace time is added.                    *)
(***************************************************************************)
EXTENDS Naturals, Sequences, SequencesExt, Evm, TimeCode

CONSTANTS
    QuerierMode,         \* igmp_querier_mode
    Me,                  \* if_addr of the interface; addresses are numbers
    Remotes,             \* addresses of the other hosts on the link
    AllOnes,             \* 255.255.255.255: "no querier, anyone may win"
    AnyAddr,             \* 0.0.0.0: the group field of a general query
    GroupAddrs,          \* group addresses that reports and queries carry
    LinkLocal,           \* those of them inside 224.0.0.0/24
    FixedGroups,         \* groups registered by igmp_register_interface
    Subscribers,         \* fixed group -> its bridge interfaces (handles)
    NonConfigured,       \* non_configured_groups
    DefRobustness,       \* MCB_IGMP_ROBUSTNESS
    DefQueryInterval,    \* MCB_IGMP_QUERY_INTERVAL
    DefResponse,         \* MCB_IGMP_RESPONSE_INTERVAL
    DefLastMbr,          \* MCB_IGMP_LASTMBR_INTERVAL
    Grace,               \* GRACE_MILLIS
    InitialQuerierDelay, \* the 125.5 s delayed activation
    MrdInitialDelays,    \* values of MCB_MRD_INITIAL_INTERVAL_MS
    MrdDelays,           \* values of MCB_MRD_INTERVAL_MS
    QueryGroups,         \* group fields of the queries heard (AnyAddr: general)
    QueryVersions,       \* {2}: IGMPv1/v2-sized queries, {3}: IGMPv3 queries
    QueryParams,         \* [qrv, qqic, code] fields a v3 query may carry
    V1Groups,            \* groups of the IGMPv1 reports heard
    V2Groups,            \* groups of the IGMPv2 reports heard
    LeaveGroups,         \* groups of the IGMPv2 leaves heard
    V3Records,           \* group records a v3 report may carry
    MaxV3Records,        \* most records in one v3 report
    UIntBits             \* width of an unsigned int (32; TLC holds up to 30)

Modes == {"Never", "Quick", "Delay", "Defer"}
RecordTypes == {"IS_IN", "IS_EX", "TO_IN", "TO_EX", "ALLOW", "BLOCK",
                "UNKNOWN", "OVERRUN"}

ASSUME /\ QuerierMode \in Modes
       /\ Me \notin Remotes /\ \A a \in Remotes \cup {Me} : a < AllOnes
       /\ LinkLocal \subseteq GroupAddrs /\ AnyAddr \notin GroupAddrs
       /\ FixedGroups \in Seq(GroupAddrs \ LinkLocal)
       /\ \A i, j \in DOMAIN FixedGroups : i # j => FixedGroups[i] # FixedGroups[j]
       /\ \A i, j \in DOMAIN FixedGroups :
             i # j => Subscribers[FixedGroups[i]] \cap Subscribers[FixedGroups[j]] = {}
       /\ \A i \in DOMAIN FixedGroups : Subscribers[FixedGroups[i]] # {}
       /\ QueryGroups \subseteq GroupAddrs \cup {AnyAddr}
       /\ QueryVersions \subseteq {2, 3}
       /\ (V1Groups \cup V2Groups \cup LeaveGroups) \subseteq GroupAddrs
       /\ V3Records \subseteq [type : RecordTypes, srcs : {0, 1}, group : GroupAddrs]

MrdInitialCount == 3                        \* MCB_MRD_INITIAL_COUNT
NumFixed == Len(FixedGroups)                \* group_list_fixed_limit
NumSlots == NumFixed + NonConfigured        \* group_list_allocated
Slots == 1..NumSlots
Handles == UNION {Subscribers[FixedGroups[i]] : i \in DOMAIN FixedGroups}
IfCtx == 0                                  \* timer closure: the interface
MaxUInt == 2^UIntBits - 1

\* The bridge interfaces registered on the group in slot i.
SubscribersOf(i) == IF i <= NumFixed THEN Subscribers[FixedGroups[i]] ELSE {}

\* An unsigned int decremented in place.
DecUInt(x) == IF x = 0 THEN MaxUInt ELSE x - 1

Pkt(type, group, sflag) == [type |-> type, group |-> group, sflag |-> sflag]

VARIABLES
    querierAddr,       \* querier_addr
    robustness,        \* querier_robustness
    queryInterval,     \* querier_interval_sec
    responseInterval,  \* querier_response_interval_tenths
    startupLeft,       \* startup_queries_remaining
    mrdLeft,           \* mrd_initial_advertisements_remaining
    groups,            \* group_list: slot -> [addr, active, v1, gqr]
    groupCount,        \* group_list_count
    timers,            \* the evm timer list
    outbound,          \* outbound_active of each registered bridge interface
    sent,              \* the packets the last step injected
    heard              \* the records of the IGMPv3 report the last step handled

vars == <<querierAddr, robustness, queryInterval, responseInterval,
          startupLeft, mrdLeft, groups, groupCount, timers, outbound, sent,
          heard>>

(***************************************************************************)
(* A callback is an operator from interface state to interface state; the  *)
(* state is the record Cur, and Commit makes a record the next state.      *)
(***************************************************************************)
Cur == [querier |-> querierAddr, rob |-> robustness, qi |-> queryInterval,
        resp |-> responseInterval, startup |-> startupLeft, mrd |-> mrdLeft,
        grp |-> groups, cnt |-> groupCount, tmr |-> timers, out |-> outbound,
        snt |-> <<>>, hrd |-> <<>>]

Commit(s) ==
    /\ querierAddr' = s.querier /\ robustness' = s.rob
    /\ queryInterval' = s.qi /\ responseInterval' = s.resp
    /\ startupLeft' = s.startup /\ mrdLeft' = s.mrd
    /\ groups' = s.grp /\ groupCount' = s.cnt /\ timers' = s.tmr
    /\ outbound' = s.out /\ sent' = s.snt /\ heard' = s.hrd

-----------------------------------------------------------------------------
(* Transmissions and the timers that pace them.                            *)

\* Mutant: the periodic schedule is only kept up during the initial burst.
SendMrdAdvertisementBurstOnly(s, d) ==
    [s EXCEPT !.snt = Append(@, Pkt("mrd", AnyAddr, 0)),
              !.mrd = IF @ > 0 THEN @ - 1 ELSE @,
              !.tmr = IF s.mrd > 0 THEN AddTimer(@, "mrd", IfCtx, d) ELSE @]

\* igmp_send_mrd_advertisement; d is the random interval drawn.
SendMrdAdvertisement(s, d) ==
    [s EXCEPT !.snt = Append(@, Pkt("mrd", AnyAddr, 0)),
              !.mrd = IF @ > 0 THEN @ - 1 ELSE @,
              !.tmr = AddTimer(@, "mrd", IfCtx, d)]

\* The intervals the next advertisement may be drawn from.
MrdDelayChoices(s) == IF s.mrd > 0 THEN MrdInitialDelays ELSE MrdDelays

\* igmp_send_general_query: a quarter interval while starting up.
SendGeneralQuery(s) ==
    [s EXCEPT !.snt = Append(@, Pkt("gq", AnyAddr, 0)),
              !.startup = IF @ > 0 THEN @ - 1 ELSE @,
              !.tmr = AddTimer(@, "gq", IfCtx,
                               IF s.startup > 0 THEN s.qi \div 4 ELSE s.qi)]

\* Mutant: the re-arm test reads the count before the decrement.
SendGroupSpecificQueryEarlyTest(s, i) ==
    LET left == DecUInt(s.grp[i].gqr)
    IN  [s EXCEPT !.snt = Append(@, Pkt("gsq", s.grp[i].addr,
                                        IF s.grp[i].gqr = s.rob THEN 0 ELSE 1)),
                  !.grp[i].gqr = left,
                  !.tmr = IF s.grp[i].gqr # 0 THEN AddTimer(@, "gsq", i, DefLastMbr)
                                              ELSE @]

\* send_group_specific_query: S is clear while the count is the robustness.
SendGroupSpecificQuery(s, i) ==
    LET left == DecUInt(s.grp[i].gqr)
    IN  [s EXCEPT !.snt = Append(@, Pkt("gsq", s.grp[i].addr,
                                        IF s.grp[i].gqr = s.rob THEN 0 ELSE 1)),
                  !.grp[i].gqr = left,
                  !.tmr = IF left # 0 THEN AddTimer(@, "gsq", i, DefLastMbr)
                                      ELSE @]

\* igmp_activate_querier_mode
ActivateQuerierMode(s) ==
    SendGeneralQuery([s EXCEPT !.rob = DefRobustness, !.qi = DefQueryInterval,
                               !.resp = DefResponse, !.querier = Me,
                               !.startup = DefRobustness - 1])

\* Mutant: the timeout only reopens the election, whatever the mode.
QuerierTimeoutReopenOnly(s) == [s EXCEPT !.querier = AllOnes]

\* igmp_querier_timeout
QuerierTimeout(s) ==
    IF QuerierMode # "Never" THEN ActivateQuerierMode(s)
                             ELSE [s EXCEPT !.querier = AllOnes]

\* Mutant: the loop runs on through the fixed slots (i >= 0).
RECURSIVE TightenAll(_, _)
TightenAll(grp, cnt) ==
    IF cnt > 0 /\ ~grp[cnt].active THEN TightenAll(grp, cnt - 1) ELSE cnt

\* The loop of igmp_group_timeout that pops trailing inactive slots; it
\* stops above group_list_fixed_limit.
RECURSIVE Tighten(_, _)
Tighten(grp, cnt) ==
    IF cnt - 1 > NumFixed /\ ~grp[cnt].active THEN Tighten(grp, cnt - 1)
                                               ELSE cnt

\* Mutant: expiry forgets to switch the subscribers off.
GroupTimeoutKeepForwarding(s, i) ==
    LET s1 == [s EXCEPT !.grp[i].active = FALSE]
    IN  IF SubscribersOf(i) # {} THEN s1
        ELSE [s1 EXCEPT !.cnt = Tighten(s1.grp, s1.cnt)]

\* igmp_group_timeout
GroupTimeout(s, i) ==
    LET s1 == [s EXCEPT !.grp[i].active = FALSE]
    IN  IF SubscribersOf(i) # {}
        THEN [s1 EXCEPT !.out = [h \in Handles |->
                          IF h \in SubscribersOf(i) THEN FALSE ELSE s.out[h]]]
        ELSE [s1 EXCEPT !.cnt = Tighten(s1.grp, s1.cnt)]

\* igmp_v1_host_timeout
V1HostTimeout(s, i) == [s EXCEPT !.grp[i].v1 = FALSE]

-----------------------------------------------------------------------------
(* Group table and membership.                                             *)

\* Mutant: the 224.0.0.0/24 test is missing.
TrackableAll(a) == TRUE

\* Groups outside 224.0.0.0/24 (the first test of igmp_interface_find_group).
Trackable(a) == a \notin LinkLocal

\* The dynamic part of the group table has no slot left to extend into.
TableFull(s) == s.cnt >= NumSlots

\* igmp_interface_find_group: [st |-> state after, idx |-> slot or 0].
FindGroup(s, a) ==
    LET fixed == {i \in 1..NumFixed : s.grp[i].addr = a}
        dyn   == NumFixed + 1 .. s.cnt
        match == {i \in dyn : s.grp[i].active /\ s.grp[i].addr = a}
        empty == {i \in dyn : ~s.grp[i].active}
        Claim(i, cnt) == [st |-> [s EXCEPT !.grp[i].addr = a, !.cnt = cnt],
                          idx |-> i]
    IN  CASE ~Trackable(a)       -> [st |-> s, idx |-> 0]
          [] fixed # {}          -> [st |-> s, idx |-> Min(fixed)]
          [] match # {}          -> [st |-> s, idx |-> Min(match)]
          [] empty # {}          -> Claim(Min(empty), s.cnt)
          [] TableFull(s)        -> [st |-> s, idx |-> 0]
          [] OTHER               -> Claim(s.cnt + 1, s.cnt + 1)

\* Mutant: a repeated join does not cancel the running membership timer.
JoinCommonNoCancel(s, i) ==
    LET s1 == IF s.grp[i].active THEN s
              ELSE [s EXCEPT !.grp[i].active = TRUE,
                             !.out = [h \in Handles |->
                                 IF h \in SubscribersOf(i) THEN TRUE ELSE s.out[h]]]
    IN  [s1 EXCEPT !.tmr = AddTimer(@, "gt", i, s.rob * s.qi + s.resp)]

\* igmp_join_common
JoinCommon(s, i) ==
    LET s1 == IF s.grp[i].active
              THEN [s EXCEPT !.tmr = DelTimer(@, "gt", i)]
              ELSE [s EXCEPT !.grp[i].active = TRUE,
                             !.out = [h \in Handles |->
                                 IF h \in SubscribersOf(i) THEN TRUE ELSE s.out[h]]]
    IN  [s1 EXCEPT !.tmr = AddTimer(@, "gt", i, s.rob * s.qi + s.resp)]

\* igmp_leave_common
LeaveCommon(s, i) ==
    IF \/ s.querier # Me
       \/ ~s.grp[i].active
       \/ s.grp[i].v1
       \/ s.grp[i].gqr # 0
    THEN s
    ELSE SendGroupSpecificQuery(
           [s EXCEPT !.tmr = AddTimer(DelTimer(@, "gt", i), "gt", i,
                                      s.rob * DefLastMbr + Grace),
                     !.grp[i].gqr = s.rob], i)

\* handle_igmp_v1_report, after the group is found.
V1Join(s, i) ==
    LET s1 == IF s.grp[i].active /\ s.grp[i].v1
              THEN [s EXCEPT !.tmr = DelTimer(@, "v1", i)]
              ELSE [s EXCEPT !.grp[i].v1 = TRUE]
    IN  JoinCommon([s1 EXCEPT !.tmr = AddTimer(@, "v1", i, s.rob * s.qi + s.resp)], i)

\* handle_igmp_v1_report
HandleV1Report(s, a) ==
    LET f == FindGroup(s, a) IN IF f.idx = 0 THEN f.st ELSE V1Join(f.st, f.idx)

\* handle_igmp_v2_report
HandleV2Report(s, a) ==
    LET f == FindGroup(s, a) IN IF f.idx = 0 THEN f.st ELSE JoinCommon(f.st, f.idx)

\* handle_igmp_v2_leave
HandleV2Leave(s, a) ==
    LET f == FindGroup(s, a) IN IF f.idx = 0 THEN f.st ELSE LeaveCommon(f.st, f.idx)

\* The switch on the record type in handle_igmp_v3_report.
RecordKind(r) ==
    CASE r.type \in {"IS_IN", "TO_IN"}         -> IF r.srcs > 0 THEN "join" ELSE "leave"
      [] r.type \in {"IS_EX", "TO_EX", "ALLOW"} -> "join"
      [] r.type = "BLOCK"                      -> IF r.srcs > 0 THEN "stop" ELSE "leave"
      [] OTHER                                 -> "stop"

\* The record loop of handle_igmp_v3_report.
RECURSIVE ApplyRecords(_, _)
ApplyRecords(s, recs) ==
    IF recs = <<>> \/ Head(recs).type = "OVERRUN" THEN s
    ELSE LET r == Head(recs)
             f == FindGroup(s, r.group)
         IN  CASE f.idx = 0                -> ApplyRecords(f.st, Tail(recs))
               [] RecordKind(r) = "stop"  -> f.st
               [] RecordKind(r) = "join"  -> ApplyRecords(JoinCommon(f.st, f.idx), Tail(recs))
               [] OTHER                   -> ApplyRecords(LeaveCommon(f.st, f.idx), Tail(recs))

\* Mutant: the address comparison is inverted.
YieldsInverted(src) == Me < src \/ QuerierMode = "Defer"

\* The active querier gives way to src: a lower address, or Defer mode.
Yields(src) == src < Me \/ QuerierMode = "Defer"

\* Mutant: yielding leaves the general-query timer running.
ElectKeepTimer(s, src, v3) ==
    IF s.querier = Me \/ src < s.querier
    THEN IF v3 THEN [s EXCEPT !.querier = src]
         ELSE [s EXCEPT !.querier = src, !.rob = DefRobustness,
                        !.qi = DefQueryInterval, !.resp = DefResponse]
    ELSE s

\* The querier election at the top of handle_igmp_query, for a query from
\* src other than the current querier that I do not ignore.
Elect(s, src, v3) ==
    LET yield == s.querier = Me
        s1 == IF yield THEN [s EXCEPT !.tmr = DelTimer(@, "gq", IfCtx)] ELSE s
    IN  IF yield \/ src < s.querier
        THEN IF v3 THEN [s1 EXCEPT !.querier = src]
             ELSE [s1 EXCEPT !.querier = src, !.rob = DefRobustness,
                             !.qi = DefQueryInterval, !.resp = DefResponse]
        ELSE s1

\* The end of handle_igmp_query: a group-specific query shortens the
\* membership timer of an active group.
MembershipQuery(s, i) ==
    IF ~s.grp[i].active THEN s
    ELSE [s EXCEPT !.tmr = AddTimer(DelTimer(@, "gt", i), "gt", i,
                                    s.rob * s.resp + Grace)]

\* Mutant: the other-querier-present timer is added without removing the
\* running one.
RearmQuerierTimeoutNoDel(s) ==
    [s EXCEPT !.tmr = AddTimer(@, "qt", IfCtx, s.rob * s.qi + s.resp \div 2)]

\* The other-querier-present timer of handle_igmp_query, restarted.
RearmQuerierTimeout(s) ==
    [s EXCEPT !.tmr = AddTimer(DelTimer(@, "qt", IfCtx), "qt", IfCtx,
                               s.rob * s.qi + s.resp \div 2)]

\* handle_igmp_query
HandleQuery(s, src, group, v3, p, sflag) ==
    IF src # s.querier /\ s.querier = Me /\ ~Yields(src)
    THEN s
    ELSE LET s1 == IF src # s.querier THEN Elect(s, src, v3) ELSE s
             s2 == IF v3 THEN [s1 EXCEPT !.rob = p.qrv, !.qi = Decode8(p.qqic),
                                       !.resp = Decode8(p.code)]
                         ELSE s1
             s3 == RearmQuerierTimeout(s2)
         IN  IF (v3 /\ sflag) \/ group = AnyAddr THEN s3
             ELSE LET f == FindGroup(s3, group)
                  IN  IF f.idx = 0 THEN f.st ELSE MembershipQuery(f.st, f.idx)

-----------------------------------------------------------------------------
(* Initial state: start_igmp, after registration and initialize_igmp.     *)

Registered ==
    [i \in Slots |-> [addr   |-> IF i <= NumFixed THEN FixedGroups[i] ELSE AnyAddr,
                      active |-> FALSE, v1 |-> FALSE, gqr |-> 0]]

Start(d) ==
    LET s0 == [querier |-> AllOnes, rob |-> 0, qi |-> 0, resp |-> 0,
               startup |-> 0, mrd |-> MrdInitialCount - 1, grp |-> Registered,
               cnt |-> NumFixed, tmr |-> <<>>, out |-> [h \in Handles |-> FALSE],
               snt |-> <<>>, hrd |-> <<>>]
        s1 == SendMrdAdvertisement(s0, d)
        s2 == [s1 EXCEPT !.rob = DefRobustness, !.qi = DefQueryInterval,
                         !.resp = DefResponse, !.querier = AllOnes]
    IN  CASE QuerierMode = "Quick" -> ActivateQuerierMode(s1)
          [] QuerierMode = "Never" -> s2
          [] OTHER -> [s2 EXCEPT !.tmr = AddTimer(@, "qt", IfCtx, InitialQuerierDelay)]

Init ==
    \E d \in MrdInitialDelays :
        LET s == Start(d)
        IN  /\ querierAddr = s.querier /\ robustness = s.rob
            /\ queryInterval = s.qi /\ responseInterval = s.resp
            /\ startupLeft = s.startup /\ mrdLeft = s.mrd
            /\ groups = s.grp /\ groupCount = s.cnt /\ timers = s.tmr
            /\ outbound = s.out /\ sent = s.snt /\ heard = s.hrd

-----------------------------------------------------------------------------
(* Actions.                                                                *)

Tick ==
    /\ timers # <<>>
    /\ ~Expired(timers)
    /\ Commit([Cur EXCEPT !.tmr = Elapse(@)])

\* evm_loop dispatching the head timer, whose callback is cb.
Fire(cb) == Expired(timers) /\ Head(timers).cb = cb
Popped == [Cur EXCEPT !.tmr = Tail(@)]

FireMrdAdvertisement ==
    /\ Fire("mrd")
    /\ \E d \in MrdDelayChoices(Popped) : Commit(SendMrdAdvertisement(Popped, d))
FireGeneralQuery == Fire("gq") /\ Commit(SendGeneralQuery(Popped))
FireGroupSpecificQuery ==
    Fire("gsq") /\ Commit(SendGroupSpecificQuery(Popped, Head(timers).ctx))
FireQuerierTimeout == Fire("qt") /\ Commit(QuerierTimeout(Popped))
FireGroupTimeout == Fire("gt") /\ Commit(GroupTimeout(Popped, Head(timers).ctx))
FireV1HostTimeout == Fire("v1") /\ Commit(V1HostTimeout(Popped, Head(timers).ctx))

\* The parameters a query shorter than an IGMPv3 query does not carry.
NoParams == [qrv |-> 0, qqic |-> 0, code |-> 0]

ReceiveQuery ==
    \/ \E src \in Remotes, g \in QueryGroups :
          /\ 2 \in QueryVersions
          /\ Commit(HandleQuery(Cur, src, g, FALSE, NoParams, FALSE))
    \/ \E src \in Remotes, g \in QueryGroups, p \in QueryParams, sflag \in BOOLEAN :
          /\ 3 \in QueryVersions
          /\ Commit(HandleQuery(Cur, src, g, TRUE, p, sflag))

ReceiveV1Report == \E a \in V1Groups : Commit(HandleV1Report(Cur, a))
ReceiveV2Report == \E a \in V2Groups : Commit(HandleV2Report(Cur, a))
ReceiveV2Leave == \E a \in LeaveGroups : Commit(HandleV2Leave(Cur, a))
ReceiveV3Report ==
    \E recs \in BoundedSeq(V3Records, MaxV3Records) :
        recs # <<>> /\ Commit([ApplyRecords(Cur, recs) EXCEPT !.hrd = recs])

\* handle_igmp_mrd_solicitation
ReceiveMrdSolicitation ==
    LET s == [Cur EXCEPT !.tmr = DelTimer(@, "mrd", IfCtx)]
    IN  \E d \in MrdDelayChoices(s) : Commit(SendMrdAdvertisement(s, d))

Next ==
    \/ Tick
    \/ FireMrdAdvertisement \/ FireGeneralQuery \/ FireGroupSpecificQuery
    \/ FireQuerierTimeout \/ FireGroupTimeout \/ FireV1HostTimeout
    \/ ReceiveQuery \/ ReceiveV1Report \/ ReceiveV2Report \/ ReceiveV2Leave
    \/ ReceiveV3Report \/ ReceiveMrdSolicitation

Spec == Init /\ [][Next]_vars

Fairness ==
    /\ WF_vars(Tick)
    /\ WF_vars(FireMrdAdvertisement) /\ WF_vars(FireGeneralQuery)
    /\ WF_vars(FireGroupSpecificQuery) /\ WF_vars(FireQuerierTimeout)
    /\ WF_vars(FireGroupTimeout) /\ WF_vars(FireV1HostTimeout)

FairSpec == Spec /\ Fairness

-----------------------------------------------------------------------------
(* Properties.                                                             *)

PacketTypes == {"mrd", "gq", "gsq"}
Callbacks == {"mrd", "gq", "gsq", "qt", "gt", "v1"}
GroupRecord == [addr : GroupAddrs \cup {AnyAddr}, active : BOOLEAN,
                v1 : BOOLEAN, gqr : 0..MaxUInt]

TypeOK ==
    /\ querierAddr \in Remotes \cup {Me, AllOnes}
    /\ {robustness, queryInterval, responseInterval, startupLeft, mrdLeft} \subseteq Nat
    /\ groups \in [Slots -> GroupRecord]
    /\ groupCount \in NumFixed..NumSlots
    /\ Len(timers) <= TimerCapacity
    /\ \A k \in 1..Len(timers) :
          timers[k] \in [cb : Callbacks, ctx : {IfCtx} \cup Slots, due : Nat]
    /\ outbound \in [Handles -> BOOLEAN]
    /\ \A k \in 1..Len(sent) :
          sent[k] \in [type : PacketTypes, group : GroupAddrs \cup {AnyAddr},
                       sflag : {0, 1}]
    /\ \A k \in 1..Len(heard) : heard[k] \in V3Records

\* The local interface is the querier exactly when its general-query timer
\* is scheduled, and that timer is never scheduled twice: the yield branch
\* of handle_igmp_query and igmp_activate_querier_mode keep them in step.
QuerierOwnsGeneralQueryTimer ==
    Outstanding(timers, "gq", IfCtx) = IF querierAddr = Me THEN 1 ELSE 0

\* The other-querier-present timer runs exactly when the interface waits
\* for another querier to fall silent: one timer while a remote host is
\* querier (handle_igmp_query re-arms it) and while no querier is known in
\* Delay and Defer mode (start_igmp arms it as the startup delay); none
\* while the interface is querier itself, and none in Never mode once
\* igmp_querier_timeout has reset the querier to all ones.
QuerierWatched ==
    Outstanding(timers, "qt", IfCtx) =
        IF querierAddr = Me \/ (querierAddr = AllOnes /\ QuerierMode = "Never")
        THEN 0 ELSE 1

\* A group is active exactly while one membership timer runs for it:
\* igmp_join_common, igmp_leave_common and the group-specific branch of
\* handle_igmp_query each replace the timer, igmp_group_timeout ends it.
MembershipTimed ==
    \A i \in Slots :
        Outstanding(timers, "gt", i) = IF groups[i].active THEN 1 ELSE 0

\* No group is tracked twice, a dynamic slot never shadows a registered
\* group, and a link-scope group is never tracked
\* (igmp_interface_find_group).
GroupsDistinct ==
    /\ \A i, j \in Slots :
          /\ i # j
          /\ groups[j].active
          /\ groups[i].active \/ i <= NumFixed
          => groups[i].addr # groups[j].addr
    /\ \A i \in Slots : groups[i].active => groups[i].addr \notin LinkLocal

\* A registered group's bridge interfaces forward exactly while the group
\* is active (igmp_join_common activates, igmp_group_timeout deactivates).
ForwardingFollowsMembership ==
    \A i \in 1..NumFixed : \A h \in SubscribersOf(i) : outbound[h] = groups[i].active

\* A last-member burst underway is paced by exactly one group-specific-query
\* timer, and no timer outlives the burst (send_group_specific_query).
BurstPaced ==
    \A i \in Slots :
        Outstanding(timers, "gsq", i) = IF groups[i].gqr > 0 THEN 1 ELSE 0

\* In Quick mode a remote host holds the querier role only if its address
\* is lower than mine: the interface starts as querier, and
\* handle_igmp_query yields and elects only for a lower address, so the
\* lowest address wins (spec section 8).  (Delay mode is left out: from
\* the all-ones start any first querier is adopted, igmp.c:747.)
LowestAddressQuerier ==
    QuerierMode = "Quick" => (querierAddr \in Remotes => querierAddr < Me)

\* Once other hosts send nothing but router solicitations, every bridge
\* interface stops forwarding: each active group's membership timer, armed
\* by the last report, query or leave, fires and igmp_group_timeout
\* deactivates the group's subscribers.  (Every report, group-specific
\* query and, after a burst, leave re-arms the timer rather than only
\* lowering it, so a host repeating any of them keeps the group alive.)
ForwardingLapses ==
    <>[][~(ReceiveQuery \/ ReceiveV1Report \/ ReceiveV2Report \/ ReceiveV3Report \/ ReceiveV2Leave)]_vars
        => <>[](\A h \in Handles : ~outbound[h])

\* Once queries from other hosts stop, the local interface takes over as
\* querier and keeps the role (igmp_querier_timeout), in every mode but Never.
QuerierTakesOver ==
    QuerierMode # "Never" =>
        (<>[][~ReceiveQuery]_vars => <>[](querierAddr = Me))

\* Router advertisements never stop (igmp_send_mrd_advertisement re-arms
\* itself, and a solicitation replaces the pending one).
AdvertisesForever ==
    []<>(\E k \in 1..Len(sent) : sent[k].type = "mrd")

\* A group-specific query goes out with the S flag clear exactly when it is
\* the first of its last-member burst, i.e. no burst was underway for the
\* group before the step (send_group_specific_query, spec section 2).
SFlagMarksFirstQuery ==
    [][\A k \in 1..Len(sent') :
          sent'[k].type = "gsq" =>
            (sent'[k].sflag = 0 <=>
               \A i \in Slots : groups[i].addr = sent'[k].group => groups[i].gqr = 0)
      ]_vars

\* Every record of an IGMPv3 report that asks to receive a trackable group
\* leaves that group active, unless an unknown record type, or a record
\* running past the packet, ended the report before it (handle_igmp_v3_report,
\* spec section 4.9).
V3ReportHonoured ==
    \A k \in 1..Len(heard) :
        /\ \A j \in 1..k : heard[j].type \notin {"UNKNOWN", "OVERRUN"}
        /\ RecordKind(heard[k]) = "join"
        /\ heard[k].group \notin LinkLocal
        => \E i \in Slots : groups[i].active /\ groups[i].addr = heard[k].group

\* The robustness in force is one a querier can mean: the 3-bit QRV field
\* of a query is 1..7, and 0 there stands for "more than 7" (RFC 3376
\* 4.1.6); the spec gives robustness as a positive integer, default 2.
RobustnessValid == robustness \in 1..7

\* At most one v1-host timer is outstanding per group (spec section 2, and
\* the timer-identity rule of section 3).
AtMostOneV1HostTimer ==
    \A i \in Slots : Outstanding(timers, "v1", i) <= 1


=============================================================================
