--------------------------------- MODULE Mld ---------------------------------
(***************************************************************************)
(* The MLD control plane of one interface (mld.c), the IPv6 twin of the   *)
(* IGMP module: querier election, per-group membership, the bounded group *)
(* table, MRD advertisements and the outbound call-outs.                   *)
(*                                                                         *)
(* An action is one whole socket or timer callback of the MLD thread.      *)
(* MLD has no host-compatibility state: an MLDv1 report is a plain join    *)
(* and an MLDv1 Done a plain leave.  Times are ticks; the code's seconds  *)
(* (times 1000) and milliseconds are both mapped onto the clock, and every *)
(* timer keeps the code's formula.  The last-member interval is only ever  *)
(* set to its default (mld_activate_querier_mode, start_mld), so it is the *)
(* constant DefLastMbr.                                                    *)
(***************************************************************************)
EXTENDS Naturals, Sequences, SequencesExt, Evm, TimeCode

CONSTANTS
    QuerierMode,         \* mld_querier_mode
    Me,                  \* if_addr (link-local); addresses are numbers
    Remotes,             \* addresses of the other hosts on the link
    AllOnes,             \* ff..ff: "no querier, anyone may win"
    AnyAddr,             \* :: , the group field of a general query
    GroupAddrs,          \* group addresses that reports and queries carry
    LinkLocal,           \* those of them inside ff02::/16
    FixedGroups,         \* groups registered by mld_register_interface
    Subscribers,         \* fixed group -> its bridge interfaces (handles)
    NonConfigured,       \* non_configured_groups
    DefRobustness,       \* MCB_MLD_ROBUSTNESS
    DefQueryInterval,    \* MCB_MLD_QUERY_INTERVAL, times 1000
    DefResponse,         \* MCB_MLD_RESPONSE_INTERVAL
    DefLastMbr,          \* MCB_MLD_LASTMBR_INTERVAL
    Grace,               \* GRACE_MILLIS
    InitialQuerierDelay, \* the 125500 ms delayed activation
    MrdInitialDelays,    \* values of MCB_MRD_INITIAL_INTERVAL_MS
    MrdDelays,           \* values of MCB_MRD_INTERVAL_MS
    QueryGroups,         \* group fields of the queries heard (AnyAddr: general)
    QueryVersions,       \* {1}: MLDv1-sized queries, {2}: MLDv2 queries
    QueryParams,         \* [qrv, qqic, response] fields an MLDv2 query may carry
    V1Groups,            \* groups of the MLDv1 reports heard
    DoneGroups,          \* groups of the MLDv1 Done messages heard
    V2Records,           \* group records an MLDv2 report may carry
    MaxV2Records,        \* most records in one MLDv2 report
    UIntBits             \* width of an unsigned int (32; TLC holds up to 30)

Modes == {"Never", "Quick", "Delay", "Defer"}
RecordTypes == {"IS_IN", "IS_EX", "TO_IN", "TO_EX", "ALLOW", "BLOCK",
                "UNKNOWN", "OVERRUN"}

ASSUME /\ QuerierMode \in Modes
       /\ Me \notin Remotes /\ \A a \in Remotes \cup {Me} : a < AllOnes
       /\ LinkLocal \subseteq GroupAddrs /\ AnyAddr \notin GroupAddrs
       /\ FixedGroups \in Seq(GroupAddrs \ LinkLocal)
       /\ \A i, j \in DOMAIN FixedGroups : i # j => FixedGroups[i] # FixedGroups[j]
       /\ \A i, j \in DOMAIN FixedGroups :
             i # j => Subscribers[FixedGroups[i]] \cap Subscribers[FixedGroups[j]] = {}
       /\ QueryGroups \subseteq GroupAddrs \cup {AnyAddr}
       /\ QueryVersions \subseteq {1, 2}
       /\ (V1Groups \cup DoneGroups) \subseteq GroupAddrs
       /\ V2Records \subseteq [type : RecordTypes, srcs : {0, 1}, group : GroupAddrs]

MrdInitialCount == 3                        \* MCB_MRD_INITIAL_COUNT
NumFixed == Len(FixedGroups)                \* group_list_fixed_limit
NumSlots == NumFixed + NonConfigured        \* group_list_allocated
Slots == 1..NumSlots
Handles == UNION {Subscribers[FixedGroups[i]] : i \in DOMAIN FixedGroups}
IfCtx == 0                                  \* timer closure: the interface
MaxUInt == 2^UIntBits - 1

\* An unsigned int decremented in place.
DecUInt(x) == IF x = 0 THEN MaxUInt ELSE x - 1

\* The bridge interfaces registered on the group in slot i.
SubscribersOf(i) == IF i <= NumFixed THEN Subscribers[FixedGroups[i]] ELSE {}

Pkt(type, group, sflag) == [type |-> type, group |-> group, sflag |-> sflag]

VARIABLES
    querierAddr,       \* querier_addr
    robustness,        \* querier_robustness
    queryInterval,     \* querier_interval_sec
    responseInterval,  \* querier_response_interval_millis
    startupLeft,       \* startup_queries_remaining
    mrdLeft,           \* mrd_initial_advertisements_remaining
    groups,            \* group_list: slot -> [addr, active, gqr]
    groupCount,        \* group_list_count
    timers,            \* the evm timer list
    outbound,          \* outbound_active of each registered bridge interface
    sent,              \* the packets the last step injected
    heard              \* the records of the MLDv2 report the last step handled

vars == <<querierAddr, robustness, queryInterval, responseInterval,
          startupLeft, mrdLeft, groups, groupCount, timers, outbound, sent,
          heard>>

Cur == [querier |-> querierAddr, rob |-> robustness, qi |-> queryInterval,
        resp |-> responseInterval, startup |-> startupLeft, mrd |-> mrdLeft,
        grp |-> groups, cnt |-> groupCount, tmr |-> timers, out |-> outbound,
        snt |-> <<>>, hrd |-> <<>>]

Commit(s) ==
    /\ querierAddr' = s.querier /\ robustness' = s.rob
    /\ queryInterval' = s.qi /\ responseInterval' = s.resp
    /\ startupLeft' = s.startup /\ mrdLeft' = s.mrd
    /\ groups' = s.grp /\ groupCount' = s.cnt /\ timers' = s.tmr
    /\ outbound' = s.out /\ sent' = s.snt /\ heard' = s.hrd

\* The outbound flags after the subscribers of slot i are switched to b.
SwitchOutbound(s, i, b) ==
    [h \in Handles |-> IF h \in SubscribersOf(i) THEN b ELSE s.out[h]]

-----------------------------------------------------------------------------
(* Transmissions and the timers that pace them.                            *)

\* mld_send_mrd_advertisement; d is the random interval drawn.
SendMrdAdvertisement(s, d) ==
    [s EXCEPT !.snt = Append(@, Pkt("mrd", AnyAddr, 0)),
              !.mrd = IF @ > 0 THEN @ - 1 ELSE @,
              !.tmr = AddTimer(@, "mrd", IfCtx, d)]

\* The intervals the next advertisement may be drawn from.
MrdDelayChoices(s) == IF s.mrd > 0 THEN MrdInitialDelays ELSE MrdDelays

\* mld_send_general_query: a quarter interval while starting up.
SendGeneralQuery(s) ==
    [s EXCEPT !.snt = Append(@, Pkt("gq", AnyAddr, 0)),
              !.startup = IF @ > 0 THEN @ - 1 ELSE @,
              !.tmr = AddTimer(@, "gq", IfCtx,
                               IF s.startup > 0 THEN s.qi \div 4 ELSE s.qi)]

\* Mutant: the re-arm test reads the count before the decrement.
SendGroupSpecificQueryEarlyTest(s, i) ==
    [s EXCEPT !.snt = Append(@, Pkt("gsq", s.grp[i].addr,
                                    IF s.grp[i].gqr = s.rob THEN 0 ELSE 1)),
              !.grp[i].gqr = DecUInt(@),
              !.tmr = IF s.grp[i].gqr # 0 THEN AddTimer(@, "gsq", i, DefLastMbr)
                                          ELSE @]

\* send_group_specific_query: S is clear while the count is the robustness.
SendGroupSpecificQuery(s, i) ==
    [s EXCEPT !.snt = Append(@, Pkt("gsq", s.grp[i].addr,
                                    IF s.grp[i].gqr = s.rob THEN 0 ELSE 1)),
              !.grp[i].gqr = DecUInt(@),
              !.tmr = IF DecUInt(s.grp[i].gqr) # 0
                      THEN AddTimer(@, "gsq", i, DefLastMbr) ELSE @]

\* mld_activate_querier_mode
ActivateQuerierMode(s) ==
    SendGeneralQuery([s EXCEPT !.rob = DefRobustness, !.qi = DefQueryInterval,
                               !.resp = DefResponse, !.querier = Me,
                               !.startup = DefRobustness - 1])

\* Mutant: the timeout only reopens the election, whatever the mode.
QuerierTimeoutReopenOnly(s) == [s EXCEPT !.querier = AllOnes]

\* mld_querier_timeout
QuerierTimeout(s) ==
    IF QuerierMode # "Never" THEN ActivateQuerierMode(s)
                             ELSE [s EXCEPT !.querier = AllOnes]

\* Mutant: the loop runs on through the fixed slots.
RECURSIVE TightenAll(_, _)
TightenAll(grp, cnt) ==
    IF cnt > 0 /\ ~grp[cnt].active THEN TightenAll(grp, cnt - 1) ELSE cnt

\* The loop of mld_group_timeout that pops trailing inactive slots; it
\* stops above group_list_fixed_limit.
RECURSIVE Tighten(_, _)
Tighten(grp, cnt) ==
    IF cnt - 1 > NumFixed /\ ~grp[cnt].active THEN Tighten(grp, cnt - 1)
                                               ELSE cnt

\* Mutant: expiry forgets to switch the subscribers off.
GroupTimeoutKeepForwarding(s, i) ==
    LET s1 == [s EXCEPT !.grp[i].active = FALSE]
    IN  IF SubscribersOf(i) # {} THEN s1
        ELSE [s1 EXCEPT !.cnt = Tighten(s1.grp, s1.cnt)]

\* mld_group_timeout
GroupTimeout(s, i) ==
    LET s1 == [s EXCEPT !.grp[i].active = FALSE]
    IN  IF SubscribersOf(i) # {} THEN [s1 EXCEPT !.out = SwitchOutbound(s, i, FALSE)]
                                 ELSE [s1 EXCEPT !.cnt = Tighten(s1.grp, s1.cnt)]

-----------------------------------------------------------------------------
(* Group table and membership.                                             *)

\* Mutant: the ff02::/16 test is missing.
TrackableAll(a) == TRUE

\* Groups outside ff02::/16 (the first test of mld_interface_find_group).
Trackable(a) == a \notin LinkLocal

\* mld_interface_find_group: [st |-> state after, idx |-> slot or 0].
FindGroup(s, a) ==
    LET fixed == {i \in 1..NumFixed : s.grp[i].addr = a}
        dyn   == NumFixed + 1 .. s.cnt
        match == {i \in dyn : s.grp[i].active /\ s.grp[i].addr = a}
        empty == {i \in dyn : ~s.grp[i].active}
        Claim(i, cnt) == [st |-> [s EXCEPT !.grp[i].addr = a, !.cnt = cnt], idx |-> i]
    IN  CASE ~Trackable(a)                -> [st |-> s, idx |-> 0]
          [] fixed # {}                   -> [st |-> s, idx |-> Min(fixed)]
          [] match # {}                   -> [st |-> s, idx |-> Min(match)]
          [] empty # {}                   -> Claim(Min(empty), s.cnt)
          [] s.cnt >= NumSlots            -> [st |-> s, idx |-> 0]
          [] OTHER                        -> Claim(s.cnt + 1, s.cnt + 1)

\* Mutant: a repeated join does not cancel the running membership timer.
JoinCommonNoCancel(s, i) ==
    LET s1 == IF s.grp[i].active THEN s
              ELSE [s EXCEPT !.grp[i].active = TRUE, !.out = SwitchOutbound(s, i, TRUE)]
    IN  [s1 EXCEPT !.tmr = AddTimer(@, "gt", i, s.rob * s.qi + s.resp + Grace)]

\* mld_join_common
JoinCommon(s, i) ==
    LET s1 == IF s.grp[i].active
              THEN [s EXCEPT !.tmr = DelTimer(@, "gt", i)]
              ELSE [s EXCEPT !.grp[i].active = TRUE, !.out = SwitchOutbound(s, i, TRUE)]
    IN  [s1 EXCEPT !.tmr = AddTimer(@, "gt", i, s.rob * s.qi + s.resp + Grace)]

\* mld_leave_common
LeaveCommon(s, i) ==
    IF s.querier # Me \/ ~s.grp[i].active \/ s.grp[i].gqr # 0
    THEN s
    ELSE SendGroupSpecificQuery(
           [s EXCEPT !.tmr = AddTimer(DelTimer(@, "gt", i), "gt", i,
                                      s.rob * DefLastMbr + Grace),
                     !.grp[i].gqr = s.rob], i)

\* handle_mld_v1_report
HandleV1Report(s, a) ==
    LET f == FindGroup(s, a) IN IF f.idx = 0 THEN f.st ELSE JoinCommon(f.st, f.idx)

\* handle_mld_v1_leave
HandleV1Leave(s, a) ==
    LET f == FindGroup(s, a) IN IF f.idx = 0 THEN f.st ELSE LeaveCommon(f.st, f.idx)

\* The switch on the record type in handle_mld_v2_report.
RecordKind(r) ==
    CASE r.type \in {"IS_IN", "TO_IN"}         -> IF r.srcs > 0 THEN "join" ELSE "leave"
      [] r.type \in {"IS_EX", "TO_EX", "ALLOW"} -> "join"
      [] r.type = "BLOCK"                      -> IF r.srcs > 0 THEN "stop" ELSE "leave"
      [] OTHER                                 -> "stop"

\* The record loop of handle_mld_v2_report.
RECURSIVE ApplyRecords(_, _)
ApplyRecords(s, recs) ==
    IF recs = <<>> \/ Head(recs).type = "OVERRUN" THEN s
    ELSE LET r == Head(recs)
             f == FindGroup(s, r.group)
         IN  CASE f.idx = 0                -> ApplyRecords(f.st, Tail(recs))
               [] RecordKind(r) = "stop"  -> f.st
               [] RecordKind(r) = "join"  -> ApplyRecords(JoinCommon(f.st, f.idx), Tail(recs))
               [] OTHER                   -> ApplyRecords(LeaveCommon(f.st, f.idx), Tail(recs))

\* The active querier gives way to src: a lower address, or Defer mode.
Yields(src) == src < Me \/ QuerierMode = "Defer"

\* Mutant: yielding leaves the general-query timer running.
ElectKeepTimer(s, src, v2) ==
    IF s.querier = Me \/ src < s.querier
    THEN IF v2 THEN [s EXCEPT !.querier = src]
         ELSE [s EXCEPT !.querier = src, !.rob = DefRobustness,
                        !.qi = DefQueryInterval, !.resp = DefResponse]
    ELSE s

\* The querier election at the top of handle_mld_query, for a query from
\* src other than the current querier that I do not ignore.
Elect(s, src, v2) ==
    LET yield == s.querier = Me
        s1 == IF yield THEN [s EXCEPT !.tmr = DelTimer(@, "gq", IfCtx)] ELSE s
    IN  IF yield \/ src < s.querier
        THEN IF v2 THEN [s1 EXCEPT !.querier = src]
             ELSE [s1 EXCEPT !.querier = src, !.rob = DefRobustness,
                             !.qi = DefQueryInterval, !.resp = DefResponse]
        ELSE s1

\* Mutant: the other-querier-present timer is added without removing the
\* running one.
RearmQuerierTimeoutNoDel(s) ==
    [s EXCEPT !.tmr = AddTimer(@, "qt", IfCtx, s.rob * s.qi + s.resp \div 2)]

\* The other-querier-present timer of handle_mld_query, restarted.
RearmQuerierTimeout(s) ==
    [s EXCEPT !.tmr = AddTimer(DelTimer(@, "qt", IfCtx), "qt", IfCtx,
                               s.rob * s.qi + s.resp \div 2)]

\* The end of handle_mld_query: a group-specific query shortens the
\* membership timer of an active group.
MembershipQuery(s, i) ==
    IF ~s.grp[i].active THEN s
    ELSE [s EXCEPT !.tmr = AddTimer(DelTimer(@, "gt", i), "gt", i,
                                    s.rob * s.resp + Grace)]

\* handle_mld_query; v2 is FALSE for a query shorter than an MLDv2 query.
HandleQuery(s, src, group, v2, p, sflag) ==
    IF src # s.querier /\ s.querier = Me /\ ~Yields(src)
    THEN s
    ELSE LET s1 == IF src # s.querier THEN Elect(s, src, v2) ELSE s
             s2 == IF v2 THEN [s1 EXCEPT !.rob = p.qrv, !.qi = Decode8(p.qqic),
                                       !.resp = Decode16(p.response)]
                         ELSE s1
             s3 == RearmQuerierTimeout(s2)
         IN  IF (v2 /\ sflag) \/ group = AnyAddr THEN s3
             ELSE LET f == FindGroup(s3, group)
                  IN  IF f.idx = 0 THEN f.st ELSE MembershipQuery(f.st, f.idx)

-----------------------------------------------------------------------------
(* Initial state: start_mld, after registration and initialize_mld.       *)

Registered ==
    [i \in Slots |-> [addr   |-> IF i <= NumFixed THEN FixedGroups[i] ELSE AnyAddr,
                      active |-> FALSE, gqr |-> 0]]

Start(d) ==
    LET s0 == [querier |-> AllOnes, rob |-> 0, qi |-> 0, resp |-> 0,
               startup |-> 0, mrd |-> MrdInitialCount - 1, grp |-> Registered,
               cnt |-> NumFixed, tmr |-> <<>>, out |-> [h \in Handles |-> FALSE],
               snt |-> <<>>, hrd |-> <<>>]
        s1 == SendMrdAdvertisement(s0, d)
        s2 == [s1 EXCEPT !.rob = DefRobustness, !.qi = DefQueryInterval,
                         !.resp = DefResponse, !.querier = AllOnes]
    IN  CASE QuerierMode = "Quick" -> ActivateQuerierMode(s1)
          [] QuerierMode = "Never" -> s2
          [] OTHER -> [s2 EXCEPT !.tmr = AddTimer(@, "qt", IfCtx, InitialQuerierDelay)]

Init ==
    \E d \in MrdInitialDelays :
        LET s == Start(d)
        IN  /\ querierAddr = s.querier /\ robustness = s.rob
            /\ queryInterval = s.qi /\ responseInterval = s.resp
            /\ startupLeft = s.startup /\ mrdLeft = s.mrd
            /\ groups = s.grp /\ groupCount = s.cnt /\ timers = s.tmr
            /\ outbound = s.out /\ sent = s.snt /\ heard = s.hrd

-----------------------------------------------------------------------------
(* Actions.                                                                *)

Tick ==
    /\ timers # <<>>
    /\ ~Expired(timers)
    /\ Commit([Cur EXCEPT !.tmr = Elapse(@)])

\* evm_loop dispatching the head timer, whose callback is cb.
Fire(cb) == Expired(timers) /\ Head(timers).cb = cb
Popped == [Cur EXCEPT !.tmr = Tail(@)]

FireMrdAdvertisement ==
    /\ Fire("mrd")
    /\ \E d \in MrdDelayChoices(Popped) : Commit(SendMrdAdvertisement(Popped, d))
FireGeneralQuery == Fire("gq") /\ Commit(SendGeneralQuery(Popped))
FireGroupSpecificQuery ==
    Fire("gsq") /\ Commit(SendGroupSpecificQuery(Popped, Head(timers).ctx))
FireQuerierTimeout == Fire("qt") /\ Commit(QuerierTimeout(Popped))
FireGroupTimeout == Fire("gt") /\ Commit(GroupTimeout(Popped, Head(timers).ctx))

\* The parameters a query shorter than an MLDv2 query does not carry.
NoParams == [qrv |-> 0, qqic |-> 0, response |-> 0]

ReceiveQuery ==
    \/ \E src \in Remotes, g \in QueryGroups :
          /\ 1 \in QueryVersions
          /\ Commit(HandleQuery(Cur, src, g, FALSE, NoParams, FALSE))
    \/ \E src \in Remotes, g \in QueryGroups, p \in QueryParams, sflag \in BOOLEAN :
          /\ 2 \in QueryVersions
          /\ Commit(HandleQuery(Cur, src, g, TRUE, p, sflag))

ReceiveV1Report == \E a \in V1Groups : Commit(HandleV1Report(Cur, a))
ReceiveV1Done == \E a \in DoneGroups : Commit(HandleV1Leave(Cur, a))
ReceiveV2Report ==
    \E recs \in BoundedSeq(V2Records, MaxV2Records) :
        recs # <<>> /\ Commit([ApplyRecords(Cur, recs) EXCEPT !.hrd = recs])

\* handle_mld_mrd_solicitation
ReceiveMrdSolicitation ==
    LET s == [Cur EXCEPT !.tmr = DelTimer(@, "mrd", IfCtx)]
    IN  \E d \in MrdDelayChoices(s) : Commit(SendMrdAdvertisement(s, d))

Next ==
    \/ Tick
    \/ FireMrdAdvertisement \/ FireGeneralQuery \/ FireGroupSpecificQuery
    \/ FireQuerierTimeout \/ FireGroupTimeout
    \/ ReceiveQuery \/ ReceiveV1Report \/ ReceiveV1Done \/ ReceiveV2Report
    \/ ReceiveMrdSolicitation

Spec == Init /\ [][Next]_vars

Fairness ==
    /\ WF_vars(Tick)
    /\ WF_vars(FireMrdAdvertisement) /\ WF_vars(FireGeneralQuery)
    /\ WF_vars(FireGroupSpecificQuery) /\ WF_vars(FireQuerierTimeout)
    /\ WF_vars(FireGroupTimeout)

FairSpec == Spec /\ Fairness

-----------------------------------------------------------------------------
(* Properties.                                                             *)

PacketTypes == {"mrd", "gq", "gsq"}
Callbacks == {"mrd", "gq", "gsq", "qt", "gt"}
GroupRecord == [addr : GroupAddrs \cup {AnyAddr}, active : BOOLEAN, gqr : 0..MaxUInt]

TypeOK ==
    /\ querierAddr \in Remotes \cup {Me, AllOnes}
    /\ {robustness, queryInterval, responseInterval, startupLeft, mrdLeft} \subseteq Nat
    /\ groups \in [Slots -> GroupRecord]
    /\ groupCount \in NumFixed..NumSlots
    /\ Len(timers) <= TimerCapacity
    /\ \A k \in 1..Len(timers) :
          timers[k] \in [cb : Callbacks, ctx : {IfCtx} \cup Slots, due : Nat]
    /\ outbound \in [Handles -> BOOLEAN]
    /\ \A k \in 1..Len(sent) :
          sent[k] \in [type : PacketTypes, group : GroupAddrs \cup {AnyAddr},
                       sflag : {0, 1}]
    /\ \A k \in 1..Len(heard) : heard[k] \in V2Records

\* The interface is the querier exactly when its general-query timer is
\* scheduled, and that timer is never scheduled twice (the yield branch of
\* handle_mld_query and mld_activate_querier_mode keep them in step).
QuerierOwnsGeneralQueryTimer ==
    Outstanding(timers, "gq", IfCtx) = IF querierAddr = Me THEN 1 ELSE 0

\* The other-querier-present timer runs exactly when the interface waits
\* for another querier to fall silent: one timer while a remote host is
\* querier (handle_mld_query re-arms it) and while no querier is known in
\* Delay and Defer mode (start_mld arms it as the startup delay); none
\* while the interface is querier itself, and none in Never mode once
\* mld_querier_timeout has reset the querier to all ones.
QuerierWatched ==
    Outstanding(timers, "qt", IfCtx) =
        IF querierAddr = Me \/ (querierAddr = AllOnes /\ QuerierMode = "Never")
        THEN 0 ELSE 1

\* A group is active exactly while one membership timer runs for it:
\* mld_join_common, mld_leave_common and the group-specific branch of
\* handle_mld_query each replace the timer, mld_group_timeout ends it.
MembershipTimed ==
    \A i \in Slots :
        Outstanding(timers, "gt", i) = IF groups[i].active THEN 1 ELSE 0

\* No group is tracked twice, a dynamic slot never shadows a registered
\* group, and no ff02::/16 group is tracked (mld_interface_find_group).
GroupsDistinct ==
    /\ \A i, j \in Slots :
          /\ i # j
          /\ groups[j].active
          /\ groups[i].active \/ i <= NumFixed
          => groups[i].addr # groups[j].addr
    /\ \A i \in Slots : groups[i].active => groups[i].addr \notin LinkLocal

\* A registered group's bridge interfaces forward exactly while the group
\* is active (mld_join_common activates, mld_group_timeout deactivates).
ForwardingFollowsMembership ==
    \A i \in 1..NumFixed : \A h \in SubscribersOf(i) : outbound[h] = groups[i].active

\* A last-listener burst underway is paced by exactly one group-specific
\* query timer, and no timer outlives it (send_group_specific_query).
BurstPaced ==
    \A i \in Slots :
        Outstanding(timers, "gsq", i) = IF groups[i].gqr > 0 THEN 1 ELSE 0

\* Once queries from other hosts stop, the interface takes over as querier
\* and keeps the role (mld_querier_timeout), in every mode but Never.
QuerierTakesOver ==
    QuerierMode # "Never" =>
        (<>[][~ReceiveQuery]_vars => <>[](querierAddr = Me))


\* mld_receive_query adopts the QQIC and Maximum Response Code of an MLDv2
\* query through timecode_8bit_decode and timecode_16bit_decode: on every
\* step the decoders give the RFC 3810 value of every code, monotone in the
\* code (TimeCode!TimeCodesDecode, constant, so evaluated once).
QueryCodesDecoded == [][TimeCodesDecode]_vars

=============================================================================
