# TLA+ models of mcast-bridge

mcast-bridge forwards multicast traffic between network interfaces. Forwarding
can be *dynamic*: an outbound interface forwards a group only while a host on
its link is a member. The IGMP (IPv4) and MLD (IPv6) control planes learn
membership from reports, act as querier when needed, and switch the data
plane on and off. This directory holds TLA+ models of those control planes
and of the activation coupling between them and the bridges, the TLC
configurations that check them, and `PROJECT.json`, which lists the
components, the runs, the mutants, the source lines each definition models,
the findings and the hazards.

## The system

| Part | Source | State it keeps | Operations |
|---|---|---|---|
| Event manager | `src/unnamed/part_001` (evm.c) | sockets; a preallocated, deadline-sorted timer list | `evm_add_timer` (silently drops when full), `evm_del_timer` (first matching callback/closure), `evm_loop` (sockets first, then every expired head timer) |
| IGMP control plane | `src/unnamed/part_000` (igmp.c) | per interface: querier address, robustness, query and response intervals, startup and MRD counters, group table (fixed prefix of registered groups, bounded dynamic suffix); per group: address, active, v1-host flag, last-member queries remaining, subscribers | timer callbacks: MRD advertisement, general query, group-specific query, querier timeout, group timeout, v1-host timeout; packet handlers: query, v1/v2/v3 report, v2 leave, MRD solicitation; `initialize_igmp`, `start_igmp` |
| MLD control plane | `src/mld.c` | the same for IPv6 (no v1-host logic) | the same |
| Interface coupling | `src/interface.c` | per bridge interface: config types, `inbound_active`, `outbound_active` | activate/deactivate inbound and outbound, with peer propagation |
| Bridge data plane | `src/unnamed/part_005` (bridge.c) | one thread per bridge | forward a packet to every active outbound peer |
| Configuration | `src/unnamed/part_003` (config.c) | bridges and interfaces | parse, validate, force DYNAMIC inbounds to FORCED when a peer is STATIC |
| Utilities | `src/unnamed/part_002` (util.c) | `TimeCode` (decoders only) | checksums, IGMPv3/MLDv2 time-code decoders |
| Startup | `src/unnamed/part_004` (main.c) | globals | read config, initialise interfaces, IGMP and MLD, start them, start bridges |

How the parts interact:
- Each control plane runs its own event-loop thread. A callback runs to
  completion, so there is no interleaving *inside* a subsystem.
- Group activity calls `interface_activate_outbound` and
  `interface_deactivate_outbound`.
- Those calls set flags that the bridge threads read while forwarding.

What makes it hard:
- The querier election races timers against packets from other hosts.
- Several timers exist per group, all in a bounded table, and they are
  identified only by their (callback, closure) pair.
- A dynamic group slot can be reused.
- IGMPv3 reports carry several records and can stop part-way through.
- The control threads write the data-plane flags without locks.

## Modules

- **`Evm.tla`** models the timer half of evm.c.
  - Deadlines are kept relative to now, in ticks.
  - `AddTimer` inserts before the first strictly later deadline, so ties
    keep FIFO order, and returns the list unchanged when it is full.
  - `DelTimer` removes the first timer whose callback and closure match.
  - `Expired` and `Elapse` give the loop's dispatch and the passing of time.
- **`Igmp.tla`** models one IGMP interface: everything of igmp.c that
  changes state.
  - Each variable is a field of `igmp_interface_t` or `igmp_group_t`, plus
    the IGMP timer list:
    - `querierAddr`, `robustness`, `queryInterval`, `responseInterval`,
      `startupLeft`, `mrdLeft`;
    - `groups`, a function from slot to `[addr, active, v1, gqr]`, and
      `groupCount`;
    - `timers`;
    - `outbound`, the `outbound_active` flag of each registered bridge
      interface.
    - Two more variables exist only for the properties. `sent` holds the
      packets injected by the last step. `heard` holds the records of the
      IGMPv3 report the last step handled.
  - Each C function is an operator from an interface record (`Cur`) to an
    interface record, written in the order of the C statements.
    `Commit` makes the result the next state.
  - Each timer callback is one action: `FireMrdAdvertisement`,
    `FireGeneralQuery`, `FireGroupSpecificQuery`, `FireQuerierTimeout`,
    `FireGroupTimeout`, `FireV1HostTimeout`. Each action takes the head of
    the list when its deadline is 0.
  - Each packet handler is one action: `ReceiveQuery` (IGMPv2-sized or
    IGMPv3), `ReceiveV1Report`, `ReceiveV2Report`, `ReceiveV2Leave`,
    `ReceiveV3Report`, `ReceiveMrdSolicitation`.
  - `Tick` lets one unit of time pass when no timer is due.
  - `Init` is the state after `initialize_igmp` and `start_igmp`.
  - `Tighten` (RECURSIVE) is the compaction loop of `igmp_group_timeout`,
    including its bound `i > group_list_fixed_limit`.
  - `ApplyRecords` (RECURSIVE) is the record loop of
    `handle_igmp_v3_report`. Like the code, it claims a slot before it looks
    at the record type, and it returns from the whole report on overrun, on
    an unknown type and on BLOCK with sources.
  - `DecUInt` is the unsigned decrement of `group_queries_remaining`. It
    wraps to `2^UIntBits - 1`: the code's width is 32 bits, and TLC's
    integers hold up to 30.
- **`Mld.tla`** models one MLD interface (mld.c) with the same structure
  and the same variable names. It differs from `Igmp` where mld.c does:
  - there is no v1-host state: `ReceiveV1Report` is a plain join and
    `ReceiveV1Done` (MLDv1 Done) a plain leave;
  - `ReceiveQuery` takes MLDv1-sized queries (defaults adopted by a new
    querier) and MLDv2 queries (parameters adopted);
  - the membership timer of `mld_join_common` adds the grace time;
  - the last-listener interval is only ever set to its default, so it is
    the constant `DefLastMbr`;
  - `ReceiveV2Report` applies the records with `ApplyRecords`, which keeps
    the early returns of `handle_mld_v2_report`.
- **`BridgeConfig.tla`** holds the interface lists config.c builds from
  one `[port]` section, as constant operators over `Ifaces == 1..N`:
  - `DraftSettings`: what the four interface lists can give an interface
    (each direction NONE, DYNAMIC or STATIC, not both NONE);
    `DraftIfaces` adds the families (IPv4, IPv6, or both) the interface
    has an address of;
  - `ValidDraft(d, mcast)`: `validate_draft_bridge` for a section with group
    addresses of the families `mcast`: the single-interface rules over
    all interfaces, then `FamilyValid` for each family;
  - `AddBridge(d, f)`: `add_bridge` keeps the interfaces with an address of
    family `f` (`SelectSeq`), and `ForceInbound` turns every DYNAMIC inbound
    into FORCED when another interface is a STATIC outbound;
  - `BridgeDrafts`: drafts of N + 1 interfaces, the first N with an IPv4
    address and the last without one; `ConfiguredBridges` (and `Bridges`,
    what `Coupling` starts from) is the IPv4 bridge `AddBridge` builds from
    each draft `ValidDraft` accepts with an IPv4 group address. The
    interface without IPv4 lets the checks over all interfaces be weaker
    than the family's: A (in and out, IPv4 and IPv6), B (out, IPv4) and
    C (in, IPv6) give the IPv4 bridge A (in and out), B (out), which no
    single-family section can produce. Its position in the draft does not
    change the IPv4 bridge, and IPv6 is handled by the same code, so these
    drafts give every bridge of N interfaces (N = 3: 496 lists, the set of
    forced lists whose interfaces satisfy `FamilyValid`).
- **`CouplingAtomic.tla`** is the abstract coupling: a configured direction
  that is not DYNAMIC is active from the start; `Switch(h)` turns a DYNAMIC
  outbound on or off in one step, and with it every DYNAMIC inbound becomes
  active exactly when another interface configured as outbound is active
  (`Listened`, `Coupled`). A direction configured NONE is no part of the
  coupling: its flag may start either way and never changes, so a fixed
  `initialize_interfaces` that left it off would implement the abstract
  coupling too.
- **`Coupling.tla`** models interface.c with bridge.c's `bridge_receive`,
  for one bridge.
  - Variables: `config`, `inbound_active`, `outbound_active` (the fields of
    `bridge_interface_t`), `call` (the activate or deactivate call of the
    control thread in progress: operation, interface, next peer) and
    `forwarded` (the interface pairs of the last datagram received).
  - `Init` is `initialize_interfaces` (RECURSIVE `InitializeInterfaces`
    over the list in order, each `interface_activate_outbound` whole),
    because it runs before any thread starts.
  - `ActivateOutbound(h)` and `DeactivateOutbound(h)` are the start of the
    two calls up to the write of `outbound_active`; their early returns are
    guards. `VisitPeer` is one iteration of the peer loop (`PeerStep`,
    with the `peer2` scan `OtherOutboundActive`); the call returns after
    the last peer. Only DYNAMIC outbound interfaces, the ones registered
    with IGMP or MLD, are ever passed to the calls.
  - `BridgeReceive(src)` is `bridge_receive`: drop unless `src` listens,
    else send on every other active outbound. It can run between any two
    steps of a call.
  - `Atomic == INSTANCE CouplingAtomic WITH inbound_active <-
    CommittedInbound`: the refinement mapping runs the rest of the peer
    loop of the call in progress (`PeerLoop`). A call's first step is the
    abstract `Switch`; each `VisitPeer` and each `BridgeReceive` is a
    stutter.
  - One thread writes the flags of a bridge: a bridge has one family, and
    only the IGMP (AF_INET) or the MLD (AF_INET6) thread calls it. So calls
    never overlap, and the concurrency left is the bridge thread's reads.
    `BridgeReceive` reads all flags in one step; the code reads them one
    per peer, which only adds orders of the same flag values.
- **`TimeCode.tla`** models the time-code decoders of util.c.
  - `Decode8` and `Decode16` are `timecode_8bit_decode` and
    `timecode_16bit_decode`: the same shifts and masks (Bitwise), with the
    uint16_t result of the 8-bit decoder reduced modulo 2^16.
  - `RfcValue` is the reference: the definition of RFC 3376 4.1.1/4.1.7
    and RFC 3810 5.1.3/5.1.9, written with division and remainder on the
    fields instead of masks.
  - `TimeCodesDecode` compares them over every 8-bit and every 16-bit code,
    and checks that a larger code never gives a shorter time.
  - The query handlers of `Igmp` and `Mld` adopt `Decode8(qqic)` and
    `Decode8(code)` / `Decode16(response)` as the code does.
- **`MCIgmp.tla`** and **`MCMld.tla`** hold the small instances:
  - addresses 1 < 2 (me) < 3, so every address comparison goes both ways;
  - one registered group `G1` with bridge interface `h1`;
  - one dynamic slot, and two more groups (`G2`, `G3`) competing for it;
  - one link-scope group `LL`;
  - v3 query parameters and report records;
  - `CodeTimerCapacity`, the capacity formula of `initialize_igmp`.

Abstractions:
- Times are ticks. The query interval is 2, the response interval 1, the
  last-member interval 1 and the grace time 1. These keep the orders of the
  code's values (query interval > response > last-member) and every formula
  in which they are combined: robustness products, halving, grace. With the
  ticks as stated, the membership, other-querier and leave timers all come
  out in the same order as they do in the code.
- The random MRD intervals are a set of choices; the model uses one value of
  each range.
- Packet contents are reduced to the fields the handlers use.
  - The QQIC and response codes in `QueryParams` are below 128 (and 32768),
    so they decode to themselves and read as ticks; the decoders over the
    whole code range are checked on their own (`QueryCodesDecoded`).
  - Checksum and length failures are the handler not being called at all,
    which the environment can always choose.
- The inputs each run lets the environment send are CONSTANTS:
  `QueryGroups`, `QueryVersions`, `QueryParams`, `V1Groups`, `V2Groups`,
  `LeaveGroups`, `V3Records`, `MaxV3Records`.

## Runs

Passing runs. `TimerCapacity` is 20, so no timer is ever dropped.

| Run | Config | What it shows |
|---|---|---|
| `igmp_quick` | `MCIgmpQuick.cfg` | Quick mode; IGMPv2 queries from a lower and a higher host, IGMPv2 reports for every group and leaves. Checks `TypeOK`, `QuerierOwnsGeneralQueryTimer`, `QuerierWatched`, `MembershipTimed`, `GroupsDistinct`, `ForwardingFollowsMembership`, `BurstPaced` and `LowestAddressQuerier`. 15k states. |
| `igmp_defer_v3` | `MCIgmpDefer.cfg` | Defer mode; IGMPv3 queries (robustness 2 or 1, with or without the S flag) and IGMPv3 reports of up to two records. The yield and the adoption of parameters keep the querier, membership and burst timers consistent. `QuerierWatched`: from the start, while no querier is known, the 125.5 s startup delay is the one other-querier timer, and a query heard before it fires replaces it rather than adding a second. 90k states. |
| `igmp_v1_hosts` | `MCIgmpV1.cfg` | Quick mode with IGMPv1 hosts, leaves and general queries only, under `FairSpec`. `QuerierTakesOver`: once queries stop, the interface becomes and stays querier. `AdvertisesForever`: MRD advertisements never stop. `ForwardingLapses`: once other hosts send nothing but solicitations, every membership timer fires and no bridge interface forwards any more; the assumption includes leaves and queries because each of them re-arms the membership timer (igmp.c:810, spec section 4.4), so a host repeating one keeps a group alive. Also `MembershipTimed`. 10k states. |

Coupling run. `MCCoupling.cfg` sets `N = 3` and replaces `Bridges` by
`MCCoupling`'s `CouplingBridges`: the lists of `ConfiguredBridges` in which
no interface with outbound NONE sits beside another interface's DYNAMIC
inbound (388 of 496). On the others `initialize_interfaces` activates the
NONE outbound, which makes the DYNAMIC inbound listen with no configured
outbound to forward to: the bug the run `coupling_none_forwarded` reports,
and on which `AtomicSpec` fails in the initial state. 52k states, 6 s.

| Run | Config | What it shows |
|---|---|---|
| `coupling_atomic` | `MCCoupling.cfg` | `AtomicSpec`: `Coupling` implements `CouplingAtomic` under the mapping that completes the peer loop of the call in progress. So `initialize_interfaces` leaves, and every activate or deactivate call restores, a coupling in which a DYNAMIC inbound listens exactly while another configured outbound is active, whatever the order of calls. `TypeOK` also shows the peer loop ends at the last interface. |

MLD runs. These use `CodeTimerCapacity`, the capacity `initialize_mld`
computes (6 here), because it is the question they answer: unlike IGMP,
where a v1-host timer makes a group need three timers, an MLD group needs at
most two and an interface at most two, so the code's formula is enough.

| Run | Config | What it shows |
|---|---|---|
| `mld_quick_code_capacity` | `MCMldQuick.cfg` | Quick mode with MLDv1 queries from both sides of my address, MLDv1 reports for every group and Done messages. Checks the same seven invariants as `igmp_quick` (without the election property) and, under `FairSpec`, `QuerierTakesOver`: after yielding to a lower querier that falls silent, the interface takes the role back. 17k states. |
| `mld_defer_v2` | `MCMldDefer.cfg` | Defer mode with MLDv2 queries (robustness 2 or 1, S flag set or clear) and MLDv2 reports of up to two records. `QueryCodesDecoded` (an action property over a constant formula, so evaluated once): `Decode8` and `Decode16` equal `RfcValue` for all 256 and 65536 codes and are strictly increasing. `QuerierWatched` as for IGMP (the startup delay of mld.c:1589). 103k states, about 55 s. |

Violation runs. Each one reproduces a disagreement recorded under
`findings` in PROJECT.json.

| Run | Property | What TLC finds |
|---|---|---|
| `igmp_v1_timer_duplicated` | `AtMostOneV1HostTimer` | A remote group-specific query shortens the membership timer. The group expires while its v1-host timer runs, and the next v1 report adds a second v1-host timer (igmp.c:929). |
| `igmp_timer_table_full` | `MembershipTimed` | At the code's capacity of 6, a last-member burst plus v1 hosts fill the table. A membership timer is dropped, and the group stays active for ever (igmp.c:1646, evm.c:239). |
| `igmp_sflag_after_yield` | `SFlagMarksFirstQuery` | A v3 query with robustness 1 arrives mid-burst. The second group-specific query goes out with S = 0, from a host that is no longer querier (igmp.c:455). |
| `igmp_v3_block_aborts` | `V3ReportHonoured` | A BLOCK record with sources ends the report, and the join of G1 in the IS_EX record after it is lost (igmp.c:1100; spec section 4.9 aborts only on unknown types). |
| `igmp_qrv_zero` | `RobustnessValid` | QRV 0, which means a robustness above 7, is adopted as robustness 0 (igmp.c:773). |
| `coupling_none_forwarded` | `ForwardsOnlyConfigured` | `initialize_interfaces` activates directions configured as none (interface.c:489, 508). An outbound-only interface joins the group and listens; an inbound-only one gets `outbound_active = 1`; a datagram received on the first is sent out of the second, the reverse of the bridge's direction. |

`LowestAddressQuerier` is checked in Quick mode only. In Delay mode a
passive interface adopts any first querier, also one above its own address,
and keeps it while that querier keeps querying: what spec section 4.4
describes, though spec section 8 states min(A_i, local) for Delay as well.

### Bounds

- Two remote addresses, one on each side of mine, are enough for every
  branch of the election.
- One dynamic slot with two candidate groups exercises the table-full path,
  slot reuse and compaction.
- Two records per IGMPv3 report are enough for a record to follow an
  aborting one.
- Robustness 2 gives a burst of two queries, so both S-flag values occur.
- The passing runs take 2 to 40 seconds each.

### Fairness

`FairSpec` puts weak fairness on `Tick` and on the six timer actions. The
justification is the loop in `evm_loop`: it always polls with the head
timer's remaining time as the timeout and then runs every expired timer.
Time therefore advances and due timers fire, whatever packets arrive.

`Coupling` is checked for safety only (`Spec`, no fairness): the
refinement is a safety property, and the peer loop is a plain bounded loop
that `TypeOK` shows ending at the last interface.

Packet arrivals get no fairness: other hosts may stay silent for ever.
`QuerierTakesOver` is stated under the assumption that queries eventually
stop (`<>[][~ReceiveQuery]_vars`).
`ForwardingLapses` likewise assumes that queries, reports and leaves
eventually stop.

### Mutants

Every property of a passing run has a mutant. A mutant is an operator
written just above the definition it replaces, in `Igmp.tla`, `Mld.tla`, `Coupling.tla` or `TimeCode.tla`. Each one is a
plausible slip in the C code, for example:
- a delete missing before an add;
- a re-arm test read before the decrement;
- an inverted address comparison;
- an exponent masked with four bits instead of three;
- a missing link-scope test;
- a loop bound past the fixed prefix;
- a `peer2` scan that does not skip the peer itself;
- a peer loop that does not stop at the last interface.

## Not modelled (yet)

- The checksum routines of util.c are left out with the packet bytes. The
  decoded times are used as ticks only for codes below 128; their results
  fit the widths they return (at most 31744 and 8387584), and the timer
  products stay below 2^28 milliseconds.
- interface.c marks an inbound active even when the group join fails
  (interface.c:253); the sockets are not modelled, so `Coupling` treats
  every join as successful.
- The coupling is not composed with `Igmp`/`Mld`: `Coupling` lets the
  control thread call activate and deactivate on any registered interface
  at any time, which covers every order the group timers can produce.
- Configuration parsing (text, names, the addresses themselves) and its
  fatal exits are left out; `BridgeConfig` starts from the interface
  settings and address families the lists and the interface enumeration
  can produce.
- Several IGMP or MLD interfaces sharing one timer table and one thread
  are not composed yet: each run has one interface.
- Never and Delay mode are in the model (`Start`, `QuerierTimeout`,
  `Yields`) but no passing run uses them; the Never branch of
  `QuerierWatched` is therefore stated but not exercised. Delay starts like
  Defer, from the all-ones address, so it adopts any first querier; only
  later elections follow the lowest address, as in Quick mode.
- The IGMP findings at igmp.c:455 (S flag), igmp.c:773 (QRV 0) and
  igmp.c:1100 (BLOCK abort) are in mld.c too (lines 459, 750 and 996); they
  are recorded once, under IGMP, and listed as MLD hazards; the MLD runs keep QRV 1..2 so that a
  wrapped burst counter does not blow up the state space.
- Byte-level packet building and parsing are out of scope; the filters they
  apply are the environment's choice of which handler to call.
- mcast-sr.c is a separate diagnostic tool.

## Plan

Order of work, most important behaviour first:

1. `Evm`, `Igmp`, `MCIgmp` (done): the querier and membership state machine
   of one interface, with the violation runs above.
2. `Mld`, `MCMld` (done): the IPv6 twin, with its own runs at the code's
   timer capacity.
3. `BridgeConfig`, `CouplingAtomic`, `Coupling` (done): the activation
   rules of interface.c with bridge forwarding, refining the atomic
   coupling, and the NONE-activation finding.
4. An abstract membership specification, `Membership`: a group is forwarded
   while a member has reported within the membership interval. `Igmp` is
   checked to refine it, through a mapping from `groups`/`outbound` to the
   abstract set of forwarded groups.
5. A composition of `Igmp` with `Coupling`, the group timeout driving
   `DeactivateOutbound` on the group's subscribers.
6. A multi-interface `Igmp` run that shares the timer table, to check the
   capacity formula across interfaces.
7. (done) `TimeCode`. A silent lower querier stays recorded while a higher
   host keeps querying (igmp.c:747): spec section 4.4 re-arms the
   other-querier timer on any query, so this is the intended behaviour.
