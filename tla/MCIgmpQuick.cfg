\* Quick mode: queries of IGMPv2 size, IGMPv2 reports and leaves competing
\* for the group table; a timer table large enough that none is dropped.
CONSTANTS
    QuerierMode = "Quick"
    Me <- MCMe
    Remotes <- MCRemotes
    AllOnes <- MCAllOnes
    AnyAddr = AnyAddr
    GroupAddrs <- MCGroupAddrs
    LinkLocal <- MCLinkLocal
    FixedGroups <- MCFixedGroups
    Subscribers <- MCSubscribers
    NonConfigured = 1
    DefRobustness = 2
    DefQueryInterval = 2
    DefResponse = 1
    DefLastMbr = 1
    Grace = 1
    InitialQuerierDelay = 3
    MrdInitialDelays = {1}
    MrdDelays = {3}
    QueryGroups <- MCQueryGroups
    QueryVersions = {2}
    QueryParams = {}
    V1Groups = {}
    V2Groups <- MCGroupAddrs
    LeaveGroups <- MCLeaveGroups
    V3Records = {}
    MaxV3Records = 0
    TimerCapacity = 20
    UIntBits = 30
SPECIFICATION Spec
INVARIANTS
    TypeOK
    QuerierOwnsGeneralQueryTimer
    QuerierWatched
    MembershipTimed
    GroupsDistinct
    ForwardingFollowsMembership
    BurstPaced
    LowestAddressQuerier
