\* Defer mode: IGMPv3 queries carrying querier parameters and IGMPv3
\* reports; a timer table large enough that none is dropped.
CONSTANTS
    QuerierMode = "Defer"
    Me <- MCMe
    Remotes <- MCRemotes
    AllOnes <- MCAllOnes
    AnyAddr = AnyAddr
    GroupAddrs <- MCGroupAddrs
    LinkLocal <- MCLinkLocal
    FixedGroups <- MCFixedGroups
    Subscribers <- MCSubscribers
    NonConfigured = 1
    DefRobustness = 2
    DefQueryInterval = 2
    DefResponse = 1
    DefLastMbr = 1
    Grace = 1
    InitialQuerierDelay = 3
    MrdInitialDelays = {1}
    MrdDelays = {3}
    QueryGroups <- MCQueryGroups
    QueryVersions = {3}
    QueryParams <- MCQueryParams
    V1Groups = {}
    V2Groups = {}
    LeaveGroups = {}
    V3Records <- MCV3Records
    MaxV3Records = 2
    TimerCapacity = 20
    UIntBits = 30
SPECIFICATION Spec
INVARIANTS
    QuerierOwnsGeneralQueryTimer
    QuerierWatched
    MembershipTimed
    BurstPaced
