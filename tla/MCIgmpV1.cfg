\* Quick mode with IGMPv1 hosts and general queries only, under the
\* fairness of the event loop: leaves meet groups in IGMPv1 compatibility
\* mode, and the querier role and the advertisements must keep moving.
CONSTANTS
    QuerierMode = "Quick"
    Me <- MCMe
    Remotes <- MCRemotes
    AllOnes <- MCAllOnes
    AnyAddr = AnyAddr
    GroupAddrs <- MCGroupAddrs
    LinkLocal <- MCLinkLocal
    FixedGroups <- MCFixedGroups
    Subscribers <- MCSubscribers
    NonConfigured = 1
    DefRobustness = 2
    DefQueryInterval = 2
    DefResponse = 1
    DefLastMbr = 1
    Grace = 1
    InitialQuerierDelay = 3
    MrdInitialDelays = {1}
    MrdDelays = {3}
    QueryGroups = {AnyAddr}
    QueryVersions = {2}
    QueryParams = {}
    V1Groups <- MCV1Groups
    V2Groups = {}
    LeaveGroups <- MCLeaveGroups
    V3Records = {}
    MaxV3Records = 0
    TimerCapacity = 20
    UIntBits = 30
SPECIFICATION FairSpec
INVARIANT MembershipTimed
PROPERTIES
    QuerierTakesOver
    AdvertisesForever
    ForwardingLapses
