\* Quick mode with the timer capacity initialize_igmp gives evm_create,
\* IGMPv1 and IGMPv2 hosts joining and leaving both groups.
CONSTANTS
    QuerierMode = "Quick"
    Me <- MCMe
    Remotes <- MCRemotes
    AllOnes <- MCAllOnes
    AnyAddr = AnyAddr
    GroupAddrs <- MCGroupAddrs
    LinkLocal <- MCLinkLocal
    FixedGroups <- MCFixedGroups
    Subscribers <- MCSubscribers
    NonConfigured = 1
    DefRobustness = 2
    DefQueryInterval = 2
    DefResponse = 1
    DefLastMbr = 1
    Grace = 1
    InitialQuerierDelay = 3
    MrdInitialDelays = {1}
    MrdDelays = {3}
    QueryGroups = {AnyAddr}
    QueryVersions = {2}
    QueryParams = {}
    V1Groups <- MCLeaveGroups
    V2Groups <- MCLeaveGroups
    LeaveGroups <- MCLeaveGroups
    V3Records = {}
    MaxV3Records = 0
    TimerCapacity <- CodeTimerCapacity
    UIntBits = 30
SPECIFICATION Spec
INVARIANT
    MembershipTimed
