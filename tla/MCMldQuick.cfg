\* Quick mode at the timer capacity initialize_mld allocates, under the
\* fairness of the event loop: MLDv1 queries, reports and Done messages.
CONSTANTS
    QuerierMode = "Quick"
    Me <- MCMe
    Remotes <- MCRemotes
    AllOnes <- MCAllOnes
    AnyAddr = AnyAddr
    GroupAddrs <- MCGroupAddrs
    LinkLocal <- MCLinkLocal
    FixedGroups <- MCFixedGroups
    Subscribers <- MCSubscribers
    NonConfigured = 1
    DefRobustness = 2
    DefQueryInterval = 2
    DefResponse = 1
    DefLastMbr = 1
    Grace = 1
    InitialQuerierDelay = 3
    MrdInitialDelays = {1}
    MrdDelays = {3}
    TimerCapacity <- CodeTimerCapacity
    UIntBits = 30
    QueryGroups <- MCQueryGroups
    QueryVersions = {1}
    QueryParams = {}
    V1Groups <- MCGroupAddrs
    DoneGroups <- MCDoneGroups
    V2Records = {}
    MaxV2Records = 0
SPECIFICATION FairSpec
INVARIANTS
    TypeOK
    QuerierOwnsGeneralQueryTimer
    QuerierWatched
    MembershipTimed
    GroupsDistinct
    ForwardingFollowsMembership
    BurstPaced
PROPERTIES
    QuerierTakesOver
