\* Defer mode at the code capacity: MLDv2 queries that change the
\* robustness, and MLDv2 reports of up to two records; the time-code
\* decoders the MLDv2 query handler uses, over every code.
CONSTANTS
    QuerierMode = "Defer"
    Me <- MCMe
    Remotes <- MCRemotes
    AllOnes <- MCAllOnes
    AnyAddr = AnyAddr
    GroupAddrs <- MCGroupAddrs
    LinkLocal <- MCLinkLocal
    FixedGroups <- MCFixedGroups
    Subscribers <- MCSubscribers
    NonConfigured = 1
    DefRobustness = 2
    DefQueryInterval = 2
    DefResponse = 1
    DefLastMbr = 1
    Grace = 1
    InitialQuerierDelay = 3
    MrdInitialDelays = {1}
    MrdDelays = {3}
    TimerCapacity <- CodeTimerCapacity
    UIntBits = 30
    QueryGroups <- MCQueryGroups
    QueryVersions = {2}
    QueryParams <- MCQueryParams
    V1Groups = {}
    DoneGroups = {}
    V2Records <- MCV2Records
    MaxV2Records = 2
SPECIFICATION Spec
INVARIANTS
    QuerierOwnsGeneralQueryTimer
    QuerierWatched
    MembershipTimed
    BurstPaced
PROPERTY
    QueryCodesDecoded
