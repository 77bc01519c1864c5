\* IGMPv3 reports whose BLOCK_OLD_SOURCES record with sources precedes a
\* record that joins another group.
CONSTANTS
    QuerierMode = "Quick"
    Me <- MCMe
    Remotes <- MCRemotes
    AllOnes <- MCAllOnes
    AnyAddr = AnyAddr
    GroupAddrs <- MCGroupAddrs
    LinkLocal <- MCLinkLocal
    FixedGroups <- MCFixedGroups
    Subscribers <- MCSubscribers
    NonConfigured = 1
    DefRobustness = 2
    DefQueryInterval = 2
    DefResponse = 1
    DefLastMbr = 1
    Grace = 1
    InitialQuerierDelay = 3
    MrdInitialDelays = {1}
    MrdDelays = {3}
    QueryGroups <- MCQueryGroups
    QueryVersions = {2}
    QueryParams = {}
    V1Groups = {}
    V2Groups = {}
    LeaveGroups = {}
    V3Records <- MCV3Records
    MaxV3Records = 2
    TimerCapacity = 20
    UIntBits = 30
SPECIFICATION Spec
INVARIANT
    V3ReportHonoured
