\* Never mode: another querier advertises a robustness above 7, which
\* its IGMPv3 queries carry as QRV 0.
CONSTANTS
    QuerierMode = "Never"
    Me <- MCMe
    Remotes <- MCRemotes
    AllOnes <- MCAllOnes
    AnyAddr = AnyAddr
    GroupAddrs <- MCGroupAddrs
    LinkLocal <- MCLinkLocal
    FixedGroups <- MCFixedGroups
    Subscribers <- MCSubscribers
    NonConfigured = 1
    DefRobustness = 2
    DefQueryInterval = 2
    DefResponse = 1
    DefLastMbr = 1
    Grace = 1
    InitialQuerierDelay = 3
    MrdInitialDelays = {1}
    MrdDelays = {3}
    QueryGroups <- MCQueryGroups
    QueryVersions = {3}
    QueryParams <- MCHighRobustness
    V1Groups = {}
    V2Groups <- MCGroupAddrs
    LeaveGroups = {}
    V3Records = {}
    MaxV3Records = 0
    TimerCapacity = 20
    UIntBits = 30
SPECIFICATION Spec
INVARIANT
    RobustnessValid
