\* Quick mode, IGMPv1 hosts and group-specific queries from another host:
\* the membership timer can expire while the v1-host timer still runs.
CONSTANTS
    QuerierMode = "Quick"
    Me <- MCMe
    Remotes <- MCRemotes
    AllOnes <- MCAllOnes
    AnyAddr = AnyAddr
    GroupAddrs <- MCGroupAddrs
    LinkLocal <- MCLinkLocal
    FixedGroups <- MCFixedGroups
    Subscribers <- MCSubscribers
    NonConfigured = 1
    DefRobustness = 2
    DefQueryInterval = 2
    DefResponse = 1
    DefLastMbr = 1
    Grace = 1
    InitialQuerierDelay = 3
    MrdInitialDelays = {1}
    MrdDelays = {3}
    QueryGroups <- MCQueryGroups
    QueryVersions = {2}
    QueryParams = {}
    V1Groups <- MCV1Groups
    V2Groups = {}
    LeaveGroups = {}
    V3Records = {}
    MaxV3Records = 0
    TimerCapacity = 20
    UIntBits = 30
SPECIFICATION Spec
INVARIANT
    AtMostOneV1HostTimer
