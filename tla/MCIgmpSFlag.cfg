\* Quick mode: a leave starts a burst, then an IGMPv3 query from a lower
\* host lowers the robustness before the next group-specific query.
CONSTANTS
    QuerierMode = "Quick"
    Me <- MCMe
    Remotes <- MCRemotes
    AllOnes <- MCAllOnes
    AnyAddr = AnyAddr
    GroupAddrs <- MCGroupAddrs
    LinkLocal <- MCLinkLocal
    FixedGroups <- MCFixedGroups
    Subscribers <- MCSubscribers
    NonConfigured = 1
    DefRobustness = 2
    DefQueryInterval = 2
    DefResponse = 1
    DefLastMbr = 1
    Grace = 1
    InitialQuerierDelay = 3
    MrdInitialDelays = {1}
    MrdDelays = {3}
    QueryGroups = {AnyAddr}
    QueryVersions = {3}
    QueryParams <- MCLowRobustness
    V1Groups = {}
    V2Groups = {"G1"}
    LeaveGroups = {"G1"}
    V3Records = {}
    MaxV3Records = 0
    TimerCapacity = 20
    UIntBits = 30
SPECIFICATION Spec
PROPERTY
    SFlagMarksFirstQuery
