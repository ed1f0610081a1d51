SPECIFICATION Spec
CONSTANTS
    Tokens = {"alice", "bob"}
    ProxyUser = "proxy"
    NoToken = "none"
    TTL = 1
    MaxCachedTokens = 1
    Configs <- MCConfigs
    Streams = {s1, s2}
    Publishers = {r1, r2, poll}
    ChannelSize = 1
    WindowNames = {"w"}
    DefaultDuration = 2
    Closed = Closed
    Requests = {r1, r2}
    Poller = poll
    Credentials <- MCCredentials
    WindowSpecs <- MCWindowSpecs
    NodeLabels <- MCNodeLabels
    AnswerDelay = 1
    Start = 0
    End = 2
    MaxEvents = 3
INVARIANTS
    TypeOK
    RevocationBites
    WithdrawnNeverHandled
    NewestReachesEveryone
    RedOnlyInWindow
PROPERTIES
    StatusFromCurrentSpec
SYMMETRY Symmetry
CHECK_DEADLOCK FALSE
