CONSTANTS
    Logins = {TRUE, FALSE}
    AuthFits = TRUE
    SBufCap = 2
    SchemaSync = 1
    Reject = {"auth", "user"}
    RecvTmout = TRUE
    SendTmout = TRUE
    MaxReqs = 4
    MaxConns = 2
    MaxChunks = 0
    MaxCuts = 1
SPECIFICATION Spec
INVARIANTS CountsOutstanding NeverOvercounts ReloadComplete ConnectMeansAuth OwnReplies
