CONSTANTS
    Logins = {TRUE, FALSE}
    AuthFits = TRUE
    SBufCap = 1
    SchemaSync = 1
    Reject = {"auth", "user"}
    RecvTmout = FALSE
    SendTmout = FALSE
    MaxReqs = 4
    MaxConns = 1
    MaxChunks = 1
    MaxCuts = 0
SPECIFICATION FairSpec
PROPERTY CallReturns
