CONSTANTS
    NAddrs = 3
    Tmout = 4
    Fds = {3, 4}
    MaxConnects = 3
SPECIFICATION FairSpec
INVARIANTS NoDescriptorLeak SuccessMeansEstablished WaitBounded
PROPERTY ConnectReturns
