SPECIFICATION FairSpec
CONSTANTS
    Obj = {s1, s2}
    Ids = {i1}
    NoId = NoId
    Nil = Nil
    Routers = {1}
    NoRouter = 0
    DefaultRouter = 1
    ReconnectTimeout = 1
    FirstIdleTimeout = 1
    MaxClient = 1
    Env = {"crypt", "client_close", "bad_data", "refuse", "push", "push_away", "kick", "stop",
           "accept_fails"}
INVARIANTS
    RemoveNotLost
    FreedAfterClose
PROPERTIES
    WaitEnds
    HandshakeEnds
    FdReleased
    AwayIsReported
