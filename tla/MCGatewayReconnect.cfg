SPECIFICATION Spec
CONSTANTS
    Obj = {s1, s2, s3}
    Ids = {i1}
    NoId = NoId
    Nil = Nil
    Routers = {1, 2}
    NoRouter = 0
    DefaultRouter = 1
    ReconnectTimeout = 2
    FirstIdleTimeout = 1
    MaxClient = 0
    Env = {"bad_data", "push", "over_limit", "recv_limit", "set_router"}
SYMMETRY Symmetry
INVARIANTS
    TypeOK
    OneRegistrant
    OneConnection
    ForwardsOnlyKnown
    CacheConsistent
PROPERTIES
    RouterKept
