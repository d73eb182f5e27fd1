SPECIFICATION Spec
CONSTANTS
    Obj = {s1, s2}
    Ids = {i1, i2}
    NoId = NoId
    Nil = Nil
    Routers = {1}
    NoRouter = 0
    DefaultRouter = 1
    ReconnectTimeout = 0
    FirstIdleTimeout = 1
    MaxClient = 1
    Env = {"crypt", "answer", "client_close", "bad_data", "refuse", "late_data", "push", "over_limit",
           "kick", "set_router", "stop", "accept_fails", "post_fails"}
SYMMETRY Symmetry
INVARIANTS
    IndInv
    FreedAfterClose
