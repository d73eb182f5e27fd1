\* One keepalive with two values, a login, another process, requests that do not start or are late.
CONSTANTS
    k1 = k1
    k2 = k2
    p1 = p1
    p2 = p2
    Keepalive = {k1}
    Boot = {k1}
    Path = {p1}
    PathOf <- MCPathOf
    Under <- MCUnder
    Host = {h1}
    Auth = TRUE
    Nil = Nil
    Foreign = Foreign
    DeleteRetries = 2
    AddWhileDeleting = FALSE
    Rivals = TRUE
    MaxValue = 2
    MaxNet = 0
    MaxHttp = 1
    MaxExpire = 1
    MaxRefuse = 1
    MaxLate = 1
SPECIFICATION ExpirySpec
CHECK_DEADLOCK FALSE
INVARIANTS TypeOK SettledIsRegistered
PROPERTIES LeavesNothing
