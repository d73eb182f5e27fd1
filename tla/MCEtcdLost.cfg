\* The only member is given up while a lease is granted.
CONSTANTS
    k1 = k1
    k2 = k2
    p1 = p1
    p2 = p2
    Keepalive = {k1, k2}
    Boot = {k1}
    Path = {p1}
    PathOf <- MCPathOf
    Under <- MCUnder
    Host = {h1}
    Auth = FALSE
    Nil = Nil
    Foreign = Foreign
    DeleteRetries = 3
    AddWhileDeleting = FALSE
    Rivals = FALSE
    MaxValue = 1
    MaxNet = 1
    MaxHttp = 0
    MaxExpire = 1
    MaxRefuse = 0
    MaxLate = 0
SPECIFICATION FairSpec
CHECK_DEADLOCK FALSE
PROPERTIES Registers
