CONSTANTS
    Modes = {"direct", "dh"}
    MaxPosts = 3
    MaxUpdates = 2
    MaxReloads = 1
    MaxDrops = 2
SPECIFICATION FairSpec
INVARIANTS TypeOK PostsRead Agreement
PROPERTIES ExchangeEnds KeyReplaced
CHECK_DEADLOCK FALSE
