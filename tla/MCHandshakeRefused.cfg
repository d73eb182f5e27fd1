CONSTANTS
    Modes = {"direct", "dh"}
    MaxPosts = 0
    MaxUpdates = 1
    MaxReloads = 0
    MaxDrops = 1
SPECIFICATION Spec
INVARIANTS CanReconnect
CHECK_DEADLOCK FALSE
