SPECIFICATION Spec
CONSTANTS
    Limits <- SendLimits
    NoticeLen = 1
    MaxLen = 2
    MaxPushes = 6
    MaxPosts = 1
    MaxDepth = 3
INVARIANTS
    Survives
PROPERTY
    SendWithin
