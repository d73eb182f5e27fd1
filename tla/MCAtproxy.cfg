SPECIFICATION FairSpec
CONSTANTS
    Proxy = {self, p1, p2}
    Self = self
    Nil = Nil
    Infos <- LiveInfos
    Version = 2
    MinVersion = 2
    Usable = {"dead", "good"}
    Live = {"good"}
    RetryInterval = 1
    MaxLag = 5
    MaxUpdates = 2
    MaxLosses = 1
INVARIANTS
    TypeOK
    NeverForgotten
PROPERTY
    GetsConnected
