\* A header takes 2: a post of 2 fits in the head buffer of 4 when it begins
\* there and needs a block when it is read in two, a post of 3 is more than
\* the receiver takes.  Two messages can be merged while a third is being
\* written; more are refused.
CONSTANTS
    client = client
    gateway = gateway
    Ends = {client, gateway}
    ByClient = 3
    ByGateway = 0
    MaxSend <- MCMaxSend
    Lens = {2, 3}
    CtlLen = 1
    Small = 4
    MergeLen = 7
    SendLimit = 10
    RecvLimit = 4
    MayBreak = TRUE
SPECIFICATION FairSpec
INVARIANTS TypeOK NothingStranded BytesInOrder
PROPERTIES CloseEnds Refines
CHECK_DEADLOCK FALSE
