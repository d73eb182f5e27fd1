\* Streams break at any point where the watcher owes nothing.
CONSTANTS
    Key = {id, name}
    Numeric = {id}
    MayLose = FALSE
    MaxRev = 4
    MaxEnds = 2
    MaxNotes = 1
SPECIFICATION FairSpec
CHECK_DEADLOCK FALSE
INVARIANTS TypeOK ViewIsSnapshot OnceInOrder
PROPERTIES UpToDate
