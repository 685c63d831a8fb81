\* A Get of two entries with two keys, and of all that a wildcard matches.
SPECIFICATION Spec
CONSTANTS
    Data <- KeyedTrees
    Request <- EntryRequests
    Reprinted <- DoubleText
    Quoted <- QuotedValues
INVARIANTS
    UpdatePathsTell
CHECK_DEADLOCK FALSE
