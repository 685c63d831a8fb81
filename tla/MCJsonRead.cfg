\* Every split of seventeen paths into prefix and path, over four data trees. A request is answered once.
SPECIFICATION Spec
CONSTANTS
    Data <- DataTrees
    Request <- Requests
    Reprinted <- DoubleText
    Quoted <- QuotedValues
INVARIANTS
    TypeOK
    AnswersHoldTheTrees
    UpdatesReadBack
CHECK_DEADLOCK FALSE
