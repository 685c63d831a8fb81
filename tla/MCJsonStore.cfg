\* All small documents, and references and lists in lists. Storing ends: the system stops.
SPECIFICATION FairSpec
CONSTANT Document <- Documents3
INVARIANTS
    TypeOK
    OkMeansStored
    ListsFirst
PROPERTY StoringEnds
CHECK_DEADLOCK FALSE
