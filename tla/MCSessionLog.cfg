SPECIFICATION LogSpec
CONSTANT MaxMessages = 5
INVARIANTS
    LogTypeOK
    HistoryInOrder
PROPERTIES
    TruncationIsExact
    Implements
\* The store stops when no message is left to add and nothing to rewrite.
CHECK_DEADLOCK FALSE
