SPECIFICATION LogSpec
CONSTANT MaxMessages = 4
INVARIANT AckedVisible
\* The store stops when no message is left to add and nothing to rewrite.
CHECK_DEADLOCK FALSE
