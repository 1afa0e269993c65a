\* Two threads calling getNextId on one fresh generator.
CONSTANTS
    W = 3
    Callers = {c1, c2}
    InitIds = {0}
    BatchSizes = {1}
SPECIFICATION Spec
INVARIANT UniqueIds
