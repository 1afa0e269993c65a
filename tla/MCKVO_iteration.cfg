\* Two client threads: one in willChange/didChange walking a key's set
\* after _getObservers has released the lock, the other adding or removing
\* observers of that key.
CONSTANTS
    Threads = {t1, t2}
    Observers = {o1, o2}
    Keys = {k1}
    Kinds = {1, 5}
    MaxPairs = 3
    NoEntry = NoEntry
SPECIFICATION Spec
INVARIANT UnlockedIterationSafe
