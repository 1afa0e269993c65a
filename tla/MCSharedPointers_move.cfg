\* One SharedRef, two SharedPtrs that can share a controller, and two
\* WeakPtrs, over two objects.
CONSTANTS
    SRs = {r1}
    SPs = {p1, p2}
    WPs = {w1, w2}
    Objects = {o1, o2}
    Null = Null
    Dead = Dead
    Shareable = {o1}
SPECIFICATION Spec
INVARIANT HeldReferenceMatchesObject
