\* Two overlapping requests, failures, lost acknowledgements and a removed
\* transaction, which takes no more requests.
CONSTANTS
    Keys = {k1, k2, k3, k4}
    Sessions = {s1, s2}
    MaxImages = 2
    MaxReceipts = 2
SPECIFICATION Spec
SYMMETRY Symmetry
CHECK_DEADLOCK FALSE
INVARIANT NoDanglingRow
INVARIANT NoStrayObject
INVARIANT ImagesBounded
