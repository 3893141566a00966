\* Three keys, a sweep from the second key on.
CONSTANTS
    Keys = {k1, k2, k3}
    Limit = 2
    Window = 2
    MaxKeys = 1
    MaxClock = 4
SPECIFICATION Spec
SYMMETRY KeySymmetry
INVARIANT TypeOK
INVARIANT NeverMoreThanLimit
INVARIANT RetryAfterExact
PROPERTY SweptWhenFull
