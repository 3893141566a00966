\* Two overlapping requests for one address, three links.
CONSTANTS
    Users = {u1}
    Tokens = {t1, t2, t3}
    Sessions = {s1, s2}
    Absent = Absent
SPECIFICATION Spec
SYMMETRY Symmetry
INVARIANT SupersededDead
INVARIANT VerifiedByLink
PROPERTY LegacyLockedOut
