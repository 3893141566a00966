SPECIFICATION OverlapSpec
CONSTANTS
    i1 = i1
    i2 = i2
    a1 = a1
    a2 = a2
    t1 = t1
    t2 = t2
    Items = {i1}
    Accounts = {a1, a2}
    Txns = {t1, t2}
    Vals = {v1, v2}
    Sessions = {s1, s2}
    ItemOf <- TwoAcctsOneItem
    AcctOf <- OneTxnEach
    SyncedAccts = {a1, a2}
    PageSize = 2
    MaxLog = 2
    Nobody = Nobody
    Absent = Absent
SYMMETRY OverlapSymmetry
INVARIANTS
    TypeOK
    MirrorWhenSerial
    RowsBacked
PROPERTIES
    AuditTrailKept
    HealedByCommit
