SPECIFICATION Spec
SYMMETRY SessionSymmetry
CONSTANTS
    i1 = i1
    i2 = i2
    a1 = a1
    a2 = a2
    t1 = t1
    t2 = t2
    Items = {i1}
    Accounts = {a1}
    Txns = {t1}
    Vals = {1, 2}
    Sessions = {s1, s2}
    ItemOf <- OneItemOneAcct
    AcctOf <- OnlyT1
    SyncedAccts = {a1}
    PageSize = 2
    MaxLog = 2
    Nobody = Nobody
    Absent = Absent
INVARIANT
    NothingLost
