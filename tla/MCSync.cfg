\* One request at a time over two items, one with an account that is not synced.
SPECIFICATION RelinkSpec
CONSTANTS
    i1 = i1
    i2 = i2
    a1 = a1
    a2 = a2
    t1 = t1
    t2 = t2
    Items = {i1, i2}
    Accounts = {a1, a2}
    Txns = {t1, t2}
    Vals = {v1, v2}
    Sessions = {s1}
    ItemOf <- OneAcctEach
    AcctOf <- OneTxnEach
    SyncedAccts = {a1}
    PageSize = 1
    MaxLog = 2
    Nobody = Nobody
    Absent = Absent
SYMMETRY PayloadSymmetry
PROPERTY
    ImplementsMirror
