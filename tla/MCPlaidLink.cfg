SPECIFICATION Spec
SYMMETRY SessionSymmetry
CONSTANTS
    p1 = p1
    p2 = p2
    p3 = p3
    b1 = b1
    PlaidItems = {p1, p2, p3}
    Users = {u1, u2}
    Banks = {b1}
    Sessions = {s1, s2}
    BankOf <- OneWithoutId
    NoBank = NoBank
    Absent = Absent
INVARIANT
    TypeOK
PROPERTIES
    BankStaysConnected
    ForeignRowsUntouched
