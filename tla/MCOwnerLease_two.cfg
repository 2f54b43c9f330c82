SPECIFICATION Spec
CONSTANTS
    a = a
    b = b
    a1 = a1
    b1 = b1
    Leases = {a1, b1}
    Incarnations = {a, b}
    holder <- Own
    NoOne = NoOne
    Never = Never
    Duration = 3
    MaxTime = 6
    MaxWrites = 4
    MaxLate = 1
CHECK_DEADLOCK FALSE
PROPERTY Exclusive
