CONSTANTS
    Skus = {tea}
    OrderIds = {o1, o2}
    Owners = {amir, guest}
    Users = {amir}
    Payments = {p1, p2, p3}
    Amounts <- MCAmounts
    MaxQuantity = 2
    MaxLine = 1
SYMMETRY MCSymmetry
SPECIFICATION Spec
INVARIANTS
    RefundIsCredited
CHECK_DEADLOCK FALSE
