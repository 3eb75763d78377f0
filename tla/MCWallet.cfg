CONSTANTS
    Users = {amir}
    Sources = {p1, p2, p3}
    Values <- MCValues
    Calls = {c1, c2, c3}
    NoRow = NoRow
SYMMETRY MCSymmetry
SPECIFICATION Spec
INVARIANTS
    StatementAddsUp
    OneMovementPerSource
    LedgerBalanced
PROPERTIES
    ImplementsLedger
