CONSTANTS
    Skus = {tea, cup}
    OrderIds = {o1, o2}
    Owners = {amir}
    Shoppers = {amir}
    Requests = {r1, r2}
    Amounts <- MCAmounts
    MaxQuantity = 1
    MaxLine = 1
    MaxCartLine = 1
SYMMETRY MCSymmetry
SPECIFICATION Spec
PROPERTIES
    CartConvertedAtomically
