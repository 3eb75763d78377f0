CONSTANTS
    Skus = {tea}
    OrderIds = {o1}
    Owners = {amir}
    Users = {amir}
    Payments = {p1, p2}
    Amounts <- MCAmounts
    MaxQuantity = 1
    MaxLine = 1
SPECIFICATION FairSpec
PROPERTIES
    MessagesAnswered
CHECK_DEADLOCK FALSE
