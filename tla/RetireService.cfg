\* Two POSTs for up to two of a party's two credits, one retry each.
SPECIFICATION RetireSpec
CONSTANTS
    Requests = {r1, r2}
    AmountsAsked = {0, 1, 2}
    MaxCredits = 2
    MaxCounter = 1
    MaxRetries = 1
INVARIANTS
    RetireTypeOK
    AtMostOnce
    SuccessIsInBlock
    ErrorLeavesNothing
PROPERTIES
    EveryPostAnswered
