\* One POST, while another call takes the party's credits.
SPECIFICATION RetireSpec
CONSTANTS
    Requests = {r1}
    AmountsAsked = {1}
    MaxCredits = 1
    MaxCounter = 0
    MaxRetries = 0
INVARIANTS
    SuccessIsRetired
