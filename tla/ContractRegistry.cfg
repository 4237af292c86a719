\* Three commands, in sequence and at once, with two names between them.
SPECIFICATION RegistrySpec
CONSTANTS
    Commands = {c1, c2, c3}
    Names = {n1, n2}
    None = none
    Truncated = truncated
    Garbled = garbled
    MaxRetries = 1
INVARIANTS
    RegistryTypeOK
    NamesAreTrue
    LossesAreExplained
    DamageIsNoticed
\* A machine on which no command runs any more.
CHECK_DEADLOCK FALSE
