\* Three calls around and between the requests of a command.
SPECIFICATION ViewSpec
CONSTANTS
    Parties = {self, p1}
    Self = self
    Tokens = {t1}
    Outside = outside
    Amounts = {1, 2}
    MaxBlocks = 4
    MaxInt64 = 3
INVARIANTS
    ViewTypeOK
    SourcesOfOneBlock
    EventsReachLedger
    ExternalNotOlder
