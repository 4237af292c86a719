\* The custodian against FA2 contracts that answer anything, and its events.
CONSTANTS
    Failed = Failed
    Wallets = {w1, w2}
    CustodianContract = custody
    FA2s = {f1}
    TokenAddress = {f1, none}
    TokenIds = {1}
    Amounts = {0, 1}
    MaxBatch = 2
    Kycs = {self, k1}
    Self = self
    NoView = NoView
    NoReplay = NoReplay
    NoCall = NoCall
    SyncBatches <- AllSyncs
    MaxKycOperators = 1
SPECIFICATION EventsSpec
SYMMETRY Symmetry
INVARIANTS
    CustodianTypeOK
    LedgerSumsToExternal
    EventsGiveLedger
PROPERTIES
    HolderDebitAuthorised
    OperatorsOnlyRetire
