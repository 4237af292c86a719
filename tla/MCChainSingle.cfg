\* Both contracts, synced one token at a time, and calls that reach into two
\* FA2 contracts.
CONSTANTS
    Failed = Failed
    Wallets = {w1}
    CustodianContract = custody
    FA2s = {f1, f2}
    TokenAddress = {f1, f2}
    TokenIds = {1}
    Amounts = {1}
    MaxBatch = 2
    TokenInfos = {i1}
    NoInfo = NoInfo
    Metadata = {m1}
    MaxSupply = 2
    MaxOperators = 0
    Kycs = {self, k1}
    Self = self
    NoView = NoView
    NoCall = NoCall
    SyncBatches <- SingleSyncs
    MaxKycOperators = 0
SPECIFICATION ChainSpec
SYMMETRY Symmetry
INVARIANTS
    Backed
    NothingRefused
PROPERTIES
    SyncIdempotent
    ImplementsOneBook
