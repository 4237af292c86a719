\* internal_mint is documented as idempotent: not with any list.
CONSTANTS
    Failed = Failed
    Wallets = {w1}
    CustodianContract = custody
    FA2s = {f1}
    TokenAddress = {f1}
    TokenIds = {1}
    Amounts = {1}
    MaxBatch = 2
    TokenInfos = {i1}
    NoInfo = NoInfo
    Metadata = {m1}
    MaxSupply = 1
    MaxOperators = 0
    Kycs = {self, k1}
    Self = self
    NoView = NoView
    NoCall = NoCall
    SyncBatches <- AllSyncs
    MaxKycOperators = 0
SPECIFICATION ChainSpec
PROPERTIES
    SyncIdempotent
