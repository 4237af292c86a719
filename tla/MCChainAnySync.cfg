\* Synced with any list: operations are refused and undone.
CONSTANTS
    Failed = Failed
    Wallets = {w1}
    CustodianContract = custody
    FA2s = {f1, f2}
    TokenAddress = {f1, f2}
    TokenIds = {1}
    Amounts = {1}
    MaxBatch = 2
    TokenInfos = {i1}
    NoInfo = NoInfo
    Metadata = {m1}
    MaxSupply = 1
    MaxOperators = 1
    Kycs = {self, k1}
    Self = self
    NoView = NoView
    NoCall = NoCall
    SyncBatches <- AllSyncs
    MaxKycOperators = 0
SPECIFICATION ChainSpec
SYMMETRY Symmetry
INVARIANTS
    ChainTypeOK
    RefusedOnlyIfUnbacked
    RetireEventsAgree
PROPERTIES
    CustodyHeld
