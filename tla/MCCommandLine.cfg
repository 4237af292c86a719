\* The program's commands, from the words typed to what the contracts do.
CONSTANTS
    w1 = w1
    w2 = w2
    f1 = f1
    custody = custody
    nCustodian = nCustodian
    nFA2 = nFA2
    nOwner = nOwner
    nOperator = nOperator
    self = self
    org = org
    Failed = Failed
    Wallets = {w1, w2}
    CustodianContract = custody
    FA2s = {f1}
    TokenAddress = {f1, custody}
    TokenIds = {0, 1}
    Amounts = {0, 1}
    MaxBatch = 1
    TokenInfos = {i1}
    NoInfo = NoInfo
    Metadata = {m1}
    MaxSupply = 1
    MaxOperators = 0
    Kycs <- KycBytes
    Self <- PackedSelf
    NoView = NoView
    NoCall = NoCall
    SyncBatches <- SingleSyncs
    MaxKycOperators = 1
    NoAddress = NoAddress
    Texts = {self, org}
    Reasons = {reason}
    Numbers <- TypedNumbers
    Names = {nCustodian, nFA2, nOwner, nOperator}
    Words = {nCustodian, nFA2, nOwner, nOperator, f1, custody, w2}
    Homes <- AllHomes
    NoCommand = NoCommand
SPECIFICATION MCSpec
INVARIANTS
    CommandTypeOK
    ParametersFit
PROPERTIES
    EffectAsNamed
    CommandsAreCalls
