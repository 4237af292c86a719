\* Three addresses, two token ids, lists of up to two.
CONSTANTS
    Failed = Failed
    Wallets = {w1, w2}
    CustodianContract = custody
    FA2s = {f1}
    TokenAddress = {f1}
    TokenIds = {1, 2}
    Amounts = {1}
    MaxBatch = 2
    TokenInfos = {i1, i2}
    NoInfo = NoInfo
    Metadata = {m1}
    MaxSupply = 1
    MaxOperators = 1
SPECIFICATION FA2Spec
SYMMETRY Symmetry
INVARIANTS
    FA2TypeOK
    SupplyConserved
    OnlyDefinedTokensHeld
PROPERTIES
    DebitAuthorised
    TokenMetadataFixed
