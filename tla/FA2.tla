-------------------------------- MODULE FA2 --------------------------------
(***************************************************************************)
(* src/src/fa2.mligo: the FA2 token contract, as a family of contracts, one*)
(* per address in FA2s.  An entrypoint is an action of a contract, a       *)
(* caller and the list it is called with; a call the code rejects is no    *)
(* step.  balance_of and the views change no storage and are the operator  *)
(* ViewBalanceOf.                                                          *)
(***************************************************************************)
EXTENDS Tezos

CONSTANTS
    TokenInfos,     \* token metadata, opaque
    NoInfo,         \* no metadata: the token id is not defined
    Metadata,       \* contract metadata, opaque
    MaxSupply,      \* bound: credits ever minted, per contract and token id
    MaxOperators    \* bound: size of an operator set

ASSUME FA2Assumption ==
    /\ NoInfo \notin TokenInfos
    /\ MaxSupply \in Nat
    /\ MaxOperators \in Nat

VARIABLES
    oracle,         \* per contract: who mints and administers
    fa2Ledger,      \* per contract: the balance of every owner
    fa2Operators,   \* per contract: who may move an owner's tokens
    tokenMetadata,  \* per contract: the token ids in use
    metadata,       \* per contract: the contract metadata
    minted,         \* history: what the oracle has minted, per token id
    fa2Retired      \* history: the amounts of the %retire events, per owner

fa2Vars == <<oracle, fa2Ledger, fa2Operators, tokenMetadata, metadata,
             minted, fa2Retired>>

(* type owner: the key of the ledger. *)
Owner == Address \X TokenIds
FA2Ledger == [Owner -> Nat]
Tally == [TokenIds -> Nat]

(* A failure is told apart from every storage. *)
ASSUME FailureAssumption == Failed \notin FA2Ledger /\ Failed \notin Tally

FA2Operator == [token_owner : Address, token_operator : Address,
                token_id : TokenIds]

(* The parameters: nested transfers are flattened, in order. *)
TransferTx == [from : Address, to : Address, token_id : TokenIds,
               amount : Amounts]
Entry == [owner : Address, token_id : TokenIds, amount : Amounts]
OperatorUpdate == [add : BOOLEAN, operator : FA2Operator]
TokenMetadata == [token_id : TokenIds, info : TokenInfos]

FA2TypeOK ==
    /\ sender \in Address
    /\ oracle \in [FA2s -> Address]
    /\ fa2Ledger \in [FA2s -> FA2Ledger]
    /\ fa2Operators \in [FA2s -> SUBSET FA2Operator]
    /\ tokenMetadata \in [FA2s -> [TokenIds -> TokenInfos \cup {NoInfo}]]
    /\ metadata \in [FA2s -> Metadata]
    /\ minted \in [FA2s -> Tally]
    /\ fa2Retired \in [FA2s -> FA2Ledger]

(* A contract as it is originated: empty, administered by some wallet. *)
FA2Init ==
    /\ sender \in Wallets
    /\ oracle \in [FA2s -> Wallets]
    /\ fa2Ledger = [c \in FA2s |-> [o \in Owner |-> 0]]
    /\ fa2Operators = [c \in FA2s |-> {}]
    /\ tokenMetadata = [c \in FA2s |-> [id \in TokenIds |-> NoInfo]]
    /\ metadata \in [FA2s -> Metadata]
    /\ minted = [c \in FA2s |-> [id \in TokenIds |-> 0]]
    /\ fa2Retired = [c \in FA2s |-> [o \in Owner |-> 0]]

-----------------------------------------------------------------------------
(* is_operator, for an owner's own call or one by its operator. *)
MayMove(c, caller, owner, id) ==
    \/ caller = owner
    \/ [token_owner |-> owner, token_operator |-> caller, token_id |-> id]
          \in fa2Operators[c]

(* view_balance_of *)
ViewBalanceOf(c, owner, id) == fa2Ledger[c][owner, id]

(* Mutant: the giver's new balance is computed from the old ledger, so that *)
(* a transfer to oneself loses its amount.                                 *)
TransferStepStale == [l \in FA2Ledger |-> [tx \in TransferTx |->
    IF l[tx.from, tx.token_id] < tx.amount THEN Failed
    ELSE [l EXCEPT ![<<tx.to, tx.token_id>>] = @ + tx.amount,
                   ![<<tx.from, tx.token_id>>] = l[tx.from, tx.token_id] - tx.amount]]]

(* One transfer: the receiver is credited before the giver is debited. *)
TransferStep == [l \in FA2Ledger |-> [tx \in TransferTx |->
    UpdateBalance(<<tx.from, tx.token_id>>, -tx.amount,
        UpdateBalance(<<tx.to, tx.token_id>>, tx.amount, l))]]

CreditStep == [l \in FA2Ledger |-> [e \in Entry |->
    UpdateBalance(<<e.owner, e.token_id>>, e.amount, l)]]

RetireStep == [l \in FA2Ledger |-> [e \in Entry |->
    UpdateBalance(<<e.owner, e.token_id>>, -e.amount, l)]]

(* Adds the amounts of a list of entries to what each token id had before. *)
TallyStep == [tally \in Tally |-> [e \in Entry |->
    [tally EXCEPT ![e.token_id] = @ + e.amount]]]

-----------------------------------------------------------------------------
(* transfer: every giver is the caller or has it for an operator. *)
TransferResult(c, caller, txs) ==
    IF \A i \in DOMAIN txs : MayMove(c, caller, txs[i].from, txs[i].token_id)
    THEN ListFold(TransferStep, fa2Ledger[c], txs)
    ELSE Failed

Transfer(c, caller, txs) ==
    /\ TransferResult(c, caller, txs) # Failed
    /\ fa2Ledger' = [fa2Ledger EXCEPT ![c] = TransferResult(c, caller, txs)]
    /\ sender' = caller
    /\ UNCHANGED <<oracle, fa2Operators, tokenMetadata, metadata, minted,
                   fa2Retired>>

(* update_operators: each owner speaks for itself. *)
OperatorStep == [ops \in SUBSET FA2Operator |-> [u \in OperatorUpdate |->
    IF u.add THEN ops \cup {u.operator} ELSE ops \ {u.operator}]]

(* Mutant: anybody appoints operators for any owner. *)
UpdateOperatorsForAnyOwner(c, caller, updates) ==
    /\ fa2Operators' = [fa2Operators EXCEPT ![c] = ListFold(OperatorStep, @, updates)]
    /\ Cardinality(fa2Operators'[c]) <= MaxOperators
    /\ sender' = caller
    /\ UNCHANGED <<oracle, fa2Ledger, tokenMetadata, metadata, minted,
                   fa2Retired>>

UpdateOperators(c, caller, updates) ==
    /\ \A i \in DOMAIN updates :
          /\ updates[i].operator.token_owner = caller
          /\ updates[i].add => updates[i].operator.token_operator # caller
    /\ fa2Operators' = [fa2Operators EXCEPT ![c] = ListFold(OperatorStep, @, updates)]
    /\ Cardinality(fa2Operators'[c]) <= MaxOperators
    /\ sender' = caller
    /\ UNCHANGED <<oracle, fa2Ledger, tokenMetadata, metadata, minted,
                   fa2Retired>>

(* Mutant: token ids need not be defined. *)
MintUndefined(c, caller, entries) ==
    /\ caller = oracle[c]
    /\ fa2Ledger' = [fa2Ledger EXCEPT ![c] = ListFold(CreditStep, @, entries)]
    /\ minted' = [minted EXCEPT ![c] = ListFold(TallyStep, @, entries)]
    /\ \A id \in TokenIds : minted'[c][id] <= MaxSupply
    /\ sender' = caller
    /\ UNCHANGED <<oracle, fa2Operators, tokenMetadata, metadata, fa2Retired>>

(* mint_tokens: the oracle alone, of token ids that are defined. *)
Mint(c, caller, entries) ==
    /\ caller = oracle[c]
    /\ \A i \in DOMAIN entries : tokenMetadata[c][entries[i].token_id] # NoInfo
    /\ fa2Ledger' = [fa2Ledger EXCEPT ![c] = ListFold(CreditStep, @, entries)]
    /\ minted' = [minted EXCEPT ![c] = ListFold(TallyStep, @, entries)]
    /\ \A id \in TokenIds : minted'[c][id] <= MaxSupply
    /\ sender' = caller
    /\ UNCHANGED <<oracle, fa2Operators, tokenMetadata, metadata, fa2Retired>>

(* Mutant: a grant for one token id is good for all of them. *)
RetireResultAnyId(c, caller, entries) ==
    IF \A i \in DOMAIN entries :
          \E id \in TokenIds : MayMove(c, caller, entries[i].owner, id)
    THEN ListFold(RetireStep, fa2Ledger[c], entries)
    ELSE Failed

(* retire_tokens: debits the retiring parties and emits %retire events. *)
RetireResult(c, caller, entries) ==
    IF \A i \in DOMAIN entries :
          MayMove(c, caller, entries[i].owner, entries[i].token_id)
    THEN ListFold(RetireStep, fa2Ledger[c], entries)
    ELSE Failed

RetireTokens(c, caller, entries) ==
    /\ RetireResult(c, caller, entries) # Failed
    /\ fa2Ledger' = [fa2Ledger EXCEPT ![c] = RetireResult(c, caller, entries)]
    /\ fa2Retired' = [fa2Retired EXCEPT ![c] = ListFold(CreditStep, @, entries)]
    /\ sender' = caller
    /\ UNCHANGED <<oracle, fa2Operators, tokenMetadata, metadata, minted>>

(* Mutant: a token id can be defined again. *)
AddTokenStepOverwrites == [defined \in [TokenIds -> TokenInfos \cup {NoInfo}] |->
    [d \in TokenMetadata |-> [defined EXCEPT ![d.token_id] = d.info]]]

(* add_token_id: an id that is in use, or twice in the list, fails the call. *)
AddTokenStep == [defined \in [TokenIds -> TokenInfos \cup {NoInfo}] |->
    [d \in TokenMetadata |->
        IF defined[d.token_id] # NoInfo THEN Failed
        ELSE [defined EXCEPT ![d.token_id] = d.info]]]

AddTokenId(c, caller, definitions) ==
    LET result == ListFold(AddTokenStep, tokenMetadata[c], definitions)
    IN  /\ caller = oracle[c]
        /\ result # Failed
        /\ tokenMetadata' = [tokenMetadata EXCEPT ![c] = result]
        /\ sender' = caller
        /\ UNCHANGED <<oracle, fa2Ledger, fa2Operators, metadata, minted,
                       fa2Retired>>

(* update_contract_metadata *)
UpdateContractMetadata(c, caller, new) ==
    /\ caller = oracle[c]
    /\ metadata' = [metadata EXCEPT ![c] = new]
    /\ sender' = caller
    /\ UNCHANGED <<oracle, fa2Ledger, fa2Operators, tokenMetadata, minted,
                   fa2Retired>>

(* update_oracle *)
UpdateOracle(c, caller, newOracle) ==
    /\ caller = oracle[c]
    /\ oracle' = [oracle EXCEPT ![c] = newOracle]
    /\ sender' = caller
    /\ UNCHANGED <<fa2Ledger, fa2Operators, tokenMetadata, metadata, minted,
                   fa2Retired>>

(* main: any entrypoint, called by caller. *)
FA2Call(c, caller) ==
    \/ \E txs \in Batches(TransferTx) : Transfer(c, caller, txs)
    \/ \E updates \in Batches(OperatorUpdate) : UpdateOperators(c, caller, updates)
    \/ \E entries \in Batches(Entry) : Mint(c, caller, entries)
    \/ \E entries \in Batches(Entry) : RetireTokens(c, caller, entries)
    \/ \E definitions \in Batches(TokenMetadata) : AddTokenId(c, caller, definitions)
    \/ \E new \in Metadata : UpdateContractMetadata(c, caller, new)
    \/ \E newOracle \in Address : UpdateOracle(c, caller, newOracle)

(* The contracts on their own: any address calls them. *)
FA2Next == \E c \in FA2s, caller \in Address : FA2Call(c, caller)

FA2Spec == FA2Init /\ [][FA2Next]_<<sender, fa2Vars>>

-----------------------------------------------------------------------------
(***************************************************************************)
(* Every credit is accounted for: whatever the oracle has minted of a token *)
(* is in somebody's balance or has left in a %retire event.  No list of    *)
(* transfers, to oneself, for nothing or with repeated entries, creates or *)
(* destroys any.                                                           *)
(***************************************************************************)
SupplyConserved ==
    \A c \in FA2s, id \in TokenIds :
        Total(Column(Address, fa2Ledger[c], id))
            + Total(Column(Address, fa2Retired[c], id))
            = minted[c][id]

(* Nobody holds a token whose id the oracle has not defined, so that what  *)
(* a balance stands for can always be looked up (view_get_metadata).       *)
OnlyDefinedTokensHeld ==
    \A c \in FA2s, o \in Address, id \in TokenIds :
        fa2Ledger[c][o, id] > 0 => tokenMetadata[c][id] # NoInfo

(***************************************************************************)
(* A balance falls only in a call of its owner or of an operator the owner *)
(* has appointed for that very token and has not removed since.            *)
(***************************************************************************)
DebitAuthorised ==
    [][\A c \in FA2s, o \in Address, id \in TokenIds :
          fa2Ledger'[c][o, id] < fa2Ledger[c][o, id]
             => MayMove(c, sender', o, id)]_<<sender, fa2Vars>>

(* What a token id stands for never changes once somebody can hold it.     *)
TokenMetadataFixed ==
    [][\A c \in FA2s, id \in TokenIds :
          tokenMetadata[c][id] # NoInfo
             => tokenMetadata'[c][id] = tokenMetadata[c][id]]_<<sender, fa2Vars>>
=============================================================================
