----------------------------- MODULE Custodian -----------------------------
(***************************************************************************)
(* src/src/custodian.mligo: the contract that holds FA2 tokens on behalf   *)
(* of parties named by their KYC, and books who owns what in a ledger of   *)
(* its own.                                                                *)
(*                                                                         *)
(* external_transfer and retire book first and then emit one operation per *)
(* FA2 contract, which Tezos executes after them: outbox holds what is     *)
(* still to execute, and before the books Tezos goes back to if one of     *)
(* them is rejected.  Here the FA2 contracts are the environment, which    *)
(* answers views and operations as it likes; X4CChain puts FA2 in its      *)
(* place.                                                                  *)
(***************************************************************************)
EXTENDS Tezos

CONSTANTS
    Kycs,               \* the parties the custodian holds credits for
    Self,               \* Bytes.pack "self": what is not assigned to a party
    NoView,             \* call_view's None
    NoCall,             \* no operation is executing
    SyncBatches,        \* the lists internal_mint is called with
    MaxKycOperators     \* bound: size of the operator set

ASSUME CustodianAssumption ==
    /\ IsFiniteSet(Kycs)
    /\ Self \in Kycs
    /\ NoView \notin Nat
    /\ SyncBatches \subseteq Seq(Token)
    /\ MaxKycOperators \in Nat

VARIABLES
    custodian,          \* the contract's admin
    ledger,             \* what each party owns of each token
    externalLedger,     \* what the custodian believes to hold of each token
    operators,          \* who may move a party's credits
    outbox,             \* operations emitted and not executed yet
    before              \* the books before the call that is executing

custodianVars == <<custodian, ledger, externalLedger, operators, outbox, before>>

KycLedger == [Kycs \X Token -> Nat]
ExternalLedger == [Token -> Nat]
Books == [ledger : KycLedger, external_ledger : ExternalLedger]

(* A failure is told apart from every storage. *)
ASSUME BooksAssumption == Failed \notin Books

(* The key of a grant names a token id, and no token_address. *)
KycOperator == [token_owner : Kycs, token_operator : Address,
                token_id : TokenIds]

(* The parameters.  Lists per token_address are kept, since an operation is *)
(* emitted for each; the lists per giver inside them are flattened.        *)
InternalTransferTx == [from : Kycs, to : Kycs, token : Token, amount : Amounts]
ExternalTransferTx == [from : Kycs, to : Address, token_id : TokenIds,
                       amount : Amounts]
RetireTx == [from : Kycs, token_id : TokenIds, amount : Amounts]
KycOperatorUpdate == [add : BOOLEAN, operator : KycOperator]
SyncUpdate == [token : Token, amount : Nat]

Groups(tx) == [token_address : TokenAddress, txs : Batches(tx)]
GroupBatches(tx) ==
    {list \in Batches(Groups(tx)) :
        Total([i \in DOMAIN list |-> Len(list[i].txs)]) <= MaxBatch}
ExternalTransfers == GroupBatches(ExternalTransferTx)
Retirements == GroupBatches(RetireTx)

(* The operations the contract emits to FA2 contracts. *)
FA2Transfer == [from : {CustodianContract}, to : Address, token_id : TokenIds,
                amount : Amounts]
FA2Entry == [owner : {CustodianContract}, token_id : TokenIds, amount : Amounts]
Operation == [entrypoint : {"transfer"}, target : FA2s, txs : Seq(FA2Transfer)]
        \cup [entrypoint : {"retire"}, target : FA2s, txs : Seq(FA2Entry)]

CustodianTypeOK ==
    /\ sender \in Address
    /\ custodian \in Address
    /\ ledger \in KycLedger
    /\ externalLedger \in ExternalLedger
    /\ operators \in SUBSET KycOperator
    /\ outbox \in Seq(Operation)
    /\ before \in Books \cup {NoCall}
    /\ outbox # <<>> => before \in Books

CustodianInit ==
    /\ sender \in Wallets
    /\ custodian \in Wallets
    /\ ledger = [kt \in Kycs \X Token |-> 0]
    /\ externalLedger = [t \in Token |-> 0]
    /\ operators = {}
    /\ outbox = <<>>
    /\ before = NoCall

-----------------------------------------------------------------------------
(* The custodian itself, or is_operator. *)
MayActFor(caller, kyc, id) ==
    \/ caller = custodian
    \/ [token_owner |-> kyc, token_operator |-> caller, token_id |-> id]
          \in operators

CurrentBooks == [ledger |-> ledger, external_ledger |-> externalLedger]

(* A call that emits nothing to execute is over; another one is under way. *)
Emit(operations) ==
    /\ outbox' = operations
    /\ before' = IF operations = <<>> THEN NoCall ELSE CurrentBooks

-----------------------------------------------------------------------------
(* Mutant: both new balances are computed from the old ledger. *)
InternalTransferStepStale == [l \in KycLedger |-> [tx \in InternalTransferTx |->
    IF l[tx.from, tx.token] < tx.amount THEN Failed
    ELSE [l EXCEPT ![<<tx.to, tx.token>>] = @ + tx.amount,
                   ![<<tx.from, tx.token>>] = l[tx.from, tx.token] - tx.amount]]]

(* internal_transfer: the receiver is credited before the giver is debited. *)
InternalTransferStep == [l \in KycLedger |-> [tx \in InternalTransferTx |->
    UpdateBalance(<<tx.from, tx.token>>, -tx.amount,
        UpdateBalance(<<tx.to, tx.token>>, tx.amount, l))]]

(* Mutant: it is the receiver who must have appointed the caller. *)
InternalTransferByReceiver(caller, txs) ==
    LET result == ListFold(InternalTransferStep, ledger, txs)
    IN  /\ \A i \in DOMAIN txs : MayActFor(caller, txs[i].to, txs[i].token[2])
        /\ result # Failed
        /\ ledger' = result
        /\ sender' = caller
        /\ UNCHANGED <<custodian, externalLedger, operators, outbox, before>>

InternalTransfer(caller, txs) ==
    LET result == ListFold(InternalTransferStep, ledger, txs)
    IN  /\ \A i \in DOMAIN txs : MayActFor(caller, txs[i].from, txs[i].token[2])
        /\ result # Failed
        /\ ledger' = result
        /\ sender' = caller
        /\ UNCHANGED <<custodian, externalLedger, operators, outbox, before>>

(* Mutant: a sync books the whole balance again. *)
SyncUpdatesWhole(tokens, view) ==
    [i \in DOMAIN tokens |-> [token |-> tokens[i], amount |-> view[tokens[i]]]]

(***************************************************************************)
(* internal_mint: reads the custodian's balance of each listed token from  *)
(* its FA2 contract and books what it does not know of yet on Self.  Every *)
(* difference is taken against the books before the call; the updates are  *)
(* then applied one after the other.                                       *)
(***************************************************************************)
SyncUpdates(tokens, view) ==
    [i \in DOMAIN tokens |-> [token |-> tokens[i],
        amount |-> view[tokens[i]] - externalLedger[tokens[i]]]]

SyncStep == [b \in Books |-> [u \in SyncUpdate |->
    [ledger |-> UpdateBalance(<<Self, u.token>>, u.amount, b.ledger),
     external_ledger |-> UpdateBalance(u.token, u.amount, b.external_ledger)]]]

InternalMint(caller, tokens, view) ==
    /\ caller = custodian
    /\ \A i \in DOMAIN tokens : /\ view[tokens[i]] # NoView
                                /\ view[tokens[i]] >= externalLedger[tokens[i]]
    /\ LET result == ListFold(SyncStep, CurrentBooks, SyncUpdates(tokens, view))
       IN  /\ ledger' = result.ledger
           /\ externalLedger' = result.external_ledger
    /\ sender' = caller
    /\ UNCHANGED <<custodian, operators, outbox, before>>

(* Mutant: the external ledger is not lowered. *)
DebitLedgerOnly(b, kyc, token, amount) ==
    LET l == UpdateBalance(<<kyc, token>>, -amount, b.ledger)
    IN  IF l = Failed THEN Failed
        ELSE [ledger |-> l, external_ledger |-> b.external_ledger]

(* Credits leave the party's balance and the external ledger together. *)
DebitBooks(b, kyc, token, amount) ==
    LET l == UpdateBalance(<<kyc, token>>, -amount, b.ledger)
        e == UpdateBalance(token, -amount, b.external_ledger)
    IN  IF l = Failed \/ e = Failed THEN Failed
        ELSE [ledger |-> l, external_ledger |-> e]

(* The nested folds of external_transfer and retire. *)
DebitTxs(tx, address) == [b \in Books |-> [x \in tx |->
    DebitBooks(b, x.from, <<address, x.token_id>>, x.amount)]]

(* Mutant: every group starts over from the books before the call. *)
DebitGroupsAfresh(tx) == [b \in Books |-> [g \in [token_address : TokenAddress, txs : Seq(tx)] |->
    ListFold(DebitTxs(tx, g.token_address), CurrentBooks, g.txs)]]

DebitGroups(tx) == [b \in Books |-> [g \in [token_address : TokenAddress, txs : Seq(tx)] |->
    ListFold(DebitTxs(tx, g.token_address), b, g.txs)]]

BooksBecome(result) ==
    /\ result # Failed
    /\ ledger' = result.ledger
    /\ externalLedger' = result.external_ledger

(* One %transfer per group, of the contract's own tokens. *)
TransferOperations(groups) == [i \in DOMAIN groups |->
    [entrypoint |-> "transfer", target |-> groups[i].token_address,
     txs |-> [j \in DOMAIN groups[i].txs |->
        [from |-> CustodianContract, to |-> groups[i].txs[j].to,
         token_id |-> groups[i].txs[j].token_id,
         amount |-> groups[i].txs[j].amount]]]]

(* Mutant: a party's operator may send its credits out of custody. *)
ExternalTransferByOperator(caller, groups) ==
    /\ \A i \in DOMAIN groups : \A j \in DOMAIN groups[i].txs :
          MayActFor(caller, groups[i].txs[j].from, groups[i].txs[j].token_id)
    /\ BooksBecome(ListFold(DebitGroups(ExternalTransferTx), CurrentBooks, groups))
    /\ \A i \in DOMAIN groups : groups[i].token_address \in FA2s
    /\ Emit(TransferOperations(groups))
    /\ sender' = caller
    /\ UNCHANGED <<custodian, operators>>

(* external_transfer: the custodian alone; %transfer of each FA2 contract. *)
ExternalTransfer(caller, groups) ==
    /\ caller = custodian
    /\ BooksBecome(ListFold(DebitGroups(ExternalTransferTx), CurrentBooks, groups))
    /\ \A i \in DOMAIN groups : groups[i].token_address \in FA2s
    /\ Emit(TransferOperations(groups))
    /\ sender' = caller
    /\ UNCHANGED <<custodian, operators>>

(* One %retire per group, of the contract's own tokens. *)
RetireOperations(groups) == [i \in DOMAIN groups |->
    [entrypoint |-> "retire", target |-> groups[i].token_address,
     txs |-> [j \in DOMAIN groups[i].txs |->
        [owner |-> CustodianContract,
         token_id |-> groups[i].txs[j].token_id,
         amount |-> groups[i].txs[j].amount]]]]

(* retire: the custodian or the party's operator; %retire of each contract. *)
Retire(caller, groups) ==
    /\ \A i \in DOMAIN groups : \A j \in DOMAIN groups[i].txs :
          MayActFor(caller, groups[i].txs[j].from, groups[i].txs[j].token_id)
    /\ BooksBecome(ListFold(DebitGroups(RetireTx), CurrentBooks, groups))
    /\ \A i \in DOMAIN groups : groups[i].token_address \in FA2s
    /\ Emit(RetireOperations(groups))
    /\ sender' = caller
    /\ UNCHANGED <<custodian, operators>>

(* Mutant: the last group's events replace those of the others. *)
RetireEventsLastGroup(groups) == [kt \in Kycs \X Token |->
    Total([i \in DOMAIN groups |->
        IF i = Len(groups) /\ groups[i].token_address = kt[2][1]
        THEN Total([j \in DOMAIN groups[i].txs |->
                IF /\ groups[i].txs[j].from = kt[1]
                   /\ groups[i].txs[j].token_id = kt[2][2]
                THEN groups[i].txs[j].amount ELSE 0])
        ELSE 0])]

(* The amounts of the custodian's own %retire events, per party and token. *)
RetireEvents(groups) == [kt \in Kycs \X Token |->
    Total([i \in DOMAIN groups |->
        IF groups[i].token_address = kt[2][1]
        THEN Total([j \in DOMAIN groups[i].txs |->
                IF /\ groups[i].txs[j].from = kt[1]
                   /\ groups[i].txs[j].token_id = kt[2][2]
                THEN groups[i].txs[j].amount ELSE 0])
        ELSE 0])]

(* update_internal_operators: the custodian alone, for any party. *)
KycOperatorStep == [ops \in SUBSET KycOperator |-> [u \in KycOperatorUpdate |->
    IF u.add THEN ops \cup {u.operator} ELSE ops \ {u.operator}]]

UpdateInternalOperators(caller, updates) ==
    /\ caller = custodian
    /\ operators' = ListFold(KycOperatorStep, operators, updates)
    /\ Cardinality(operators') <= MaxKycOperators
    /\ sender' = caller
    /\ UNCHANGED <<custodian, ledger, externalLedger, outbox, before>>

(* update_custodian: the operators stay. *)
UpdateCustodian(caller, newCustodian) ==
    /\ caller = custodian
    /\ custodian' = newCustodian
    /\ sender' = caller
    /\ UNCHANGED <<ledger, externalLedger, operators, outbox, before>>

(* The entrypoints other than retire, called between two operations. *)
LedgerCall(caller, view) ==
    /\ outbox = <<>>
    /\ \/ \E txs \in Batches(InternalTransferTx) : InternalTransfer(caller, txs)
       \/ \E tokens \in SyncBatches : InternalMint(caller, tokens, view)
       \/ \E groups \in ExternalTransfers : ExternalTransfer(caller, groups)
       \/ \E updates \in Batches(KycOperatorUpdate) : UpdateInternalOperators(caller, updates)
       \/ \E newCustodian \in Address : UpdateCustodian(caller, newCustodian)

RetireCall(caller, groups) == outbox = <<>> /\ Retire(caller, groups)

-----------------------------------------------------------------------------
(* The emitted operations, executed by Tezos in order. *)

(* The first operation is applied; with the last one the call is over. *)
OperationApplied ==
    /\ outbox # <<>>
    /\ outbox' = Tail(outbox)
    /\ before' = IF Tail(outbox) = <<>> THEN NoCall ELSE before
    /\ sender' = CustodianContract
    /\ UNCHANGED <<custodian, ledger, externalLedger, operators>>

(* The first operation is rejected, and everything the call did undone. *)
OperationRejected ==
    /\ outbox # <<>>
    /\ outbox' = <<>>
    /\ before' = NoCall
    /\ ledger' = before.ledger
    /\ externalLedger' = before.external_ledger
    /\ sender' = CustodianContract
    /\ UNCHANGED <<custodian, operators>>

(* The contract on its own: any wallet calls it, any answer comes back. *)
Views == {view \in [Token -> Amounts \cup {NoView}] :
             \A t \in Token : t[1] \notin FA2s => view[t] = NoView}

CustodianNext ==
    \/ \E caller \in Wallets, view \in Views : LedgerCall(caller, view)
    \/ \E caller \in Wallets, groups \in Retirements : RetireCall(caller, groups)
    \/ OperationApplied
    \/ OperationRejected

CustodianSpec == CustodianInit /\ [][CustodianNext]_<<sender, custodianVars>>

-----------------------------------------------------------------------------
(***************************************************************************)
(* The two ledgers agree: what the parties and Self own of a token adds up *)
(* to the external ledger, whatever the FA2 contracts answer, also while   *)
(* operations execute and after a rejection.                               *)
(***************************************************************************)
BooksBalance(b) ==
    \A t \in Token : Total(Column(Kycs, b.ledger, t)) = b.external_ledger[t]

LedgerSumsToExternal == BooksBalance(CurrentBooks)

(***************************************************************************)
(* A party's balance falls only in a call of the custodian or of an        *)
(* operator appointed for the party, or when a rejection undoes a call.    *)
(***************************************************************************)
HolderDebitAuthorised ==
    [][\A k \in Kycs, t \in Token :
          (outbox = <<>> /\ ledger'[k, t] < ledger[k, t])
             => MayActFor(sender', k, t[2])]_<<sender, custodianVars>>

(***************************************************************************)
(* What a caller other than the custodian takes out of the external ledger *)
(* it retires: the same call emits %retire operations for exactly as much. *)
(* An operator can never send credits out of custody.                      *)
(***************************************************************************)
RetiredBy(operations, t) ==
    Total([i \in DOMAIN operations |->
        IF operations[i].entrypoint = "retire" /\ operations[i].target = t[1]
        THEN Total([j \in DOMAIN operations[i].txs |->
                IF operations[i].txs[j].token_id = t[2]
                THEN operations[i].txs[j].amount ELSE 0])
        ELSE 0])

OperatorsOnlyRetire ==
    [][(outbox = <<>> /\ sender' # custodian) =>
          \A t \in Token :
             externalLedger[t] - externalLedger'[t] = RetiredBy(outbox', t)
      ]_<<sender, custodianVars>>
=============================================================================
