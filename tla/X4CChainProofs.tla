--------------------------- MODULE X4CChainProofs ---------------------------
(***************************************************************************)
(* The two contracts together, for any wallets, FA2 contracts, parties and *)
(* tokens and lists of any length, over calls of several operations, of    *)
(* which any may be rejected.                                              *)
(***************************************************************************)
EXTENDS X4CChain, ContractProofs

(* What Tezos goes back to: books in which credits are accounted for. *)
Snapshot == [fa2Ledger : [FA2s -> FA2Ledger], fa2Retired : [FA2s -> FA2Ledger],
             kycRetired : KycLedger]

AccountedIn(snapshot) ==
    \A c \in FA2s :
        Accounted(snapshot.fa2Ledger[c], snapshot.fa2Retired[c], minted[c])

(* Nobody has been made an operator of the custodian contract's tokens.    *)
NoOperatorOfCustody ==
    \A c \in FA2s : \A o \in fa2Operators[c] : o.token_owner # CustodianContract

ChainInv ==
    /\ FA2Inv
    /\ CustodianInv
    /\ kycRetired \in KycLedger
    /\ outbox # <<>> => chainBefore \in Snapshot /\ AccountedIn(chainBefore)
    /\ NoOperatorOfCustody

LEMMA CustodianStutterInv ==
    ASSUME CustodianInv, UNCHANGED custodianVars, sender' \in Address
    PROVE  CustodianInv'
BY DEF CustodianInv, CustodianTypeOK, CurrentBooks, custodianVars

(* The answers internal_mint gets are balances, or none. *)
LEMMA CustodianViewType ==
    ASSUME FA2Inv
    PROVE  CustodianView \in [Token -> Nat \cup {NoView}]
<1>1. ASSUME NEW t \in Token, t[1] \in FA2s
      PROVE  ViewBalanceOf(t[1], CustodianContract, t[2]) \in Nat
  <2>1. fa2Ledger[t[1]] \in FA2Ledger /\ t[2] \in TokenIds
    BY <1>1 DEF FA2Inv, FA2TypeOK, Token
  <2>2. <<CustodianContract, t[2]>> \in Owner
    BY <2>1 DEF Owner, Address
  <2>. QED BY <2>1, <2>2 DEF ViewBalanceOf, FA2Ledger
<1>. QED BY <1>1 DEF CustodianView

(* The first operation of a call, and that the FA2 contract takes its list. *)
LEMMA HeadOperation ==
    ASSUME CustodianInv, outbox # <<>>
    PROVE  /\ Head(outbox) \in Operation
           /\ Head(outbox).target \in FA2s
           /\ Head(outbox).entrypoint = "transfer" =>
                 /\ Head(outbox).txs \in Seq(FA2Transfer)
                 /\ Head(outbox).txs \in Seq(TransferTx)
           /\ Head(outbox).entrypoint = "retire" =>
                 /\ Head(outbox).txs \in Seq(FA2Entry)
                 /\ Head(outbox).txs \in Seq(Entry)
           /\ Head(outbox).entrypoint \in {"transfer", "retire"}
<1>1. outbox \in Seq(Operation)
  BY DEF CustodianInv, CustodianTypeOK
<1>2. Head(outbox) \in Operation
  BY <1>1, HeadTailProperties
<1>3. FA2Transfer \subseteq TransferTx /\ FA2Entry \subseteq Entry
  BY DEF FA2Transfer, TransferTx, FA2Entry, Entry, Address
<1>4. /\ Head(outbox).target \in FA2s
      /\ Head(outbox).entrypoint \in {"transfer", "retire"}
      /\ Head(outbox).entrypoint = "transfer" => Head(outbox).txs \in Seq(FA2Transfer)
      /\ Head(outbox).entrypoint = "retire" => Head(outbox).txs \in Seq(FA2Entry)
  BY <1>2 DEF Operation
<1>. QED BY <1>2, <1>3, <1>4, SeqMonotone

-----------------------------------------------------------------------------
(* Types, and the FA2 contracts' accounts after a rejection. *)

LEMMA ChainInitInv == ChainInit => ChainInv
<1>. SUFFICES ASSUME ChainInit PROVE ChainInv
  OBVIOUS
<1>1. FA2Inv /\ CustodianInv
  BY Originated, CustodianInitInv DEF ChainInit
<1>2. kycRetired \in KycLedger /\ outbox = <<>>
  BY DEF ChainInit, KycLedger, CustodianInit
<1>3. NoOperatorOfCustody
  BY DEF ChainInit, FA2Init, NoOperatorOfCustody
<1>. QED BY <1>1, <1>2, <1>3 DEF ChainInv

(* The owner of every grant is who asked for it, and the custodian contract *)
(* never does.                                                             *)
LEMMA CallKeepsNoOperator ==
    ASSUME FA2Inv, NoOperatorOfCustody, NEW c \in FA2s, NEW caller \in Wallets,
           FA2Call(c, caller)
    PROVE  NoOperatorOfCustody'
<1>. DEFINE Grants == {ops \in SUBSET FA2Operator :
                          \A o \in ops : o.token_owner # CustodianContract}
            Own == {u \in OperatorUpdate : u.operator.token_owner = caller}
<1>1. ASSUME NEW updates \in Batches(OperatorUpdate),
             UpdateOperators(c, caller, updates)
      PROVE  NoOperatorOfCustody'
  <2>1. /\ fa2Operators' = [fa2Operators EXCEPT ![c] =
                               ListFold(OperatorStep, fa2Operators[c], updates)]
        /\ \A i \in DOMAIN updates : updates[i].operator.token_owner = caller
    BY <1>1 DEF UpdateOperators
  <2>2. updates \in Seq(OperatorUpdate)
    BY BatchesAreSequences
  <2>3. updates \in Seq(Own)
    <3>1. \A i \in DOMAIN updates : updates[i] \in Own
      BY <2>1, <2>2
    <3>. HIDE DEF Own
    <3>. QED BY <2>2, <3>1, ListOf
  <2>4. fa2Operators \in [FA2s -> SUBSET FA2Operator] /\ fa2Operators[c] \in Grants
    BY DEF FA2Inv, FA2TypeOK, NoOperatorOfCustody
  <2>5. \A ops \in Grants, u \in Own : OperatorStep[ops][u] \in Grants
    BY TezosAssumption DEF OperatorStep, OperatorUpdate
  <2>. HIDE DEF Grants, Own
  <2>6. ListFold(OperatorStep, fa2Operators[c], updates) \in Grants
    BY <2>3, <2>4, <2>5, FoldNeverFails
  <2>7. fa2Operators'[c] \in Grants /\ \A d \in FA2s \ {c} : fa2Operators'[d] = fa2Operators[d]
    BY <2>1, <2>4, <2>6
  <2>. QED BY <2>7 DEF NoOperatorOfCustody, Grants
<1>2. CASE UNCHANGED fa2Operators
  BY <1>2 DEF NoOperatorOfCustody
<1>. QED BY <1>1, <1>2 DEF FA2Call, Transfer, Mint, RetireTokens, AddTokenId,
                          UpdateContractMetadata, UpdateOracle

LEMMA CallFA2Inv ==
    ASSUME ChainInv, NEW c \in FA2s, NEW caller \in Wallets, CallFA2(c, caller)
    PROVE  ChainInv'
<1>1. /\ outbox = <<>> /\ FA2Call(c, caller)
      /\ UNCHANGED <<custodianVars, kycRetired, chainBefore>>
  BY DEF CallFA2
<1>2. FA2Inv'
  BY <1>1, FA2CallInv DEF ChainInv, Address
<1>3. CustodianInv'
  <2>1. sender' \in Address
    BY <1>2 DEF FA2Inv, FA2TypeOK
  <2>. QED BY <1>1, <2>1, CustodianStutterInv DEF ChainInv
<1>4. NoOperatorOfCustody'
  BY <1>1, CallKeepsNoOperator DEF ChainInv
<1>5. outbox' = <<>>
  BY <1>1 DEF custodianVars
<1>. QED BY <1>1, <1>2, <1>3, <1>4, <1>5 DEF ChainInv

(* A call of the custodian leaves the FA2 contracts alone for now. *)
LEMMA CustodianCallInv ==
    ASSUME ChainInv, CustodianInv', Remember, UNCHANGED fa2Vars,
           kycRetired' \in KycLedger
    PROVE  ChainInv'
<1>1. FA2Inv'
  <2>1. sender' \in Address
    BY DEF CustodianInv, CustodianTypeOK
  <2>. QED BY <2>1, FA2StutterInv DEF ChainInv
<1>2. outbox' # <<>> => chainBefore' \in Snapshot /\ AccountedIn(chainBefore)'
  <2>. SUFFICES ASSUME outbox' # <<>>
                PROVE  chainBefore' \in Snapshot /\ AccountedIn(chainBefore)'
    OBVIOUS
  <2>1. chainBefore' = [fa2Ledger |-> fa2Ledger, fa2Retired |-> fa2Retired,
                        kycRetired |-> kycRetired]
    BY DEF Remember
  <2>2. /\ fa2Ledger \in [FA2s -> FA2Ledger] /\ fa2Retired \in [FA2s -> FA2Ledger]
        /\ kycRetired \in KycLedger
    BY DEF ChainInv, FA2Inv, FA2TypeOK
  <2>3. minted' = minted
    BY DEF fa2Vars
  <2>4. \A c \in FA2s : Accounted(fa2Ledger[c], fa2Retired[c], minted[c])
    BY BooksOf DEF ChainInv
  <2>. QED BY <2>1, <2>2, <2>3, <2>4 DEF Snapshot, AccountedIn
<1>3. NoOperatorOfCustody'
  BY DEF ChainInv, NoOperatorOfCustody, fa2Vars
<1>. QED BY <1>1, <1>2, <1>3 DEF ChainInv

LEMMA CallCustodianInv ==
    ASSUME ChainInv, NEW caller \in Wallets, CallCustodian(caller)
    PROVE  ChainInv'
<1>1. /\ LedgerCall(caller, CustodianView) /\ Remember
      /\ UNCHANGED <<fa2Vars, kycRetired>>
  BY DEF CallCustodian
<1>2. CustodianInv'
  BY <1>1, CustodianViewType, LedgerCallInv DEF ChainInv
<1>. QED BY <1>1, <1>2, CustodianCallInv DEF ChainInv

LEMMA CallRetireInv ==
    ASSUME ChainInv, NEW caller \in Wallets, NEW groups \in Retirements,
           CallRetire(caller, groups)
    PROVE  ChainInv'
<1>1. /\ outbox = <<>> /\ Retire(caller, groups) /\ Remember /\ UNCHANGED fa2Vars
      /\ kycRetired' = [kt \in Kycs \X Token |->
                           kycRetired[kt] + RetireEvents(groups)[kt]]
  BY DEF CallRetire, RetireCall
<1>2. CustodianInv'
  BY <1>1, RetireInv DEF ChainInv
<1>3. kycRetired' \in KycLedger
  <2>1. kycRetired \in [Kycs \X Token -> Nat]
    BY DEF ChainInv, KycLedger
  <2>2. \A kt \in Kycs \X Token : RetireEvents(groups)[kt] \in Nat
    BY RetireEventsNat
  <2>3. \A kt \in Kycs \X Token : kycRetired[kt] + RetireEvents(groups)[kt] \in Nat
    BY <2>1, <2>2
  <2>. QED BY <1>1, <2>3 DEF KycLedger
<1>. QED BY <1>1, <1>2, <1>3, CustodianCallInv

LEMMA ApplyInv == ASSUME ChainInv, ApplyOperation PROVE ChainInv'
<1>. DEFINE op == Head(outbox)
<1>1. /\ OperationApplied /\ outbox # <<>>
      /\ chainBefore' = IF outbox' = <<>> THEN NoCall ELSE chainBefore
      /\ UNCHANGED kycRetired
      /\ \/ /\ op.entrypoint = "transfer"
            /\ Transfer(op.target, CustodianContract, op.txs)
         \/ /\ op.entrypoint = "retire"
            /\ RetireTokens(op.target, CustodianContract, op.txs)
  BY DEF ApplyOperation, OperationApplied
<1>2. CustodianInv'
  BY <1>1, OperationAppliedInv DEF ChainInv
<1>3. op.target \in FA2s /\ CustodianContract \in Address
      /\ (op.entrypoint = "transfer" => op.txs \in Seq(TransferTx))
      /\ (op.entrypoint = "retire" => op.txs \in Seq(Entry))
  BY <1>1, HeadOperation DEF ChainInv, Address
<1>. HIDE DEF op
<1>4. FA2Inv'
  BY <1>1, <1>3, TransferInv, RetireTokensInv DEF ChainInv
<1>5. UNCHANGED <<minted, fa2Operators>>
  BY <1>1 DEF Transfer, RetireTokens
<1>6. NoOperatorOfCustody'
  BY <1>5 DEF ChainInv, NoOperatorOfCustody
<1>7. outbox' # <<>> => chainBefore' \in Snapshot /\ AccountedIn(chainBefore)'
  BY <1>1, <1>5 DEF ChainInv, AccountedIn
<1>. QED BY <1>1, <1>2, <1>4, <1>6, <1>7 DEF ChainInv

LEMMA RejectInv == ASSUME ChainInv, RejectOperation PROVE ChainInv'
<1>1. /\ OperationRejected /\ outbox # <<>> /\ outbox' = <<>>
      /\ sender' = CustodianContract
      /\ fa2Ledger' = chainBefore.fa2Ledger /\ fa2Retired' = chainBefore.fa2Retired
      /\ kycRetired' = chainBefore.kycRetired
      /\ UNCHANGED <<oracle, fa2Operators, tokenMetadata, metadata, minted>>
  BY DEF RejectOperation, OperationRejected
<1>2. CustodianInv'
  BY <1>1, OperationRejectedInv DEF ChainInv
<1>3. /\ fa2Ledger' \in [FA2s -> FA2Ledger] /\ fa2Retired' \in [FA2s -> FA2Ledger]
      /\ kycRetired' \in KycLedger
      /\ AccountedIn(chainBefore)
  BY <1>1 DEF ChainInv, Snapshot
<1>4. SupplyConserved'
  BY <1>1, <1>3 DEF AccountedIn, Accounted, SupplyConserved
<1>5. FA2Inv'
  BY <1>1, <1>3, <1>4 DEF ChainInv, FA2Inv, FA2TypeOK, Address
<1>6. NoOperatorOfCustody'
  BY <1>1 DEF ChainInv, NoOperatorOfCustody
<1>. QED BY <1>1, <1>2, <1>3, <1>5, <1>6 DEF ChainInv

LEMMA ChainNextInv ==
    ASSUME ChainInv, [ChainNext]_chainVars
    PROVE  ChainInv'
<1>1. CASE UNCHANGED chainVars
  <2>1. sender' \in Address /\ UNCHANGED <<fa2Vars, custodianVars>>
    BY <1>1 DEF ChainInv, FA2Inv, FA2TypeOK, chainVars
  <2>2. FA2Inv' /\ CustodianInv'
    BY <2>1, FA2StutterInv, CustodianStutterInv DEF ChainInv
  <2>. QED BY <1>1, <2>2 DEF ChainInv, AccountedIn, NoOperatorOfCustody,
                            chainVars, fa2Vars, custodianVars
<1>. QED BY <1>1, CallFA2Inv, CallCustodianInv, CallRetireInv, ApplyInv, RejectInv
         DEF ChainNext

(* Both contracts keep their types on one chain, also when Tezos undoes a   *)
(* call of which some operations have already been executed.               *)
THEOREM ChainTypeCorrect == ChainSpec => []ChainTypeOK
<1>1. ChainInv => ChainTypeOK
  BY DEF ChainInv, ChainTypeOK, FA2Inv, CustodianInv, Snapshot
<1>. QED BY <1>1, ChainInitInv, ChainNextInv, PTL DEF ChainSpec

-----------------------------------------------------------------------------
(* Custody. *)

(* A wallet has no say over the custodian contract's tokens. *)
LEMMA NoWalletMayMove ==
    ASSUME ChainInv, NEW c \in FA2s, NEW caller \in Wallets, NEW id
    PROVE  ~MayMove(c, caller, CustodianContract, id)
<1>1. caller # CustodianContract
  BY TezosAssumption
<1>2. [token_owner |-> CustodianContract, token_operator |-> caller,
       token_id |-> id] \notin fa2Operators[c]
  BY DEF ChainInv, NoOperatorOfCustody
<1>. QED BY <1>1, <1>2 DEF MayMove

(* The balance of the custodian contract, for a kind of credits. *)
LEMMA CustodyNat ==
    ASSUME NEW fl \in [FA2s -> FA2Ledger], NEW t \in Credit
    PROVE  fl[t[1]][<<CustodianContract, t[2]>>] \in Nat
<1>1. fl[t[1]] \in FA2Ledger /\ t[2] \in TokenIds
  BY DEF Credit
<1>2. <<CustodianContract, t[2]>> \in Owner
  BY <1>1 DEF Owner, Address
<1>. QED BY <1>1, <1>2 DEF FA2Ledger

(* What wallets call the FA2 contracts for never lowers it. *)
LEMMA WalletsSpareCustody ==
    ASSUME ChainInv, NEW c \in FA2s, NEW caller \in Wallets, FA2Call(c, caller),
           NEW t \in Credit
    PROVE  fa2Ledger'[t[1]][<<CustodianContract, t[2]>>]
              >= fa2Ledger[t[1]][<<CustodianContract, t[2]>>]
<1>. DEFINE x == fa2Ledger[t[1]][<<CustodianContract, t[2]>>]
            y == fa2Ledger'[t[1]][<<CustodianContract, t[2]>>]
<1>1. t[1] \in FA2s /\ t[2] \in TokenIds /\ CustodianContract \in Address
      /\ caller \in Address
  BY DEF Credit, Address
<1>2. ~(y < x)
  BY <1>1, NoWalletMayMove, FA2CallAuthorised DEF ChainInv
<1>3. x \in Nat /\ y \in Nat
  <2>1. FA2Inv'
    BY <1>1, FA2CallInv DEF ChainInv
  <2>2. fa2Ledger \in [FA2s -> FA2Ledger] /\ fa2Ledger' \in [FA2s -> FA2Ledger]
    BY <2>1 DEF ChainInv, FA2Inv, FA2TypeOK
  <2>. QED BY <2>2, CustodyNat
<1>. HIDE DEF x, y
<1>4. y >= x
  BY <1>2, <1>3
<1>. QED BY <1>4 DEF x, y

(***************************************************************************)
(* update_operators only lets owners speak for themselves, and no          *)
(* entrypoint of the custodian calls it: nobody can ever be appointed for  *)
(* the tokens it holds, and they leave it by its own operations only.      *)
(***************************************************************************)
THEOREM CustodyIsHeld == ChainSpec => CustodyHeld
<1>1. ASSUME ChainInv, ChainNext, outbox = <<>>, NEW t \in Credit
      PROVE  ~(fa2Ledger'[t[1]][<<CustodianContract, t[2]>>]
                  < fa2Ledger[t[1]][<<CustodianContract, t[2]>>])
  <2>1. fa2Ledger[t[1]][<<CustodianContract, t[2]>>] \in Nat
    BY CustodyNat, <1>1 DEF ChainInv, FA2Inv, FA2TypeOK
  <2>2. ASSUME NEW c \in FA2s, NEW caller \in Wallets, CallFA2(c, caller)
        PROVE  ~(fa2Ledger'[t[1]][<<CustodianContract, t[2]>>]
                    < fa2Ledger[t[1]][<<CustodianContract, t[2]>>])
    <3>1. FA2Call(c, caller) /\ FA2Inv'
      BY <1>1, <2>2, FA2CallInv DEF CallFA2, ChainInv, Address
    <3>2. fa2Ledger'[t[1]][<<CustodianContract, t[2]>>] \in Nat
      BY <3>1, CustodyNat DEF FA2Inv, FA2TypeOK
    <3>3. fa2Ledger'[t[1]][<<CustodianContract, t[2]>>]
             >= fa2Ledger[t[1]][<<CustodianContract, t[2]>>]
      BY <1>1, <3>1, WalletsSpareCustody
    <3>. QED BY <2>1, <3>2, <3>3
  <2>3. ~ApplyOperation /\ ~RejectOperation
    BY <1>1 DEF ApplyOperation, OperationApplied, RejectOperation, OperationRejected
  <2>4. CASE UNCHANGED fa2Ledger
    BY <2>1, <2>4
  <2>. QED BY <1>1, <2>2, <2>3, <2>4
           DEF ChainNext, CallCustodian, CallRetire, fa2Vars
<1>2. ChainInv /\ [ChainNext]_chainVars
         => [\A t \in Credit :
                fa2Ledger'[t[1]][CustodianContract, t[2]]
                      < fa2Ledger[t[1]][CustodianContract, t[2]]
                   => outbox # <<>>]_chainVars
  BY <1>1
<1>. QED BY <1>2, ChainInitInv, ChainNextInv, PTL DEF ChainSpec, CustodyHeld

-----------------------------------------------------------------------------
(* Lists of operations. *)

(* What a list of transfers or retirements moves of a token id. *)
OfTokenId(B, id) == [x \in B |-> IF x.token_id = id THEN x.amount ELSE 0]
AmountIn(txs, id) ==
    Total([j \in DOMAIN txs |-> IF txs[j].token_id = id THEN txs[j].amount ELSE 0])

(* What an operation retires of t, and what it takes of t from the custodian *)
(* contract, be it to retire or to transfer it.                            *)
Retiring(t) == [op \in Operation |->
    IF op.entrypoint = "retire" /\ op.target = t[1]
    THEN AmountIn(op.txs, t[2]) ELSE 0]
Takes(t) == [op \in Operation |->
    IF op.target = t[1] THEN AmountIn(op.txs, t[2]) ELSE 0]

LEMMA AmountInList ==
    ASSUME NEW B, \A x \in B : x.amount \in Nat, NEW txs \in Seq(B), NEW id
    PROVE  /\ AmountIn(txs, id) = SumOver(OfTokenId(B, id), txs)
           /\ AmountIn(txs, id) \in Nat
           /\ OfTokenId(B, id) \in [B -> Nat]
<1>1. \A j \in DOMAIN txs : txs[j] \in B
  OBVIOUS
<1>2. [j \in DOMAIN txs |-> IF txs[j].token_id = id THEN txs[j].amount ELSE 0]
         = [j \in DOMAIN txs |-> OfTokenId(B, id)[txs[j]]]
  BY <1>1 DEF OfTokenId
<1>3. OfTokenId(B, id) \in [B -> Nat] /\ OfTokenId(B, id) \in [B -> Int]
      /\ \A x \in B : OfTokenId(B, id)[x] \in Nat
  BY DEF OfTokenId
<1>4. AmountIn(txs, id) = SumOver(OfTokenId(B, id), txs)
  BY <1>2 DEF AmountIn, SumOver
<1>5. SumOver(OfTokenId(B, id), txs) \in Nat
  BY <1>3, SumOverType
<1>. QED BY <1>3, <1>4, <1>5

LEMMA OperationAmounts ==
    ASSUME NEW t
    PROVE  /\ Retiring(t) \in [Operation -> Nat] /\ Retiring(t) \in [Operation -> Int]
           /\ Takes(t) \in [Operation -> Nat] /\ Takes(t) \in [Operation -> Int]
<1>1. \A x \in FA2Transfer : x.amount \in Nat
  BY TezosAssumption DEF FA2Transfer
<1>2. \A x \in FA2Entry : x.amount \in Nat
  BY TezosAssumption DEF FA2Entry
<1>3. ASSUME NEW op \in Operation PROVE AmountIn(op.txs, t[2]) \in Nat
  <2>1. op.txs \in Seq(FA2Transfer) \/ op.txs \in Seq(FA2Entry)
    BY DEF Operation
  <2>. QED BY <1>1, <1>2, <2>1, AmountInList
<1>. QED BY <1>3 DEF Retiring, Takes

LEMMA RetiredBySum ==
    ASSUME NEW ops \in Seq(Operation), NEW t
    PROVE  RetiredBy(ops, t) = SumOver(Retiring(t), ops)
<1>1. \A i \in DOMAIN ops : ops[i] \in Operation
  OBVIOUS
<1>2. \A i \in DOMAIN ops : Retiring(t)[ops[i]] =
         IF ops[i].entrypoint = "retire" /\ ops[i].target = t[1]
         THEN Total([j \in DOMAIN ops[i].txs |->
                 IF ops[i].txs[j].token_id = t[2]
                 THEN ops[i].txs[j].amount ELSE 0])
         ELSE 0
  BY <1>1 DEF Retiring, AmountIn
<1>. QED BY <1>2 DEF RetiredBy, SumOver

(* An operation that has been executed is no longer to be. *)
LEMMA RetiredByTail ==
    ASSUME CustodianInv, outbox # <<>>, NEW t
    PROVE  /\ RetiredBy(outbox, t) = Retiring(t)[Head(outbox)] + RetiredBy(Tail(outbox), t)
           /\ RetiredBy(outbox, t) \in Nat /\ RetiredBy(Tail(outbox), t) \in Nat
           /\ Retiring(t)[Head(outbox)] \in Nat
<1>1. outbox \in Seq(Operation) /\ Tail(outbox) \in Seq(Operation)
      /\ Head(outbox) \in Operation
  BY HeadTailProperties DEF CustodianInv, CustodianTypeOK
<1>2. /\ Retiring(t) \in [Operation -> Int] /\ \A op \in Operation : Retiring(t)[op] \in Nat
  BY OperationAmounts
<1>3. /\ RetiredBy(outbox, t) = SumOver(Retiring(t), outbox)
      /\ RetiredBy(Tail(outbox), t) = SumOver(Retiring(t), Tail(outbox))
  BY <1>1, RetiredBySum
<1>4. SumOver(Retiring(t), outbox)
         = Retiring(t)[Head(outbox)] + SumOver(Retiring(t), Tail(outbox))
  BY <1>1, <1>2, SumOverTail
<1>5. SumOver(Retiring(t), outbox) \in Nat /\ SumOver(Retiring(t), Tail(outbox)) \in Nat
  BY <1>1, <1>2, SumOverType
<1>. QED BY <1>1, <1>2, <1>3, <1>4, <1>5

(* transfer operations retire nothing. *)
LEMMA TransfersRetireNothing ==
    ASSUME NEW ops \in Seq(Operation), \A i \in DOMAIN ops : ops[i].entrypoint = "transfer",
           NEW t
    PROVE  RetiredBy(ops, t) = 0
<1>. DEFINE f == [i \in DOMAIN ops |->
        IF ops[i].entrypoint = "retire" /\ ops[i].target = t[1]
        THEN Total([j \in DOMAIN ops[i].txs |->
                IF ops[i].txs[j].token_id = t[2]
                THEN ops[i].txs[j].amount ELSE 0])
        ELSE 0]
<1>1. DOMAIN ops = 1..Len(ops) /\ Len(ops) \in Nat
  OBVIOUS
<1>2. f \in [1..Len(ops) -> Int] /\ \A i \in 1..Len(ops) : f[i] = 0
  BY <1>1
<1>3. RetiredBy(ops, t) = Total(f) /\ IsFiniteSet(1..Len(ops))
  BY <1>1, FS_Interval DEF RetiredBy
<1>. HIDE DEF f
<1>. QED BY <1>2, <1>3, TotalZero

-----------------------------------------------------------------------------
(* The two streams of %retire events. *)

(* What a list of events counts for an owner and a token id. *)
CreditedTo(o, id) ==
    [e \in Entry |-> IF e.owner = o /\ e.token_id = id THEN e.amount ELSE 0]

LEMMA CreditsOf ==
    ASSUME NEW l \in FA2Ledger, NEW entries \in Seq(Entry),
           NEW o \in Address, NEW id \in TokenIds
    PROVE  ListFold(CreditStep, l, entries)[<<o, id>>] =
              l[<<o, id>>] + SumOver(CreditedTo(o, id), entries)
<1>. DEFINE key == <<o, id>>
<1>1. key \in Owner /\ FA2Ledger = [Owner -> Nat]
  BY DEF Owner, FA2Ledger
<1>2. PICK m \in [FA2Ledger -> Int] : \A k \in FA2Ledger : m[k] = k[key]
  <2>1. [k \in FA2Ledger |-> k[key]] \in [FA2Ledger -> Int]
    BY <1>1
  <2>. QED BY <2>1
<1>3. CreditedTo(o, id) \in [Entry -> Int]
  <2>1. ASSUME NEW e \in Entry PROVE e.amount \in Nat
    BY TezosAssumption DEF Entry
  <2>2. \A e \in Entry : e.amount \in Int
    BY <2>1
  <2>. QED BY <2>2 DEF CreditedTo
<1>4. Adds(FA2Ledger, Entry, CreditStep, m, CreditedTo(o, id))
  <2>. SUFFICES ASSUME NEW k \in FA2Ledger, NEW e \in Entry
                PROVE  m[CreditStep[k][e]] = m[k] + CreditedTo(o, id)[e]
    BY DEF Adds
  <2>. DEFINE taker == <<e.owner, e.token_id>>
  <2>1. e.owner \in Address /\ e.token_id \in TokenIds /\ e.amount \in Nat
    BY TezosAssumption DEF Entry
  <2>2. taker \in Owner /\ (taker = key <=> e.owner = o /\ e.token_id = id)
    BY <2>1 DEF Owner
  <2>3. CreditStep[k][e] = UpdateBalance(taker, e.amount, k)
    BY DEF CreditStep
  <2>4. CreditedTo(o, id)[e] = IF taker = key THEN e.amount ELSE 0
    BY <2>2 DEF CreditedTo
  <2>. HIDE DEF taker, key
  <2>5. k[taker] \in Nat /\ k[key] \in Nat /\ k[taker] + e.amount \in Nat
    BY <1>1, <2>1, <2>2
  <2>6. CreditStep[k][e] = [k EXCEPT ![taker] = @ + e.amount]
    BY <2>1, <2>3, <2>5 DEF UpdateBalance
  <2>7. CreditStep[k][e] \in FA2Ledger
    BY <1>1, <2>2, <2>5, <2>6
  <2>8. CreditStep[k][e][key] = k[key] + IF taker = key THEN e.amount ELSE 0
    BY <1>1, <2>2, <2>5, <2>6
  <2>. QED BY <1>2, <2>4, <2>7, <2>8
<1>5. ListFold(CreditStep, l, entries) # Failed
  <2>1. \A k \in FA2Ledger, e \in Entry : CreditStep[k][e] \in FA2Ledger
    BY CreditShifts, ShiftStaysLedger
  <2>2. ListFold(CreditStep, l, entries) \in FA2Ledger
    BY <2>1, FoldNeverFails
  <2>. QED BY <2>2, FailureAssumption
<1>. HIDE DEF key
<1>6. /\ ListFold(CreditStep, l, entries) \in FA2Ledger
      /\ m[ListFold(CreditStep, l, entries)] = m[l] + SumOver(CreditedTo(o, id), entries)
  BY <1>3, <1>4, <1>5, CreditStaysIn, FoldSums
<1>. QED BY <1>2, <1>6 DEF key

(* Entries of others count nothing for o; the custodian's entries count     *)
(* for it in full.                                                         *)
LEMMA CreditedToOthers ==
    ASSUME NEW entries \in Seq(Entry), NEW o, NEW id,
           \A i \in DOMAIN entries : entries[i].owner # o
    PROVE  SumOver(CreditedTo(o, id), entries) = 0
<1>. DEFINE f == [i \in DOMAIN entries |-> CreditedTo(o, id)[entries[i]]]
<1>1. DOMAIN entries = 1..Len(entries) /\ Len(entries) \in Nat
      /\ \A i \in DOMAIN entries : entries[i] \in Entry
  OBVIOUS
<1>2. f \in [1..Len(entries) -> Int] /\ \A i \in 1..Len(entries) : f[i] = 0
  BY <1>1 DEF CreditedTo
<1>3. SumOver(CreditedTo(o, id), entries) = Total(f) /\ IsFiniteSet(1..Len(entries))
  BY <1>1, FS_Interval DEF SumOver
<1>. HIDE DEF f
<1>. QED BY <1>2, <1>3, TotalZero

LEMMA CreditedToCustodian ==
    ASSUME NEW entries \in Seq(FA2Entry), NEW id
    PROVE  SumOver(CreditedTo(CustodianContract, id), entries) = AmountIn(entries, id)
<1>1. \A e \in FA2Entry : e \in Entry /\ e.owner = CustodianContract
  BY DEF FA2Entry, Entry, Address
<1>2. \A i \in DOMAIN entries :
         CreditedTo(CustodianContract, id)[entries[i]] =
            IF entries[i].token_id = id THEN entries[i].amount ELSE 0
  <2>1. \A i \in DOMAIN entries : entries[i] \in FA2Entry
    OBVIOUS
  <2>. QED BY <1>1, <2>1 DEF CreditedTo
<1>. QED BY <1>2 DEF SumOver, AmountIn

(***************************************************************************)
(* The invariant behind RetireEventsAgree: what the custodian's events say *)
(* is what the FA2 contracts' events say and what is still to execute, and *)
(* in what Tezos goes back to nothing is.                                  *)
(***************************************************************************)
EventsInv ==
    /\ \A t \in Credit :
          Total(Column(Kycs, kycRetired, t)) =
             fa2Retired[t[1]][<<CustodianContract, t[2]>>] + RetiredBy(outbox, t)
    /\ outbox # <<>> => \A t \in Credit :
          Total(Column(Kycs, chainBefore.kycRetired, t)) =
             chainBefore.fa2Retired[t[1]][<<CustodianContract, t[2]>>]

(* Wallets cannot retire the custodian contract's tokens. *)
LEMMA WalletsRetireElsewhere ==
    ASSUME ChainInv, NEW c \in FA2s, NEW caller \in Wallets, FA2Call(c, caller),
           NEW t \in Credit
    PROVE  fa2Retired'[t[1]][<<CustodianContract, t[2]>>]
              = fa2Retired[t[1]][<<CustodianContract, t[2]>>]
<1>1. CASE UNCHANGED fa2Retired
  BY <1>1
<1>2. ASSUME NEW entries \in Batches(Entry), RetireTokens(c, caller, entries)
      PROVE  fa2Retired'[t[1]][<<CustodianContract, t[2]>>]
                = fa2Retired[t[1]][<<CustodianContract, t[2]>>]
  <2>. DEFINE r == ListFold(CreditStep, fa2Retired[c], entries)
  <2>1. /\ fa2Retired' = [fa2Retired EXCEPT ![c] = r]
        /\ \A i \in DOMAIN entries :
              MayMove(c, caller, entries[i].owner, entries[i].token_id)
    BY <1>2 DEF RetireTokens, RetireResult
  <2>2. \A i \in DOMAIN entries : entries[i].owner # CustodianContract
    BY <2>1, NoWalletMayMove
  <2>3. /\ entries \in Seq(Entry) /\ CustodianContract \in Address
        /\ t[2] \in TokenIds /\ t[1] \in FA2s
        /\ fa2Retired \in [FA2s -> FA2Ledger] /\ fa2Retired[c] \in FA2Ledger
    BY BatchesAreSequences DEF Address, Credit, ChainInv, FA2Inv, FA2TypeOK
  <2>4. r[<<CustodianContract, t[2]>>] =
           fa2Retired[c][<<CustodianContract, t[2]>>] + 0
    BY <2>2, <2>3, CreditsOf, CreditedToOthers
  <2>5. fa2Retired[c][<<CustodianContract, t[2]>>] \in Nat
    BY <2>3 DEF FA2Ledger, Owner
  <2>. HIDE DEF r
  <2>. QED BY <2>1, <2>3, <2>4, <2>5
<1>. QED BY <1>1, <1>2 DEF FA2Call, Transfer, UpdateOperators, Mint, AddTokenId,
                          UpdateContractMetadata, UpdateOracle

(* A call other than retire emits nothing that retires. *)
LEMMA LedgerCallRetiresNothing ==
    ASSUME CustodianInv', NEW caller, NEW view, LedgerCall(caller, view), NEW t
    PROVE  RetiredBy(outbox', t) = 0
<1>1. CASE outbox' = <<>>
  BY <1>1, NothingEmitted
<1>2. ASSUME NEW groups \in ExternalTransfers, ExternalTransfer(caller, groups)
      PROVE  RetiredBy(outbox', t) = 0
  <2>1. outbox' = TransferOperations(groups)
    BY <1>2 DEF ExternalTransfer, Emit
  <2>2. \A i \in DOMAIN outbox' : outbox'[i].entrypoint = "transfer"
    BY <2>1 DEF TransferOperations
  <2>3. outbox' \in Seq(Operation)
    BY DEF CustodianInv, CustodianTypeOK
  <2>. QED BY <2>2, <2>3, TransfersRetireNothing
<1>. QED BY <1>1, <1>2 DEF LedgerCall, InternalTransfer, InternalMint,
                          UpdateInternalOperators, UpdateCustodian

(* A call of retire says in its events what it emits in its operations: the *)
(* parties' balances fall by the one, the external ledger by the other.    *)
LEMMA RetireEventsAdd ==
    ASSUME ChainInv, NEW caller \in Wallets, NEW groups \in Retirements,
           CallRetire(caller, groups), NEW t \in Token
    PROVE  Total(Column(Kycs, kycRetired', t)) =
              Total(Column(Kycs, kycRetired, t)) + RetiredBy(outbox', t)
<1>. DEFINE f == Column(Kycs, kycRetired, t)
            h == Column(Kycs, kycRetired', t)
            g == Column(Kycs, ledger, t)
            e == Column(Kycs, ledger', t)
<1>1. /\ Retire(caller, groups)
      /\ kycRetired' = [kt \in Kycs \X Token |->
                           kycRetired[kt] + RetireEvents(groups)[kt]]
      /\ outbox' = RetireOperations(groups)
  BY DEF CallRetire, RetireCall, Retire, Emit
<1>2. CustodianInv /\ CustodianInv' /\ kycRetired \in KycLedger /\ kycRetired' \in KycLedger
  <2>1. ChainInv'
    BY CallRetireInv
  <2>. QED BY <2>1 DEF ChainInv
<1>3. /\ ledger \in [Kycs \X Token -> Nat] /\ ledger' \in [Kycs \X Token -> Nat]
      /\ kycRetired \in [Kycs \X Token -> Nat] /\ kycRetired' \in [Kycs \X Token -> Nat]
      /\ IsFiniteSet(Kycs)
  BY <1>2, CustodianAssumption DEF CustodianInv, CustodianTypeOK, KycLedger
<1>4. /\ RetiredBy(outbox', t) = externalLedger[t] - externalLedger'[t]
      /\ \A k \in Kycs : RetireEvents(groups)[<<k, t>>] =
            ledger[<<k, t>>] - ledger'[<<k, t>>]
  BY <1>1, <1>2, RetireTakes
<1>5. /\ Total(g) = externalLedger[t] /\ Total(e) = externalLedger'[t]
      /\ externalLedger[t] \in Nat /\ externalLedger'[t] \in Nat
  BY <1>2 DEF CustodianInv, CustodianTypeOK, ExternalLedger, BalancedBooks,
              BooksBalance, CurrentBooks
<1>6. /\ f \in [Kycs -> Int] /\ h \in [Kycs -> Int]
      /\ g \in [Kycs -> Int] /\ e \in [Kycs -> Int]
      /\ Total(f) \in Nat /\ Total(h) \in Nat
  <2>1. /\ f \in [Kycs -> Nat] /\ Total(f) \in Nat
        /\ h \in [Kycs -> Nat] /\ Total(h) \in Nat
    BY <1>3, ColumnType
  <2>2. g \in [Kycs -> Nat] /\ e \in [Kycs -> Nat]
    BY <1>3, ColumnType
  <2>. HIDE DEF f, g, h, e
  <2>. QED BY <2>1, <2>2
<1>7. \A k \in Kycs : h[k] + e[k] = f[k] + g[k]
  <2>. SUFFICES ASSUME NEW k \in Kycs PROVE h[k] + e[k] = f[k] + g[k]
    OBVIOUS
  <2>1. /\ h[k] = kycRetired[<<k, t>>] + RetireEvents(groups)[<<k, t>>]
        /\ f[k] = kycRetired[<<k, t>>]
        /\ g[k] = ledger[<<k, t>>] /\ e[k] = ledger'[<<k, t>>]
    BY <1>1 DEF Column
  <2>2. /\ kycRetired[<<k, t>>] \in Nat /\ ledger[<<k, t>>] \in Nat
        /\ ledger'[<<k, t>>] \in Nat
    BY <1>3
  <2>. HIDE DEF f, g, h, e
  <2>. QED BY <1>4, <2>1, <2>2
<1>. HIDE DEF f, g, h, e
<1>8. [k \in Kycs |-> h[k] + e[k]] = [k \in Kycs |-> f[k] + g[k]]
  BY <1>7
<1>9. Total(h) + Total(e) = Total(f) + Total(g)
  <2>1. Total([k \in Kycs |-> h[k] + e[k]]) = Total(h) + Total(e)
    BY <1>3, <1>6, TotalAdd
  <2>2. Total([k \in Kycs |-> f[k] + g[k]]) = Total(f) + Total(g)
    BY <1>3, <1>6, TotalAdd
  <2>. QED BY <1>8, <2>1, <2>2
<1>10. Total(h) = Total(f) + RetiredBy(outbox', t)
  BY <1>4, <1>5, <1>6, <1>9
<1>. QED BY <1>10 DEF f, h

(* A %retire operation that is executed says in the FA2 contract's events   *)
(* what it was emitted for.                                                *)
LEMMA ApplyRetires ==
    ASSUME ChainInv, ApplyOperation, NEW t \in Credit
    PROVE  fa2Retired'[t[1]][<<CustodianContract, t[2]>>] =
              fa2Retired[t[1]][<<CustodianContract, t[2]>>] + Retiring(t)[Head(outbox)]
<1>. DEFINE op == Head(outbox)
            r == ListFold(CreditStep, fa2Retired[op.target], op.txs)
            key == <<CustodianContract, t[2]>>
<1>1. /\ outbox # <<>>
      /\ \/ op.entrypoint = "transfer" /\ Transfer(op.target, CustodianContract, op.txs)
         \/ op.entrypoint = "retire" /\ RetireTokens(op.target, CustodianContract, op.txs)
  BY DEF ApplyOperation, OperationApplied
<1>2. /\ op \in Operation /\ op.target \in FA2s
      /\ op.entrypoint = "retire" => /\ op.txs \in Seq(FA2Entry)
                                     /\ op.txs \in Seq(Entry)
  BY <1>1, HeadOperation DEF ChainInv
<1>3. /\ t[1] \in FA2s /\ t[2] \in TokenIds /\ CustodianContract \in Address
      /\ fa2Retired \in [FA2s -> FA2Ledger] /\ key \in Owner
  BY DEF Credit, Address, Owner, ChainInv, FA2Inv, FA2TypeOK
<1>4. fa2Retired[t[1]][key] \in Nat
  BY <1>3 DEF FA2Ledger
<1>5. CASE op.entrypoint = "transfer"
  <2>1. Retiring(t)[op] = 0 /\ fa2Retired' = fa2Retired
    BY <1>1, <1>2, <1>5 DEF Retiring, Transfer
  <2>. HIDE DEF op, key
  <2>2. fa2Retired'[t[1]][key] = fa2Retired[t[1]][key] + Retiring(t)[op]
    BY <1>4, <2>1
  <2>. QED BY <2>2 DEF op, key
<1>6. CASE op.entrypoint = "retire"
  <2>1. fa2Retired' = [fa2Retired EXCEPT ![op.target] = r]
    BY <1>1, <1>6 DEF RetireTokens
  <2>2. fa2Retired[op.target] \in FA2Ledger
    BY <1>2, <1>3
  <2>3. r[key] = fa2Retired[op.target][key] + AmountIn(op.txs, t[2])
    <3>1. op.txs \in Seq(FA2Entry) /\ op.txs \in Seq(Entry)
      BY <1>2, <1>6
    <3>2. r[key] = fa2Retired[op.target][key]
                      + SumOver(CreditedTo(CustodianContract, t[2]), op.txs)
      BY <1>3, <2>2, <3>1, CreditsOf
    <3>3. SumOver(CreditedTo(CustodianContract, t[2]), op.txs) = AmountIn(op.txs, t[2])
      BY <3>1, CreditedToCustodian
    <3>. QED BY <3>2, <3>3
  <2>4. Retiring(t)[op] = IF op.target = t[1] THEN AmountIn(op.txs, t[2]) ELSE 0
    BY <1>2, <1>6 DEF Retiring
  <2>. HIDE DEF op, r, key
  <2>5. fa2Retired'[t[1]][key] = fa2Retired[t[1]][key] + Retiring(t)[op]
    <3>1. CASE op.target = t[1]
      BY <1>3, <2>1, <2>3, <2>4, <3>1
    <3>2. CASE op.target # t[1]
      BY <1>2, <1>3, <1>4, <2>1, <2>4, <3>2
    <3>. QED BY <3>1, <3>2
  <2>. QED BY <2>5 DEF op, key
<1>. QED BY <1>1, <1>5, <1>6

LEMMA CreditIsToken == Credit \subseteq Token
BY TezosAssumption DEF Credit, Token

LEMMA EventsInvInit == ChainInit => EventsInv
<1>. SUFFICES ASSUME ChainInit, NEW t \in Credit
              PROVE  Total(Column(Kycs, kycRetired, t)) =
                        fa2Retired[t[1]][<<CustodianContract, t[2]>>]
                           + RetiredBy(outbox, t)
  BY DEF EventsInv, ChainInit, CustodianInit
<1>. DEFINE f == Column(Kycs, kycRetired, t)
<1>1. outbox = <<>> /\ RetiredBy(outbox, t) = 0
  BY NothingEmitted DEF ChainInit, CustodianInit
<1>2. f \in [Kycs -> Int] /\ \A k \in Kycs : f[k] = 0
  <2>1. t \in Token /\ kycRetired = [kt \in Kycs \X Token |-> 0]
    BY CreditIsToken DEF ChainInit
  <2>2. \A k \in Kycs : kycRetired[<<k, t>>] = 0
    BY <2>1
  <2>3. f = [k \in Kycs |-> kycRetired[<<k, t>>]]
    BY DEF Column
  <2>. HIDE DEF f
  <2>. QED BY <2>2, <2>3
<1>3. IsFiniteSet(Kycs)
  BY CustodianAssumption
<1>4. fa2Retired[t[1]][<<CustodianContract, t[2]>>] = 0
  BY DEF ChainInit, FA2Init, Owner, Address, Credit
<1>5. Total(f) = 0
  <2>. HIDE DEF f
  <2>. QED BY <1>2, <1>3, TotalZero
<1>. QED BY <1>1, <1>4, <1>5

(* The amounts in EventsInv are natural numbers. *)
LEMMA EventsNat ==
    ASSUME ChainInv, NEW t \in Credit
    PROVE  /\ Total(Column(Kycs, kycRetired, t)) \in Nat
           /\ fa2Retired[t[1]][<<CustodianContract, t[2]>>] \in Nat
<1>1. kycRetired \in [Kycs \X Token -> Nat] /\ IsFiniteSet(Kycs) /\ t \in Token
  BY CustodianAssumption, CreditIsToken DEF ChainInv, KycLedger
<1>2. fa2Retired \in [FA2s -> FA2Ledger]
  BY DEF ChainInv, FA2Inv, FA2TypeOK
<1>. QED BY <1>1, <1>2, ColumnType, CustodyNat

LEMMA EventsInvNext ==
    ASSUME ChainInv, EventsInv, [ChainNext]_chainVars
    PROVE  EventsInv'
<1>. DEFINE Agree(t) == Total(Column(Kycs, kycRetired, t)) =
               fa2Retired[t[1]][<<CustodianContract, t[2]>>] + RetiredBy(outbox, t)
            AgreeBefore(t) == Total(Column(Kycs, chainBefore.kycRetired, t)) =
               chainBefore.fa2Retired[t[1]][<<CustodianContract, t[2]>>]
<1>0. ChainInv'
  BY ChainNextInv
<1>1. CASE UNCHANGED chainVars
  BY <1>1 DEF EventsInv, chainVars, fa2Vars, custodianVars
<1>2. ASSUME NEW c \in FA2s, NEW caller \in Wallets, CallFA2(c, caller)
      PROVE  EventsInv'
  <2>1. /\ FA2Call(c, caller) /\ UNCHANGED <<kycRetired, outbox>> /\ outbox = <<>>
    BY <1>2 DEF CallFA2, custodianVars
  <2>2. \A t \in Credit : fa2Retired'[t[1]][<<CustodianContract, t[2]>>]
                             = fa2Retired[t[1]][<<CustodianContract, t[2]>>]
    BY <2>1, WalletsRetireElsewhere
  <2>. QED BY <2>1, <2>2 DEF EventsInv
<1>3. ASSUME outbox = <<>>, Remember, UNCHANGED fa2Vars,
             \A t \in Credit : Total(Column(Kycs, kycRetired', t)) =
                Total(Column(Kycs, kycRetired, t)) + RetiredBy(outbox', t)
      PROVE  EventsInv'
  <2>1. ASSUME NEW t \in Credit
        PROVE  Total(Column(Kycs, kycRetired, t)) =
                  fa2Retired[t[1]][<<CustodianContract, t[2]>>]
    <3>1. Agree(t) /\ RetiredBy(outbox, t) = 0
      BY <1>3, NothingEmitted DEF EventsInv
    <3>2. fa2Retired[t[1]][<<CustodianContract, t[2]>>] \in Nat
      BY EventsNat
    <3>. QED BY <3>1, <3>2
  <2>2. fa2Retired' = fa2Retired
    BY <1>3 DEF fa2Vars
  <2>3. outbox' # <<>> => /\ chainBefore'.fa2Retired = fa2Retired
                          /\ chainBefore'.kycRetired = kycRetired
    BY <1>3 DEF Remember
  <2>. QED BY <1>3, <2>1, <2>2, <2>3 DEF EventsInv
<1>4. ASSUME NEW caller \in Wallets, CallCustodian(caller)
      PROVE  EventsInv'
  <2>1. /\ LedgerCall(caller, CustodianView) /\ Remember
        /\ UNCHANGED <<fa2Vars, kycRetired>> /\ outbox = <<>>
    BY <1>4 DEF CallCustodian, LedgerCall
  <2>2. ASSUME NEW t \in Credit
        PROVE  Total(Column(Kycs, kycRetired', t)) =
                  Total(Column(Kycs, kycRetired, t)) + RetiredBy(outbox', t)
    <3>1. RetiredBy(outbox', t) = 0
      BY <1>0, <2>1, LedgerCallRetiresNothing DEF ChainInv
    <3>2. kycRetired' = kycRetired /\ Total(Column(Kycs, kycRetired, t)) \in Nat
      BY <2>1, EventsNat
    <3>. QED BY <3>1, <3>2
  <2>. QED BY <1>3, <2>1, <2>2
<1>5. ASSUME NEW caller \in Wallets, NEW groups \in Retirements,
             CallRetire(caller, groups)
      PROVE  EventsInv'
  <2>1. outbox = <<>> /\ Remember /\ UNCHANGED fa2Vars
    BY <1>5 DEF CallRetire, RetireCall
  <2>2. \A t \in Credit : Total(Column(Kycs, kycRetired', t)) =
           Total(Column(Kycs, kycRetired, t)) + RetiredBy(outbox', t)
    BY <1>5, RetireEventsAdd, CreditIsToken
  <2>. QED BY <1>3, <2>1, <2>2
<1>6. CASE ApplyOperation
  <2>1. /\ outbox # <<>> /\ outbox' = Tail(outbox) /\ kycRetired' = kycRetired
        /\ outbox' # <<>> => chainBefore' = chainBefore
    BY <1>6 DEF ApplyOperation, OperationApplied
  <2>2. ASSUME NEW t \in Credit PROVE Agree(t)'
    <3>1. fa2Retired'[t[1]][<<CustodianContract, t[2]>>] =
             fa2Retired[t[1]][<<CustodianContract, t[2]>>] + Retiring(t)[Head(outbox)]
      BY <1>6, ApplyRetires
    <3>2. /\ RetiredBy(outbox, t) = Retiring(t)[Head(outbox)] + RetiredBy(outbox', t)
          /\ RetiredBy(outbox', t) \in Nat /\ Retiring(t)[Head(outbox)] \in Nat
      BY <2>1, RetiredByTail DEF ChainInv
    <3>3. Agree(t) /\ fa2Retired[t[1]][<<CustodianContract, t[2]>>] \in Nat
      BY EventsNat DEF EventsInv
    <3>. QED BY <2>1, <3>1, <3>2, <3>3
  <2>. QED BY <2>1, <2>2 DEF EventsInv
<1>7. CASE RejectOperation
  <2>1. /\ outbox # <<>> /\ outbox' = <<>>
        /\ fa2Retired' = chainBefore.fa2Retired /\ kycRetired' = chainBefore.kycRetired
    BY <1>7 DEF RejectOperation, OperationRejected
  <2>2. ASSUME NEW t \in Credit PROVE Agree(t)'
    <3>1. AgreeBefore(t) /\ RetiredBy(outbox', t) = 0
      BY <2>1, NothingEmitted DEF EventsInv
    <3>2. fa2Retired'[t[1]][<<CustodianContract, t[2]>>] \in Nat
      BY <1>0, CustodyNat DEF ChainInv, FA2Inv, FA2TypeOK
    <3>. QED BY <2>1, <3>1, <3>2
  <2>. QED BY <2>1, <2>2 DEF EventsInv
<1>. QED BY <1>1, <1>2, <1>4, <1>5, <1>6, <1>7 DEF ChainNext

(***************************************************************************)
(* Between calls, the amounts the custodian's %retire events attribute to   *)
(* the parties add up to those the FA2 contract's %retire events name the   *)
(* custodian for: a reader of either stream sees every retirement, once.   *)
(***************************************************************************)
THEOREM RetirementsAgree == ChainSpec => []RetireEventsAgree
<1>1. ASSUME ChainInv, EventsInv PROVE RetireEventsAgree
  <2>. SUFFICES ASSUME outbox = <<>>, NEW t \in Credit
                PROVE  Total(Column(Kycs, kycRetired, t)) =
                          fa2Retired[t[1]][<<CustodianContract, t[2]>>]
    BY DEF RetireEventsAgree
  <2>1. RetiredBy(outbox, t) = 0
    BY NothingEmitted
  <2>. QED BY <1>1, <2>1, EventsNat DEF EventsInv
<1>. QED BY <1>1, ChainInitInv, ChainNextInv, EventsInvInit, EventsInvNext, PTL
         DEF ChainSpec

-----------------------------------------------------------------------------
(* What calls book and what they have the FA2 contracts do. *)

(* What operations take of t from the custodian contract's balance. *)
Pending(ops, t) == SumOver(Takes(t), ops)

LEMMA PendingTail ==
    ASSUME CustodianInv, outbox # <<>>, NEW t
    PROVE  /\ Pending(outbox, t) = Takes(t)[Head(outbox)] + Pending(Tail(outbox), t)
           /\ Pending(Tail(outbox), t) \in Nat /\ Takes(t)[Head(outbox)] \in Nat
<1>1. outbox \in Seq(Operation) /\ Tail(outbox) \in Seq(Operation)
      /\ Head(outbox) \in Operation
  BY HeadTailProperties DEF CustodianInv, CustodianTypeOK
<1>2. /\ Takes(t) \in [Operation -> Int] /\ \A op \in Operation : Takes(t)[op] \in Nat
  BY OperationAmounts
<1>3. SumOver(Takes(t), outbox)
         = Takes(t)[Head(outbox)] + SumOver(Takes(t), Tail(outbox))
  BY <1>1, <1>2, SumOverTail
<1>4. SumOver(Takes(t), Tail(outbox)) \in Nat
  BY <1>1, <1>2, SumOverType
<1>. QED BY <1>1, <1>2, <1>3, <1>4 DEF Pending

(* Operations that are for what groups of debits take, one for each group. *)
Mirrors(ops, groups) ==
    /\ DOMAIN ops = DOMAIN groups
    /\ \A i \in DOMAIN groups :
          /\ ops[i].target = groups[i].token_address
          /\ DOMAIN ops[i].txs = DOMAIN groups[i].txs
          /\ \A j \in DOMAIN groups[i].txs :
                /\ ops[i].txs[j].token_id = groups[i].txs[j].token_id
                /\ ops[i].txs[j].amount = groups[i].txs[j].amount

LEMMA PendingTaken ==
    ASSUME NEW tx, NEW groups \in GroupBatches(tx), NEW ops \in Seq(Operation),
           Mirrors(ops, groups), NEW t
    PROVE  Pending(ops, t) = TakenOf(OfId(tx, t[2]), t[1], groups)
<1>. DEFINE left(i) == [j \in DOMAIN ops[i].txs |->
                IF ops[i].txs[j].token_id = t[2] THEN ops[i].txs[j].amount ELSE 0]
            right(i) == [j \in DOMAIN groups[i].txs |->
                IF groups[i].txs[j] \in OfId(tx, t[2])
                THEN groups[i].txs[j].amount ELSE 0]
<1>1. ASSUME NEW i \in DOMAIN groups
      PROVE  left(i) = right(i) /\ ops[i].target = groups[i].token_address
  <2>1. \A j \in DOMAIN groups[i].txs : groups[i].txs[j] \in tx
    BY GroupTxs
  <2>2. \A j \in DOMAIN groups[i].txs :
           /\ ops[i].txs[j].token_id = groups[i].txs[j].token_id
           /\ ops[i].txs[j].amount = groups[i].txs[j].amount
           /\ groups[i].txs[j] \in OfId(tx, t[2]) <=> ops[i].txs[j].token_id = t[2]
    BY <2>1 DEF Mirrors, OfId
  <2>3. DOMAIN ops[i].txs = DOMAIN groups[i].txs
        /\ ops[i].target = groups[i].token_address
    BY DEF Mirrors
  <2>. QED BY <2>2, <2>3
<1>2. \A i \in DOMAIN ops : ops[i] \in Operation
  OBVIOUS
<1>3. \A i \in DOMAIN ops : Takes(t)[ops[i]] =
         IF ops[i].target = t[1] THEN Total(left(i)) ELSE 0
  BY <1>2 DEF Takes, AmountIn
<1>4. TakenOf(OfId(tx, t[2]), t[1], groups) = Total([i \in DOMAIN groups |->
         IF groups[i].token_address = t[1] THEN Total(right(i)) ELSE 0])
  BY DEF TakenOf
<1>5. DOMAIN ops = DOMAIN groups
  BY DEF Mirrors
<1>. HIDE DEF left, right
<1>6. [i \in DOMAIN ops |-> Takes(t)[ops[i]]] = [i \in DOMAIN groups |->
         IF groups[i].token_address = t[1] THEN Total(right(i)) ELSE 0]
  BY <1>1, <1>3, <1>5
<1>. QED BY <1>4, <1>6 DEF Pending, SumOver

(* A call that debits groups and emits operations for them unbooks what     *)
(* they will take.                                                         *)
LEMMA DebitsPending ==
    ASSUME CustodianInv, NEW tx, IsDebit(tx), NEW groups \in GroupBatches(tx),
           BooksBecome(ListFold(DebitGroups(tx), CurrentBooks, groups)),
           outbox' \in Seq(Operation), Mirrors(outbox', groups), NEW t \in Token
    PROVE  externalLedger'[t] + Pending(outbox', t) = externalLedger[t]
<1>. DEFINE result == ListFold(DebitGroups(tx), CurrentBooks, groups)
<1>1. /\ result # Failed /\ externalLedger' = result.external_ledger
  BY DEF BooksBecome
<1>2. groups \in Seq(GroupsOf(tx))
  BY GroupBatchesAreSequences
<1>3. /\ CurrentBooks \in Books /\ CurrentBooks.external_ledger = externalLedger
  BY DEF CustodianInv, BalancedBooks, CurrentBooks
<1>. HIDE DEF result
<1>4. /\ result \in Books
      /\ TakenOf(OfId(tx, t[2]), t[1], groups) =
            CurrentBooks.external_ledger[t] - result.external_ledger[t]
  BY <1>1, <1>2, <1>3, DebitsTaken DEF result
<1>5. Pending(outbox', t) = externalLedger[t] - externalLedger'[t]
  BY <1>1, <1>3, <1>4, PendingTaken
<1>6. externalLedger[t] \in Nat /\ externalLedger'[t] \in Nat
  BY <1>1, <1>3, <1>4 DEF Books, ExternalLedger
<1>. QED BY <1>5, <1>6

(* Every call but internal_mint leaves the external ledger and what is      *)
(* pending level with the external ledger before.                          *)
LEMMA ExternalTransferPending ==
    ASSUME CustodianInv, NEW caller \in Wallets, NEW groups \in ExternalTransfers,
           ExternalTransfer(caller, groups), NEW t \in Token
    PROVE  externalLedger'[t] + Pending(outbox', t) = externalLedger[t]
<1>1. /\ BooksBecome(ListFold(DebitGroups(ExternalTransferTx), CurrentBooks, groups))
      /\ outbox' = TransferOperations(groups)
  BY DEF ExternalTransfer, Emit
<1>2. groups \in GroupBatches(ExternalTransferTx) /\ IsDebit(ExternalTransferTx)
  BY TezosAssumption DEF ExternalTransfers, IsDebit, ExternalTransferTx
<1>3. Mirrors(TransferOperations(groups), groups)
  BY DEF Mirrors, TransferOperations
<1>4. outbox' \in Seq(Operation)
  <2>1. CustodianInv'
    BY ExternalTransferInv
  <2>. QED BY <2>1 DEF CustodianInv, CustodianTypeOK
<1>. QED BY <1>1, <1>2, <1>3, <1>4, DebitsPending

LEMMA RetirePending ==
    ASSUME CustodianInv, NEW caller \in Wallets, NEW groups \in Retirements,
           Retire(caller, groups), NEW t \in Token
    PROVE  externalLedger'[t] + Pending(outbox', t) = externalLedger[t]
<1>1. /\ BooksBecome(ListFold(DebitGroups(RetireTx), CurrentBooks, groups))
      /\ outbox' = RetireOperations(groups)
  BY DEF Retire, Emit
<1>2. groups \in GroupBatches(RetireTx) /\ IsDebit(RetireTx)
  BY TezosAssumption DEF Retirements, IsDebit, RetireTx
<1>3. Mirrors(RetireOperations(groups), groups)
  BY DEF Mirrors, RetireOperations
<1>4. outbox' \in Seq(Operation)
  <2>1. CustodianInv'
    BY RetireInv
  <2>. QED BY <2>1 DEF CustodianInv, CustodianTypeOK
<1>. QED BY <1>1, <1>2, <1>3, <1>4, DebitsPending

LEMMA NothingPending ==
    ASSUME CustodianInv, outbox' = <<>>, externalLedger' = externalLedger,
           NEW t \in Token
    PROVE  externalLedger'[t] + Pending(outbox', t) = externalLedger[t]
<1>1. Pending(<<>>, t) = 0
  BY SumOverNone DEF Pending
<1>2. externalLedger[t] \in Nat
  BY DEF CustodianInv, CustodianTypeOK, ExternalLedger
<1>. QED BY <1>1, <1>2

LEMMA LedgerCallPending ==
    ASSUME CustodianInv, NEW caller \in Wallets, NEW view, LedgerCall(caller, view),
           NEW t \in Token
    PROVE  \/ externalLedger'[t] + Pending(outbox', t) = externalLedger[t]
           \/ \E tokens \in SyncBatches : InternalMint(caller, tokens, view)
<1>1. outbox = <<>>
  BY DEF LedgerCall
<1>2. ASSUME NEW txs \in Batches(InternalTransferTx), InternalTransfer(caller, txs)
      PROVE  outbox' = outbox /\ externalLedger' = externalLedger
  BY <1>2 DEF InternalTransfer
<1>3. ASSUME NEW updates \in Batches(KycOperatorUpdate),
             UpdateInternalOperators(caller, updates)
      PROVE  outbox' = outbox /\ externalLedger' = externalLedger
  BY <1>3 DEF UpdateInternalOperators
<1>4. ASSUME NEW newCustodian \in Address, UpdateCustodian(caller, newCustodian)
      PROVE  outbox' = outbox /\ externalLedger' = externalLedger
  BY <1>4 DEF UpdateCustodian
<1>. QED BY <1>1, <1>2, <1>3, <1>4, NothingPending, ExternalTransferPending
         DEF LedgerCall

-----------------------------------------------------------------------------
(* What the FA2 contracts can afford. *)

(* A debit of the custodian contract, be it that it retires (credited none) *)
(* or transfers, to itself included.                                       *)
LEMMA DebitAffords ==
    ASSUME NEW l \in [Owner -> Nat], NEW giver \in Owner, NEW n \in Nat, n <= l[giver],
           NEW key \in Owner
    PROVE  /\ UpdateBalance(giver, -n, l) \in [Owner -> Nat]
           /\ UpdateBalance(giver, -n, l)[key] >= l[key] - IF key = giver THEN n ELSE 0
<1>. DEFINE m == UpdateBalance(giver, -n, l)
<1>1. l[giver] \in Nat /\ l[key] \in Nat /\ l[giver] + (-n) \in Nat
      /\ l[giver] + (-n) = l[giver] - n
  OBVIOUS
<1>2. m = [l EXCEPT ![giver] = @ + (-n)]
  BY <1>1 DEF UpdateBalance
<1>3. m \in [Owner -> Nat] /\ m[key] = IF key = giver THEN l[giver] - n ELSE l[key]
  BY <1>1, <1>2
<1>. HIDE DEF m
<1>4. m[key] >= l[key] - IF key = giver THEN n ELSE 0
  BY <1>1, <1>3
<1>. QED BY <1>3, <1>4 DEF m

LEMMA MoveAffords ==
    ASSUME NEW l \in [Owner -> Nat], NEW giver \in Owner, NEW taker \in Owner,
           NEW n \in Nat, n <= l[giver], NEW key \in Owner
    PROVE  /\ UpdateBalance(giver, -n, UpdateBalance(taker, n, l)) \in [Owner -> Nat]
           /\ UpdateBalance(giver, -n, UpdateBalance(taker, n, l))[key] >=
                 l[key] - IF key = giver THEN n ELSE 0
<1>. DEFINE mid == UpdateBalance(taker, n, l)
            end == UpdateBalance(giver, -n, mid)
            cost == IF key = giver THEN n ELSE 0
<1>1. mid \in [Owner -> Nat] /\ mid[giver] >= l[giver] /\ mid[key] >= l[key]
  <2>1. n \in Int /\ n >= 0 /\ l[taker] + n >= 0
    OBVIOUS
  <2>. QED BY <2>1, UpdateSparesOthers
<1>. HIDE DEF mid
<1>2. l[giver] \in Nat /\ l[key] \in Nat /\ mid[giver] \in Nat /\ mid[key] \in Nat
  BY <1>1
<1>3. n <= mid[giver]
  BY <1>1, <1>2
<1>4. end \in [Owner -> Nat] /\ end[key] >= mid[key] - cost
  BY <1>1, <1>3, DebitAffords
<1>5. end[key] \in Nat /\ cost \in Nat
  BY <1>4
<1>. HIDE DEF end, cost
<1>6. end[key] >= l[key] - cost
  BY <1>1, <1>2, <1>4, <1>5
<1>. QED BY <1>4, <1>6 DEF end, mid, cost

(* The custodian contract's balance of each token id. *)
CustodyOf == [id \in TokenIds |-> [l \in FA2Ledger |-> l[<<CustodianContract, id>>]]]
Costs(B) == [id \in TokenIds |-> OfTokenId(B, id)]

LEMMA CustodyOfType == CustodyOf \in [TokenIds -> [FA2Ledger -> Int]]
<1>1. ASSUME NEW l \in FA2Ledger, NEW id \in TokenIds
      PROVE  l[<<CustodianContract, id>>] \in Int
  BY DEF FA2Ledger, Owner, Address
<1>. QED BY <1>1 DEF CustodyOf

(* A transfer list the contract's balance covers is executed. *)
LEMMA TransfersAffordable ==
    Affordable(FA2Ledger, FA2Transfer, TransferStep, TokenIds, CustodyOf,
               Costs(FA2Transfer))
<1>. SUFFICES ASSUME NEW l \in FA2Ledger, NEW tx \in FA2Transfer,
                     \A id \in TokenIds :
                        Costs(FA2Transfer)[id][tx] <= CustodyOf[id][l]
              PROVE  /\ TransferStep[l][tx] # Failed
                     /\ \A id \in TokenIds : CustodyOf[id][TransferStep[l][tx]] >=
                           CustodyOf[id][l] - Costs(FA2Transfer)[id][tx]
  BY DEF Affordable
<1>. DEFINE giver == <<CustodianContract, tx.token_id>>
            taker == <<tx.to, tx.token_id>>
            end == UpdateBalance(giver, -tx.amount, UpdateBalance(taker, tx.amount, l))
<1>1. /\ tx.from = CustodianContract /\ tx.to \in Address /\ tx.token_id \in TokenIds
      /\ tx.amount \in Nat
  BY TezosAssumption DEF FA2Transfer
<1>2. giver \in Owner /\ taker \in Owner /\ l \in [Owner -> Nat]
  BY <1>1 DEF Owner, Address, FA2Ledger
<1>3. tx \in TransferTx
  BY <1>1 DEF FA2Transfer, TransferTx, Address
<1>4. TransferStep[l][tx] = end
  BY <1>1, <1>3 DEF TransferStep
<1>5. tx.amount <= l[giver]
  BY <1>1 DEF Costs, OfTokenId, CustodyOf
<1>. HIDE DEF giver, taker
<1>6. \A key \in Owner : /\ end \in [Owner -> Nat]
                         /\ end[key] >= l[key] - IF key = giver THEN tx.amount ELSE 0
  BY <1>1, <1>2, <1>5, MoveAffords
<1>. HIDE DEF end
<1>7. end \in FA2Ledger
  BY <1>2, <1>6 DEF FA2Ledger
<1>8. ASSUME NEW id \in TokenIds
      PROVE  CustodyOf[id][end] >= CustodyOf[id][l] - Costs(FA2Transfer)[id][tx]
  <2>. DEFINE key == <<CustodianContract, id>>
  <2>1. key \in Owner /\ (key = giver <=> tx.token_id = id)
    BY DEF Owner, Address, giver
  <2>2. /\ CustodyOf[id][end] = end[key] /\ CustodyOf[id][l] = l[key]
        /\ Costs(FA2Transfer)[id][tx] = IF tx.token_id = id THEN tx.amount ELSE 0
    BY <1>7 DEF CustodyOf, Costs, OfTokenId
  <2>. HIDE DEF key
  <2>. QED BY <1>6, <2>1, <2>2
<1>. QED BY <1>4, <1>7, <1>8, FailureAssumption

LEMMA RetirementsAffordable ==
    Affordable(FA2Ledger, FA2Entry, RetireStep, TokenIds, CustodyOf, Costs(FA2Entry))
<1>. SUFFICES ASSUME NEW l \in FA2Ledger, NEW e \in FA2Entry,
                     \A id \in TokenIds :
                        Costs(FA2Entry)[id][e] <= CustodyOf[id][l]
              PROVE  /\ RetireStep[l][e] # Failed
                     /\ \A id \in TokenIds : CustodyOf[id][RetireStep[l][e]] >=
                           CustodyOf[id][l] - Costs(FA2Entry)[id][e]
  BY DEF Affordable
<1>. DEFINE giver == <<CustodianContract, e.token_id>>
            end == UpdateBalance(giver, -e.amount, l)
<1>1. /\ e.owner = CustodianContract /\ e.token_id \in TokenIds /\ e.amount \in Nat
  BY TezosAssumption DEF FA2Entry
<1>2. giver \in Owner /\ l \in [Owner -> Nat]
  BY <1>1 DEF Owner, Address, FA2Ledger
<1>3. e \in Entry
  BY <1>1 DEF FA2Entry, Entry, Address
<1>4. RetireStep[l][e] = end
  BY <1>1, <1>3 DEF RetireStep
<1>5. e.amount <= l[giver]
  BY <1>1 DEF Costs, OfTokenId, CustodyOf
<1>. HIDE DEF giver
<1>6. \A key \in Owner : /\ end \in [Owner -> Nat]
                         /\ end[key] >= l[key] - IF key = giver THEN e.amount ELSE 0
  BY <1>1, <1>2, <1>5, DebitAffords
<1>. HIDE DEF end
<1>7. end \in FA2Ledger
  BY <1>2, <1>6 DEF FA2Ledger
<1>8. ASSUME NEW id \in TokenIds
      PROVE  CustodyOf[id][end] >= CustodyOf[id][l] - Costs(FA2Entry)[id][e]
  <2>. DEFINE key == <<CustodianContract, id>>
  <2>1. key \in Owner /\ (key = giver <=> e.token_id = id)
    BY DEF Owner, Address, giver
  <2>2. /\ CustodyOf[id][end] = end[key] /\ CustodyOf[id][l] = l[key]
        /\ Costs(FA2Entry)[id][e] = IF e.token_id = id THEN e.amount ELSE 0
    BY <1>7 DEF CustodyOf, Costs, OfTokenId
  <2>. HIDE DEF key
  <2>. QED BY <1>6, <2>1, <2>2
<1>. QED BY <1>4, <1>7, <1>8, FailureAssumption

(* An operation whose amounts the contract's balance covers is applied, and *)
(* takes no more of it than they are.                                      *)
LEMMA OperationAffords ==
    ASSUME ChainInv, outbox # <<>>, NEW op, op = Head(outbox),
           \A id \in TokenIds : AmountIn(op.txs, id) <=
              fa2Ledger[op.target][<<CustodianContract, id>>]
    PROVE  /\ Outcome(op) \in FA2Ledger
           /\ \A id \in TokenIds : Outcome(op)[<<CustodianContract, id>>] >=
                 fa2Ledger[op.target][<<CustodianContract, id>>] - AmountIn(op.txs, id)
<1>. DEFINE l == fa2Ledger[op.target]
<1>1. /\ op.target \in FA2s /\ op.entrypoint \in {"transfer", "retire"}
      /\ op.entrypoint = "transfer" => op.txs \in Seq(FA2Transfer)
      /\ op.entrypoint = "retire" => op.txs \in Seq(FA2Entry)
  BY HeadOperation DEF ChainInv
<1>2. l \in FA2Ledger /\ Failed \notin FA2Ledger
  BY <1>1, FailureAssumption DEF ChainInv, FA2Inv, FA2TypeOK
<1>3. \A id \in TokenIds : l[<<CustodianContract, id>>] = CustodyOf[id][l]
  BY <1>2 DEF CustodyOf
<1>4. CASE op.entrypoint = "transfer"
  <2>1. op.txs \in Seq(FA2Transfer) /\ \A x \in FA2Transfer : x.amount \in Nat
    BY <1>1, <1>4, TezosAssumption DEF FA2Transfer
  <2>2. StaysIn(FA2Ledger, FA2Transfer, TransferStep)
    <3>1. FA2Transfer \subseteq TransferTx
      BY DEF FA2Transfer, TransferTx, Address
    <3>. QED BY <3>1, TransferStepKeeps DEF StaysIn
  <2>3. Outcome(op) = ListFold(TransferStep, l, op.txs)
    <3>1. \A i \in DOMAIN op.txs :
             MayMove(op.target, CustodianContract, op.txs[i].from, op.txs[i].token_id)
      <4>1. \A i \in DOMAIN op.txs : op.txs[i] \in FA2Transfer
        BY <2>1
      <4>. QED BY <4>1 DEF FA2Transfer, MayMove
    <3>. QED BY <1>4, <3>1 DEF Outcome, TransferResult
  <2>4. /\ Costs(FA2Transfer) \in [TokenIds -> [FA2Transfer -> Nat]]
        /\ \A id \in TokenIds :
              SumOver(Costs(FA2Transfer)[id], op.txs) = AmountIn(op.txs, id)
    BY <2>1, AmountInList DEF Costs
  <2>5. \A id \in TokenIds :
           SumOver(Costs(FA2Transfer)[id], op.txs) <= CustodyOf[id][l]
    BY <1>3, <2>4
  <2>. HIDE DEF l
  <2>6. /\ ListFold(TransferStep, l, op.txs) \in FA2Ledger
        /\ \A id \in TokenIds : CustodyOf[id][ListFold(TransferStep, l, op.txs)] >=
              CustodyOf[id][l] - SumOver(Costs(FA2Transfer)[id], op.txs)
    BY <1>2, <2>1, <2>2, <2>4, <2>5, CustodyOfType, TransfersAffordable, FoldAffords
  <2>7. \A id \in TokenIds : CustodyOf[id][Outcome(op)] >=
           CustodyOf[id][l] - AmountIn(op.txs, id)
    BY <2>3, <2>4, <2>6
  <2>. QED BY <1>3, <2>3, <2>6, <2>7 DEF CustodyOf, l
<1>5. CASE op.entrypoint = "retire"
  <2>1. op.txs \in Seq(FA2Entry) /\ \A x \in FA2Entry : x.amount \in Nat
    BY <1>1, <1>5, TezosAssumption DEF FA2Entry
  <2>2. StaysIn(FA2Ledger, FA2Entry, RetireStep)
    <3>1. FA2Entry \subseteq Entry
      BY DEF FA2Entry, Entry, Address
    <3>. QED BY <3>1, RetireStaysIn DEF StaysIn
  <2>3. Outcome(op) = ListFold(RetireStep, l, op.txs)
    <3>1. \A i \in DOMAIN op.txs :
             MayMove(op.target, CustodianContract, op.txs[i].owner, op.txs[i].token_id)
      <4>1. \A i \in DOMAIN op.txs : op.txs[i] \in FA2Entry
        BY <2>1
      <4>. QED BY <4>1 DEF FA2Entry, MayMove
    <3>. QED BY <1>5, <3>1 DEF Outcome, RetireResult
  <2>4. /\ Costs(FA2Entry) \in [TokenIds -> [FA2Entry -> Nat]]
        /\ \A id \in TokenIds :
              SumOver(Costs(FA2Entry)[id], op.txs) = AmountIn(op.txs, id)
    BY <2>1, AmountInList DEF Costs
  <2>5. \A id \in TokenIds :
           SumOver(Costs(FA2Entry)[id], op.txs) <= CustodyOf[id][l]
    BY <1>3, <2>4
  <2>. HIDE DEF l
  <2>6. /\ ListFold(RetireStep, l, op.txs) \in FA2Ledger
        /\ \A id \in TokenIds : CustodyOf[id][ListFold(RetireStep, l, op.txs)] >=
              CustodyOf[id][l] - SumOver(Costs(FA2Entry)[id], op.txs)
    BY <1>2, <2>1, <2>2, <2>4, <2>5, CustodyOfType, RetirementsAffordable, FoldAffords
  <2>7. \A id \in TokenIds : CustodyOf[id][Outcome(op)] >=
           CustodyOf[id][l] - AmountIn(op.txs, id)
    BY <2>3, <2>4, <2>6
  <2>. QED BY <1>3, <2>3, <2>6, <2>7 DEF CustodyOf, l
<1>. QED BY <1>1, <1>4, <1>5

-----------------------------------------------------------------------------
(* Backing. *)

(* The FA2 balances fl cover what ext says is held. *)
Covers(ext, fl) ==
    \A t \in Credit : ext[t] <= fl[t[1]][<<CustodianContract, t[2]>>]

(* They cover what is booked and what is still to be taken from them. *)
CoversPending ==
    \A t \in Credit : externalLedger[t] + Pending(outbox, t)
                         <= fa2Ledger[t[1]][<<CustodianContract, t[2]>>]

(***************************************************************************)
(* The invariant behind RefusedOnlyIfUnbacked: a call that begins with its  *)
(* books covered stays covered, operation by operation.                    *)
(***************************************************************************)
BackingInv ==
    outbox # <<>> /\ Covers(before.external_ledger, chainBefore.fa2Ledger)
        => CoversPending

LEMMA AmountsNat ==
    ASSUME ChainInv, NEW t \in Credit
    PROVE  /\ externalLedger[t] \in Nat
           /\ fa2Ledger[t[1]][<<CustodianContract, t[2]>>] \in Nat
<1>1. externalLedger \in [Token -> Nat] /\ fa2Ledger \in [FA2s -> FA2Ledger]
  BY DEF ChainInv, CustodianInv, CustodianTypeOK, ExternalLedger, FA2Inv, FA2TypeOK
<1>. QED BY <1>1, CreditIsToken, CustodyNat

(* While pending operations are covered, the next one is. *)
LEMMA HeadCovered ==
    ASSUME ChainInv, outbox # <<>>, CoversPending,
           NEW id \in TokenIds
    PROVE  AmountIn(Head(outbox).txs, id) <=
              fa2Ledger[Head(outbox).target][<<CustodianContract, id>>]
<1>. DEFINE op == Head(outbox)
            t == <<op.target, id>>
<1>1. op \in Operation /\ op.target \in FA2s
  BY HeadOperation DEF ChainInv
<1>2. t \in Credit /\ t[1] = op.target /\ t[2] = id
  BY <1>1 DEF Credit
<1>3. Takes(t)[op] = AmountIn(op.txs, id)
  BY <1>1, <1>2 DEF Takes
<1>. HIDE DEF t
<1>4. /\ Pending(outbox, t) = Takes(t)[op] + Pending(Tail(outbox), t)
      /\ Pending(Tail(outbox), t) \in Nat /\ Takes(t)[op] \in Nat
  BY PendingTail DEF ChainInv
<1>5. externalLedger[t] \in Nat /\ fa2Ledger[t[1]][<<CustodianContract, t[2]>>] \in Nat
  BY <1>2, AmountsNat
<1>6. externalLedger[t] + Pending(outbox, t)
         <= fa2Ledger[t[1]][<<CustodianContract, t[2]>>]
  BY <1>2 DEF CoversPending
<1>. HIDE DEF op
<1>7. Takes(t)[op] <= fa2Ledger[t[1]][<<CustodianContract, t[2]>>]
  BY <1>4, <1>5, <1>6
<1>8. AmountIn(op.txs, id) <= fa2Ledger[op.target][<<CustodianContract, id>>]
  BY <1>2, <1>3, <1>7
<1>. QED BY <1>8 DEF op

LEMMA CoveredSucceeds ==
    ASSUME ChainInv, outbox # <<>>, CoversPending
    PROVE  Outcome(Head(outbox)) # Failed
<1>1. Outcome(Head(outbox)) \in FA2Ledger
  BY HeadCovered, OperationAffords
<1>. QED BY <1>1, FailureAssumption

LEMMA ApplyKeepsCover ==
    ASSUME ChainInv, ApplyOperation, CoversPending
    PROVE  CoversPending'
<1>. DEFINE op == Head(outbox)
<1>1. /\ outbox # <<>> /\ outbox' = Tail(outbox) /\ externalLedger' = externalLedger
      /\ fa2Ledger' = [fa2Ledger EXCEPT ![op.target] = Outcome(op)]
  BY DEF ApplyOperation, OperationApplied, Transfer, RetireTokens, Outcome
<1>2. op \in Operation /\ op.target \in FA2s /\ fa2Ledger \in [FA2s -> FA2Ledger]
  BY <1>1, HeadOperation DEF ChainInv, FA2Inv, FA2TypeOK
<1>3. /\ Outcome(op) \in FA2Ledger
      /\ \A id \in TokenIds : Outcome(op)[<<CustodianContract, id>>] >=
            fa2Ledger[op.target][<<CustodianContract, id>>] - AmountIn(op.txs, id)
  BY <1>1, HeadCovered, OperationAffords
<1>. SUFFICES ASSUME NEW t \in Credit
              PROVE  externalLedger[t] + Pending(Tail(outbox), t)
                        <= fa2Ledger'[t[1]][<<CustodianContract, t[2]>>]
  BY <1>1 DEF CoversPending
<1>4. /\ Pending(outbox, t) = Takes(t)[op] + Pending(Tail(outbox), t)
      /\ Pending(Tail(outbox), t) \in Nat /\ Takes(t)[op] \in Nat
  BY <1>1, PendingTail DEF ChainInv
<1>5. externalLedger[t] \in Nat /\ fa2Ledger[t[1]][<<CustodianContract, t[2]>>] \in Nat
  BY AmountsNat
<1>6. externalLedger[t] + Pending(outbox, t)
         <= fa2Ledger[t[1]][<<CustodianContract, t[2]>>]
  BY DEF CoversPending
<1>7. t[1] \in FA2s /\ t[2] \in TokenIds
  BY DEF Credit
<1>8. Takes(t)[op] = IF op.target = t[1] THEN AmountIn(op.txs, t[2]) ELSE 0
  BY <1>2 DEF Takes
<1>9. fa2Ledger' \in [FA2s -> FA2Ledger]
  BY <1>1, <1>2, <1>3
<1>10. fa2Ledger'[t[1]][<<CustodianContract, t[2]>>] \in Nat
  BY <1>9, CustodyNat
<1>. HIDE DEF op
<1>11. fa2Ledger'[t[1]][<<CustodianContract, t[2]>>]
          >= fa2Ledger[t[1]][<<CustodianContract, t[2]>>] - Takes(t)[op]
  <2>1. CASE op.target = t[1]
    <3>1. fa2Ledger'[t[1]] = Outcome(op) /\ Takes(t)[op] = AmountIn(op.txs, t[2])
      BY <1>1, <1>2, <1>7, <1>8, <2>1
    <3>. QED BY <1>3, <1>7, <2>1, <3>1
  <2>2. CASE op.target # t[1]
    <3>1. fa2Ledger'[t[1]] = fa2Ledger[t[1]] /\ Takes(t)[op] = 0
      BY <1>1, <1>2, <1>7, <1>8, <2>2
    <3>. QED BY <1>5, <3>1
  <2>. QED BY <2>1, <2>2
<1>. QED BY <1>4, <1>5, <1>6, <1>10, <1>11

(* Calls, which unbook what they will have taken. *)
LEMMA CallKeepsBacking ==
    ASSUME outbox = <<>>, Remember, before' = CurrentBooks,
           UNCHANGED fa2Ledger, outbox' # <<>>,
           \A t \in Credit : externalLedger'[t] + Pending(outbox', t) = externalLedger[t]
    PROVE  BackingInv'
<1>1. /\ before'.external_ledger = externalLedger
      /\ chainBefore'.fa2Ledger = fa2Ledger
  BY DEF Remember, CurrentBooks
<1>2. SUFFICES ASSUME Covers(externalLedger, fa2Ledger) PROVE CoversPending'
  BY <1>1 DEF BackingInv, Covers
<1>. QED BY <1>2 DEF Covers, CoversPending

(* Only an operation that is emitted leaves something to execute. *)
LEMMA LedgerCallEmits ==
    ASSUME NEW caller, NEW view, LedgerCall(caller, view), outbox' # <<>>
    PROVE  /\ before' = CurrentBooks
           /\ ~ \E tokens \in SyncBatches : InternalMint(caller, tokens, view)
BY DEF LedgerCall, InternalTransfer, InternalMint, ExternalTransfer, Emit,
       UpdateInternalOperators, UpdateCustodian

LEMMA BackingInvNext ==
    ASSUME ChainInv, BackingInv, [ChainNext]_chainVars
    PROVE  BackingInv'
<1>1. CASE UNCHANGED chainVars
  BY <1>1 DEF BackingInv, Covers, CoversPending, chainVars, fa2Vars, custodianVars
<1>2. CASE outbox' = <<>>
  BY <1>2 DEF BackingInv
<1>3. ASSUME NEW c \in FA2s, NEW caller \in Wallets, CallFA2(c, caller)
      PROVE  outbox' = <<>>
  BY <1>3 DEF CallFA2, custodianVars
<1>4. ASSUME NEW caller \in Wallets, CallCustodian(caller), outbox' # <<>>
      PROVE  BackingInv'
  <2>1. /\ LedgerCall(caller, CustodianView) /\ Remember /\ UNCHANGED fa2Ledger
        /\ outbox = <<>>
    BY <1>4 DEF CallCustodian, LedgerCall, fa2Vars
  <2>2. /\ before' = CurrentBooks
        /\ ~ \E tokens \in SyncBatches : InternalMint(caller, tokens, CustodianView)
    BY <1>4, <2>1, LedgerCallEmits
  <2>3. \A t \in Credit : externalLedger'[t] + Pending(outbox', t) = externalLedger[t]
    BY <2>1, <2>2, LedgerCallPending, CreditIsToken DEF ChainInv
  <2>. QED BY <1>4, <2>1, <2>2, <2>3, CallKeepsBacking
<1>5. ASSUME NEW caller \in Wallets, NEW groups \in Retirements,
             CallRetire(caller, groups), outbox' # <<>>
      PROVE  BackingInv'
  <2>1. /\ Retire(caller, groups) /\ Remember /\ UNCHANGED fa2Ledger /\ outbox = <<>>
    BY <1>5 DEF CallRetire, RetireCall, fa2Vars
  <2>2. before' = CurrentBooks
    BY <1>5, <2>1 DEF Retire, Emit
  <2>3. \A t \in Credit : externalLedger'[t] + Pending(outbox', t) = externalLedger[t]
    BY <2>1, RetirePending, CreditIsToken DEF ChainInv
  <2>. QED BY <1>5, <2>1, <2>2, <2>3, CallKeepsBacking
<1>6. ASSUME ApplyOperation, outbox' # <<>> PROVE BackingInv'
  <2>1. outbox # <<>> /\ UNCHANGED <<before, chainBefore>>
    BY <1>6 DEF ApplyOperation, OperationApplied
  <2>2. SUFFICES ASSUME Covers(before.external_ledger, chainBefore.fa2Ledger)
                 PROVE  CoversPending'
    BY <2>1 DEF BackingInv, Covers
  <2>3. CoversPending
    BY <2>1, <2>2 DEF BackingInv
  <2>. QED BY <1>6, <2>3, ApplyKeepsCover
<1>7. RejectOperation => outbox' = <<>>
  BY DEF RejectOperation, OperationRejected
<1>. QED BY <1>1, <1>2, <1>3, <1>4, <1>5, <1>6, <1>7 DEF ChainNext

(***************************************************************************)
(* retire and external_transfer book a whole list before the FA2 contracts *)
(* see any of it.  Their nested folds unbook exactly what the operations   *)
(* then take, so that a call that begins with its books backed never has   *)
(* an operation refused, whatever lists internal_mint is called with.      *)
(***************************************************************************)
THEOREM RefusalsAreUnbacked == ChainSpec => []RefusedOnlyIfUnbacked
<1>1. ChainInit => BackingInv
  BY DEF ChainInit, CustodianInit, BackingInv
<1>2. ASSUME ChainInv, BackingInv PROVE RefusedOnlyIfUnbacked
  <2>. SUFFICES ASSUME outbox # <<>>, Outcome(Head(outbox)) = Failed,
                       \A t \in Credit :
                          ~(before.external_ledger[t]
                               > chainBefore.fa2Ledger[t[1]][<<CustodianContract, t[2]>>])
                PROVE  FALSE
    BY DEF RefusedOnlyIfUnbacked
  <2>1. Covers(before.external_ledger, chainBefore.fa2Ledger)
    <3>1. before.external_ledger \in [Token -> Nat]
      BY <1>2 DEF ChainInv, CustodianInv, BalancedBooks, Books, ExternalLedger
    <3>2. chainBefore.fa2Ledger \in [FA2s -> FA2Ledger]
      BY <1>2 DEF ChainInv, Snapshot
    <3>. SUFFICES ASSUME NEW t \in Credit
                  PROVE  before.external_ledger[t]
                            <= chainBefore.fa2Ledger[t[1]][<<CustodianContract, t[2]>>]
      BY DEF Covers
    <3>3. before.external_ledger[t] \in Nat
      BY <3>1, CreditIsToken
    <3>4. chainBefore.fa2Ledger[t[1]][<<CustodianContract, t[2]>>] \in Nat
      BY <3>2, CustodyNat
    <3>. QED BY <3>3, <3>4
  <2>2. CoversPending
    BY <1>2, <2>1 DEF BackingInv
  <2>. QED BY <1>2, <2>2, CoveredSucceeds
<1>. QED BY <1>1, <1>2, ChainInitInv, ChainNextInv, BackingInvNext, PTL DEF ChainSpec

-----------------------------------------------------------------------------
(* Syncs. *)

(* A list that names no token twice.                                       *)
NamesOnce(list) == \A i, j \in DOMAIN list : list[i] = list[j] => i = j

(* internal_mint is never called with a list that names a token twice.     *)
SyncsWithoutRepeats == \A list \in SyncBatches : NamesOnce(list)

LEMMA OneTokenAtATime ==
    ASSUME \A list \in SyncBatches : Len(list) <= 1
    PROVE  SyncsWithoutRepeats
<1>. SUFFICES ASSUME NEW list \in SyncBatches, NEW i \in DOMAIN list,
                     NEW j \in DOMAIN list
              PROVE  i = j
  BY DEF SyncsWithoutRepeats, NamesOnce
<1>1. list \in Seq(Token) /\ Len(list) <= 1
  BY CustodianAssumption
<1>. QED BY <1>1

(* A call leaves the tokens that it does not name, and brings one that it  *)
(* names once level with the view's answer.                                *)
LEMMA SyncLevels ==
    ASSUME CustodianInv, NEW caller, NEW tokens \in SyncBatches,
           NEW view \in [Token -> Nat \cup {NoView}],
           InternalMint(caller, tokens, view), NEW t \in Token
    PROVE  \/ externalLedger'[t] = externalLedger[t]
           \/ /\ view[t] # NoView
              /\ NamesOnce(tokens) => externalLedger'[t] = view[t]
<1>. DEFINE updates == SyncUpdates(tokens, view)
            books == CurrentBooks
            result == ListFold(SyncStep, books, updates)
            d == [u \in SyncUpdate |-> IF u.token = t THEN u.amount ELSE 0]
            n == Len(tokens)
            v == view[t] - externalLedger[t]
            f == [i \in DOMAIN updates |-> d[updates[i]]]
<1>1. /\ externalLedger' = result.external_ledger
      /\ \A i \in DOMAIN tokens : /\ view[tokens[i]] # NoView
                                  /\ view[tokens[i]] >= externalLedger[tokens[i]]
  BY DEF InternalMint
<1>2. /\ tokens \in Seq(Token) /\ DOMAIN tokens = 1..n /\ n \in Nat
      /\ \A i \in 1..n : tokens[i] \in Token
  BY CustodianAssumption
<1>3. externalLedger \in [Token -> Nat]
  BY DEF CustodianInv, CustodianTypeOK, ExternalLedger
<1>4. ASSUME NEW i \in 1..n
      PROVE  /\ updates[i] = [token |-> tokens[i],
                              amount |-> view[tokens[i]] - externalLedger[tokens[i]]]
             /\ updates[i] \in SyncUpdate
  <2>1. updates[i] = [token |-> tokens[i],
                      amount |-> view[tokens[i]] - externalLedger[tokens[i]]]
    BY <1>2 DEF SyncUpdates
  <2>2. view[tokens[i]] \in Nat /\ externalLedger[tokens[i]] \in Nat
    BY <1>1, <1>2, <1>3
  <2>3. view[tokens[i]] - externalLedger[tokens[i]] \in Nat
    BY <1>1, <1>2, <2>2
  <2>. QED BY <1>2, <2>1, <2>3 DEF SyncUpdate
<1>5. updates \in Seq(SyncUpdate) /\ DOMAIN updates = 1..n
  <2>1. DOMAIN updates = 1..n
    BY <1>2 DEF SyncUpdates
  <2>2. updates \in [1..n -> SyncUpdate]
    <3>1. updates = [i \in 1..n |-> updates[i]]
      BY <1>2 DEF SyncUpdates
    <3>. HIDE DEF updates
    <3>. QED BY <1>4, <3>1
  <2>. HIDE DEF updates
  <2>. QED BY <1>2, <2>1, <2>2, SeqDef
<1>6. d \in [SyncUpdate -> Int] /\ \A u \in SyncUpdate : u.amount \in Nat
  BY DEF SyncUpdate
<1>7. books \in BalancedBooks /\ books \in Books /\ books.external_ledger = externalLedger
  BY DEF CustodianInv, BalancedBooks, CurrentBooks
<1>8. result \in BalancedBooks /\ result \in Books /\ result # Failed
  <2>1. result \in BalancedBooks
    <3>. HIDE DEF updates, books
    <3>. QED BY <1>5, <1>7, SyncsKeepBalance
  <2>. HIDE DEF result
  <2>. QED BY <2>1, BooksAssumption DEF BalancedBooks
<1>9. PICK m \in [Books -> Int] : \A b \in Books : m[b] = b.external_ledger[t]
  <2>1. \A b \in Books : b.external_ledger[t] \in Int
    BY DEF Books, ExternalLedger
  <2>2. [b \in Books |-> b.external_ledger[t]] \in [Books -> Int]
    BY <2>1
  <2>. QED BY <2>2
<1>10. ASSUME NEW b \in Books, NEW u \in SyncUpdate
       PROVE  SyncStep[b][u] \in Books /\ m[SyncStep[b][u]] = m[b] + d[u]
  <2>1. /\ SyncStep[b][u] \in Books
        /\ SyncStep[b][u].external_ledger[t] =
              b.external_ledger[t] + IF t = u.token THEN u.amount ELSE 0
    BY SyncEffect
  <2>2. m[SyncStep[b][u]] = m[b] + IF t = u.token THEN u.amount ELSE 0
    BY <1>9, <2>1
  <2>. QED BY <2>1, <2>2
<1>. HIDE DEF books, result, d
<1>11. /\ StaysIn(Books, SyncUpdate, SyncStep)
       /\ Adds(Books, SyncUpdate, SyncStep, m, d)
  BY <1>10 DEF StaysIn, Adds
<1>12. m[result] = m[books] + SumOver(d, updates)
  <2>. HIDE DEF updates
  <2>1. /\ StaysIn(Books, SyncUpdate, SyncStep)
        /\ Adds(Books, SyncUpdate, SyncStep, m, d)
        /\ d \in [SyncUpdate -> Int] /\ books \in Books /\ updates \in Seq(SyncUpdate)
        /\ ListFold(SyncStep, books, updates) # Failed
    BY <1>5, <1>6, <1>7, <1>8, <1>11 DEF result
  <2>2. m[ListFold(SyncStep, books, updates)] = m[books] + SumOver(d, updates)
    BY <2>1, FoldSums
  <2>. QED BY <2>2 DEF result
<1>13. externalLedger'[t] = externalLedger[t] + Total(f)
  <2>1. SumOver(d, updates) = Total(f)
    BY DEF SumOver
  <2>. HIDE DEF f, updates
  <2>. QED BY <1>1, <1>7, <1>8, <1>9, <1>12, <2>1
<1>14. \A i \in 1..n : f[i] = IF tokens[i] = t THEN v ELSE 0
  <2>. SUFFICES ASSUME NEW i \in 1..n
                PROVE  f[i] = IF tokens[i] = t THEN v ELSE 0
    OBVIOUS
  <2>1. f[i] = d[updates[i]]
    BY <1>5
  <2>2. /\ updates[i] \in SyncUpdate
        /\ updates[i] = [token |-> tokens[i],
                         amount |-> view[tokens[i]] - externalLedger[tokens[i]]]
    BY <1>4
  <2>. HIDE DEF updates, f
  <2>3. /\ updates[i].token = tokens[i]
        /\ updates[i].amount = view[tokens[i]] - externalLedger[tokens[i]]
    BY <2>2
  <2>. QED BY <2>1, <2>2, <2>3 DEF d
<1>15. f = [i \in 1..n |-> f[i]] /\ IsFiniteSet(1..n)
  BY <1>2, <1>5, FS_Interval
<1>. HIDE DEF f, updates, v
<1>16. CASE \A i \in 1..n : tokens[i] # t
  <2>1. f \in [1..n -> Int] /\ \A i \in 1..n : f[i] = 0
    BY <1>14, <1>15, <1>16
  <2>2. Total(f) = 0
    BY <1>15, <2>1, TotalZero
  <2>. QED BY <1>3, <1>13, <2>2
<1>17. ASSUME NEW k \in 1..n, tokens[k] = t
       PROVE  view[t] # NoView /\ (NamesOnce(tokens) => externalLedger'[t] = view[t])
  <2>. SUFFICES ASSUME NamesOnce(tokens)
                PROVE  externalLedger'[t] = view[t]
    BY <1>1, <1>2, <1>17
  <2>1. /\ view[t] \in Nat /\ externalLedger[t] \in Nat
        /\ v = view[t] - externalLedger[t] /\ v \in Int
    <3>1. view[tokens[k]] # NoView
      BY <1>1, <1>2
    <3>2. view[t] \in Nat /\ externalLedger[t] \in Nat
      BY <1>3, <1>17, <3>1
    <3>3. v = view[t] - externalLedger[t]
      BY DEF v
    <3>. QED BY <3>2, <3>3
  <2>2. \A i \in 1..n : f[i] = IF i = k THEN v ELSE 0
    BY <1>2, <1>14, <1>17 DEF NamesOnce
  <2>3. f \in [1..n -> Int]
    BY <1>15, <2>1, <2>2
  <2>4. f[k] = v /\ \A i \in 1..n : i # k => f[i] = 0
    BY <1>17, <2>2
  <2>5. Total(f) = v
    BY <1>15, <1>17, <2>3, <2>4, TotalSingle
  <2>. QED BY <1>13, <2>1, <2>5
<1>. QED BY <1>16, <1>17

(* The view's answer for a kind of credits is the custodian's FA2 balance. *)
LEMMA CustodianViewOf ==
    \A t \in Credit : CustodianView[t] = fa2Ledger[t[1]][<<CustodianContract, t[2]>>]
BY CreditIsToken DEF CustodianView, ViewBalanceOf, Credit

(* Of a kind of credits, a call books no more than it had booked, made     *)
(* pending included, or it makes nothing pending and books what is in      *)
(* custody.                                                                *)
Leveled(t) ==
    \/ externalLedger'[t] + Pending(outbox', t) = externalLedger[t]
    \/ /\ outbox' = <<>>
       /\ externalLedger'[t] = fa2Ledger[t[1]][<<CustodianContract, t[2]>>]

BooksWhatCame == outbox = <<>> => \A t \in Credit : Leveled(t)

LEMMA SyncBooks ==
    ASSUME ChainInv, NEW caller, NEW tokens \in SyncBatches, NamesOnce(tokens),
           outbox = <<>>, InternalMint(caller, tokens, CustodianView), NEW t \in Credit
    PROVE  Leveled(t)
<1>1. CustodianView \in [Token -> Nat \cup {NoView}] /\ CustodianInv /\ t \in Token
  BY CustodianViewType, CreditIsToken DEF ChainInv
<1>2. externalLedger'[t] = externalLedger[t] \/ externalLedger'[t] = CustodianView[t]
  BY <1>1, SyncLevels
<1>3. outbox' = <<>>
  BY DEF InternalMint
<1>4. Pending(outbox', t) = 0 /\ externalLedger[t] \in Nat
  BY <1>3, SumOverNone, AmountsNat DEF Pending
<1>. QED BY <1>2, <1>3, <1>4, CustodianViewOf DEF Leveled

LEMMA UntouchedBooks ==
    ASSUME ChainInv, outbox = <<>>, UNCHANGED <<externalLedger, outbox>>, NEW t \in Credit
    PROVE  Leveled(t)
<1>1. Pending(outbox', t) = 0 /\ externalLedger[t] \in Nat
  BY SumOverNone, AmountsNat DEF Pending
<1>. QED BY <1>1 DEF Leveled

(* So does every call if internal_mint is called without repeats.          *)
LEMMA CallsBook ==
    ASSUME SyncsWithoutRepeats, ChainInv, ChainNext
    PROVE  BooksWhatCame
<1>. SUFFICES ASSUME outbox = <<>>, NEW t \in Credit PROVE Leveled(t)
  BY DEF BooksWhatCame
<1>1. t \in Token /\ CustodianInv
  BY CreditIsToken DEF ChainInv
<1>2. ASSUME NEW c \in FA2s, NEW caller \in Wallets, CallFA2(c, caller)
      PROVE  Leveled(t)
  BY <1>2, UntouchedBooks DEF CallFA2, custodianVars
<1>3. ASSUME NEW caller \in Wallets, CallCustodian(caller)
      PROVE  Leveled(t)
  <2>1. LedgerCall(caller, CustodianView)
    BY <1>3 DEF CallCustodian
  <2>2. ASSUME NEW tokens \in SyncBatches, InternalMint(caller, tokens, CustodianView)
        PROVE  Leveled(t)
    BY <2>2, SyncBooks DEF SyncsWithoutRepeats
  <2>. QED BY <1>1, <2>1, <2>2, LedgerCallPending DEF Leveled
<1>4. ASSUME NEW caller \in Wallets, NEW groups \in Retirements,
             CallRetire(caller, groups)
      PROVE  Leveled(t)
  <2>1. Retire(caller, groups)
    BY <1>4 DEF CallRetire, RetireCall
  <2>. QED BY <1>1, <2>1, RetirePending DEF Leveled
<1>5. ~ApplyOperation /\ ~RejectOperation
  BY DEF ApplyOperation, OperationApplied, RejectOperation, OperationRejected
<1>. QED BY <1>2, <1>3, <1>4, <1>5 DEF ChainNext

(***************************************************************************)
(* The invariant behind Backed: what is booked, and what a call under way  *)
(* has still to take, is in custody, and what Tezos may go back to was     *)
(* backed as well.                                                         *)
(***************************************************************************)
BackedInv ==
    /\ CoversPending
    /\ outbox # <<>> => Covers(before.external_ledger, chainBefore.fa2Ledger)

(* With nothing to execute, backing is about the books alone. *)
LEMMA NothingPendingCovers ==
    ASSUME ChainInv, outbox = <<>>
    PROVE  CoversPending <=> Covers(externalLedger, fa2Ledger)
<1>1. \A t \in Credit : Pending(outbox, t) = 0 /\ externalLedger[t] \in Nat
  BY SumOverNone, AmountsNat DEF Pending
<1>2. \A t \in Credit : externalLedger[t] + Pending(outbox, t) = externalLedger[t]
  BY <1>1
<1>. QED BY <1>2 DEF CoversPending, Covers

LEMMA BackedInvInit == ChainInit => BackedInv
<1>. SUFFICES ASSUME ChainInit PROVE BackedInv
  OBVIOUS
<1>1. ChainInv /\ outbox = <<>>
  BY ChainInitInv DEF ChainInit, CustodianInit
<1>2. Covers(externalLedger, fa2Ledger)
  <2>. SUFFICES ASSUME NEW t \in Credit
                PROVE  externalLedger[t] <= fa2Ledger[t[1]][<<CustodianContract, t[2]>>]
    BY DEF Covers
  <2>1. externalLedger[t] = 0
    BY CreditIsToken DEF ChainInit, CustodianInit
  <2>. QED BY <1>1, <2>1, AmountsNat
<1>. QED BY <1>1, <1>2, NothingPendingCovers DEF BackedInv

LEMMA CallFA2Backed ==
    ASSUME ChainInv, BackedInv, NEW c \in FA2s, NEW caller \in Wallets,
           CallFA2(c, caller)
    PROVE  BackedInv'
<1>1. /\ FA2Call(c, caller) /\ UNCHANGED <<externalLedger, outbox>> /\ outbox = <<>>
  BY DEF CallFA2, custodianVars
<1>. SUFFICES ASSUME NEW t \in Credit
              PROVE  externalLedger[t] + Pending(outbox, t)
                        <= fa2Ledger'[t[1]][<<CustodianContract, t[2]>>]
  BY <1>1 DEF BackedInv, CoversPending
<1>2. Pending(outbox, t) = 0
  BY <1>1, SumOverNone DEF Pending
<1>3. externalLedger[t] \in Nat /\ fa2Ledger[t[1]][<<CustodianContract, t[2]>>] \in Nat
  BY AmountsNat
<1>4. fa2Ledger'[t[1]][<<CustodianContract, t[2]>>] \in Nat
  <2>1. FA2Inv'
    BY <1>1, FA2CallInv DEF ChainInv, Address
  <2>. QED BY <2>1, CustodyNat DEF FA2Inv, FA2TypeOK
<1>5. fa2Ledger'[t[1]][<<CustodianContract, t[2]>>]
         >= fa2Ledger[t[1]][<<CustodianContract, t[2]>>]
  BY <1>1, WalletsSpareCustody
<1>6. externalLedger[t] + Pending(outbox, t)
         <= fa2Ledger[t[1]][<<CustodianContract, t[2]>>]
  BY DEF BackedInv, CoversPending
<1>. QED BY <1>2, <1>3, <1>4, <1>5, <1>6

(* A call of the custodian that books no more than it had booked. *)
LEMMA CallBacked ==
    ASSUME ChainInv, BackedInv, outbox = <<>>, UNCHANGED fa2Ledger, Remember,
           outbox' # <<>> => before' = CurrentBooks,
           \A t \in Credit : Leveled(t)
    PROVE  BackedInv'
<1>1. Covers(externalLedger, fa2Ledger)
  BY NothingPendingCovers DEF BackedInv
<1>2. ASSUME NEW t \in Credit
      PROVE  externalLedger'[t] + Pending(outbox', t)
                <= fa2Ledger[t[1]][<<CustodianContract, t[2]>>]
  <2>1. CASE externalLedger'[t] + Pending(outbox', t) = externalLedger[t]
    BY <1>1, <2>1 DEF Covers
  <2>2. CASE /\ outbox' = <<>>
             /\ externalLedger'[t] = fa2Ledger[t[1]][<<CustodianContract, t[2]>>]
    <3>1. Pending(outbox', t) = 0
      BY <2>2, SumOverNone DEF Pending
    <3>2. externalLedger'[t] \in Nat
      BY <2>2, AmountsNat
    <3>. QED BY <2>2, <3>1, <3>2
  <2>. QED BY <2>1, <2>2 DEF Leveled
<1>3. CoversPending'
  BY <1>2 DEF CoversPending
<1>4. ASSUME outbox' # <<>>
      PROVE  Covers(before.external_ledger, chainBefore.fa2Ledger)'
  <2>1. /\ before'.external_ledger = externalLedger
        /\ chainBefore'.fa2Ledger = fa2Ledger
    BY <1>4 DEF Remember, CurrentBooks
  <2>. QED BY <1>1, <2>1 DEF Covers
<1>. QED BY <1>3, <1>4 DEF BackedInv

LEMMA BackedInvNext ==
    ASSUME ChainInv, BackedInv, [ChainNext /\ BooksWhatCame]_chainVars
    PROVE  BackedInv'
<1>1. CASE UNCHANGED chainVars
  BY <1>1 DEF BackedInv, Covers, CoversPending, chainVars, fa2Vars, custodianVars
<1>. SUFFICES ASSUME ChainNext, BooksWhatCame PROVE BackedInv'
  BY <1>1
<1>2. ASSUME NEW c \in FA2s, NEW caller \in Wallets, CallFA2(c, caller)
      PROVE  BackedInv'
  BY <1>2, CallFA2Backed
<1>3. ASSUME NEW caller \in Wallets, CallCustodian(caller)
      PROVE  BackedInv'
  <2>1. /\ LedgerCall(caller, CustodianView) /\ Remember /\ UNCHANGED fa2Ledger
        /\ outbox = <<>>
    BY <1>3 DEF CallCustodian, LedgerCall, fa2Vars
  <2>2. outbox' # <<>> => before' = CurrentBooks
    BY <2>1, LedgerCallEmits
  <2>. QED BY <2>1, <2>2, CallBacked DEF BooksWhatCame
<1>4. ASSUME NEW caller \in Wallets, NEW groups \in Retirements,
             CallRetire(caller, groups)
      PROVE  BackedInv'
  <2>1. /\ Retire(caller, groups) /\ Remember /\ UNCHANGED fa2Ledger /\ outbox = <<>>
    BY <1>4 DEF CallRetire, RetireCall, fa2Vars
  <2>2. outbox' # <<>> => before' = CurrentBooks
    BY <2>1 DEF Retire, Emit
  <2>. QED BY <2>1, <2>2, CallBacked DEF BooksWhatCame
<1>5. ASSUME ApplyOperation PROVE BackedInv'
  <2>1. CoversPending'
    BY <1>5, ApplyKeepsCover DEF BackedInv
  <2>2. ASSUME outbox' # <<>> PROVE outbox # <<>> /\ UNCHANGED <<before, chainBefore>>
    BY <1>5, <2>2 DEF ApplyOperation, OperationApplied
  <2>. QED BY <2>1, <2>2 DEF BackedInv, Covers
<1>6. ASSUME RejectOperation PROVE BackedInv'
  <2>1. /\ outbox # <<>> /\ outbox' = <<>>
        /\ externalLedger' = before.external_ledger
        /\ fa2Ledger' = chainBefore.fa2Ledger
    BY <1>6 DEF RejectOperation, OperationRejected
  <2>2. Covers(externalLedger', fa2Ledger')
    BY <2>1 DEF BackedInv
  <2>3. ASSUME NEW t \in Credit
        PROVE  externalLedger'[t] + Pending(outbox', t)
                  <= fa2Ledger'[t[1]][<<CustodianContract, t[2]>>]
    <3>1. Pending(outbox', t) = 0
      BY <2>1, SumOverNone DEF Pending
    <3>2. externalLedger'[t] \in Nat
      <4>1. ChainInv'
        BY <1>6, ChainNextInv DEF ChainNext
      <4>. QED BY <4>1, CreditIsToken
               DEF ChainInv, CustodianInv, CustodianTypeOK, ExternalLedger
    <3>3. externalLedger'[t] <= fa2Ledger'[t[1]][<<CustodianContract, t[2]>>]
      BY <2>2 DEF Covers
    <3>. QED BY <3>1, <3>2, <3>3
  <2>. QED BY <2>1, <2>3 DEF BackedInv, CoversPending
<1>. QED BY <1>2, <1>3, <1>4, <1>5, <1>6 DEF ChainNext

BackedSteps == [][ChainNext /\ BooksWhatCame]_chainVars

LEMMA BackedWhile == ChainInit /\ BackedSteps => [](ChainInv /\ BackedInv)
<1>1. ChainInit => ChainInv /\ BackedInv
  BY ChainInitInv, BackedInvInit
<1>2. ChainInv /\ BackedInv /\ [ChainNext /\ BooksWhatCame]_chainVars
         => ChainInv' /\ BackedInv'
  <2>. SUFFICES ASSUME ChainInv, BackedInv, [ChainNext /\ BooksWhatCame]_chainVars
                PROVE  ChainInv' /\ BackedInv'
    OBVIOUS
  <2>1. [ChainNext]_chainVars
    OBVIOUS
  <2>. QED BY <2>1, ChainNextInv, BackedInvNext
<1>. QED BY <1>1, <1>2, PTL DEF BackedSteps

LEMMA BackedAndTaken == ChainInv /\ BackedInv => Backed /\ NothingRefused
<1>1. ChainInv /\ BackedInv => Backed
  BY NothingPendingCovers DEF BackedInv, Backed, Covers
<1>2. ChainInv /\ BackedInv => NothingRefused
  BY CoveredSucceeds DEF BackedInv, NothingRefused
<1>. QED BY <1>1, <1>2

LEMMA IdempotentWhile == ChainInit /\ BackedSteps => SyncIdempotent
<1>1. ASSUME ChainInv, ChainNext, BooksWhatCame, outbox = <<>>, NEW t \in Credit,
             externalLedger'[t] > externalLedger[t]
      PROVE  externalLedger'[t] = CustodianView'[t]
  <2>1. ChainInv' /\ externalLedger[t] \in Nat /\ externalLedger'[t] \in Nat
    <3>1. ChainInv'
      BY <1>1, ChainNextInv
    <3>. QED BY <1>1, <3>1, CreditIsToken
             DEF ChainInv, CustodianInv, CustodianTypeOK, ExternalLedger
  <2>2. Pending(outbox', t) \in Nat
    <3>1. outbox' \in Seq(Operation)
      BY <2>1 DEF ChainInv, CustodianInv, CustodianTypeOK
    <3>. QED BY <3>1, OperationAmounts, SumOverType DEF Pending
  <2>3. externalLedger'[t] + Pending(outbox', t) # externalLedger[t]
    BY <1>1, <2>1, <2>2
  <2>4. externalLedger'[t] = fa2Ledger[t[1]][<<CustodianContract, t[2]>>]
    BY <1>1, <2>3 DEF BooksWhatCame, Leveled
  <2>5. UNCHANGED fa2Ledger
    <3>1. externalLedger' # externalLedger
      BY <1>1, <2>1
    <3>2. ~ApplyOperation /\ ~RejectOperation
      BY <1>1 DEF ApplyOperation, OperationApplied, RejectOperation, OperationRejected
    <3>. QED BY <1>1, <3>1, <3>2
             DEF ChainNext, CallFA2, CallCustodian, CallRetire, custodianVars, fa2Vars
  <2>6. CustodianView' = CustodianView
    BY <2>5 DEF CustodianView, ViewBalanceOf
  <2>. QED BY <2>4, <2>6, CustodianViewOf
<1>2. ChainInv /\ [ChainNext /\ BooksWhatCame]_chainVars
         => [outbox = <<>> =>
                \A t \in Credit : externalLedger'[t] > externalLedger[t]
                   => externalLedger'[t] = CustodianView'[t]]_chainVars
  BY <1>1
<1>. QED BY <1>2, BackedWhile, PTL DEF BackedSteps, SyncIdempotent

(* internal_mint without repeats makes such steps. *)
LEMMA StepsWithoutRepeats ==
    ASSUME SyncsWithoutRepeats
    PROVE  ChainSpec => ChainInit /\ BackedSteps
<1>1. ChainInv /\ [ChainNext]_chainVars => [ChainNext /\ BooksWhatCame]_chainVars
  BY CallsBook
<1>. QED BY <1>1, ChainInitInv, ChainNextInv, PTL DEF ChainSpec, BackedSteps

(***************************************************************************)
(* While internal_mint is called with lists that name no token twice, what *)
(* the custodian books is in its custody: wallets cannot take it away, a   *)
(* sync books exactly what has come in, and what external_transfer and     *)
(* retire unbook is what they have taken, or undone.                       *)
(***************************************************************************)
THEOREM AlwaysBacked ==
    ASSUME SyncsWithoutRepeats
    PROVE  ChainSpec => []Backed
BY StepsWithoutRepeats, BackedWhile, BackedAndTaken, PTL

(***************************************************************************)
(* Then every operation the custodian emits succeeds: a call that has      *)
(* passed its own checks is never undone by an FA2 contract.               *)
(***************************************************************************)
THEOREM OperationsSucceed ==
    ASSUME SyncsWithoutRepeats
    PROVE  ChainSpec => []NothingRefused
BY StepsWithoutRepeats, BackedWhile, BackedAndTaken, PTL

(***************************************************************************)
(* And internal_mint is idempotent: a sync that books anything leaves      *)
(* nothing more of that token to book.                                     *)
(***************************************************************************)
THEOREM SyncsAreIdempotent ==
    ASSUME SyncsWithoutRepeats
    PROVE  ChainSpec => SyncIdempotent
BY StepsWithoutRepeats, IdempotentWhile, PTL

(***************************************************************************)
(* Of tokens that are no FA2 contract's nothing is ever booked: there is   *)
(* nobody who would answer internal_mint.                                  *)
(***************************************************************************)
OnlyCredits(external) == \A t \in Token : t[1] \notin FA2s => external[t] = 0

OnlyCreditsBooked ==
    /\ OnlyCredits(externalLedger)
    /\ outbox # <<>> => OnlyCredits(before.external_ledger)

LEMMA LoweredStaysZero ==
    ASSUME ChainInv', NEW t \in Token, externalLedger[t] = 0,
           externalLedger'[t] + Pending(outbox', t) = externalLedger[t]
    PROVE  externalLedger'[t] = 0
<1>1. externalLedger'[t] \in Nat /\ outbox' \in Seq(Operation)
  BY DEF ChainInv, CustodianInv, CustodianTypeOK, ExternalLedger
<1>2. Pending(outbox', t) \in Nat
  BY <1>1, OperationAmounts, SumOverType DEF Pending
<1>. QED BY <1>1, <1>2

LEMMA OnlyCreditsNext ==
    ASSUME ChainInv, OnlyCreditsBooked, [ChainNext]_chainVars
    PROVE  OnlyCreditsBooked'
<1>0. ChainInv' /\ CustodianInv
  BY ChainNextInv DEF ChainInv
<1>1. CASE UNCHANGED chainVars
  BY <1>1 DEF OnlyCreditsBooked, OnlyCredits, chainVars, custodianVars
<1>2. ASSUME NEW c \in FA2s, NEW caller \in Wallets, CallFA2(c, caller)
      PROVE  OnlyCreditsBooked'
  BY <1>2 DEF OnlyCreditsBooked, OnlyCredits, CallFA2, custodianVars
<1>3. ASSUME NEW caller \in Wallets, CallCustodian(caller)
      PROVE  OnlyCreditsBooked'
  <2>1. LedgerCall(caller, CustodianView) /\ outbox = <<>>
    BY <1>3 DEF CallCustodian, LedgerCall
  <2>2. outbox' # <<>> => before' = CurrentBooks
    BY <2>1, LedgerCallEmits
  <2>3. ASSUME NEW t \in Token, t[1] \notin FA2s
        PROVE  externalLedger'[t] = 0
    <3>1. externalLedger[t] = 0
      BY <2>3 DEF OnlyCreditsBooked, OnlyCredits
    <3>2. ASSUME NEW tokens \in SyncBatches, InternalMint(caller, tokens, CustodianView)
          PROVE  externalLedger'[t] = 0
      <4>1. CustodianView \in [Token -> Nat \cup {NoView}] /\ CustodianView[t] = NoView
        BY <2>3, CustodianViewType DEF ChainInv, CustodianView
      <4>. QED BY <1>0, <3>1, <3>2, <4>1, SyncLevels
    <3>. QED BY <1>0, <2>1, <3>1, <3>2, LedgerCallPending, LoweredStaysZero
  <2>. QED BY <2>2, <2>3 DEF OnlyCreditsBooked, OnlyCredits, CurrentBooks
<1>4. ASSUME NEW caller \in Wallets, NEW groups \in Retirements,
             CallRetire(caller, groups)
      PROVE  OnlyCreditsBooked'
  <2>1. Retire(caller, groups) /\ outbox = <<>>
    BY <1>4 DEF CallRetire, RetireCall
  <2>2. outbox' # <<>> => before' = CurrentBooks
    BY <2>1 DEF Retire, Emit
  <2>3. ASSUME NEW t \in Token, t[1] \notin FA2s
        PROVE  externalLedger'[t] = 0
    BY <1>0, <2>1, <2>3, RetirePending, LoweredStaysZero DEF OnlyCreditsBooked, OnlyCredits
  <2>. QED BY <2>2, <2>3 DEF OnlyCreditsBooked, OnlyCredits, CurrentBooks
<1>5. ASSUME ApplyOperation PROVE OnlyCreditsBooked'
  <2>1. UNCHANGED externalLedger /\ (outbox' # <<>> => outbox # <<>> /\ UNCHANGED before)
    BY <1>5 DEF ApplyOperation, OperationApplied
  <2>. QED BY <2>1 DEF OnlyCreditsBooked, OnlyCredits
<1>6. ASSUME RejectOperation PROVE OnlyCreditsBooked'
  <2>1. /\ outbox # <<>> /\ outbox' = <<>>
        /\ externalLedger' = before.external_ledger
    BY <1>6 DEF RejectOperation, OperationRejected
  <2>. QED BY <2>1 DEF OnlyCreditsBooked, OnlyCredits
<1>. QED BY <1>1, <1>2, <1>3, <1>4, <1>5, <1>6 DEF ChainNext

-----------------------------------------------------------------------------
(* One book. *)

(* What of the contracts' state CreditBook is about: s stands for one of    *)
(* Present, CallBegan and Settled, and n for minted.                       *)
Present == [fa2Ledger |-> fa2Ledger, fa2Retired |-> fa2Retired,
            ledger |-> ledger, external_ledger |-> externalLedger]

CallBegan == [fa2Ledger |-> chainBefore.fa2Ledger,
              fa2Retired |-> chainBefore.fa2Retired,
              ledger |-> before.ledger, external_ledger |-> before.external_ledger]

Owns(s, h, t) ==
    CASE h \in Kycs -> s.ledger[h, t]
      [] h \in Wallets -> s.fa2Ledger[t[1]][h, t[2]]
      [] h = CustodianContract -> s.fa2Ledger[t[1]][h, t[2]] - s.external_ledger[t]

BookOf(s) == [ht \in (Address \cup Kycs) \X Credit |-> Owns(s, ht[1], ht[2])]

RetiredIn(s, t) == Total(Column(Address, s.fa2Retired[t[1]], t[2]))

BooksIn(s) == [ledger |-> s.ledger, external_ledger |-> s.external_ledger]

(* Credits are accounted for, the books balance and what they say is held. *)
Sound(s, n) ==
    /\ s.fa2Ledger \in [FA2s -> FA2Ledger] /\ s.fa2Retired \in [FA2s -> FA2Ledger]
    /\ n \in [FA2s -> Tally]
    /\ \A c \in FA2s : Accounted(s.fa2Ledger[c], s.fa2Retired[c], n[c])
    /\ BooksIn(s) \in BalancedBooks
    /\ Covers(s.external_ledger, s.fa2Ledger)

LEMMA BookEntries ==
    ASSUME NEW s, NEW n, Sound(s, n), NEW t \in Credit
    PROVE  /\ \A k \in Kycs : /\ BookOf(s)[<<k, t>>] = s.ledger[<<k, t>>]
                              /\ s.ledger[<<k, t>>] \in Nat
           /\ \A w \in Wallets :
                 /\ BookOf(s)[<<w, t>>] = s.fa2Ledger[t[1]][<<w, t[2]>>]
                 /\ s.fa2Ledger[t[1]][<<w, t[2]>>] \in Nat
           /\ BookOf(s)[<<CustodianContract, t>>] =
                 s.fa2Ledger[t[1]][<<CustodianContract, t[2]>>] - s.external_ledger[t]
           /\ s.fa2Ledger[t[1]][<<CustodianContract, t[2]>>] \in Nat
           /\ s.external_ledger[t] \in Nat
           /\ s.external_ledger[t] <= s.fa2Ledger[t[1]][<<CustodianContract, t[2]>>]
<1>1. /\ s.ledger \in [Kycs \X Token -> Nat] /\ s.external_ledger \in [Token -> Nat]
      /\ t \in Token
  BY CreditIsToken DEF Sound, BooksIn, BalancedBooks, Books, KycLedger, ExternalLedger
<1>2. s.fa2Ledger[t[1]] \in [Owner -> Nat] /\ t[2] \in TokenIds
  BY DEF Sound, Credit, FA2Ledger
<1>3. ASSUME NEW k \in Kycs
      PROVE  BookOf(s)[<<k, t>>] = s.ledger[<<k, t>>] /\ s.ledger[<<k, t>>] \in Nat
  <2>1. k \notin Wallets /\ k # CustodianContract
    BY ChainAssumption DEF Address
  <2>2. <<k, t>> \in (Address \cup Kycs) \X Credit
    OBVIOUS
  <2>3. BookOf(s)[<<k, t>>] = s.ledger[<<k, t>>]
    BY <2>1, <2>2 DEF BookOf, Owns
  <2>. QED BY <1>1, <2>3
<1>4. ASSUME NEW w \in Wallets
      PROVE  /\ BookOf(s)[<<w, t>>] = s.fa2Ledger[t[1]][<<w, t[2]>>]
             /\ s.fa2Ledger[t[1]][<<w, t[2]>>] \in Nat
  <2>1. w \notin Kycs /\ w # CustodianContract /\ w \in Address
    BY ChainAssumption, TezosAssumption DEF Address
  <2>2. <<w, t>> \in (Address \cup Kycs) \X Credit /\ <<w, t[2]>> \in Owner
    BY <1>2, <2>1 DEF Owner
  <2>3. BookOf(s)[<<w, t>>] = s.fa2Ledger[t[1]][<<w, t[2]>>]
    BY <2>1, <2>2 DEF BookOf, Owns
  <2>. QED BY <1>2, <2>2, <2>3
<1>5. BookOf(s)[<<CustodianContract, t>>] =
         s.fa2Ledger[t[1]][<<CustodianContract, t[2]>>] - s.external_ledger[t]
  <2>1. CustodianContract \notin Kycs /\ CustodianContract \notin Wallets
        /\ CustodianContract \in Address
    BY ChainAssumption, TezosAssumption DEF Address
  <2>2. <<CustodianContract, t>> \in (Address \cup Kycs) \X Credit
    BY <2>1
  <2>. QED BY <2>1, <2>2 DEF BookOf, Owns
<1>6. <<CustodianContract, t[2]>> \in Owner
  BY <1>2 DEF Owner, Address
<1>7. s.external_ledger[t] <= s.fa2Ledger[t[1]][<<CustodianContract, t[2]>>]
  BY DEF Sound, Covers
<1>. QED BY <1>1, <1>2, <1>3, <1>4, <1>5, <1>6, <1>7

LEMMA BookType ==
    ASSUME NEW s, NEW n, Sound(s, n)
    PROVE  BookOf(s) \in OneBook!Book
<1>1. ASSUME NEW h \in Address \cup Kycs, NEW t \in Credit
      PROVE  BookOf(s)[<<h, t>>] \in Nat
  <2>1. \A k \in Kycs : BookOf(s)[<<k, t>>] = s.ledger[<<k, t>>] /\ s.ledger[<<k, t>>] \in Nat
    BY BookEntries, Zenon
  <2>2. \A w \in Wallets : /\ BookOf(s)[<<w, t>>] = s.fa2Ledger[t[1]][<<w, t[2]>>]
                          /\ s.fa2Ledger[t[1]][<<w, t[2]>>] \in Nat
    BY BookEntries, Zenon
  <2>3. CASE h = CustodianContract
    <3>. DEFINE x == s.fa2Ledger[t[1]][<<CustodianContract, t[2]>>]
    <3>1. /\ x \in Nat /\ s.external_ledger[t] \in Nat /\ s.external_ledger[t] <= x
          /\ BookOf(s)[<<h, t>>] = x - s.external_ledger[t]
      BY <2>3, BookEntries
    <3>. HIDE DEF x
    <3>. QED BY <3>1
  <2>. QED BY <2>1, <2>2, <2>3 DEF Address
<1>2. \A ht \in (Address \cup Kycs) \X Credit : Owns(s, ht[1], ht[2]) \in Nat
  BY <1>1 DEF BookOf
<1>. QED BY <1>2 DEF BookOf, OneBook!Book

LEMMA OwnedIs ==
    ASSUME NEW b, NEW t
    PROVE  OneBook!Owned(b, t) = Total([h \in Address \cup Kycs |-> b[<<h, t>>]])
BY DEF OneBook!Owned, OneBook!SumFunction, OneBook!SumFunctionOnSet,
       OneBook!FoldFunctionOnSet, OneBook!MapThenFoldSet,
       Total, SumFunction, SumFunctionOnSet, FoldFunctionOnSet, MapThenFoldSet

(* The book's total is the supply: what parties own and what the contract   *)
(* has not synced is what the FA2 contract says the custodian has.         *)
LEMMA BookTotal ==
    ASSUME NEW s, NEW n, Sound(s, n), NEW t \in Credit
    PROVE  OneBook!Owned(BookOf(s), t) = Total(Column(Address, s.fa2Ledger[t[1]], t[2]))
<1>. DEFINE H == Address \cup Kycs
            e == s.external_ledger[t]
            A == [h \in H |-> IF h \in Address THEN s.fa2Ledger[t[1]][<<h, t[2]>>] ELSE 0]
            K == [h \in H |-> IF h \in Kycs THEN s.ledger[<<h, t>>] ELSE 0]
            Z == [h \in H |-> 0]
            C == [Z EXCEPT ![CustodianContract] = -e]
            KC == [h \in H |-> K[h] + C[h]]
            B == [h \in H |-> BookOf(s)[<<h, t>>]]
<1>1. IsFiniteSet(H) /\ IsFiniteSet(Address) /\ IsFiniteSet(Kycs)
  BY AddressFinite, CustodianAssumption, FS_Union
<1>2. CustodianContract \in Address /\ CustodianContract \notin Kycs
      /\ CustodianContract \notin Wallets /\ CustodianContract \in H
  BY ChainAssumption, TezosAssumption DEF Address
<1>3. \A h \in Kycs : h \notin Address
  BY ChainAssumption
<1>4. s.fa2Ledger[t[1]] \in [Owner -> Nat] /\ t[2] \in TokenIds /\ e \in Nat
  BY BookEntries DEF Sound, Credit, FA2Ledger
<1>5. \A h \in Address : <<h, t[2]>> \in Owner
  BY <1>4 DEF Owner
<1>6. \A h \in Address : s.fa2Ledger[t[1]][<<h, t[2]>>] \in Nat
  BY <1>4, <1>5
<1>7. \A h \in Kycs : s.ledger[<<h, t>>] \in Nat
  BY BookEntries
<1>at. /\ \A h \in Kycs : B[h] = s.ledger[<<h, t>>]
       /\ \A h \in Wallets : B[h] = s.fa2Ledger[t[1]][<<h, t[2]>>]
       /\ B[CustodianContract] =
             s.fa2Ledger[t[1]][<<CustodianContract, t[2]>>] - e
  <2>1. \A h \in H : B[h] = BookOf(s)[<<h, t>>]
    OBVIOUS
  <2>2. CustodianContract \in H /\ Kycs \subseteq H /\ Wallets \subseteq H
    BY <1>2 DEF Address
  <2>. HIDE DEF B, H, e
  <2>3. /\ \A h \in Kycs : BookOf(s)[<<h, t>>] = s.ledger[<<h, t>>]
        /\ \A h \in Wallets : BookOf(s)[<<h, t>>] = s.fa2Ledger[t[1]][<<h, t[2]>>]
        /\ BookOf(s)[<<CustodianContract, t>>] =
              s.fa2Ledger[t[1]][<<CustodianContract, t[2]>>] - e
    BY BookEntries DEF e
  <2>. QED BY <2>1, <2>2, <2>3
<1>. HIDE DEF B
<1>8. A \in [H -> Int] /\ K \in [H -> Int] /\ Z \in [H -> Int]
  BY <1>6, <1>7
<1>9. -e \in Int
  BY <1>4
<1>10. C \in [H -> Int] /\ C[CustodianContract] = -e
       /\ \A h \in H : h # CustodianContract => C[h] = 0
  BY <1>2, <1>8, <1>9
<1>11. KC \in [H -> Int]
  <2>. HIDE DEF K, C
  <2>. QED BY <1>8, <1>10
<1>12. B = [h \in H |-> A[h] + KC[h]]
  <2>. SUFFICES ASSUME NEW h \in H PROVE B[h] = A[h] + KC[h]
    BY DEF B
  <2>1. KC[h] = K[h] + C[h]
    OBVIOUS
  <2>2. CASE h \in Kycs
    <3>1. h # CustodianContract /\ h \notin Address
      BY <1>2, <1>3, <2>2
    <3>2. A[h] = 0 /\ K[h] = s.ledger[<<h, t>>]
      BY <2>2, <3>1
    <3>3. C[h] = 0
      BY <1>10, <3>1
    <3>4. B[h] = s.ledger[<<h, t>>]
      BY <1>at, <2>2
    <3>. HIDE DEF A, K, C, KC
    <3>. QED BY <1>7, <2>1, <2>2, <3>2, <3>3, <3>4
  <2>3. CASE h \in Wallets
    <3>1. h # CustodianContract /\ h \in Address /\ h \notin Kycs
      BY <1>2, <1>3, <2>3 DEF Address
    <3>2. A[h] = s.fa2Ledger[t[1]][<<h, t[2]>>] /\ K[h] = 0
      BY <3>1
    <3>3. C[h] = 0
      BY <1>10, <3>1
    <3>4. B[h] = s.fa2Ledger[t[1]][<<h, t[2]>>]
      BY <1>at, <2>3
    <3>. HIDE DEF A, K, C, KC
    <3>. QED BY <1>6, <2>1, <3>1, <3>2, <3>3, <3>4
  <2>4. CASE h = CustodianContract
    <3>. DEFINE held == s.fa2Ledger[t[1]][<<CustodianContract, t[2]>>]
    <3>1. A[CustodianContract] = held /\ K[CustodianContract] = 0
      BY <1>2
    <3>2. KC[CustodianContract] = K[CustodianContract] + C[CustodianContract]
      BY <1>2
    <3>3. held \in Nat
      BY <1>2, <1>6
    <3>. HIDE DEF A, K, C, KC, e, held
    <3>4. B[CustodianContract] = held - e
      BY <1>at DEF held
    <3>5. B[CustodianContract] = A[CustodianContract] + KC[CustodianContract]
      BY <1>4, <1>10, <3>1, <3>2, <3>3, <3>4
    <3>. QED BY <2>4, <3>5
  <2>. QED BY <2>2, <2>3, <2>4 DEF Address
<1>13. [h \in Address |-> A[h]] = Column(Address, s.fa2Ledger[t[1]], t[2])
  BY DEF Column
<1>14. [h \in Kycs |-> K[h]] = Column(Kycs, s.ledger, t)
  BY DEF Column
<1>15. Total(Column(Kycs, s.ledger, t)) = e
  BY CreditIsToken DEF Sound, BooksIn, BalancedBooks, BooksBalance
<1>16. (\A h \in H \ Address : A[h] = 0) /\ \A h \in H \ Kycs : K[h] = 0
  OBVIOUS
<1>. HIDE DEF A, K
<1>17. Total(A) = Total([h \in Address |-> A[h]])
  <2>1. Address \in SUBSET H
    OBVIOUS
  <2>. HIDE DEF H
  <2>. QED BY <1>1, <1>8, <1>16, <2>1, TotalPart
<1>18. Total(K) = Total([h \in Kycs |-> K[h]])
  <2>1. Kycs \in SUBSET H
    OBVIOUS
  <2>. HIDE DEF H
  <2>. QED BY <1>1, <1>8, <1>16, <2>1, TotalPart
<1>19. Total(Z) = 0 /\ Z[CustodianContract] = 0
  <2>1. \A h \in H : Z[h] = 0
    OBVIOUS
  <2>2. Z[CustodianContract] = 0
    BY <1>2, <2>1
  <2>. HIDE DEF Z, H
  <2>. QED BY <1>1, <1>8, <2>1, <2>2, TotalZero
<1>20. Total(C) = Total(Z) - Z[CustodianContract] + (-e)
  <2>. DEFINE d == -e
              k == CustodianContract
  <2>1. /\ IsFiniteSet(H) /\ Z \in [H -> Int] /\ k \in H /\ d \in Int
        /\ C = [Z EXCEPT ![k] = d]
    BY <1>1, <1>2, <1>8, <1>9
  <2>. HIDE DEF Z, H, C, d, k
  <2>2. Total([Z EXCEPT ![k] = d]) = Total(Z) - Z[k] + d
    BY <2>1, TotalUpdate
  <2>. QED BY <2>1, <2>2, Zenon DEF d, k
<1>. HIDE DEF Z, C, H
<1>21. Total(KC) = Total(K) + Total(C)
  BY <1>1, <1>8, <1>10, TotalAdd
<1>. HIDE DEF KC
<1>22. Total(B) = Total(A) + Total(KC)
  <2>1. Total([h \in H |-> A[h] + KC[h]]) = Total(A) + Total(KC)
    BY <1>1, <1>8, <1>11, TotalAdd
  <2>. QED BY <1>12, <2>1
<1>23. Total(A) \in Int
  BY <1>1, <1>8, TotalInt
<1>24. OneBook!Owned(BookOf(s), t) = Total(B)
  BY OwnedIs DEF H, B
<1>. HIDE DEF e
<1>25. Total(B) = Total(A)
  BY <1>4, <1>14, <1>15, <1>18, <1>19, <1>20, <1>21, <1>22, <1>23
<1>. QED BY <1>13, <1>17, <1>24, <1>25

(* What is owned is what was minted and has not been retired. *)
LEMMA BookSupply ==
    ASSUME NEW s, NEW n, Sound(s, n), NEW t \in Credit
    PROVE  /\ OneBook!Owned(BookOf(s), t) = n[t[1]][t[2]] - RetiredIn(s, t)
           /\ n[t[1]][t[2]] \in Int /\ RetiredIn(s, t) \in Int
<1>1. /\ t[1] \in FA2s /\ t[2] \in TokenIds
      /\ s.fa2Ledger[t[1]] \in FA2Ledger /\ s.fa2Retired[t[1]] \in FA2Ledger
      /\ n[t[1]] \in Tally
  BY DEF Credit, Sound
<1>2. n[t[1]][t[2]] \in Nat
  BY <1>1 DEF Tally
<1>3. /\ Total(Column(Address, s.fa2Ledger[t[1]], t[2])) \in Nat
      /\ RetiredIn(s, t) \in Nat
  BY <1>1, TotalsAreNat DEF RetiredIn
<1>4. Total(Column(Address, s.fa2Ledger[t[1]], t[2])) + RetiredIn(s, t) = n[t[1]][t[2]]
  BY <1>1 DEF Sound, Accounted, RetiredIn
<1>5. OneBook!Owned(BookOf(s), t) = Total(Column(Address, s.fa2Ledger[t[1]], t[2]))
  BY BookTotal
<1>. QED BY <1>2, <1>3, <1>4, <1>5

(* What a list of retirements takes from an owner. *)
LEMMA RetirementsOf ==
    ASSUME NEW l \in FA2Ledger, NEW entries \in Seq(Entry),
           ListFold(RetireStep, l, entries) # Failed,
           NEW o \in Address, NEW id \in TokenIds
    PROVE  /\ ListFold(RetireStep, l, entries) \in FA2Ledger
           /\ ListFold(RetireStep, l, entries)[<<o, id>>] =
                 l[<<o, id>>] - SumOver(CreditedTo(o, id), entries)
           /\ SumOver(CreditedTo(o, id), entries) \in Nat
<1>. DEFINE key == <<o, id>>
            result == ListFold(RetireStep, l, entries)
<1>1. key \in Owner /\ FA2Ledger = [Owner -> Nat]
  BY DEF Owner, FA2Ledger
<1>2. PICK m \in [FA2Ledger -> Int] : \A k \in FA2Ledger : m[k] = -k[key]
  <2>1. \A k \in FA2Ledger : k[key] \in Nat
    BY <1>1
  <2>2. \A k \in FA2Ledger : -k[key] \in Int
    BY <2>1
  <2>3. [k \in FA2Ledger |-> -k[key]] \in [FA2Ledger -> Int]
    BY <2>2
  <2>. QED BY <2>3
<1>3. CreditedTo(o, id) \in [Entry -> Int] /\ \A e \in Entry : CreditedTo(o, id)[e] \in Nat
  <2>1. ASSUME NEW e \in Entry PROVE e.amount \in Nat
    BY TezosAssumption DEF Entry
  <2>2. \A e \in Entry : e.amount \in Int
    BY <2>1
  <2>. QED BY <2>1, <2>2 DEF CreditedTo
<1>4. \A k \in FA2Ledger, e \in Entry : RetireStep[k][e] # Failed =>
         /\ RetireStep[k][e] \in FA2Ledger
         /\ m[RetireStep[k][e]] = m[k] + CreditedTo(o, id)[e]
  <2>. SUFFICES ASSUME NEW k \in FA2Ledger, NEW e \in Entry, RetireStep[k][e] # Failed
                PROVE  /\ RetireStep[k][e] \in FA2Ledger
                       /\ m[RetireStep[k][e]] = m[k] + CreditedTo(o, id)[e]
    OBVIOUS
  <2>. DEFINE giver == <<e.owner, e.token_id>>
              d == CreditedTo(o, id)[e]
  <2>1. e.owner \in Address /\ e.token_id \in TokenIds /\ e.amount \in Nat
    BY TezosAssumption DEF Entry
  <2>2. giver \in Owner /\ (giver = key <=> e.owner = o /\ e.token_id = id)
    BY <2>1 DEF Owner
  <2>3. RetireStep[k][e] = UpdateBalance(giver, -e.amount, k)
    BY DEF RetireStep
  <2>4. d = IF giver = key THEN e.amount ELSE 0
    BY <2>2 DEF CreditedTo
  <2>. HIDE DEF giver, key, d
  <2>5. k[giver] \in Nat /\ k[key] \in Nat
    BY <1>1, <2>1, <2>2
  <2>6. k[giver] + (-e.amount) \in Nat
    BY <2>1, <2>3, <2>5 DEF UpdateBalance
  <2>7. RetireStep[k][e] = [k EXCEPT ![giver] = @ + (-e.amount)]
    BY <2>1, <2>3, <2>6 DEF UpdateBalance
  <2>8. RetireStep[k][e] \in FA2Ledger
    BY <1>1, <2>2, <2>6, <2>7
  <2>9. RetireStep[k][e][key] = k[key] - IF giver = key THEN e.amount ELSE 0
    BY <1>1, <2>1, <2>2, <2>5, <2>6, <2>7
  <2>10. -(RetireStep[k][e][key]) = -k[key] + d
    BY <2>1, <2>4, <2>5, <2>9
  <2>. QED BY <1>2, <2>8, <2>10 DEF d
<1>5. Adds(FA2Ledger, Entry, RetireStep, m, CreditedTo(o, id))
  BY <1>4 DEF Adds
<1>. HIDE DEF key
<1>6. result \in FA2Ledger /\ m[result] = m[l] + SumOver(CreditedTo(o, id), entries)
  BY <1>3, <1>5, RetireStaysIn, FoldSums
<1>7. SumOver(CreditedTo(o, id), entries) \in Nat
  BY <1>3, SumOverType
<1>. HIDE DEF result
<1>8. result[key] \in Nat /\ l[key] \in Nat /\ m[result] = -result[key] /\ m[l] = -l[key]
  BY <1>1, <1>2, <1>6
<1>9. result[key] = l[key] - SumOver(CreditedTo(o, id), entries)
  BY <1>6, <1>7, <1>8
<1>. QED BY <1>6, <1>7, <1>9 DEF result, key

-----------------------------------------------------------------------------
(* What a call of retire has done so far. *)

(* From s to u nobody has gained, if the custodian is spared what ops will  *)
(* still take from it.                                                     *)
Lowers(s, u, ops) ==
    /\ \A k \in Kycs, t \in Token : u.ledger[<<k, t>>] <= s.ledger[<<k, t>>]
    /\ \A w \in Wallets, t \in Credit :
          u.fa2Ledger[t[1]][<<w, t[2]>>] <= s.fa2Ledger[t[1]][<<w, t[2]>>]
    /\ \A t \in Credit :
          u.fa2Ledger[t[1]][<<CustodianContract, t[2]>>]
                - u.external_ledger[t] - Pending(ops, t)
             <= s.fa2Ledger[t[1]][<<CustodianContract, t[2]>>] - s.external_ledger[t]

(* A call emits operations of one kind: as long as transfers execute,       *)
(* nothing is retired, and as long as retirements do, nobody gains.        *)
OneKind ==
    outbox # <<>> =>
        \/ /\ \A i \in DOMAIN outbox : outbox[i].entrypoint = "transfer"
           /\ fa2Retired = chainBefore.fa2Retired
        \/ /\ \A i \in DOMAIN outbox : outbox[i].entrypoint = "retire"
           /\ Lowers(CallBegan, Present, outbox)

LEMMA CallRetireLowers ==
    ASSUME ChainInv, NEW caller \in Wallets, NEW groups \in Retirements,
           CallRetire(caller, groups), outbox' # <<>>
    PROVE  Lowers(CallBegan', Present', outbox')
<1>1. /\ Retire(caller, groups) /\ Remember /\ UNCHANGED fa2Ledger /\ outbox = <<>>
  BY DEF CallRetire, RetireCall, fa2Vars
<1>2. before' = CurrentBooks
  BY <1>1 DEF Retire, Emit
<1>3. /\ CallBegan'.ledger = ledger /\ CallBegan'.external_ledger = externalLedger
      /\ CallBegan'.fa2Ledger = fa2Ledger
  BY <1>1, <1>2 DEF CallBegan, CurrentBooks, Remember
<1>4. /\ Present'.ledger = ledger' /\ Present'.external_ledger = externalLedger'
      /\ Present'.fa2Ledger = fa2Ledger
  BY <1>1 DEF Present
<1>5. ASSUME NEW k \in Kycs, NEW t \in Token
      PROVE  ledger'[<<k, t>>] <= ledger[<<k, t>>]
  <2>1. RetireEvents(groups)[<<k, t>>] = ledger[<<k, t>>] - ledger'[<<k, t>>]
    BY <1>1, RetireTakes DEF ChainInv
  <2>2. RetireEvents(groups)[<<k, t>>] \in Nat
    BY RetireEventsNat
  <2>3. ledger \in KycLedger /\ ledger' \in KycLedger
    <3>1. CustodianInv'
      BY <1>1, RetireInv DEF ChainInv
    <3>. QED BY <3>1 DEF ChainInv, CustodianInv, CustodianTypeOK
  <2>4. ledger[<<k, t>>] \in Nat /\ ledger'[<<k, t>>] \in Nat
    BY <2>3 DEF KycLedger
  <2>. QED BY <2>1, <2>2, <2>4
<1>6. ASSUME NEW w \in Wallets, NEW t \in Credit
      PROVE  fa2Ledger[t[1]][<<w, t[2]>>] <= fa2Ledger[t[1]][<<w, t[2]>>]
  <2>1. <<w, t[2]>> \in Owner /\ fa2Ledger[t[1]] \in [Owner -> Nat]
    BY DEF Owner, Address, Credit, ChainInv, FA2Inv, FA2TypeOK, FA2Ledger
  <2>2. fa2Ledger[t[1]][<<w, t[2]>>] \in Nat
    BY <2>1
  <2>. QED BY <2>2
<1>7. ASSUME NEW t \in Credit
      PROVE  fa2Ledger[t[1]][<<CustodianContract, t[2]>>]
                   - externalLedger'[t] - Pending(outbox', t)
                <= fa2Ledger[t[1]][<<CustodianContract, t[2]>>] - externalLedger[t]
  <2>1. externalLedger'[t] + Pending(outbox', t) = externalLedger[t]
    BY <1>1, RetirePending, CreditIsToken DEF ChainInv
  <2>2. CustodianInv'
    BY <1>1, RetireInv DEF ChainInv
  <2>3. externalLedger'[t] \in Nat
    BY <2>2, CreditIsToken DEF CustodianInv, CustodianTypeOK, ExternalLedger
  <2>4. Pending(outbox', t) \in Nat
    <3>1. outbox' \in Seq(Operation)
      BY <2>2 DEF CustodianInv, CustodianTypeOK
    <3>. QED BY <3>1, OperationAmounts, SumOverType DEF Pending
  <2>5. externalLedger[t] \in Nat /\ fa2Ledger[t[1]][<<CustodianContract, t[2]>>] \in Nat
    BY AmountsNat
  <2>. QED BY <2>1, <2>3, <2>4, <2>5
<1>. QED BY <1>3, <1>4, <1>5, <1>6, <1>7 DEF Lowers

LEMMA ApplyLowers ==
    ASSUME ChainInv, ApplyOperation, Head(outbox).entrypoint = "retire",
           NEW s, Lowers(s, Present, outbox),
           \A t \in Credit :
              /\ \A w \in Wallets : s.fa2Ledger[t[1]][<<w, t[2]>>] \in Nat
              /\ s.fa2Ledger[t[1]][<<CustodianContract, t[2]>>] \in Nat
              /\ s.external_ledger[t] \in Nat
    PROVE  Lowers(s, Present', Tail(outbox))
<1>. DEFINE op == Head(outbox)
            result == ListFold(RetireStep, fa2Ledger[op.target], op.txs)
<1>1. /\ outbox # <<>> /\ UNCHANGED <<ledger, externalLedger>>
      /\ RetireTokens(op.target, CustodianContract, op.txs)
  BY DEF ApplyOperation, OperationApplied
<1>2. /\ op \in Operation /\ op.target \in FA2s
      /\ op.txs \in Seq(FA2Entry) /\ op.txs \in Seq(Entry)
  BY <1>1, HeadOperation DEF ChainInv
<1>3. result # Failed /\ fa2Ledger' = [fa2Ledger EXCEPT ![op.target] = result]
  BY <1>1 DEF RetireTokens, RetireResult
<1>4. fa2Ledger \in [FA2s -> FA2Ledger] /\ fa2Ledger[op.target] \in FA2Ledger
  BY <1>2 DEF ChainInv, FA2Inv, FA2TypeOK
<1>5. ASSUME NEW o \in Address, NEW id \in TokenIds
      PROVE  /\ result[<<o, id>>] =
                   fa2Ledger[op.target][<<o, id>>] - SumOver(CreditedTo(o, id), op.txs)
             /\ SumOver(CreditedTo(o, id), op.txs) \in Nat
             /\ result[<<o, id>>] \in Nat /\ fa2Ledger[op.target][<<o, id>>] \in Nat
  <2>1. <<o, id>> \in Owner
    BY DEF Owner
  <2>. HIDE DEF op
  <2>2. result \in FA2Ledger
    BY <1>2, <1>3, <1>4, RetirementsOf
  <2>3. result[<<o, id>>] \in Nat /\ fa2Ledger[op.target][<<o, id>>] \in Nat
    BY <1>4, <2>1, <2>2 DEF FA2Ledger
  <2>. QED BY <1>2, <1>3, <1>4, <2>3, RetirementsOf
<1>. HIDE DEF op, result
<1>6. Present.ledger = ledger /\ Present'.ledger = ledger
      /\ Present.external_ledger = externalLedger
      /\ Present'.external_ledger = externalLedger
      /\ Present.fa2Ledger = fa2Ledger /\ Present'.fa2Ledger = fa2Ledger'
  BY <1>1 DEF Present
<1>7. ASSUME NEW w \in Wallets, NEW t \in Credit
      PROVE  fa2Ledger'[t[1]][<<w, t[2]>>] <= s.fa2Ledger[t[1]][<<w, t[2]>>]
  <2>1. w \in Address /\ t[1] \in FA2s /\ t[2] \in TokenIds /\ <<w, t[2]>> \in Owner
    BY DEF Address, Credit, Owner
  <2>2. /\ fa2Ledger[t[1]][<<w, t[2]>>] <= s.fa2Ledger[t[1]][<<w, t[2]>>]
        /\ s.fa2Ledger[t[1]][<<w, t[2]>>] \in Nat
    BY <1>6 DEF Lowers
  <2>3. CASE op.target = t[1]
    <3>1. fa2Ledger'[t[1]][<<w, t[2]>>] =
             fa2Ledger[t[1]][<<w, t[2]>>] - SumOver(CreditedTo(w, t[2]), op.txs)
      BY <1>2, <1>3, <1>4, <1>5, <2>1, <2>3
    <3>2. SumOver(CreditedTo(w, t[2]), op.txs) \in Nat
          /\ fa2Ledger[t[1]][<<w, t[2]>>] \in Nat
      BY <1>5, <2>1, <2>3
    <3>. QED BY <2>2, <3>1, <3>2
  <2>4. CASE op.target # t[1]
    BY <1>2, <1>3, <1>4, <2>1, <2>2, <2>4
  <2>. QED BY <2>3, <2>4
<1>8. ASSUME NEW t \in Credit
      PROVE  fa2Ledger'[t[1]][<<CustodianContract, t[2]>>]
                   - externalLedger[t] - Pending(Tail(outbox), t)
                <= s.fa2Ledger[t[1]][<<CustodianContract, t[2]>>] - s.external_ledger[t]
  <2>. DEFINE x == fa2Ledger[t[1]][<<CustodianContract, t[2]>>]
              y == fa2Ledger'[t[1]][<<CustodianContract, t[2]>>]
              z == s.fa2Ledger[t[1]][<<CustodianContract, t[2]>>]
  <2>1. CustodianContract \in Address /\ t[1] \in FA2s /\ t[2] \in TokenIds
    BY DEF Address, Credit
  <2>2. x \in Nat /\ externalLedger[t] \in Nat
    BY AmountsNat
  <2>3. /\ Pending(outbox, t) = Takes(t)[op] + Pending(Tail(outbox), t)
        /\ Pending(Tail(outbox), t) \in Nat /\ Takes(t)[op] \in Nat
    BY <1>1, PendingTail DEF ChainInv, op
  <2>4. Takes(t)[op] = IF op.target = t[1] THEN AmountIn(op.txs, t[2]) ELSE 0
    BY <1>2 DEF Takes
  <2>5. y = x - Takes(t)[op]
    <3>1. CASE op.target = t[1]
      <4>1. SumOver(CreditedTo(CustodianContract, t[2]), op.txs) = AmountIn(op.txs, t[2])
        BY <1>2, CreditedToCustodian
      <4>2. y = result[<<CustodianContract, t[2]>>]
        BY <1>2, <1>3, <1>4, <2>1, <3>1
      <4>. QED BY <1>5, <2>1, <2>4, <3>1, <4>1, <4>2
    <3>2. CASE op.target # t[1]
      <4>1. y = x /\ Takes(t)[op] = 0
        BY <1>2, <1>3, <1>4, <2>1, <2>4, <3>2
      <4>. QED BY <2>2, <4>1
    <3>. QED BY <3>1, <3>2
  <2>6. x - externalLedger[t] - Pending(outbox, t) <= z - s.external_ledger[t]
    BY <1>6 DEF Lowers
  <2>7. z \in Nat /\ s.external_ledger[t] \in Nat
    OBVIOUS
  <2>. HIDE DEF x, y, z
  <2>8. y - externalLedger[t] - Pending(Tail(outbox), t) <= z - s.external_ledger[t]
    BY <2>2, <2>3, <2>5, <2>6, <2>7
  <2>. QED BY <2>8 DEF y, z
<1>9. \A k \in Kycs, t \in Token : ledger[<<k, t>>] <= s.ledger[<<k, t>>]
  BY <1>6 DEF Lowers
<1>. QED BY <1>6, <1>7, <1>8, <1>9 DEF Lowers

(* What Tezos may go back to is sound, as what is settled always is. *)
LEMMA SettledSound ==
    ASSUME ChainInv, BackedInv
    PROVE  Sound(Settled, minted)
<1>1. minted \in [FA2s -> Tally]
  BY DEF ChainInv, FA2Inv, FA2TypeOK
<1>2. CASE outbox = <<>>
  <2>1. Settled = Present
    BY <1>2 DEF Settled, Present
  <2>2. /\ Present.fa2Ledger = fa2Ledger /\ Present.fa2Retired = fa2Retired
        /\ Present.external_ledger = externalLedger /\ BooksIn(Present) = CurrentBooks
    BY DEF Present, BooksIn, CurrentBooks
  <2>3. fa2Ledger \in [FA2s -> FA2Ledger] /\ fa2Retired \in [FA2s -> FA2Ledger]
    BY DEF ChainInv, FA2Inv, FA2TypeOK
  <2>4. \A c \in FA2s : Accounted(fa2Ledger[c], fa2Retired[c], minted[c])
    BY BooksOf DEF ChainInv
  <2>5. CurrentBooks \in BalancedBooks
    BY DEF ChainInv, CustodianInv
  <2>6. Covers(externalLedger, fa2Ledger)
    BY <1>2, NothingPendingCovers DEF BackedInv
  <2>. QED BY <1>1, <2>1, <2>2, <2>3, <2>4, <2>5, <2>6 DEF Sound
<1>3. CASE outbox # <<>>
  <2>1. Settled = CallBegan
    BY <1>3 DEF Settled, CallBegan
  <2>2. /\ CallBegan.fa2Ledger = chainBefore.fa2Ledger
        /\ CallBegan.fa2Retired = chainBefore.fa2Retired
        /\ CallBegan.external_ledger = before.external_ledger
        /\ BooksIn(CallBegan) = [ledger |-> before.ledger,
                                 external_ledger |-> before.external_ledger]
    BY DEF CallBegan, BooksIn
  <2>3. /\ chainBefore.fa2Ledger \in [FA2s -> FA2Ledger]
        /\ chainBefore.fa2Retired \in [FA2s -> FA2Ledger]
    BY <1>3 DEF ChainInv, Snapshot
  <2>4. \A c \in FA2s :
           Accounted(chainBefore.fa2Ledger[c], chainBefore.fa2Retired[c], minted[c])
    BY <1>3 DEF ChainInv, AccountedIn
  <2>5. [ledger |-> before.ledger, external_ledger |-> before.external_ledger] \in BalancedBooks
    <3>1. before \in BalancedBooks /\ before \in Books
      BY <1>3 DEF ChainInv, CustodianInv, BalancedBooks
    <3>2. before = [ledger |-> before.ledger, external_ledger |-> before.external_ledger]
      BY <3>1 DEF Books
    <3>. QED BY <3>1, <3>2
  <2>6. Covers(before.external_ledger, chainBefore.fa2Ledger)
    BY <1>3 DEF BackedInv
  <2>. QED BY <1>1, <2>1, <2>2, <2>3, <2>4, <2>5, <2>6 DEF Sound
<1>. QED BY <1>2, <1>3

LEMMA OneKindNext ==
    ASSUME ChainInv, BackedInv, OneKind, [ChainNext]_chainVars
    PROVE  OneKind'
<1>1. CASE UNCHANGED chainVars
  BY <1>1 DEF OneKind, Lowers, CallBegan, Present, chainVars, fa2Vars, custodianVars
<1>2. CASE outbox' = <<>>
  BY <1>2 DEF OneKind
<1>3. ASSUME NEW c \in FA2s, NEW caller \in Wallets, CallFA2(c, caller)
      PROVE  outbox' = <<>>
  BY <1>3 DEF CallFA2, custodianVars
<1>4. ASSUME NEW caller \in Wallets, CallCustodian(caller), outbox' # <<>>
      PROVE  OneKind'
  <2>1. /\ LedgerCall(caller, CustodianView) /\ Remember /\ UNCHANGED <<fa2Ledger, fa2Retired>>
    BY <1>4 DEF CallCustodian, fa2Vars
  <2>2. PICK groups \in ExternalTransfers : ExternalTransfer(caller, groups)
    BY <1>4, <2>1 DEF LedgerCall, InternalTransfer, InternalMint,
                      UpdateInternalOperators, UpdateCustodian
  <2>3. outbox' = TransferOperations(groups)
    BY <2>2 DEF ExternalTransfer, Emit
  <2>4. \A i \in DOMAIN outbox' : outbox'[i].entrypoint = "transfer"
    BY <2>3 DEF TransferOperations
  <2>5. fa2Retired' = chainBefore'.fa2Retired
    BY <1>4, <2>1 DEF Remember
  <2>. QED BY <2>4, <2>5 DEF OneKind
<1>5. ASSUME NEW caller \in Wallets, NEW groups \in Retirements,
             CallRetire(caller, groups), outbox' # <<>>
      PROVE  OneKind'
  <2>1. outbox' = RetireOperations(groups)
    BY <1>5 DEF CallRetire, RetireCall, Retire, Emit
  <2>2. \A i \in DOMAIN outbox' : outbox'[i].entrypoint = "retire"
    BY <2>1 DEF RetireOperations
  <2>3. Lowers(CallBegan', Present', outbox')
    BY <1>5, CallRetireLowers
  <2>. QED BY <2>2, <2>3 DEF OneKind
<1>6. ASSUME ApplyOperation, outbox' # <<>> PROVE OneKind'
  <2>1. /\ outbox # <<>> /\ outbox' = Tail(outbox)
        /\ UNCHANGED <<before, chainBefore>>
    BY <1>6 DEF ApplyOperation, OperationApplied
  <2>2. outbox \in Seq(Operation)
    BY DEF ChainInv, CustodianInv, CustodianTypeOK
  <2>3. /\ Head(outbox) = outbox[1] /\ 1 \in DOMAIN outbox
        /\ \A i \in DOMAIN outbox' : i + 1 \in DOMAIN outbox /\ outbox'[i] = outbox[i + 1]
    BY <2>1, <2>2
  <2>4. CASE /\ \A i \in DOMAIN outbox : outbox[i].entrypoint = "transfer"
             /\ fa2Retired = chainBefore.fa2Retired
    <3>1. Head(outbox).entrypoint = "transfer"
      BY <2>3, <2>4
    <3>2. fa2Retired' = fa2Retired
      BY <1>6, <3>1 DEF ApplyOperation, Transfer
    <3>. QED BY <2>1, <2>3, <2>4, <3>2 DEF OneKind
  <2>5. CASE /\ \A i \in DOMAIN outbox : outbox[i].entrypoint = "retire"
             /\ Lowers(CallBegan, Present, outbox)
    <3>1. Head(outbox).entrypoint = "retire"
      BY <2>3, <2>5
    <3>2. CallBegan' = CallBegan
      BY <2>1 DEF CallBegan
    <3>3. Sound(CallBegan, minted)
      <4>1. Settled = CallBegan
        BY <2>1 DEF Settled, CallBegan
      <4>. QED BY <4>1, SettledSound
    <3>4. Lowers(CallBegan, Present', Tail(outbox))
      <4>. HIDE DEF Lowers, CallBegan, Present, Sound
      <4>1. \A t \in Credit :
               /\ \A w \in Wallets : CallBegan.fa2Ledger[t[1]][<<w, t[2]>>] \in Nat
               /\ CallBegan.fa2Ledger[t[1]][<<CustodianContract, t[2]>>] \in Nat
               /\ CallBegan.external_ledger[t] \in Nat
        BY <3>3, BookEntries
      <4>. QED BY <1>6, <2>5, <3>1, <4>1, ApplyLowers
    <3>. QED BY <2>1, <2>3, <2>5, <3>2, <3>4 DEF OneKind
  <2>. QED BY <2>1, <2>4, <2>5 DEF OneKind
<1>7. RejectOperation => outbox' = <<>>
  BY DEF RejectOperation, OperationRejected
<1>. QED BY <1>1, <1>2, <1>3, <1>4, <1>5, <1>6, <1>7 DEF ChainNext

-----------------------------------------------------------------------------
(* Every step of the contracts is a step of the one book.  A step is judged *)
(* by what is settled before and after it.                                 *)
LEMMA SteppedTo ==
    /\ [ht \in (Address \cup Kycs) \X Credit |-> OwnedBy(ht[1], ht[2])] = BookOf(Settled)
    /\ [ht \in (Address \cup Kycs) \X Credit |-> OwnedBy(ht[1], ht[2])]' = BookOf(Settled')
BY DEF OwnedBy, BookOf, Owns

LEMMA IsMove ==
    ASSUME Sound(Settled, minted), Sound(Settled', minted'), UNCHANGED minted,
           Settled'.fa2Retired = Settled.fa2Retired
    PROVE  OneBook!Move
<1>1. BookOf(Settled') \in OneBook!Book
  BY BookType
<1>2. \A t \in Credit : RetiredIn(Settled', t) = RetiredIn(Settled, t)
  BY DEF RetiredIn
<1>3. ASSUME NEW t \in Credit
      PROVE  OneBook!Owned(BookOf(Settled'), t) = OneBook!Owned(BookOf(Settled), t)
  <2>1. OneBook!Owned(BookOf(Settled), t) = minted[t[1]][t[2]] - RetiredIn(Settled, t)
    BY BookSupply
  <2>2. OneBook!Owned(BookOf(Settled'), t) = minted'[t[1]][t[2]] - RetiredIn(Settled', t)
    BY BookSupply
  <2>. QED BY <1>2, <2>1, <2>2
<1>4. UNCHANGED [t \in Credit |-> RetiredIn(Settled, t)]
  BY <1>2
<1>. QED BY <1>1, <1>3, <1>4, SteppedTo DEF OneBook!Move, RetiredIn

LEMMA IsIssue ==
    ASSUME Sound(Settled, minted), Sound(Settled', minted'),
           Settled'.fa2Retired = Settled.fa2Retired,
           \A ht \in (Address \cup Kycs) \X Credit :
              BookOf(Settled')[ht] >= BookOf(Settled)[ht]
    PROVE  OneBook!Issue
<1>1. BookOf(Settled') \in OneBook!Book
  BY BookType
<1>2. \A t \in Credit : RetiredIn(Settled', t) = RetiredIn(Settled, t)
  BY DEF RetiredIn
<1>3. ASSUME NEW t \in Credit
      PROVE  minted'[t[1]][t[2]] = minted[t[1]][t[2]]
                + OneBook!Owned(BookOf(Settled'), t) - OneBook!Owned(BookOf(Settled), t)
  <2>1. /\ OneBook!Owned(BookOf(Settled), t) = minted[t[1]][t[2]] - RetiredIn(Settled, t)
        /\ minted[t[1]][t[2]] \in Int /\ RetiredIn(Settled, t) \in Int
    BY BookSupply
  <2>2. /\ OneBook!Owned(BookOf(Settled'), t) =
              minted'[t[1]][t[2]] - RetiredIn(Settled', t)
        /\ minted'[t[1]][t[2]] \in Int
    BY BookSupply
  <2>. QED BY <1>2, <2>1, <2>2
<1>4. UNCHANGED [t \in Credit |-> RetiredIn(Settled, t)]
  BY <1>2
<1>. QED BY <1>1, <1>3, <1>4, SteppedTo DEF OneBook!Issue, RetiredIn

LEMMA IsRetirement ==
    ASSUME Sound(Settled, minted), Sound(Settled', minted'), UNCHANGED minted,
           \A ht \in (Address \cup Kycs) \X Credit :
              BookOf(Settled')[ht] <= BookOf(Settled)[ht]
    PROVE  OneBook!RetireCredits
<1>1. BookOf(Settled') \in OneBook!Book
  BY BookType
<1>2. ASSUME NEW t \in Credit
      PROVE  RetiredIn(Settled', t) = RetiredIn(Settled, t)
                + OneBook!Owned(BookOf(Settled), t) - OneBook!Owned(BookOf(Settled'), t)
  <2>1. /\ OneBook!Owned(BookOf(Settled), t) = minted[t[1]][t[2]] - RetiredIn(Settled, t)
        /\ minted[t[1]][t[2]] \in Int /\ RetiredIn(Settled, t) \in Int
    BY BookSupply
  <2>2. /\ OneBook!Owned(BookOf(Settled'), t) =
              minted'[t[1]][t[2]] - RetiredIn(Settled', t)
        /\ RetiredIn(Settled', t) \in Int
    BY BookSupply
  <2>. QED BY <2>1, <2>2
<1>. QED BY <1>1, <1>2, SteppedTo DEF OneBook!RetireCredits, RetiredIn

LEMMA PartyOwns ==
    ASSUME NEW s, NEW n, Sound(s, n), NEW k \in Kycs, NEW t \in Credit
    PROVE  BookOf(s)[<<k, t>>] = s.ledger[<<k, t>>] /\ s.ledger[<<k, t>>] \in Nat
<1>1. \A h \in Kycs : BookOf(s)[<<h, t>>] = s.ledger[<<h, t>>] /\ s.ledger[<<h, t>>] \in Nat
  BY BookEntries
<1>. QED BY <1>1

LEMMA WalletOwns ==
    ASSUME NEW s, NEW n, Sound(s, n), NEW w \in Wallets, NEW t \in Credit
    PROVE  /\ BookOf(s)[<<w, t>>] = s.fa2Ledger[t[1]][<<w, t[2]>>]
           /\ s.fa2Ledger[t[1]][<<w, t[2]>>] \in Nat
<1>1. \A h \in Wallets :
         /\ BookOf(s)[<<h, t>>] = s.fa2Ledger[t[1]][<<h, t[2]>>]
         /\ s.fa2Ledger[t[1]][<<h, t[2]>>] \in Nat
  BY BookEntries
<1>. QED BY <1>1

(* Who owns no more: nobody, when nothing is left to take from custody. *)
LEMMA LoweredBook ==
    ASSUME NEW s, NEW n, Sound(s, n), NEW u, NEW m, Sound(u, m), Lowers(s, u, <<>>),
           NEW ht \in (Address \cup Kycs) \X Credit
    PROVE  BookOf(u)[ht] <= BookOf(s)[ht]
<1>. SUFFICES ASSUME NEW h \in Address \cup Kycs, NEW t \in Credit
              PROVE  BookOf(u)[<<h, t>>] <= BookOf(s)[<<h, t>>]
  OBVIOUS
<1>1. CASE h \in Kycs
  <2>1. BookOf(u)[<<h, t>>] = u.ledger[<<h, t>>] /\ BookOf(s)[<<h, t>>] = s.ledger[<<h, t>>]
    BY <1>1, PartyOwns
  <2>2. u.ledger[<<h, t>>] <= s.ledger[<<h, t>>]
    BY <1>1, CreditIsToken DEF Lowers
  <2>. QED BY <2>1, <2>2
<1>2. CASE h \in Wallets
  <2>1. /\ BookOf(u)[<<h, t>>] = u.fa2Ledger[t[1]][<<h, t[2]>>]
        /\ BookOf(s)[<<h, t>>] = s.fa2Ledger[t[1]][<<h, t[2]>>]
    BY <1>2, WalletOwns
  <2>2. u.fa2Ledger[t[1]][<<h, t[2]>>] <= s.fa2Ledger[t[1]][<<h, t[2]>>]
    BY <1>2 DEF Lowers
  <2>. QED BY <2>1, <2>2
<1>3. CASE h = CustodianContract
  <2>. DEFINE x == s.fa2Ledger[t[1]][<<CustodianContract, t[2]>>]
              y == u.fa2Ledger[t[1]][<<CustodianContract, t[2]>>]
  <2>1. Pending(<<>>, t) = 0
    BY SumOverNone DEF Pending
  <2>2. y - u.external_ledger[t] - 0 <= x - s.external_ledger[t]
    BY <2>1 DEF Lowers
  <2>3. /\ BookOf(s)[<<h, t>>] = x - s.external_ledger[t]
        /\ x \in Nat /\ s.external_ledger[t] \in Nat
    BY <1>3, BookEntries
  <2>4. /\ BookOf(u)[<<h, t>>] = y - u.external_ledger[t]
        /\ y \in Nat /\ u.external_ledger[t] \in Nat
    BY <1>3, BookEntries
  <2>. HIDE DEF x, y
  <2>. QED BY <2>2, <2>3, <2>4
<1>. QED BY <1>1, <1>2, <1>3 DEF Address

(* A balance raises what its owner has in the book. *)
LEMMA RaisedBook ==
    ASSUME NEW s, NEW n, Sound(s, n), NEW u, NEW m, Sound(u, m),
           u.ledger = s.ledger, u.external_ledger = s.external_ledger,
           \A o \in Address, t \in Credit :
              u.fa2Ledger[t[1]][<<o, t[2]>>] >= s.fa2Ledger[t[1]][<<o, t[2]>>],
           NEW ht \in (Address \cup Kycs) \X Credit
    PROVE  BookOf(u)[ht] >= BookOf(s)[ht]
<1>. SUFFICES ASSUME NEW h \in Address \cup Kycs, NEW t \in Credit
              PROVE  BookOf(u)[<<h, t>>] >= BookOf(s)[<<h, t>>]
  OBVIOUS
<1>1. CASE h \in Kycs
  <2>1. /\ BookOf(u)[<<h, t>>] = s.ledger[<<h, t>>] /\ s.ledger[<<h, t>>] \in Nat
        /\ BookOf(s)[<<h, t>>] = s.ledger[<<h, t>>]
    BY <1>1, PartyOwns
  <2>. QED BY <2>1
<1>2. CASE h \in Wallets
  <2>1. /\ BookOf(u)[<<h, t>>] = u.fa2Ledger[t[1]][<<h, t[2]>>]
        /\ BookOf(s)[<<h, t>>] = s.fa2Ledger[t[1]][<<h, t[2]>>]
    BY <1>2, WalletOwns
  <2>2. u.fa2Ledger[t[1]][<<h, t[2]>>] >= s.fa2Ledger[t[1]][<<h, t[2]>>]
    BY <1>2 DEF Address
  <2>. QED BY <2>1, <2>2
<1>3. CASE h = CustodianContract
  <2>. DEFINE x == s.fa2Ledger[t[1]][<<CustodianContract, t[2]>>]
              y == u.fa2Ledger[t[1]][<<CustodianContract, t[2]>>]
  <2>1. y >= x
    BY <1>3 DEF Address
  <2>2. /\ BookOf(s)[<<h, t>>] = x - s.external_ledger[t]
        /\ x \in Nat /\ s.external_ledger[t] \in Nat
    BY <1>3, BookEntries
  <2>3. BookOf(u)[<<h, t>>] = y - s.external_ledger[t] /\ y \in Nat
    BY <1>3, BookEntries
  <2>. HIDE DEF x, y
  <2>. QED BY <2>1, <2>2, <2>3
<1>. QED BY <1>1, <1>2, <1>3 DEF Address

(* What an FA2 contract does to one balance, by minting and by retiring. *)
LEMMA CreditedToNat ==
    ASSUME NEW entries \in Seq(Entry), NEW o, NEW id
    PROVE  SumOver(CreditedTo(o, id), entries) \in Nat
<1>1. \A e \in Entry : e.amount \in Nat
  BY TezosAssumption DEF Entry
<1>2. \A e \in Entry : CreditedTo(o, id)[e] \in Nat
  BY <1>1 DEF CreditedTo
<1>3. CreditedTo(o, id) \in [Entry -> Int]
  BY <1>2 DEF CreditedTo
<1>. QED BY <1>2, <1>3, SumOverType

LEMMA MintRaises ==
    ASSUME FA2Inv, NEW c \in FA2s, NEW caller, NEW entries \in Seq(Entry),
           Mint(c, caller, entries), NEW o \in Address, NEW t \in Credit
    PROVE  fa2Ledger'[t[1]][<<o, t[2]>>] >= fa2Ledger[t[1]][<<o, t[2]>>]
<1>1. /\ t[1] \in FA2s /\ t[2] \in TokenIds /\ <<o, t[2]>> \in Owner
      /\ fa2Ledger \in [FA2s -> FA2Ledger] /\ fa2Ledger[c] \in FA2Ledger
  BY DEF Credit, Owner, FA2Inv, FA2TypeOK
<1>2. fa2Ledger[t[1]][<<o, t[2]>>] \in Nat
  BY <1>1 DEF FA2Ledger
<1>3. fa2Ledger' = [fa2Ledger EXCEPT ![c] = ListFold(CreditStep, fa2Ledger[c], entries)]
  BY DEF Mint
<1>4. CASE c = t[1]
  <2>1. fa2Ledger'[t[1]][<<o, t[2]>>] =
           fa2Ledger[t[1]][<<o, t[2]>>] + SumOver(CreditedTo(o, t[2]), entries)
    BY <1>1, <1>3, <1>4, CreditsOf
  <2>2. SumOver(CreditedTo(o, t[2]), entries) \in Nat
    BY CreditedToNat
  <2>. QED BY <1>2, <2>1, <2>2
<1>5. CASE c # t[1]
  BY <1>1, <1>2, <1>3, <1>5
<1>. QED BY <1>4, <1>5

LEMMA RetireTokensLowers ==
    ASSUME FA2Inv, NEW c \in FA2s, NEW caller, NEW entries \in Seq(Entry),
           RetireTokens(c, caller, entries), NEW o \in Address, NEW t \in Credit
    PROVE  fa2Ledger'[t[1]][<<o, t[2]>>] <= fa2Ledger[t[1]][<<o, t[2]>>]
<1>1. /\ t[1] \in FA2s /\ t[2] \in TokenIds /\ <<o, t[2]>> \in Owner
      /\ fa2Ledger \in [FA2s -> FA2Ledger] /\ fa2Ledger[c] \in FA2Ledger
  BY DEF Credit, Owner, FA2Inv, FA2TypeOK
<1>2. fa2Ledger[t[1]][<<o, t[2]>>] \in Nat
  BY <1>1 DEF FA2Ledger
<1>3. /\ ListFold(RetireStep, fa2Ledger[c], entries) # Failed
      /\ fa2Ledger' = [fa2Ledger EXCEPT ![c] = ListFold(RetireStep, fa2Ledger[c], entries)]
  BY DEF RetireTokens, RetireResult
<1>4. CASE c = t[1]
  <2>1. /\ fa2Ledger'[t[1]][<<o, t[2]>>] =
              fa2Ledger[t[1]][<<o, t[2]>>] - SumOver(CreditedTo(o, t[2]), entries)
        /\ SumOver(CreditedTo(o, t[2]), entries) \in Nat
    BY <1>1, <1>3, <1>4, RetirementsOf
  <2>. QED BY <1>2, <2>1
<1>5. CASE c # t[1]
  BY <1>1, <1>2, <1>3, <1>5
<1>. QED BY <1>4, <1>5

LEMMA SettledIs ==
    /\ outbox = <<>> => Settled = Present
    /\ outbox # <<>> => Settled = CallBegan
    /\ outbox' = <<>> => Settled' = Present'
    /\ outbox' # <<>> => Settled' = CallBegan'
BY DEF Settled, Present, CallBegan

(* A wallet's call of an FA2 contract issues, moves or retires credits. *)
LEMMA CallFA2Steps ==
    ASSUME ChainInv, Sound(Settled, minted), Sound(Settled', minted'),
           NEW c \in FA2s, NEW caller \in Wallets, CallFA2(c, caller)
    PROVE  OneBook!BookNext
<1>1. /\ FA2Call(c, caller) /\ FA2Inv
      /\ UNCHANGED <<ledger, externalLedger, outbox>> /\ outbox = <<>>
  BY DEF CallFA2, custodianVars, ChainInv
<1>2. Settled = Present /\ Settled' = Present'
  BY <1>1, SettledIs
<1>3. /\ Present.ledger = ledger /\ Present'.ledger = ledger
      /\ Present.external_ledger = externalLedger
      /\ Present'.external_ledger = externalLedger
      /\ Present.fa2Ledger = fa2Ledger /\ Present'.fa2Ledger = fa2Ledger'
      /\ Present.fa2Retired = fa2Retired /\ Present'.fa2Retired = fa2Retired'
  BY <1>1 DEF Present
<1>4. ASSUME UNCHANGED <<minted, fa2Retired>> PROVE OneBook!Move
  <2>1. Settled'.fa2Retired = Settled.fa2Retired
    BY <1>2, <1>3, <1>4
  <2>. QED BY <1>4, <2>1, IsMove
<1>5. ASSUME NEW entries \in Batches(Entry), Mint(c, caller, entries)
      PROVE  OneBook!Issue
  <2>1. entries \in Seq(Entry)
    BY BatchesAreSequences
  <2>2. ASSUME NEW o \in Address, NEW t \in Credit
        PROVE  fa2Ledger'[t[1]][<<o, t[2]>>] >= fa2Ledger[t[1]][<<o, t[2]>>]
    BY <1>1, <1>5, <2>1, MintRaises
  <2>3. Settled'.fa2Retired = Settled.fa2Retired
    BY <1>2, <1>3, <1>5 DEF Mint
  <2>. HIDE DEF Sound, Settled, Present, BookOf
  <2>4. \A ht \in (Address \cup Kycs) \X Credit : BookOf(Present')[ht] >= BookOf(Present)[ht]
    BY <1>2, <1>3, <2>2, RaisedBook
  <2>. QED BY <1>2, <2>3, <2>4, IsIssue
<1>6. ASSUME NEW entries \in Batches(Entry), RetireTokens(c, caller, entries)
      PROVE  OneBook!RetireCredits
  <2>1. entries \in Seq(Entry)
    BY BatchesAreSequences
  <2>2. ASSUME NEW o \in Address, NEW t \in Credit
        PROVE  fa2Ledger'[t[1]][<<o, t[2]>>] <= fa2Ledger[t[1]][<<o, t[2]>>]
    BY <1>1, <1>6, <2>1, RetireTokensLowers
  <2>3. UNCHANGED minted
    BY <1>6 DEF RetireTokens
  <2>4. Lowers(Present, Present', <<>>)
    <3>1. ASSUME NEW k \in Kycs, NEW t \in Token
          PROVE  ledger[<<k, t>>] <= ledger[<<k, t>>]
      <4>1. ledger[<<k, t>>] \in Nat
        BY DEF ChainInv, CustodianInv, CustodianTypeOK, KycLedger
      <4>. QED BY <4>1
    <3>2. ASSUME NEW w \in Wallets, NEW t \in Credit
          PROVE  fa2Ledger'[t[1]][<<w, t[2]>>] <= fa2Ledger[t[1]][<<w, t[2]>>]
      BY <2>2 DEF Address
    <3>3. ASSUME NEW t \in Credit
          PROVE  fa2Ledger'[t[1]][<<CustodianContract, t[2]>>]
                       - externalLedger[t] - Pending(<<>>, t)
                    <= fa2Ledger[t[1]][<<CustodianContract, t[2]>>] - externalLedger[t]
      <4>1. Pending(<<>>, t) = 0
        BY SumOverNone DEF Pending
      <4>2. fa2Ledger'[t[1]][<<CustodianContract, t[2]>>]
               <= fa2Ledger[t[1]][<<CustodianContract, t[2]>>]
        BY <2>2 DEF Address
      <4>3. /\ externalLedger[t] \in Nat
            /\ fa2Ledger[t[1]][<<CustodianContract, t[2]>>] \in Nat
        BY AmountsNat
      <4>4. fa2Ledger'[t[1]][<<CustodianContract, t[2]>>] \in Nat
        BY <1>2, <1>3, BookEntries
      <4>. QED BY <4>1, <4>2, <4>3, <4>4
    <3>. QED BY <1>3, <3>1, <3>2, <3>3 DEF Lowers
  <2>. HIDE DEF Sound, Settled, Present, BookOf, Lowers
  <2>5. \A ht \in (Address \cup Kycs) \X Credit : BookOf(Present')[ht] <= BookOf(Present)[ht]
    BY <1>2, <2>4, LoweredBook
  <2>. QED BY <1>2, <2>3, <2>5, IsRetirement
<1>. QED BY <1>1, <1>4, <1>5, <1>6
         DEF FA2Call, Transfer, UpdateOperators, AddTokenId, UpdateContractMetadata,
             UpdateOracle, OneBook!BookNext

(* A call of the custodian moves credits, or has not happened yet. *)
LEMMA CallSteps ==
    ASSUME Sound(Settled, minted), Sound(Settled', minted'),
           outbox = <<>>, Remember, UNCHANGED fa2Vars
    PROVE  OneBook!Move
<1>1. Settled.fa2Retired = fa2Retired
  BY SettledIs DEF Present
<1>2. Settled'.fa2Retired = fa2Retired
  <2>1. CASE outbox' = <<>>
    BY <2>1, SettledIs DEF Present, fa2Vars
  <2>2. CASE outbox' # <<>>
    BY <2>2, SettledIs DEF CallBegan, Remember
  <2>. QED BY <2>1, <2>2
<1>3. UNCHANGED minted
  BY DEF fa2Vars
<1>. QED BY <1>1, <1>2, <1>3, IsMove

(* An operation's execution settles nothing, unless it is the last one. *)
LEMMA ApplySteps ==
    ASSUME ChainInv, OneKind, Sound(Settled, minted), Sound(Settled', minted'),
           ApplyOperation
    PROVE  OneBook!BookNext
<1>1. /\ outbox # <<>> /\ outbox' = Tail(outbox) /\ outbox \in Seq(Operation)
      /\ Settled = CallBegan
  BY SettledIs DEF ApplyOperation, OperationApplied, ChainInv, CustodianInv,
                   CustodianTypeOK
<1>2. Head(outbox) = outbox[1] /\ 1 \in DOMAIN outbox
  BY <1>1
<1>3. UNCHANGED minted
  BY DEF ApplyOperation, Transfer, RetireTokens
<1>4. CASE outbox' # <<>>
  <2>1. UNCHANGED <<before, chainBefore>>
    BY <1>1, <1>4 DEF ApplyOperation, OperationApplied
  <2>2. Settled' = Settled
    BY <1>1, <1>4, <2>1, SettledIs DEF CallBegan
  <2>. QED BY <1>3, <2>2, IsMove DEF OneBook!BookNext
<1>5. CASE /\ outbox' = <<>> /\ fa2Retired = chainBefore.fa2Retired
           /\ \A i \in DOMAIN outbox : outbox[i].entrypoint = "transfer"
  <2>1. Head(outbox).entrypoint = "transfer"
    BY <1>2, <1>5
  <2>2. fa2Retired' = fa2Retired
    BY <2>1 DEF ApplyOperation, Transfer
  <2>3. Settled'.fa2Retired = Settled.fa2Retired
    BY <1>1, <1>5, <2>2, SettledIs DEF CallBegan, Present
  <2>. QED BY <1>3, <2>3, IsMove DEF OneBook!BookNext
<1>6. CASE /\ outbox' = <<>> /\ Lowers(CallBegan, Present, outbox)
           /\ \A i \in DOMAIN outbox : outbox[i].entrypoint = "retire"
  <2>1. Head(outbox).entrypoint = "retire"
    BY <1>2, <1>6
  <2>. HIDE DEF Sound, Settled, CallBegan, Present, BookOf, Lowers
  <2>2. \A t \in Credit :
           /\ \A w \in Wallets : CallBegan.fa2Ledger[t[1]][<<w, t[2]>>] \in Nat
           /\ CallBegan.fa2Ledger[t[1]][<<CustodianContract, t[2]>>] \in Nat
           /\ CallBegan.external_ledger[t] \in Nat
    BY <1>1, BookEntries
  <2>3. Lowers(CallBegan, Present', Tail(outbox))
    BY <1>6, <2>1, <2>2, ApplyLowers
  <2>4. Lowers(Settled, Settled', <<>>)
    BY <1>1, <1>6, <2>3, SettledIs
  <2>5. \A ht \in (Address \cup Kycs) \X Credit : BookOf(Settled')[ht] <= BookOf(Settled)[ht]
    BY <2>4, LoweredBook
  <2>. QED BY <1>3, <2>5, IsRetirement DEF OneBook!BookNext
<1>. QED BY <1>1, <1>4, <1>5, <1>6 DEF OneKind

(* A rejection brings back what was settled. *)
LEMMA RejectSteps ==
    ASSUME Sound(Settled, minted), Sound(Settled', minted'), RejectOperation
    PROVE  OneBook!Move
<1>1. /\ outbox # <<>> /\ outbox' = <<>>
      /\ fa2Retired' = chainBefore.fa2Retired /\ UNCHANGED minted
  BY DEF RejectOperation, OperationRejected
<1>2. Settled'.fa2Retired = Settled.fa2Retired
  BY <1>1, SettledIs DEF Present, CallBegan
<1>. QED BY <1>1, <1>2, IsMove

LEMMA EveryStep ==
    ASSUME ChainInv, OneKind, Sound(Settled, minted), Sound(Settled', minted'),
           [ChainNext]_chainVars
    PROVE  OneBook!BookNext
<1>1. CASE UNCHANGED chainVars
  <2>1. Settled' = Settled /\ UNCHANGED minted
    BY <1>1 DEF Settled, chainVars, fa2Vars, custodianVars
  <2>. QED BY <2>1, IsMove DEF OneBook!BookNext
<1>2. ASSUME NEW caller \in Wallets, CallCustodian(caller) PROVE OneBook!Move
  BY <1>2, CallSteps DEF CallCustodian, LedgerCall
<1>3. ASSUME NEW caller \in Wallets, NEW groups \in Retirements,
             CallRetire(caller, groups)
      PROVE  OneBook!Move
  BY <1>3, CallSteps DEF CallRetire, RetireCall
<1>. QED BY <1>1, <1>2, <1>3, CallFA2Steps, ApplySteps, RejectSteps
         DEF ChainNext, OneBook!BookNext

LEMMA ColumnEntry ==
    ASSUME NEW D, NEW r, NEW t, NEW o \in D
    PROVE  Column(D, r, t)[o] = r[<<o, t>>]
BY Zenon DEF Column

LEMMA NothingInColumn ==
    ASSUME NEW r \in FA2Ledger, NEW id \in TokenIds,
           \A o \in Address : r[<<o, id>>] = 0
    PROVE  Total(Column(Address, r, id)) = 0
<1>1. r \in [Address \X TokenIds -> Nat]
  BY LedgerShape
<1>2. Column(Address, r, id) \in [Address -> Nat]
  BY <1>1, AddressFinite, ColumnType
<1>3. ASSUME NEW o \in Address PROVE Column(Address, r, id)[o] = 0
  <2>1. Column(Address, r, id)[o] = r[<<o, id>>]
    BY ColumnEntry
  <2>2. r[<<o, id>>] = 0
    OBVIOUS
  <2>. QED BY <2>1, <2>2
<1>. QED BY <1>2, <1>3, AddressFinite, TotalZero

LEMMA BookBegins == ChainInit => OneBook!BookInit
<1>. SUFFICES ASSUME ChainInit PROVE OneBook!BookInit
  OBVIOUS
<1>1. /\ outbox = <<>> /\ Settled = Present
      /\ ledger = [kt \in Kycs \X Token |-> 0]
      /\ externalLedger = [t \in Token |-> 0]
  BY SettledIs DEF ChainInit, CustodianInit
<1>2. /\ fa2Ledger = [c \in FA2s |-> [ot \in Owner |-> 0]]
      /\ fa2Retired = [c \in FA2s |-> [ot \in Owner |-> 0]]
      /\ minted = [c \in FA2s |-> [id \in TokenIds |-> 0]]
  BY DEF ChainInit, FA2Init
<1>3. Sound(Settled, minted)
  BY ChainInitInv, BackedInvInit, SettledSound
<1>4. ASSUME NEW t \in Credit
      PROVE  /\ t[1] \in FA2s /\ t[2] \in TokenIds /\ t \in Token
             /\ \A o \in Address : /\ fa2Ledger[t[1]][<<o, t[2]>>] = 0
                                   /\ fa2Retired[t[1]][<<o, t[2]>>] = 0
             /\ externalLedger[t] = 0
  BY <1>1, <1>2, CreditIsToken DEF Credit, Owner
<1>5. /\ Settled.fa2Ledger = fa2Ledger /\ Settled.fa2Retired = fa2Retired
      /\ Settled.ledger = ledger /\ Settled.external_ledger = externalLedger
  BY <1>1 DEF Present
<1>6. ASSUME NEW h \in Address \cup Kycs, NEW t \in Credit
      PROVE  BookOf(Settled)[<<h, t>>] = 0
  <2>. HIDE DEF Settled, BookOf, Sound
  <2>1. CASE h \in Kycs
    <3>1. BookOf(Settled)[<<h, t>>] = ledger[<<h, t>>]
      BY <1>3, <1>5, <2>1, PartyOwns
    <3>. QED BY <1>1, <1>4, <2>1, <3>1
  <2>2. CASE h \in Wallets
    <3>1. BookOf(Settled)[<<h, t>>] = fa2Ledger[t[1]][<<h, t[2]>>]
      BY <1>3, <1>5, <2>2, WalletOwns
    <3>. QED BY <1>4, <2>2, <3>1 DEF Address
  <2>3. CASE h = CustodianContract
    <3>1. BookOf(Settled)[<<h, t>>] =
             fa2Ledger[t[1]][<<CustodianContract, t[2]>>] - externalLedger[t]
      BY <1>3, <1>5, <2>3, BookEntries
    <3>2. /\ fa2Ledger[t[1]][<<CustodianContract, t[2]>>] = 0
          /\ externalLedger[t] = 0
      BY <1>4 DEF Address
    <3>. QED BY <3>1, <3>2
  <2>. QED BY <2>1, <2>2, <2>3 DEF Address
<1>7. BookOf(Settled) = [ht \in (Address \cup Kycs) \X Credit |-> 0]
  BY <1>6 DEF BookOf
<1>8. [t \in Credit |-> minted[t[1]][t[2]]] = [t \in Credit |-> 0]
  BY <1>2, <1>4
<1>9. ASSUME NEW t \in Credit PROVE RetiredIn(Settled, t) = 0
  <2>1. \A o \in Address : fa2Retired[t[1]][<<o, t[2]>>] = 0
    BY <1>4
  <2>2. Total(Column(Address, fa2Retired[t[1]], t[2])) = 0
    <3>1. fa2Retired[t[1]] \in FA2Ledger /\ t[2] \in TokenIds
      BY <1>3, <1>5 DEF Sound, Credit
    <3>. QED BY <2>1, <3>1, NothingInColumn
  <2>. QED BY <1>5, <2>2 DEF RetiredIn
<1>10. [t \in Credit |-> Total(Column(Address, Settled.fa2Retired[t[1]], t[2]))]
          = [t \in Credit |-> 0]
  BY <1>9 DEF RetiredIn
<1>. QED BY <1>7, <1>8, <1>10, SteppedTo DEF OneBook!BookInit

LEMMA OneBookWhile == ChainInit /\ BackedSteps => ImplementsOneBook
<1>1. ChainInit => OneKind
  BY DEF OneKind, ChainInit, CustodianInit
<1>2. ChainInv /\ BackedInv /\ OneKind /\ [ChainNext]_chainVars => OneKind'
  BY OneKindNext
<1>3. ChainInv /\ BackedInv => Sound(Settled, minted)
  BY SettledSound
<1>4. ASSUME ChainInv, OneKind, Sound(Settled, minted), Sound(Settled, minted)',
             [ChainNext]_chainVars
      PROVE  OneBook!BookNext
  <2>1. Sound(Settled', minted')
    BY <1>4
  <2>. QED BY <1>4, <2>1, EveryStep
<1>5. [ChainNext /\ BooksWhatCame]_chainVars => [ChainNext]_chainVars
  OBVIOUS
<1>. QED BY <1>1, <1>2, <1>3, <1>4, <1>5, BackedWhile, BookBegins, PTL
         DEF BackedSteps, ImplementsOneBook, OneBook!BookSpec

(***************************************************************************)
(* The two contracts implement the one book of CreditBook: a call of the   *)
(* custodian with all the operations it emits, or none of them, is one     *)
(* step in which credits are issued, change hands, or are retired, and     *)
(* everything else that the contracts do is no step at all.                *)
(***************************************************************************)
THEOREM OneBookImplemented ==
    ASSUME SyncsWithoutRepeats
    PROVE  ChainSpec => ImplementsOneBook
BY StepsWithoutRepeats, OneBookWhile, PTL
=============================================================================
