------------------------------ MODULE X4CChain ------------------------------
(***************************************************************************)
(* The two contracts on one chain.  Wallets call either of them; the       *)
(* operations the custodian emits run against the FA2 contracts, in order  *)
(* and before any other call, and if one is rejected Tezos undoes all that *)
(* the call has done in both.                                              *)
(***************************************************************************)
EXTENDS FA2, Custodian

ASSUME ChainAssumption == Kycs \cap Address = {}

VARIABLES
    kycRetired,     \* history: the amounts of the custodian's %retire events
    chainBefore     \* the rest of what Tezos goes back to

chainVars == <<sender, fa2Vars, custodianVars, kycRetired, chainBefore>>

ChainTypeOK ==
    /\ FA2TypeOK
    /\ CustodianTypeOK
    /\ kycRetired \in KycLedger
    /\ outbox # <<>> =>
          chainBefore \in [fa2Ledger : [FA2s -> FA2Ledger],
                           fa2Retired : [FA2s -> FA2Ledger],
                           kycRetired : KycLedger]

ChainInit ==
    /\ FA2Init
    /\ CustodianInit
    /\ kycRetired = [kt \in Kycs \X Token |-> 0]
    /\ chainBefore = NoCall

(* The balances of the custodian that call_view "view_balance_of" returns. *)
CustodianView == [t \in Token |->
    IF t[1] \in FA2s THEN ViewBalanceOf(t[1], CustodianContract, t[2]) ELSE NoView]

(* A wallet calls an FA2 contract. *)
CallFA2(c, caller) ==
    /\ outbox = <<>>
    /\ FA2Call(c, caller)
    /\ UNCHANGED <<custodianVars, kycRetired, chainBefore>>

(* A call of the custodian begins with the state Tezos may go back to. *)
Remember ==
    chainBefore' = IF outbox' = <<>> THEN NoCall
                   ELSE [fa2Ledger |-> fa2Ledger, fa2Retired |-> fa2Retired,
                         kycRetired |-> kycRetired]

CallCustodian(caller) ==
    /\ LedgerCall(caller, CustodianView)
    /\ Remember
    /\ UNCHANGED <<fa2Vars, kycRetired>>

CallRetire(caller, groups) ==
    /\ RetireCall(caller, groups)
    /\ kycRetired' = [kt \in Kycs \X Token |->
                         kycRetired[kt] + RetireEvents(groups)[kt]]
    /\ Remember
    /\ UNCHANGED fa2Vars

(* The next emitted operation runs, with the custodian contract as sender. *)
Outcome(op) ==
    IF op.entrypoint = "transfer"
    THEN TransferResult(op.target, CustodianContract, op.txs)
    ELSE RetireResult(op.target, CustodianContract, op.txs)

ApplyOperation ==
    /\ OperationApplied
    /\ \/ /\ Head(outbox).entrypoint = "transfer"
          /\ Transfer(Head(outbox).target, CustodianContract, Head(outbox).txs)
       \/ /\ Head(outbox).entrypoint = "retire"
          /\ RetireTokens(Head(outbox).target, CustodianContract, Head(outbox).txs)
    /\ chainBefore' = IF outbox' = <<>> THEN NoCall ELSE chainBefore
    /\ UNCHANGED kycRetired

(* It is rejected: both contracts are as they were before the call. *)
RejectOperation ==
    /\ OperationRejected
    /\ Outcome(Head(outbox)) = Failed
    /\ fa2Ledger' = chainBefore.fa2Ledger
    /\ fa2Retired' = chainBefore.fa2Retired
    /\ kycRetired' = chainBefore.kycRetired
    /\ chainBefore' = NoCall
    /\ UNCHANGED <<oracle, fa2Operators, tokenMetadata, metadata, minted>>

ChainNext ==
    \/ \E c \in FA2s, caller \in Wallets : CallFA2(c, caller)
    \/ \E caller \in Wallets : CallCustodian(caller)
    \/ \E caller \in Wallets, groups \in Retirements : CallRetire(caller, groups)
    \/ ApplyOperation
    \/ RejectOperation

ChainSpec == ChainInit /\ [][ChainNext]_chainVars

-----------------------------------------------------------------------------
Credit == FA2s \X TokenIds

(***************************************************************************)
(* The custodian never books more of a token than its FA2 balance, so that *)
(* every party's credits can be transferred out or retired at any time.    *)
(***************************************************************************)
Backed ==
    outbox = <<>> =>
        \A t \in Credit : externalLedger[t] <= fa2Ledger[t[1]][CustodianContract, t[2]]

(* An FA2 contract never refuses an operation the custodian has booked.    *)
NothingRefused ==
    outbox # <<>> => Outcome(Head(outbox)) # Failed

(***************************************************************************)
(* Whatever lists internal_mint was called with, an FA2 contract refuses   *)
(* an operation only if the books were not backed when the call began: not *)
(* because a call of several groups has spent credits twice, or because an *)
(* operation has taken what a later one of the same call was to take.      *)
(***************************************************************************)
RefusedOnlyIfUnbacked ==
    outbox # <<>> /\ Outcome(Head(outbox)) = Failed =>
        \E t \in Credit :
            before.external_ledger[t]
                > chainBefore.fa2Ledger[t[1]][CustodianContract, t[2]]

(***************************************************************************)
(* The two streams of %retire events agree: what the custodian's events    *)
(* attribute to the parties is what the FA2 contract has retired from the  *)
(* custodian's balance, no matter how many operations a call emits and     *)
(* which of them is rejected.                                              *)
(***************************************************************************)
RetireEventsAgree ==
    outbox = <<>> =>
        \A t \in Credit :
            Total(Column(Kycs, kycRetired, t)) = fa2Retired[t[1]][CustodianContract, t[2]]

(***************************************************************************)
(* internal_mint is idempotent: when it has booked new credits of a token  *)
(* the books are level with the FA2 contract, and calling it again would   *)
(* add nothing.                                                            *)
(***************************************************************************)
SyncIdempotent ==
    [][outbox = <<>> =>
          \A t \in Credit : externalLedger'[t] > externalLedger[t]
             => externalLedger'[t] = CustodianView'[t]]_chainVars

(***************************************************************************)
(* Tokens held by the custodian contract leave it only by an operation the *)
(* contract has emitted itself: no wallet, be it the custodian's admin or  *)
(* the oracle, moves them by calling the FA2 contract.                     *)
(***************************************************************************)
CustodyHeld ==
    [][\A t \in Credit :
          fa2Ledger'[t[1]][CustodianContract, t[2]]
                < fa2Ledger[t[1]][CustodianContract, t[2]]
             => outbox # <<>>]_chainVars

(***************************************************************************)
(* The contracts implement the one book of CreditBook: wallets own their   *)
(* FA2 balances, parties what the custodian's ledger says, and the         *)
(* custodian contract itself what it has received and not synced.  A call  *)
(* whose operations are still executing has not happened yet.              *)
(***************************************************************************)
Settled ==
    IF outbox = <<>>
    THEN [fa2Ledger |-> fa2Ledger, fa2Retired |-> fa2Retired,
          ledger |-> ledger, external_ledger |-> externalLedger]
    ELSE [fa2Ledger |-> chainBefore.fa2Ledger,
          fa2Retired |-> chainBefore.fa2Retired,
          ledger |-> before.ledger, external_ledger |-> before.external_ledger]

OwnedBy(h, t) ==
    CASE h \in Kycs -> Settled.ledger[h, t]
      [] h \in Wallets -> Settled.fa2Ledger[t[1]][h, t[2]]
      [] h = CustodianContract ->
            Settled.fa2Ledger[t[1]][h, t[2]] - Settled.external_ledger[t]

OneBook == INSTANCE CreditBook WITH
    Holder <- Address \cup Kycs,
    book <- [ht \in (Address \cup Kycs) \X Credit |-> OwnedBy(ht[1], ht[2])],
    issued <- [t \in Credit |-> minted[t[1]][t[2]]],
    retired <- [t \in Credit |-> Total(Column(Address, Settled.fa2Retired[t[1]], t[2]))]

ImplementsOneBook == OneBook!BookSpec
=============================================================================
