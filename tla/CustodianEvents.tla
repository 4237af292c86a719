-------------------------- MODULE CustodianEvents --------------------------
(***************************************************************************)
(* The events of src/src/custodian.mligo.  The contract cannot list its    *)
(* ledger: who wants to know how it came about reads the events and adds   *)
(* them up.  This module adds to the custodian contract what such a reader *)
(* has.  Events are operations that the contract emits after its books are *)
(* updated, from lists of their own; they are undone with the call.        *)
(***************************************************************************)
EXTENDS Custodian

CONSTANT NoReplay   \* credits have left without an event

VARIABLES
    replay,         \* the balances the events add up to, or NoReplay
    replayBefore    \* replay before the call that is executing

eventsVars == <<sender, custodianVars, replay, replayBefore>>


-----------------------------------------------------------------------------
(* Mutant: one event per list of a giver, with the last amount only. *)
InternalTransferEventsLast(txs) == [kt \in Kycs \X Token |->
    IF txs = <<>> \/ Last(txs).token # kt[2] THEN 0
    ELSE (IF Last(txs).to = kt[1] THEN Last(txs).amount ELSE 0)
       - (IF Last(txs).from = kt[1] THEN Last(txs).amount ELSE 0)]

(* %internal_transfer: one for each transfer. *)
InternalTransferEvents(txs) == [kt \in Kycs \X Token |->
    Total([i \in DOMAIN txs |->
        IF txs[i].token # kt[2] THEN 0
        ELSE (IF txs[i].to = kt[1] THEN txs[i].amount ELSE 0)
           - (IF txs[i].from = kt[1] THEN txs[i].amount ELSE 0)])]

(* %internal_mint: one for each update that is not of nothing; all are     *)
(* credited to Self.                                                       *)
InternalMintEvents(updates) == [kt \in Kycs \X Token |->
    Total([i \in DOMAIN updates |->
        IF updates[i].token = kt[2] /\ kt[1] = Self /\ updates[i].amount # 0
        THEN updates[i].amount ELSE 0])]

(* The reader adds the changes to what it has, and keeps what it had as    *)
(* long as the call can be undone.                                         *)
Replay(change) ==
    /\ replay' = IF replay = NoReplay THEN NoReplay
                 ELSE [kt \in Kycs \X Token |-> replay[kt] + change[kt]]
    /\ replayBefore' = IF outbox' = <<>> THEN NoReplay ELSE replay

Nothing == [kt \in Kycs \X Token |-> 0]

(* external_transfer emits no event for the credits it sends out. *)
ReplayExternal ==
    /\ replay' = IF externalLedger' = externalLedger THEN replay ELSE NoReplay
    /\ replayBefore' = IF outbox' = <<>> THEN NoReplay ELSE replay

-----------------------------------------------------------------------------
InternalTransferCall(caller, txs) ==
    /\ outbox = <<>> /\ InternalTransfer(caller, txs)
    /\ Replay(InternalTransferEvents(txs))

InternalMintCall(caller, tokens, view) ==
    /\ outbox = <<>> /\ InternalMint(caller, tokens, view)
    /\ Replay(InternalMintEvents(SyncUpdates(tokens, view)))

ExternalTransferCall(caller, groups) ==
    /\ outbox = <<>> /\ ExternalTransfer(caller, groups)
    /\ ReplayExternal

RetireAndEmit(caller, groups) ==
    /\ RetireCall(caller, groups)
    /\ Replay([kt \in Kycs \X Token |-> -RetireEvents(groups)[kt]])

UpdateOperatorsCall(caller, updates) ==
    /\ outbox = <<>> /\ UpdateInternalOperators(caller, updates)
    /\ Replay(Nothing)

UpdateCustodianCall(caller, newCustodian) ==
    /\ outbox = <<>> /\ UpdateCustodian(caller, newCustodian)
    /\ Replay(Nothing)

(* An operation of the call is executed; when one is rejected, the events  *)
(* of the call are undone with it.                                         *)
Applied ==
    /\ OperationApplied
    /\ replayBefore' = IF outbox' = <<>> THEN NoReplay ELSE replayBefore
    /\ UNCHANGED replay

Rejected ==
    /\ OperationRejected
    /\ replay' = replayBefore
    /\ replayBefore' = NoReplay

EventsInit == CustodianInit /\ replay = Nothing /\ replayBefore = NoReplay

EventsNext ==
    \/ \E caller \in Wallets :
        \/ \E txs \in Batches(InternalTransferTx) : InternalTransferCall(caller, txs)
        \/ \E view \in Views, tokens \in SyncBatches : InternalMintCall(caller, tokens, view)
        \/ \E groups \in ExternalTransfers : ExternalTransferCall(caller, groups)
        \/ \E groups \in Retirements : RetireAndEmit(caller, groups)
        \/ \E updates \in Batches(KycOperatorUpdate) : UpdateOperatorsCall(caller, updates)
        \/ \E newCustodian \in Address : UpdateCustodianCall(caller, newCustodian)
    \/ Applied
    \/ Rejected

EventsSpec == EventsInit /\ [][EventsNext]_eventsVars

-----------------------------------------------------------------------------
(***************************************************************************)
(* As long as no credits have been sent out by external_transfer, who has  *)
(* added up the events knows every party's balance of every token: none is *)
(* missing, none counts twice, and none is left of a call that was undone, *)
(* whatever lists the calls came with.                                     *)
(***************************************************************************)
EventsGiveLedger == replay # NoReplay => replay = ledger
=============================================================================
