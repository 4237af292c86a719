------------------------------ MODULE Balances ------------------------------
(***************************************************************************)
(* The LIGO idioms both contracts are written in.  src/src/fa2.mligo and   *)
(* src/src/custodian.mligo hold the same text of update_balance, and every *)
(* entrypoint of both is a List.fold over the list it is called with, in   *)
(* which failwith abandons the whole call.                                 *)
(***************************************************************************)
EXTENDS Integers, SequencesExt

CONSTANTS
    Failed,             \* the outcome of failwith: the call changes nothing
    MaxBatch            \* bound: the length of the lists callers send

ASSUME BalancesAssumption == MaxBatch \in Nat

(* The lists a caller can send. *)
Batches(items) == SeqOf(items, MaxBatch)

(* What each owner has of t in a ledger with keys <<owner, t>>, and what    *)
(* that is in all; a big_map key that is absent counts 0.                  *)
Column(owners, book, t) == [o \in owners |-> book[o, t]]
Total(f) == SumFunction(f)

(* Mutant: the balance is not checked. *)
UpdateBalanceUnchecked(k, diff, book) == [book EXCEPT ![k] = @ + diff]

(***************************************************************************)
(* update_balance.  The code deletes an entry that reaches 0 and reads an  *)
(* absent one as 0: here every key is present and 0 stands for absence.    *)
(***************************************************************************)
UpdateBalance(k, diff, book) ==
    IF book[k] + diff < 0
    THEN Failed
    ELSE [book EXCEPT ![k] = @ + diff]

(***************************************************************************)
(* List.fold (fun (s, x) -> step[s][x]) list storage, where a step that    *)
(* calls failwith abandons the fold.                                       *)
(***************************************************************************)
ListFold(step, storage, list) ==
    FoldLeft(LAMBDA s, x : IF s = Failed THEN Failed ELSE step[s][x],
             storage, list)
=============================================================================
