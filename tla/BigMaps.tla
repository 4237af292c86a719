------------------------------ MODULE BigMaps ------------------------------
(***************************************************************************)
(* How an indexer tells a big map, and what the decoders of pkg/x4c make   *)
(* of that.                                                                *)
(***************************************************************************)
EXTENDS Integers, Sequences, FiniteSetsExt

(* amounts[n][k] is what a contract had for k after block n, 0 if nothing: *)
(* the indexer lists each key that was ever set, as inactive and with the  *)
(* last value it had once it has been removed.                             *)
LastSet(amounts, k) == Max({n \in DOMAIN amounts : amounts[n][k] # 0})

BigMapItems(amounts, Keys) ==
    {[key    |-> k,
      value  |-> amounts[LastSet(amounts, k)][k],
      active |-> amounts[Len(amounts)][k] # 0] :
        k \in {l \in Keys : \E n \in DOMAIN amounts : amounts[n][l] # 0}}

(* Mutant: removed keys are listed too. *)
ActiveItemsOrNot(items) == items

(* The decoders of the ledgers leave out what has been removed. *)
ActiveItems(items) == {i \in items : i.active}

AsMap(items) ==
    [k \in {i.key : i \in items} |-> (CHOOSE i \in items : i.key = k).value]

AmountOf(map, k) == IF k \in DOMAIN map THEN map[k] ELSE 0
=============================================================================
