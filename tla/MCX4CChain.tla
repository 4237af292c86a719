---------------------------- MODULE MCX4CChain ----------------------------
(* Both contracts on one chain. *)
EXTENDS X4CChain

(* internal_mint as the program's own client calls it, one token at a time, *)
(* and as any other client may, with any list.                             *)
SingleSyncs == {<<t>> : t \in Token}
AllSyncs == Batches(Token)

(* Addresses are told apart only by what they have done. *)
Symmetry == Permutations(Wallets) \cup Permutations(FA2s)
=============================================================================
