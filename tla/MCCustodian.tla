---------------------------- MODULE MCCustodian ----------------------------
(* The custodian contract and its events, with FA2 contracts that answer   *)
(* anything and an internal_mint that takes every list of tokens.          *)
EXTENDS CustodianEvents

AllSyncs == Batches(Token)

(* Addresses are told apart only by what they have done. *)
Symmetry == Permutations(Wallets)
=============================================================================
