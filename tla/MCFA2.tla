------------------------------- MODULE MCFA2 -------------------------------
(* One FA2 contract on its own, called by every address. *)
EXTENDS FA2

(* Addresses are told apart only by what they have done. *)
Symmetry == Permutations(Wallets)
=============================================================================
