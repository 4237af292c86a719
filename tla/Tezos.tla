------------------------------- MODULE Tezos -------------------------------
(***************************************************************************)
(* What the two contracts share: who can call and what a token is.         *)
(***************************************************************************)
EXTENDS Balances

CONSTANTS
    Wallets,            \* implicit accounts: callers with a key
    CustodianContract,  \* the address of the custodian contract
    FA2s,               \* the addresses of the FA2 contracts
    TokenAddress,       \* what a caller may name as a token_address
    TokenIds,           \* token ids (nat in the code, only compared)
    Amounts             \* the amounts callers put into parameters

ASSUME TezosAssumption ==
    /\ IsFiniteSet(Wallets)
    /\ CustodianContract \notin Wallets
    /\ FA2s \subseteq TokenAddress
    /\ Amounts \subseteq Nat

(* The wallet or contract whose call the last step executed,               *)
(* Tezos.get_sender ().                                                    *)
VARIABLE sender

(* Whoever can hold FA2 tokens or call a contract. *)
Address == Wallets \cup {CustodianContract}

(* custodian.mligo names a token by the FA2 contract and the id in it. *)
Token == TokenAddress \X TokenIds
=============================================================================
