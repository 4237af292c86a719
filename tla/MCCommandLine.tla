--------------------------- MODULE MCCommandLine ---------------------------
(* The commands on one FA2 contract and a custodian, given from homes that *)
(* list all, some or none of what is named.                                *)
EXTENDS CommandLine

CONSTANTS w1, w2, f1, custody, nCustodian, nFA2, nOwner, nOperator, self, org

(* Everything is listed, and one name is that of a wallet and a contract.  *)
HomeOfOwner ==
    [contracts |-> nCustodian :> custody @@ nFA2 :> f1 @@ nOperator :> custody,
     secret_keys |-> nOwner :> w1,
     public_key_hashs |-> nOwner :> w1 @@ nOperator :> w2,
     signatory |-> FALSE, operator |-> w2]

(* Wallets and contracts that others have originated are not listed. *)
HomeOfOther ==
    [contracts |-> nCustodian :> custody,
     secret_keys |-> nOwner :> w1,
     public_key_hashs |-> nOwner :> w1,
     signatory |-> TRUE, operator |-> w2]

AllHomes == {HomeOfOwner, HomeOfOther}

KycBytes == {"packed", "raw"} \X {self, org}
PackedSelf == Pack(self)
TypedNumbers == -1..1
SingleSyncs == {<<t>> : t \in Token}

(* One wallet has originated both contracts. *)
MCInit == CommandInit /\ custodian = w1 /\ oracle[f1] = w1 /\ sender = w1
MCSpec == MCInit /\ [][CommandNext]_commandVars
=============================================================================
