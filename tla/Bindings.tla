------------------------------ MODULE Bindings ------------------------------
(***************************************************************************)
(* The two sides of a call: src/backend/pkg/x4c/*_entrypoints.go write the *)
(* parameters as trees of Michelson pairs, and the contracts declare types *)
(* whose layout says where in the tree each field is.  Nothing but their   *)
(* agreement keeps a token id from being taken for an amount: a node       *)
(* checks the shape and the kind of what it is sent, and no names.         *)
(***************************************************************************)
EXTENDS Integers, SequencesExt

CONSTANTS
    Account,        \* the addresses there are, of wallets and contracts
    NoAddress       \* tezos.Address{}

-----------------------------------------------------------------------------
(* Micheline, as pkg/x4c writes it. *)
NewString(a) == [prim |-> "string", is |-> a]
NewNat(n) == [prim |-> "int", is |-> n]
NewBytes(b) == [prim |-> "bytes", is |-> b]
NewMap(m) == [prim |-> "map", is |-> m]
NewSeq(v) == [prim |-> "seq", is |-> <<v>>]
NewPair(a, b) == [prim |-> "pair", is |-> <<a, b>>]
NewOr(side, v) == [prim |-> side, is |-> v]

(* A text as bytes, and a text packed: the contract's key "self" is packed *)
(* by Bytes.pack.                                                          *)
Raw(text) == <<"raw", text>>
Pack(text) == <<"packed", text>>

Nowhere == [prim |-> "none", is |-> <<>>]

(* What is in tree at the end of a path of lefts (1) and rights (2). *)
At(tree, path) ==
    FoldLeft(LAMBDA t, i : IF t.prim = "pair" THEN t.is[i] ELSE Nowhere,
             tree, path)

-----------------------------------------------------------------------------
(* The layouts of LIGO, as the path to each field.  [@layout:comb] nests   *)
(* to the right the fields in the order they are declared in; without it   *)
(* they make a balanced tree in the order of their names.                  *)
Repeated(n) == [i \in 1..n |-> 2]

Comb(fields) == [f \in ToSet(fields) |->
    LET i == CHOOSE j \in DOMAIN fields : fields[j] = f
    IN  IF i = Len(fields) THEN Repeated(i - 1) ELSE Append(Repeated(i - 1), 1)]

Balanced(sorted) ==
    LET paths == CASE Len(sorted) = 2 -> <<<<1>>, <<2>>>>
                   [] Len(sorted) = 3 -> <<<<1, 1>>, <<1, 2>>, <<2>>>>
                   [] Len(sorted) = 4 -> <<<<1, 1>>, <<1, 2>>, <<2, 1>>, <<2, 2>>>>
    IN  [f \in ToSet(sorted) |-> paths[CHOOSE j \in DOMAIN sorted : sorted[j] = f]]

(* The types of custodian.mligo *)
TypeInternalMint == Balanced(<<"token_address", "token_id">>)
TypeInternalTransfer == Comb(<<"from_", "token_address", "txs">>)
TypeInternalTransferTo == Comb(<<"to_", "token_id", "amount">>)
TypeOperatorData == Comb(<<"token_owner", "token_operator", "token_id">>)
TypeInternalRetire == Balanced(<<"token_address", "txs">>)
TypeInternalRetireData ==
    Balanced(<<"amount", "retiring_data", "retiring_party_kyc", "token_id">>)

(* and of fa2.mligo *)
TypeMintData == Balanced(<<"owner", "qty", "token_id">>)
TypeTokenMetadata == Comb(<<"token_id", "token_info">>)

Nats == {"token_id", "amount", "qty"}
Addresses == {"token_address", "token_operator", "owner"}
Lists == {"txs"}

(* The field f of a record of type, and whether it is of f's kind. *)
Field(type, v, f) == At(v, type[f]).is

Fits(type, v) ==
    \A f \in DOMAIN type :
        LET p == At(v, type[f])
        IN  CASE f \in Nats -> p.prim = "int" /\ p.is >= 0
              [] f \in Addresses -> p.prim = "string" /\ p.is \in Account
              [] f \in Lists -> p.prim = "seq"
              [] f = "token_info" -> p.prim = "map"
              [] OTHER -> p.prim = "bytes"

(* Both, of every element of a list. *)
AllFit(type, list) ==
    list.prim = "seq" /\ \A i \in DOMAIN list.is : Fits(type, list.is[i])

(* The type check of an entrypoint, which the node makes. *)
FitsEntrypoint(p) ==
    CASE p.entrypoint = "internal_mint" -> AllFit(TypeInternalMint, p.value)
      [] p.entrypoint = "internal_transfer" ->
            /\ AllFit(TypeInternalTransfer, p.value)
            /\ \A i \in DOMAIN p.value.is :
                  AllFit(TypeInternalTransferTo, At(p.value.is[i], TypeInternalTransfer["txs"]))
      [] p.entrypoint = "update_internal_operators" ->
            \A i \in DOMAIN p.value.is :
                /\ p.value.is[i].prim \in {"left", "right"}
                /\ Fits(TypeOperatorData, p.value.is[i].is)
      [] p.entrypoint = "retire" ->
            /\ AllFit(TypeInternalRetire, p.value)
            /\ \A i \in DOMAIN p.value.is :
                  AllFit(TypeInternalRetireData, At(p.value.is[i], TypeInternalRetire["txs"]))
      [] p.entrypoint = "mint" -> AllFit(TypeMintData, p.value)
      [] p.entrypoint = "add_token_id" -> AllFit(TypeTokenMetadata, p.value)

-----------------------------------------------------------------------------
(* The parameters that pkg/x4c sends: always a list of one. *)
(* Mutant: the token is listed twice. *)
CustodianInternalMintTwice(token_address, token_id) ==
    LET token == NewPair(NewString(token_address), NewNat(token_id))
    IN  [entrypoint |-> "internal_mint",
         value |-> [prim |-> "seq", is |-> <<token, token>>]]

CustodianInternalMint(token_address, token_id) ==
    [entrypoint |-> "internal_mint",
     value |-> NewSeq(NewPair(NewString(token_address), NewNat(token_id)))]

(* Mutant: the two numbers change places, as they do in fa2 mint. *)
CustodianInternalTransferSwapped(token_address, token_id, amount, current_kyc, new_kyc) ==
    [entrypoint |-> "internal_transfer",
     value |-> NewSeq(
        NewPair(NewBytes(Pack(current_kyc)),
            NewPair(NewString(token_address),
                NewSeq(NewPair(NewBytes(Pack(new_kyc)),
                               NewPair(NewNat(amount), NewNat(token_id)))))))]

CustodianInternalTransfer(token_address, token_id, amount, current_kyc, new_kyc) ==
    [entrypoint |-> "internal_transfer",
     value |-> NewSeq(
        NewPair(NewBytes(Pack(current_kyc)),
            NewPair(NewString(token_address),
                NewSeq(NewPair(NewBytes(Pack(new_kyc)),
                               NewPair(NewNat(token_id), NewNat(amount)))))))]

CustodianUpdateOperators(add, owner, operator, token_id) ==
    [entrypoint |-> "update_internal_operators",
     value |-> NewSeq(NewOr(IF add THEN "left" ELSE "right",
        NewPair(NewBytes(Pack(owner)),
                NewPair(NewString(operator), NewNat(token_id)))))]

(* Mutant: a comb, as the other types of the contract have it. *)
CustodianRetireComb(token_address, token_id, kyc, amount, reason) ==
    [entrypoint |-> "retire",
     value |-> NewSeq(NewPair(NewString(token_address),
        NewSeq(NewPair(NewBytes(Pack(kyc)),
                   NewPair(NewNat(token_id),
                       NewPair(NewNat(amount), NewBytes(Raw(reason))))))))]

CustodianRetire(token_address, token_id, kyc, amount, reason) ==
    [entrypoint |-> "retire",
     value |-> NewSeq(NewPair(NewString(token_address),
        NewSeq(NewPair(NewPair(NewNat(amount), NewBytes(Raw(reason))),
                       NewPair(NewBytes(Pack(kyc)), NewNat(token_id))))))]

FA2AddToken(token_id, info) ==
    [entrypoint |-> "add_token_id",
     value |-> NewSeq(NewPair(NewNat(token_id), NewMap(info)))]

FA2Mint(token_id, token_owner, amount) ==
    [entrypoint |-> "mint",
     value |-> NewSeq(NewPair(NewPair(NewString(token_owner), NewNat(amount)),
                              NewNat(token_id)))]
=============================================================================
