---------------------------- MODULE CommandLine ----------------------------
(***************************************************************************)
(* The commands of src/backend/cmd/x4cli that call a contract, and POST    *)
(* retire of src/backend/cmd/server, from the words they are given to what *)
(* the contracts do: how a word is taken for a wallet or a contract        *)
(* (pkg/tzclient), what is sent (Bindings), what the node makes of it, and *)
(* the call itself (X4CChain).                                             *)
(*                                                                         *)
(* A command reads the lists of octez-client when it begins, and nothing   *)
(* of the chain: only the operation it sends counts, and when that is      *)
(* executed.  RetireService has what happens if it is sent several times.  *)
(***************************************************************************)
EXTENDS X4CChain

CONSTANTS
    NoAddress,      \* tezos.Address{}
    Texts,          \* what parties are called
    Reasons,        \* why credits are retired
    Numbers,        \* the amounts that are typed
    Names,          \* what wallets and contracts are listed as
    Words,          \* the words that are typed
    Homes,          \* what commands find in ~/.tezos-client and the environment
    NoCommand       \* no command is under way

INSTANCE Bindings WITH Account <- Address \cup FA2s

ContractAddresses == FA2s \cup {CustodianContract}

ASSUME CommandLineAssumption ==
    /\ FA2s \cap Address = {}
    /\ NoAddress \notin Address \cup FA2s
    /\ Names \cap (Address \cup FA2s) = {}
    /\ Words \subseteq Names \cup Wallets \cup ContractAddresses
    /\ Numbers \subseteq Int /\ TokenIds \subseteq Nat
    /\ \A text \in Texts : {Pack(text), Raw(text)} \subseteq Kycs
    /\ \A home \in Homes :
          /\ home.contracts \in UNION {[listed -> ContractAddresses] : listed \in SUBSET Names}
          /\ {home.secret_keys, home.public_key_hashs}
                \subseteq UNION {[listed -> Wallets] : listed \in SUBSET Names}
          /\ home.signatory \in BOOLEAN /\ home.operator \in Words

(* X4CChain's callers can send what a command sends: a list of one. *)
ASSUME CallersAssumption ==
    /\ MaxBatch >= 1
    /\ Numbers \cap Nat \subseteq Amounts
    /\ ContractAddresses \subseteq TokenAddress
    /\ {<<t>> : t \in Token} \subseteq SyncBatches

(* The command whose operation is on its way: what it was asked to do, and *)
(* the operation it has sent.                                              *)
VARIABLE running

commandVars == <<chainVars, running>>

-----------------------------------------------------------------------------
(* Words *)

(* LoadClient: a wallet of both files is the one whose key was read. *)
LoadClient(home) ==
    [contracts |-> home.contracts,
     signatory |-> home.signatory,
     wallets   |-> [n \in DOMAIN home.secret_keys \cup DOMAIN home.public_key_hashs |->
                        IF n \in DOMAIN home.secret_keys
                        THEN [address |-> home.secret_keys[n], key |-> TRUE]
                        ELSE [address |-> home.public_key_hashs[n], key |-> FALSE]]]

(* NewClient, the server's, reads no lists. *)
NewClient(home) ==
    [contracts |-> <<>>, signatory |-> home.signatory, wallets |-> <<>>]

(* Client.ContractByName: a name or the address of a contract in the list. *)
ContractByName(client, word) ==
    IF word \in DOMAIN client.contracts THEN client.contracts[word]
    ELSE IF \E n \in DOMAIN client.contracts : client.contracts[n] = word THEN word
    ELSE NoAddress

NewContractWithAddress(word) ==
    IF word \in ContractAddresses THEN word ELSE NoAddress

(* The one, or else the other of another argument. *)
ContractOr(client, word, fallback) ==
    LET listed == ContractByName(client, word)
    IN  IF listed # NoAddress THEN listed ELSE NewContractWithAddress(fallback)

ContractArgument(client, word) == ContractOr(client, word, word)

(* client.Wallets by name, and else NewWalletWithAddress, which knows no   *)
(* key.                                                                    *)
WalletArgument(client, word) ==
    IF word \in DOMAIN client.wallets THEN client.wallets[word]
    ELSE [address |-> IF word \in Wallets THEN word ELSE NoAddress, key |-> FALSE]

(* What a word can stand for, among the addresses that a command asks for. *)
Meanings(client, word, kind) == kind \cap
    IF word \in Names
    THEN {client.contracts[n] : n \in DOMAIN client.contracts \cap {word}} \cup
         {client.wallets[n].address : n \in DOMAIN client.wallets \cap {word}}
    ELSE {word}

-----------------------------------------------------------------------------
(***************************************************************************)
(* Commands.  What a command sends depends on its words alone: each is the *)
(* set of what it can have sent, empty when it ends before.                *)
(***************************************************************************)

(* A node tries an operation out before it takes it, and takes none for an *)
(* entrypoint that the contract does not have.                             *)
Having(entrypoint) ==
    IF entrypoint \in {"mint", "add_token_id"} THEN FA2s ELSE {CustodianContract}

(* Mutant: nobody looks whether the signer has an address. *)
CallContractOfAnyone(client, signer, target, parameters, asked) ==
    IF target \in Having(parameters.entrypoint) /\ (signer.key \/ client.signatory)
    THEN {[asked |-> asked, source |-> signer.address, target |-> target,
           parameters |-> parameters]}
    ELSE {}

(* CallContract signs with the key, or has Signatory sign, and sends.      *)
CallContract(client, signer, target, parameters, asked) ==
    IF /\ signer.address # NoAddress /\ target \in Having(parameters.entrypoint)
       /\ signer.key \/ client.signatory
    THEN {[asked |-> asked, source |-> signer.address, target |-> target,
           parameters |-> parameters]}
    ELSE {}

(* x4cli custodian internal_mint *)
RunInternalMint(client, contract, signer, fa2, id) ==
    LET token_address == ContractOr(client, fa2, contract)
    IN  IF token_address = NoAddress THEN {}
        ELSE CallContract(client, WalletArgument(client, signer),
                ContractArgument(client, contract),
                CustodianInternalMint(token_address, id),
                [command |-> "internal_mint",
                 fa2 |-> Meanings(client, fa2, ContractAddresses), id |-> id])

(* x4cli custodian internal_transfer: the contract is looked up by name only. *)
RunInternalTransfer(client, contract, signer, fa2, id, amount, from, to) ==
    LET token_address == IF fa2 \in DOMAIN client.contracts THEN client.contracts[fa2]
                         ELSE NewContractWithAddress(contract)
    IN  IF token_address = NoAddress THEN {}
        ELSE CallContract(client, WalletArgument(client, signer),
                ContractArgument(client, contract),
                CustodianInternalTransfer(token_address, id, amount, from, to),
                [command |-> "internal_transfer",
                 fa2 |-> Meanings(client, fa2, ContractAddresses), id |-> id,
                 amount |-> amount, from |-> from, to |-> to])

(* x4cli custodian add_operator and remove_operator: a word that stands for *)
(* no wallet is complained of, and the operation sent without an address.  *)
RunUpdateOperators(client, contract, signer, add, operator, id, owner) ==
    CallContract(client, WalletArgument(client, signer),
        ContractArgument(client, contract),
        CustodianUpdateOperators(add, owner,
            WalletArgument(client, operator).address, id),
        [command |-> IF add THEN "add_operator" ELSE "remove_operator",
         operator |-> Meanings(client, operator, Wallets), id |-> id, owner |-> owner])

SendRetire(client, contract, wallet, fa2, id, kyc, amount, reason) ==
    LET token_address == ContractArgument(client, fa2)
    IN  IF token_address = NoAddress THEN {}
        ELSE CallContract(client, wallet, ContractArgument(client, contract),
                CustodianRetire(token_address, id, kyc, amount, reason),
                [command |-> "retire",
                 fa2 |-> Meanings(client, fa2, ContractAddresses), id |-> id,
                 amount |-> amount, from |-> kyc])

(* x4cli custodian retire *)
RunRetire(client, contract, signer, fa2, id, kyc, amount, reason) ==
    SendRetire(client, contract, WalletArgument(client, signer), fa2, id, kyc,
               amount, reason)

(* POST retire, signed by the wallet that main finds in the environment.   *)
PostRetire(client, operator, contract, fa2, id, kyc, amount, reason) ==
    IF amount <= 0 THEN {}
    ELSE SendRetire(client, contract, WalletArgument(client, operator),
                    fa2, id, kyc, amount, reason)

(* x4cli fa2 mint: the owner is a wallet, a contract or any address, and   *)
(* here in Address: credits of an FA2 contract could never move again.     *)
RunMint(client, contract, oracleWord, id, owner, amount) ==
    LET token_owner ==
            IF owner \in DOMAIN client.wallets THEN client.wallets[owner].address
            ELSE IF ContractByName(client, owner) # NoAddress
            THEN ContractByName(client, owner)
            ELSE IF owner \in Names THEN NoAddress ELSE owner
    IN  IF token_owner \notin Address THEN {}
        ELSE CallContract(client, WalletArgument(client, oracleWord),
                ContractArgument(client, contract),
                FA2Mint(id, token_owner, amount),
                [command |-> "mint", fa2 |-> Meanings(client, contract, FA2s), id |-> id,
                 amount |-> amount, owner |-> Meanings(client, owner, Address)])

(* x4cli fa2 add_token *)
RunAddToken(client, contract, oracleWord, id, info) ==
    CallContract(client, WalletArgument(client, oracleWord),
        ContractArgument(client, contract), FA2AddToken(id, info),
        [command |-> "add_token", fa2 |-> Meanings(client, contract, FA2s), id |-> id,
         info |-> info])

(* Every use of each command. *)
Clients == {LoadClient(home) : home \in Homes}

InternalMints == UNION {RunInternalMint(client, contract, signer, fa2, id) :
    client \in Clients, contract, signer, fa2 \in Words, id \in TokenIds}

InternalTransfers ==
    UNION {RunInternalTransfer(client, contract, signer, fa2, id, n, from, to) :
        client \in Clients, contract, signer, fa2 \in Words, id \in TokenIds,
        n \in Numbers, from, to \in Texts}

OperatorUpdates ==
    UNION {RunUpdateOperators(client, contract, signer, add, operator, id, owner) :
        client \in Clients, contract, signer, operator \in Words,
        add \in BOOLEAN, id \in TokenIds, owner \in Texts}

Retires == UNION {RunRetire(client, contract, signer, fa2, id, kyc, n, reason) :
    client \in Clients, contract, signer, fa2 \in Words, id \in TokenIds,
    kyc \in Texts, n \in Numbers, reason \in Reasons}

Posts == UNION {PostRetire(NewClient(home), home.operator, contract, fa2, id, kyc,
                           n, reason) :
    home \in Homes, contract, fa2 \in Words, id \in TokenIds,
    kyc \in Texts, n \in Numbers, reason \in Reasons}

Mints == UNION {RunMint(client, contract, signer, id, owner, n) :
    client \in Clients, contract, signer, owner \in Words, id \in TokenIds,
    n \in Numbers}

AddTokens == UNION {RunAddToken(client, contract, signer, id, info) :
    client \in Clients, contract, signer \in Words, id \in TokenIds,
    info \in TokenInfos}

Submit(sent) ==
    /\ running = NoCommand
    /\ running' \in sent
    /\ UNCHANGED chainVars

-----------------------------------------------------------------------------
(* The operation is executed, between the operations of two other calls,   *)
(* if the parameters are of the entrypoint's type.                         *)
Called(entrypoint) ==
    /\ running # NoCommand
    /\ running.parameters.entrypoint = entrypoint
    /\ FitsEntrypoint(running.parameters)
    /\ outbox = <<>>
    /\ running' = NoCommand

(* The list that was sent, each element as decode gives it. *)
Sent(decode(_)) ==
    LET list == running.parameters.value.is
    IN  [i \in DOMAIN list |-> decode(list[i])]

(* The lists in a list: what each element of type has in txs. *)
Txs(type, v) == Field(type, v, "txs")

OfCustodianAlone == Remember /\ UNCHANGED <<fa2Vars, kycRetired>>
OfFA2Alone == UNCHANGED <<custodianVars, kycRetired, chainBefore>>

ExecuteInternalMint ==
    /\ Called("internal_mint")
    /\ InternalMint(running.source,
            Sent(LAMBDA v : <<Field(TypeInternalMint, v, "token_address"),
                              Field(TypeInternalMint, v, "token_id")>>),
            CustodianView)
    /\ OfCustodianAlone

ExecuteInternalTransfer ==
    /\ Called("internal_transfer")
    /\ InternalTransfer(running.source,
            FlattenSeq(Sent(LAMBDA v :
                [i \in DOMAIN Txs(TypeInternalTransfer, v) |->
                    LET tx == Txs(TypeInternalTransfer, v)[i]
                    IN  [from |-> Field(TypeInternalTransfer, v, "from_"),
                         to |-> Field(TypeInternalTransferTo, tx, "to_"),
                         token |-> <<Field(TypeInternalTransfer, v, "token_address"),
                                     Field(TypeInternalTransferTo, tx, "token_id")>>,
                         amount |-> Field(TypeInternalTransferTo, tx, "amount")]])))
    /\ OfCustodianAlone

ExecuteUpdateOperators ==
    /\ Called("update_internal_operators")
    /\ UpdateInternalOperators(running.source,
            Sent(LAMBDA v :
                [add |-> v.prim = "left",
                 operator |-> [f \in DOMAIN TypeOperatorData |->
                                  Field(TypeOperatorData, v.is, f)]]))
    /\ OfCustodianAlone

ExecuteRetire ==
    /\ Called("retire")
    /\ CallRetire(running.source,
            Sent(LAMBDA v :
                [token_address |-> Field(TypeInternalRetire, v, "token_address"),
                 txs |-> [i \in DOMAIN Txs(TypeInternalRetire, v) |->
                    LET tx == Txs(TypeInternalRetire, v)[i]
                    IN  [from |-> Field(TypeInternalRetireData, tx, "retiring_party_kyc"),
                         token_id |-> Field(TypeInternalRetireData, tx, "token_id"),
                         amount |-> Field(TypeInternalRetireData, tx, "amount")]]]))

ExecuteMint ==
    /\ Called("mint")
    /\ Mint(running.target, running.source,
            Sent(LAMBDA v : [owner |-> Field(TypeMintData, v, "owner"),
                             token_id |-> Field(TypeMintData, v, "token_id"),
                             amount |-> Field(TypeMintData, v, "qty")]))
    /\ OfFA2Alone

ExecuteAddTokenId ==
    /\ Called("add_token_id")
    /\ AddTokenId(running.target, running.source,
            Sent(LAMBDA v : [token_id |-> Field(TypeTokenMetadata, v, "token_id"),
                             info |-> Field(TypeTokenMetadata, v, "token_info")]))
    /\ OfFA2Alone

(* The contract or the node refuses the operation, the key is not the one  *)
(* that Signatory has, or the node cannot be reached.                      *)
Fail ==
    /\ running # NoCommand
    /\ running' = NoCommand
    /\ UNCHANGED chainVars

CommandInit == ChainInit /\ running = NoCommand

CommandNext ==
    \/ Submit(InternalMints) \/ Submit(InternalTransfers)
    \/ Submit(OperatorUpdates) \/ Submit(Retires) \/ Submit(Posts)
    \/ Submit(Mints) \/ Submit(AddTokens)
    \/ ExecuteInternalMint \/ ExecuteInternalTransfer
    \/ ExecuteUpdateOperators \/ ExecuteRetire
    \/ ExecuteMint \/ ExecuteAddTokenId
    \/ Fail
    \/ (ApplyOperation \/ RejectOperation) /\ UNCHANGED running

CommandSpec == CommandInit /\ [][CommandNext]_commandVars

-----------------------------------------------------------------------------
CommandTypeOK ==
    /\ ChainTypeOK
    /\ running # NoCommand =>
          /\ running.source \in Wallets
          /\ running.target \in Having(running.parameters.entrypoint)

(***************************************************************************)
(* What a command sends is of the type of the entrypoint it calls, if it   *)
(* was given no negative number and the operator it names is a wallet: no  *)
(* node refuses it for its shape.                                          *)
(***************************************************************************)
Sensible(asked) ==
    /\ "amount" \in DOMAIN asked => asked.amount >= 0
    /\ "operator" \in DOMAIN asked => asked.operator # {}

ParametersFit ==
    running # NoCommand /\ Sensible(running.asked)
        => FitsEntrypoint(running.parameters)

(***************************************************************************)
(* What a command does on the chain is what its words say, or nothing: the *)
(* credits of the party, token and amount it names, the grant, the token   *)
(* id, and nothing else besides.  Here a token id, an amount and a text    *)
(* have come through two programs that agree on no names.                  *)
(***************************************************************************)
World == [fa2 |-> fa2Ledger, defined |-> tokenMetadata, parties |-> ledger,
          external |-> externalLedger, grants |-> operators]

Plus(book, k, n) == [book EXCEPT ![k] = @ + n]

(* The command, if it does something to the token id c has. *)
DoneTo(asked, c) ==
    LET t == <<c, asked.id>>
        new == CustodianView[t] - externalLedger[t]
    IN  CASE asked.command = "internal_mint" ->
                {[World EXCEPT !.parties = Plus(ledger, <<Self, t>>, new),
                               !.external = Plus(externalLedger, t, new)]}
          [] asked.command = "internal_transfer" ->
                {[World EXCEPT !.parties =
                    Plus(Plus(ledger, <<Pack(asked.from), t>>, -asked.amount),
                         <<Pack(asked.to), t>>, asked.amount)]}
          [] asked.command = "retire" ->
                {[World EXCEPT
                    !.parties = Plus(ledger, <<Pack(asked.from), t>>, -asked.amount),
                    !.external = Plus(externalLedger, t, -asked.amount)]}
          [] asked.command = "mint" ->
                {[World EXCEPT !.fa2 = [fa2Ledger EXCEPT ![c] =
                    Plus(fa2Ledger[c], <<o, asked.id>>, asked.amount)]] :
                        o \in asked.owner}
          [] asked.command = "add_token" ->
                {[World EXCEPT !.defined = [tokenMetadata EXCEPT ![c] =
                    [tokenMetadata[c] EXCEPT ![asked.id] = asked.info]]]}

Granted(asked) ==
    LET grants == {[token_owner |-> Pack(asked.owner), token_operator |-> o,
                    token_id |-> asked.id] : o \in asked.operator}
    IN  IF asked.command = "add_operator"
        THEN {[World EXCEPT !.grants = operators \cup {g}] : g \in grants}
        ELSE {[World EXCEPT !.grants = operators \ {g}] : g \in grants}

Done(asked) ==
    IF "operator" \in DOMAIN asked THEN Granted(asked)
    ELSE UNION {DoneTo(asked, c) : c \in asked.fa2 \cap FA2s}

RetiresAsNamed(asked) ==
    /\ asked.command = "retire"
    /\ \E c \in asked.fa2 \cap FA2s :
          \A t \in Token : RetiredBy(outbox', t) =
              IF t = <<c, asked.id>> THEN asked.amount ELSE 0

EffectAsNamed ==
    [][running # NoCommand /\ running' = NoCommand =>
          /\ World' = World \/ World' \in Done(running.asked)
          /\ outbox' # outbox => RetiresAsNamed(running.asked)]_commandVars

(***************************************************************************)
(* The program's commands are calls of the contracts with lists of one:    *)
(* what holds of the contracts when internal_mint is called so holds of    *)
(* them under the program (the parties' credits are backed).               *)
(***************************************************************************)
CommandsAreCalls ==
    ChainInit /\ [][UNCHANGED chainVars \/ ChainNext]_commandVars

-----------------------------------------------------------------------------
(* What the repository says of the commands, and the code does not do.     *)

(* The token_address that is sent is the FA2_CONTRACT that was named       *)
(* (usage: x4cli custodian internal_mint CONTRACT SIGNER FA2_CONTRACT      *)
(* TOKEN_ID).                                                              *)
TokenAddressSent(p) ==
    CASE p.entrypoint = "internal_mint" ->
            Field(TypeInternalMint, p.value.is[1], "token_address")
      [] p.entrypoint = "internal_transfer" ->
            Field(TypeInternalTransfer, p.value.is[1], "token_address")
      [] p.entrypoint = "retire" ->
            Field(TypeInternalRetire, p.value.is[1], "token_address")

SubmittedAsNamed ==
    (running # NoCommand /\ "fa2" \in DOMAIN running.asked
        /\ running.asked.fa2 \cap FA2s # {} /\ running.target = CustodianContract)
    => TokenAddressSent(running.parameters) \in running.asked.fa2
=============================================================================
