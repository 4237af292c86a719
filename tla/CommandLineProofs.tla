------------------------- MODULE CommandLineProofs -------------------------
(***************************************************************************)
(* The commands, for any lists of names, words typed, wallets, contracts,  *)
(* texts and amounts: what they send fits the entrypoint, and what they do *)
(* is what a caller of the contracts can do.                               *)
(***************************************************************************)
EXTENDS CommandLine, X4CChainProofs

-----------------------------------------------------------------------------
(* What a word is taken for. *)

(* A client's lists are of wallets and contracts, under names.             *)
ListsOf(client) ==
    /\ DOMAIN client.contracts \subseteq Names
    /\ \A n \in DOMAIN client.contracts : client.contracts[n] \in ContractAddresses
    /\ DOMAIN client.wallets \subseteq Names
    /\ \A n \in DOMAIN client.wallets : client.wallets[n].address \in Wallets

LEMMA ClientLists ==
    ASSUME NEW home \in Homes
    PROVE  ListsOf(LoadClient(home)) /\ ListsOf(NewClient(home))
<1>1. PICK listed \in SUBSET Names : home.contracts \in [listed -> ContractAddresses]
  BY CommandLineAssumption
<1>2. PICK named \in SUBSET Names : home.secret_keys \in [named -> Wallets]
  BY CommandLineAssumption
<1>3. PICK hashed \in SUBSET Names : home.public_key_hashs \in [hashed -> Wallets]
  BY CommandLineAssumption
<1>4. ListsOf(LoadClient(home))
  BY <1>1, <1>2, <1>3 DEF ListsOf, LoadClient
<1>5. DOMAIN <<>> = {}
  OBVIOUS
<1>. QED BY <1>4, <1>5 DEF ListsOf, NewClient

LEMMA ClientsLists == \A client \in Clients : ListsOf(client)
BY ClientLists DEF Clients

(* Wallets, contracts and names are told apart. *)
LEMMA Apart ==
    /\ NoAddress \notin Wallets /\ NoAddress \notin ContractAddresses
    /\ ContractAddresses \cap Wallets = {} /\ CustodianContract \notin FA2s
    /\ Names \cap Wallets = {} /\ Names \cap ContractAddresses = {}
    /\ Names \cap Address = {} /\ NoAddress \notin Address
BY CommandLineAssumption, TezosAssumption DEF Address, ContractAddresses

LEMMA WalletMeant ==
    ASSUME NEW client, ListsOf(client), NEW word \in Words
    PROVE  LET address == WalletArgument(client, word).address IN
           /\ address \in Wallets \cup {NoAddress}
           /\ address \in Wallets <=> Meanings(client, word, Wallets) # {}
           /\ address \in Wallets => address \in Meanings(client, word, Wallets)
BY CommandLineAssumption, Apart DEF WalletArgument, Meanings, ListsOf

LEMMA MeantOfKind ==
    ASSUME NEW client, NEW word, NEW kind, NEW a \in Meanings(client, word, kind),
           NEW other, a \in other
    PROVE  a \in Meanings(client, word, other)
BY DEF Meanings

LEMMA ContractMeant ==
    ASSUME NEW client, ListsOf(client), NEW word \in Words
    PROVE  /\ ContractByName(client, word) \in ContractAddresses \cup {NoAddress}
           /\ ContractByName(client, word) # NoAddress
                 => ContractByName(client, word)
                        \in Meanings(client, word, ContractAddresses)
           /\ NewContractWithAddress(word) \in ContractAddresses \cup {NoAddress}
           /\ NewContractWithAddress(word) # NoAddress
                 => /\ NewContractWithAddress(word) = word /\ word \in ContractAddresses
                    /\ word \in Meanings(client, word, ContractAddresses)
BY CommandLineAssumption, Apart
   DEF ContractByName, NewContractWithAddress, Meanings, ListsOf

LEMMA ArgumentMeant ==
    ASSUME NEW client, ListsOf(client), NEW word \in Words,
           NEW kind, ContractArgument(client, word) \in kind \ {NoAddress}
    PROVE  /\ ContractArgument(client, word) \in ContractAddresses
           /\ ContractArgument(client, word) \in Meanings(client, word, kind)
<1>1. /\ ContractArgument(client, word) \in ContractAddresses
      /\ ContractArgument(client, word) \in Meanings(client, word, ContractAddresses)
  BY ContractMeant DEF ContractArgument, ContractOr
<1>. QED BY <1>1, MeantOfKind

-----------------------------------------------------------------------------
(* What is sent.  Each of these says which parameters a command was sent    *)
(* with and what it had been asked: the contract is one of those its words *)
(* stand for, or it is no FA2 contract.                                    *)

Signed(sent) ==
    sent.source \in Wallets /\ sent.target \in Having(sent.parameters.entrypoint)

SentInternalMint(sent) ==
    \E a \in ContractAddresses, id \in TokenIds, named \in SUBSET ContractAddresses :
        /\ sent.parameters = CustodianInternalMint(a, id)
        /\ sent.asked = [command |-> "internal_mint", fa2 |-> named, id |-> id]
        /\ a \in FA2s => a \in named

SentInternalTransfer(sent) ==
    \E a \in ContractAddresses, id \in TokenIds, named \in SUBSET ContractAddresses,
       n \in Numbers, from, to \in Texts :
        /\ sent.parameters = CustodianInternalTransfer(a, id, n, from, to)
        /\ sent.asked = [command |-> "internal_transfer", fa2 |-> named, id |-> id,
                         amount |-> n, from |-> from, to |-> to]
        /\ a \in FA2s => a \in named

SentUpdateOperators(sent) ==
    \E add \in BOOLEAN, owner \in Texts, operator \in Wallets \cup {NoAddress},
       id \in TokenIds, named \in SUBSET Wallets :
        /\ sent.parameters = CustodianUpdateOperators(add, owner, operator, id)
        /\ sent.asked = [command |-> IF add THEN "add_operator" ELSE "remove_operator",
                         operator |-> named, id |-> id, owner |-> owner]
        /\ operator \in Wallets <=> operator \in named
        /\ named # {} => operator \in named

SentRetire(sent) ==
    \E a \in ContractAddresses, id \in TokenIds, named \in SUBSET ContractAddresses,
       kyc \in Texts, n \in Numbers, reason \in Reasons :
        /\ sent.parameters = CustodianRetire(a, id, kyc, n, reason)
        /\ sent.asked = [command |-> "retire", fa2 |-> named, id |-> id,
                         amount |-> n, from |-> kyc]
        /\ a \in named

SentMint(sent) ==
    \E id \in TokenIds, o \in Address, n \in Numbers, named \in SUBSET FA2s,
       owners \in SUBSET Address :
        /\ sent.parameters = FA2Mint(id, o, n)
        /\ sent.asked = [command |-> "mint", fa2 |-> named, id |-> id, amount |-> n,
                         owner |-> owners]
        /\ sent.target \in named /\ o \in owners

SentAddToken(sent) ==
    \E id \in TokenIds, info \in TokenInfos, named \in SUBSET FA2s :
        /\ sent.parameters = FA2AddToken(id, info)
        /\ sent.asked = [command |-> "add_token", fa2 |-> named, id |-> id, info |-> info]
        /\ sent.target \in named

LEMMA CallSent ==
    ASSUME NEW client, ListsOf(client), NEW word \in Words, NEW target,
           NEW parameters, NEW asked,
           NEW sent \in CallContract(client, WalletArgument(client, word), target,
                                     parameters, asked)
    PROVE  /\ sent.source \in Wallets /\ sent.target = target
           /\ target \in Having(parameters.entrypoint)
           /\ sent.parameters = parameters /\ sent.asked = asked
<1>1. WalletArgument(client, word).address \in Wallets \cup {NoAddress}
  BY WalletMeant
<1>. QED BY <1>1 DEF CallContract

(* The token_address of internal_mint and internal_transfer may come from  *)
(* the word for the custodian: it is then no FA2 contract.                 *)
LEMMA FallbackIsCustodian ==
    ASSUME NEW client, ListsOf(client), NEW contract \in Words,
           ContractArgument(client, contract) = CustodianContract
    PROVE  NewContractWithAddress(contract) \in {CustodianContract, NoAddress}
BY ContractMeant, Apart, CommandLineAssumption
   DEF ContractArgument, ContractOr, ContractByName, NewContractWithAddress, ListsOf

LEMMA InternalMintsSent == \A sent \in InternalMints : Signed(sent) /\ SentInternalMint(sent)
<1>. SUFFICES ASSUME NEW client \in Clients, NEW contract \in Words, NEW signer \in Words,
                     NEW fa2 \in Words, NEW id \in TokenIds,
                     NEW sent \in RunInternalMint(client, contract, signer, fa2, id)
              PROVE  Signed(sent) /\ SentInternalMint(sent)
  BY DEF InternalMints
<1>. DEFINE a == ContractOr(client, fa2, contract)
            named == Meanings(client, fa2, ContractAddresses)
            target == ContractArgument(client, contract)
            parameters == CustodianInternalMint(a, id)
            asked == [command |-> "internal_mint", fa2 |-> named, id |-> id]
<1>1. ListsOf(client) /\ parameters.entrypoint = "internal_mint"
  BY ClientsLists DEF CustodianInternalMint
<1>2. /\ a # NoAddress
      /\ sent \in CallContract(client, WalletArgument(client, signer), target,
                               parameters, asked)
  BY DEF RunInternalMint
<1>3. named \in SUBSET ContractAddresses
  BY DEF Meanings
<1>4. target = CustodianContract => a \in ContractAddresses /\ (a \in FA2s => a \in named)
  BY <1>1, <1>2, ContractMeant, FallbackIsCustodian, Apart DEF ContractOr
<1>. HIDE DEF a, target, parameters, asked, named
<1>5. /\ sent.source \in Wallets /\ sent.target = target
      /\ target \in Having("internal_mint")
      /\ sent.parameters = parameters /\ sent.asked = asked
  BY <1>1, <1>2, CallSent
<1>6. target = CustodianContract
  BY <1>5 DEF Having
<1>7. Signed(sent)
  BY <1>1, <1>5 DEF Signed
<1>. QED BY <1>3, <1>4, <1>5, <1>6, <1>7 DEF SentInternalMint, parameters, asked

LEMMA InternalTransfersSent ==
    \A sent \in InternalTransfers : Signed(sent) /\ SentInternalTransfer(sent)
<1>. SUFFICES ASSUME NEW client \in Clients, NEW contract \in Words, NEW signer \in Words,
                     NEW fa2 \in Words, NEW id \in TokenIds, NEW n \in Numbers,
                     NEW from \in Texts, NEW to \in Texts,
                     NEW sent \in RunInternalTransfer(client, contract, signer, fa2, id,
                                                      n, from, to)
              PROVE  Signed(sent) /\ SentInternalTransfer(sent)
  BY DEF InternalTransfers
<1>. DEFINE a == IF fa2 \in DOMAIN client.contracts THEN client.contracts[fa2]
                 ELSE NewContractWithAddress(contract)
            named == Meanings(client, fa2, ContractAddresses)
            target == ContractArgument(client, contract)
            parameters == CustodianInternalTransfer(a, id, n, from, to)
            asked == [command |-> "internal_transfer", fa2 |-> named, id |-> id,
                      amount |-> n, from |-> from, to |-> to]
<1>1. ListsOf(client) /\ parameters.entrypoint = "internal_transfer"
  BY ClientsLists DEF CustodianInternalTransfer
<1>2. /\ a # NoAddress
      /\ sent \in CallContract(client, WalletArgument(client, signer), target,
                               parameters, asked)
  BY DEF RunInternalTransfer
<1>3. named \in SUBSET ContractAddresses
  BY DEF Meanings
<1>4. ASSUME target = CustodianContract
      PROVE  a \in ContractAddresses /\ (a \in FA2s => a \in named)
  <2>1. CASE fa2 \in DOMAIN client.contracts
    BY <1>1, <2>1, ContractMeant, Apart DEF ContractByName, ListsOf
  <2>2. CASE fa2 \notin DOMAIN client.contracts
    BY <1>1, <1>2, <1>4, <2>2, ContractMeant, FallbackIsCustodian, Apart
  <2>. QED BY <2>1, <2>2
<1>. HIDE DEF a, target, parameters, asked, named
<1>5. /\ sent.source \in Wallets /\ sent.target = target
      /\ target \in Having("internal_transfer")
      /\ sent.parameters = parameters /\ sent.asked = asked
  BY <1>1, <1>2, CallSent
<1>6. target = CustodianContract
  BY <1>5 DEF Having
<1>7. Signed(sent)
  BY <1>1, <1>5 DEF Signed
<1>. QED BY <1>3, <1>4, <1>5, <1>6, <1>7 DEF SentInternalTransfer, parameters, asked

LEMMA OperatorUpdatesSent ==
    \A sent \in OperatorUpdates : Signed(sent) /\ SentUpdateOperators(sent)
<1>. SUFFICES ASSUME NEW client \in Clients, NEW contract \in Words, NEW signer \in Words,
                     NEW add \in BOOLEAN, NEW word \in Words, NEW id \in TokenIds,
                     NEW owner \in Texts,
                     NEW sent \in RunUpdateOperators(client, contract, signer, add, word,
                                                     id, owner)
              PROVE  Signed(sent) /\ SentUpdateOperators(sent)
  BY DEF OperatorUpdates
<1>. DEFINE operator == WalletArgument(client, word).address
            named == Meanings(client, word, Wallets)
            target == ContractArgument(client, contract)
            parameters == CustodianUpdateOperators(add, owner, operator, id)
            asked == [command |-> IF add THEN "add_operator" ELSE "remove_operator",
                      operator |-> named, id |-> id, owner |-> owner]
<1>1. ListsOf(client) /\ parameters.entrypoint = "update_internal_operators"
  BY ClientsLists DEF CustodianUpdateOperators
<1>2. sent \in CallContract(client, WalletArgument(client, signer), target,
                            parameters, asked)
  BY DEF RunUpdateOperators
<1>3. /\ named \in SUBSET Wallets /\ operator \in Wallets \cup {NoAddress}
      /\ operator \in Wallets <=> operator \in named
      /\ named # {} => operator \in named
  BY <1>1, WalletMeant DEF Meanings
<1>. HIDE DEF operator, target, parameters, asked, named
<1>4. /\ sent.source \in Wallets /\ sent.target = target
      /\ target \in Having("update_internal_operators")
      /\ sent.parameters = parameters /\ sent.asked = asked
  BY <1>1, <1>2, CallSent
<1>5. Signed(sent)
  BY <1>1, <1>4 DEF Signed
<1>. QED BY <1>3, <1>4, <1>5 DEF SentUpdateOperators, parameters, asked

LEMMA RetireSent ==
    ASSUME NEW client, ListsOf(client), NEW contract \in Words, NEW signer \in Words,
           NEW fa2 \in Words, NEW id \in TokenIds, NEW kyc \in Texts, NEW n \in Numbers,
           NEW reason \in Reasons,
           NEW sent \in SendRetire(client, contract, WalletArgument(client, signer), fa2,
                                   id, kyc, n, reason)
    PROVE  Signed(sent) /\ SentRetire(sent)
<1>. DEFINE a == ContractArgument(client, fa2)
            named == Meanings(client, fa2, ContractAddresses)
            target == ContractArgument(client, contract)
            parameters == CustodianRetire(a, id, kyc, n, reason)
            asked == [command |-> "retire", fa2 |-> named, id |-> id,
                      amount |-> n, from |-> kyc]
<1>1. parameters.entrypoint = "retire"
  BY DEF CustodianRetire
<1>2. /\ a # NoAddress
      /\ sent \in CallContract(client, WalletArgument(client, signer), target,
                               parameters, asked)
  BY DEF SendRetire
<1>3. named \in SUBSET ContractAddresses
  BY DEF Meanings
<1>4. a \in named
  BY <1>2, ContractMeant DEF ContractArgument, ContractOr
<1>. HIDE DEF a, target, parameters, asked, named
<1>5. /\ sent.source \in Wallets /\ sent.target = target
      /\ target \in Having("retire")
      /\ sent.parameters = parameters /\ sent.asked = asked
  BY <1>1, <1>2, CallSent
<1>6. Signed(sent)
  BY <1>1, <1>5 DEF Signed
<1>. QED BY <1>3, <1>4, <1>5, <1>6 DEF SentRetire, parameters, asked

LEMMA RetiresSent == \A sent \in Retires \cup Posts : Signed(sent) /\ SentRetire(sent)
<1>1. ASSUME NEW sent \in Retires PROVE Signed(sent) /\ SentRetire(sent)
  <2>1. PICK client \in Clients, contract \in Words, signer \in Words, fa2 \in Words,
             id \in TokenIds, kyc \in Texts, n \in Numbers, reason \in Reasons :
                sent \in RunRetire(client, contract, signer, fa2, id, kyc, n, reason)
    BY <1>1 DEF Retires
  <2>. QED BY <2>1, ClientsLists, RetireSent DEF RunRetire
<1>2. ASSUME NEW sent \in Posts PROVE Signed(sent) /\ SentRetire(sent)
  <2>1. PICK home \in Homes, contract \in Words, fa2 \in Words, id \in TokenIds,
             kyc \in Texts, n \in Numbers, reason \in Reasons :
                sent \in PostRetire(NewClient(home), home.operator, contract, fa2, id,
                                    kyc, n, reason)
    BY <1>2 DEF Posts
  <2>2. home.operator \in Words /\ ListsOf(NewClient(home))
    BY CommandLineAssumption, ClientLists
  <2>3. sent \in SendRetire(NewClient(home), contract,
                            WalletArgument(NewClient(home), home.operator), fa2, id, kyc,
                            n, reason)
    BY <2>1 DEF PostRetire
  <2>. QED BY <2>2, <2>3, RetireSent
<1>. QED BY <1>1, <1>2

LEMMA MintsSent == \A sent \in Mints : Signed(sent) /\ SentMint(sent)
<1>. SUFFICES ASSUME NEW client \in Clients, NEW contract \in Words, NEW signer \in Words,
                     NEW id \in TokenIds, NEW owner \in Words, NEW n \in Numbers,
                     NEW sent \in RunMint(client, contract, signer, id, owner, n)
              PROVE  Signed(sent) /\ SentMint(sent)
  BY DEF Mints
<1>. DEFINE o == IF owner \in DOMAIN client.wallets THEN client.wallets[owner].address
                 ELSE IF ContractByName(client, owner) # NoAddress
                 THEN ContractByName(client, owner)
                 ELSE IF owner \in Names THEN NoAddress ELSE owner
            named == Meanings(client, contract, FA2s)
            owners == Meanings(client, owner, Address)
            target == ContractArgument(client, contract)
            parameters == FA2Mint(id, o, n)
            asked == [command |-> "mint", fa2 |-> named, id |-> id, amount |-> n,
                      owner |-> owners]
<1>1. ListsOf(client) /\ parameters.entrypoint = "mint"
  BY ClientsLists DEF FA2Mint
<1>2. /\ o \in Address
      /\ sent \in CallContract(client, WalletArgument(client, signer), target,
                               parameters, asked)
  BY DEF RunMint
<1>3. named \in SUBSET FA2s /\ owners \in SUBSET Address
  BY DEF Meanings
<1>4. o \in owners
  BY <1>1, <1>2, Apart DEF Meanings, ContractByName, ListsOf
<1>5. target \in FA2s => target \in named
  BY <1>1, ArgumentMeant, CommandLineAssumption
<1>. HIDE DEF o, target, parameters, asked, named, owners
<1>6. /\ sent.source \in Wallets /\ sent.target = target
      /\ target \in Having("mint")
      /\ sent.parameters = parameters /\ sent.asked = asked
  BY <1>1, <1>2, CallSent
<1>7. Signed(sent) /\ target \in FA2s
  BY <1>1, <1>6 DEF Signed, Having
<1>. QED BY <1>2, <1>3, <1>4, <1>5, <1>6, <1>7 DEF SentMint, parameters, asked

LEMMA AddTokensSent == \A sent \in AddTokens : Signed(sent) /\ SentAddToken(sent)
<1>. SUFFICES ASSUME NEW client \in Clients, NEW contract \in Words, NEW signer \in Words,
                     NEW id \in TokenIds, NEW info \in TokenInfos,
                     NEW sent \in RunAddToken(client, contract, signer, id, info)
              PROVE  Signed(sent) /\ SentAddToken(sent)
  BY DEF AddTokens
<1>. DEFINE named == Meanings(client, contract, FA2s)
            target == ContractArgument(client, contract)
            parameters == FA2AddToken(id, info)
            asked == [command |-> "add_token", fa2 |-> named, id |-> id, info |-> info]
<1>1. ListsOf(client) /\ parameters.entrypoint = "add_token_id"
  BY ClientsLists DEF FA2AddToken
<1>2. sent \in CallContract(client, WalletArgument(client, signer), target,
                            parameters, asked)
  BY DEF RunAddToken
<1>3. named \in SUBSET FA2s
  BY DEF Meanings
<1>4. target \in FA2s => target \in named
  BY <1>1, ArgumentMeant, CommandLineAssumption
<1>. HIDE DEF target, parameters, asked, named
<1>5. /\ sent.source \in Wallets /\ sent.target = target
      /\ target \in Having("add_token_id")
      /\ sent.parameters = parameters /\ sent.asked = asked
  BY <1>1, <1>2, CallSent
<1>6. Signed(sent) /\ target \in FA2s
  BY <1>1, <1>5 DEF Signed, Having
<1>. QED BY <1>3, <1>4, <1>5, <1>6 DEF SentAddToken, parameters, asked

-----------------------------------------------------------------------------
(* Where the fields are: no path is longer than two steps. *)

Below(tree, i) == IF tree.prim = "pair" THEN tree.is[i] ELSE Nowhere

(* The trees that At passes on its way down. *)
Walk(tree, path) ==
    CHOOSE iter : iter = [s \in SUBSET DOMAIN path |->
        IF s = {} THEN tree ELSE Below(iter[s \ {Max(s)}], path[Max(s)])]

LEMMA AtIsWalk == ASSUME NEW tree, NEW path PROVE At(tree, path) = Walk(tree, path)[DOMAIN path]
BY DEF At, Walk, Below, FoldLeft, MapThenFoldSet

LEMMA Tops == Max({1}) = 1 /\ Max({2}) = 2 /\ Max({1, 2}) = 2
<1>1. Max({1}) = 1
  BY DEF Max
<1>2. Max({2}) = 2
  BY DEF Max
<1>3. Max({1, 2}) = 2
  BY DEF Max
<1>. QED BY <1>1, <1>2, <1>3

LEMMA AtOne == ASSUME NEW tree, NEW i PROVE At(tree, <<i>>) = Below(tree, i)
<1>. DEFINE f == [s \in SUBSET {1} |-> IF s = {} THEN tree ELSE Below(tree, i)]
            w == Walk(tree, <<i>>)
<1>. DEFINE path == <<i>>
<1>1. DOMAIN path = {1} /\ path[1] = i
  OBVIOUS
<1>. HIDE DEF path
<1>2. {1} \ {1} = {} /\ \A s \in SUBSET {1} : s = {} \/ s = {1}
  OBVIOUS
<1>3. ASSUME NEW s \in SUBSET {1}
      PROVE  f[s] = IF s = {} THEN tree ELSE Below(f[s \ {Max(s)}], path[Max(s)])
  BY <1>1, <1>2, Tops
<1>4. f = [s \in SUBSET DOMAIN path |->
              IF s = {} THEN tree ELSE Below(f[s \ {Max(s)}], path[Max(s)])]
  BY <1>1, <1>3
<1>5. w = [s \in SUBSET DOMAIN path |->
              IF s = {} THEN tree ELSE Below(w[s \ {Max(s)}], path[Max(s)])]
  BY <1>4 DEF Walk, path
<1>. HIDE DEF w
<1>6. w[{}] = tree
  BY <1>1, <1>5
<1>7. w[{1}] = Below(w[{}], i)
  BY <1>1, <1>2, <1>5, Tops
<1>. QED BY <1>1, <1>6, <1>7, AtIsWalk DEF w, path

LEMMA AtTwo ==
    ASSUME NEW tree, NEW i, NEW j
    PROVE  At(tree, <<i, j>>) = Below(Below(tree, i), j)
<1>. DEFINE f == [s \in SUBSET {1, 2} |->
                    IF s = {} THEN tree ELSE IF s = {1} THEN Below(tree, i)
                    ELSE IF s = {2} THEN Below(tree, j) ELSE Below(Below(tree, i), j)]
            w == Walk(tree, <<i, j>>)
            path == <<i, j>>
<1>1. DOMAIN path = {1, 2} /\ path[1] = i /\ path[2] = j
  OBVIOUS
<1>. HIDE DEF path
<1>0. /\ {1} \ {1} = {} /\ {2} \ {2} = {} /\ {1, 2} \ {2} = {1}
      /\ \A s \in SUBSET {1, 2} : s = {} \/ s = {1} \/ s = {2} \/ s = {1, 2}
  <2>1. {1} \ {1} = {}
    OBVIOUS
  <2>2. {2} \ {2} = {}
    OBVIOUS
  <2>3. {1, 2} \ {2} = {1}
    OBVIOUS
  <2>4. \A s \in SUBSET {1, 2} : s = {} \/ s = {1} \/ s = {2} \/ s = {1, 2}
    OBVIOUS
  <2>. QED BY <2>1, <2>2, <2>3, <2>4
<1>2. ASSUME NEW s \in SUBSET {1, 2}
      PROVE  f[s] = IF s = {} THEN tree ELSE Below(f[s \ {Max(s)}], path[Max(s)])
  BY <1>0, <1>1, Tops
<1>3. f = [s \in SUBSET DOMAIN path |->
              IF s = {} THEN tree ELSE Below(f[s \ {Max(s)}], path[Max(s)])]
  BY <1>1, <1>2
<1>4. w = [s \in SUBSET DOMAIN path |->
              IF s = {} THEN tree ELSE Below(w[s \ {Max(s)}], path[Max(s)])]
  BY <1>3 DEF Walk, path
<1>. HIDE DEF w
<1>5. w[{}] = tree
  BY <1>1, <1>4
<1>6. w[{1}] = Below(w[{}], i)
  BY <1>0, <1>1, <1>4, Tops
<1>7. w[{1, 2}] = Below(w[{1}], j)
  BY <1>0, <1>1, <1>4, Tops
<1>. QED BY <1>1, <1>5, <1>6, <1>7, AtIsWalk DEF w, path

LEMMA InPair ==
    ASSUME NEW a, NEW b
    PROVE  Below(NewPair(a, b), 1) = a /\ Below(NewPair(a, b), 2) = b
BY DEF Below, NewPair

LEMMA CombPaths ==
    /\ Append(Repeated(0), 1) = <<1>> /\ Repeated(1) = <<2>>
    /\ Append(Repeated(1), 1) = <<2, 1>> /\ Repeated(2) = <<2, 2>>
<1>1. Repeated(0) = <<>>
  BY DEF Repeated
<1>2. \A p \in Seq(Nat) : Len(p) = 1 /\ p[1] = 2 => p = <<2>>
  OBVIOUS
<1>3. \A p \in Seq(Nat) : Len(p) = 2 /\ p[1] = 2 /\ p[2] = 2 => p = <<2, 2>>
  OBVIOUS
<1>4. \A n \in Nat : Repeated(n) \in Seq(Nat) /\ Len(Repeated(n)) = n
                     /\ \A i \in 1..n : Repeated(n)[i] = 2
  BY DEF Repeated
<1>5. Repeated(1) = <<2>>
  <2>1. Repeated(1) \in Seq(Nat) /\ Len(Repeated(1)) = 1
    BY <1>4
  <2>2. Repeated(1)[1] = 2
    BY DEF Repeated
  <2>. QED BY <1>2, <2>1, <2>2
<1>6. Repeated(2) = <<2, 2>>
  <2>1. Repeated(2) \in Seq(Nat) /\ Len(Repeated(2)) = 2
    BY <1>4
  <2>2. Repeated(2)[1] = 2 /\ Repeated(2)[2] = 2
    BY <1>4
  <2>. QED BY <1>3, <2>1, <2>2
<1>7. Append(<<>>, 1) = <<1>>
  OBVIOUS
<1>8. Append(<<2>>, 1) = <<2, 1>>
  <2>1. \A p \in Seq(Nat) : Len(p) = 2 /\ p[1] = 2 /\ p[2] = 1 => p = <<2, 1>>
    OBVIOUS
  <2>2. <<2>> \in Seq(Nat) /\ Len(<<2>>) = 1 /\ <<2>>[1] = 2
    OBVIOUS
  <2>. DEFINE p == Append(<<2>>, 1)
  <2>3. p \in Seq(Nat) /\ Len(p) = 2 /\ p[1] = 2 /\ p[2] = 1
    BY <2>2, AppendProperties
  <2>. HIDE DEF p
  <2>4. p = <<2, 1>>
    BY <2>1, <2>3
  <2>. QED BY <2>4 DEF p
<1>. QED BY <1>1, <1>5, <1>6, <1>7, <1>8

LEMMA OfTwo ==
    ASSUME NEW a, NEW b, a # b
    PROVE  /\ Balanced(<<a, b>>) = [f \in {a, b} |-> IF f = a THEN <<1>> ELSE <<2>>]
           /\ Comb(<<a, b>>) = [f \in {a, b} |-> IF f = a THEN <<1>> ELSE <<2>>]
<1>. DEFINE l == <<a, b>>
            index(f) == CHOOSE k \in DOMAIN l : l[k] = f
<1>1. DOMAIN l = {1, 2} /\ Len(l) = 2 /\ l[1] = a /\ l[2] = b
  OBVIOUS
<1>. HIDE DEF l
<1>2. index(a) = 1 /\ index(b) = 2 /\ ToSet(l) = {a, b}
  BY <1>1 DEF ToSet
<1>. HIDE DEF index
<1>3. Balanced(l) = [f \in {a, b} |-> <<<<1>>, <<2>>>>[index(f)]]
  BY <1>1, <1>2 DEF Balanced, index
<1>4. Comb(l) = [f \in {a, b} |-> IF index(f) = 2 THEN Repeated(index(f) - 1)
                                  ELSE Append(Repeated(index(f) - 1), 1)]
  BY <1>1, <1>2 DEF Comb, index
<1>5. Balanced(l) = [f \in {a, b} |-> IF f = a THEN <<1>> ELSE <<2>>]
  BY <1>2, <1>3
<1>6. Comb(l) = [f \in {a, b} |-> IF f = a THEN <<1>> ELSE <<2>>]
  BY <1>2, <1>4, CombPaths
<1>. QED BY <1>5, <1>6 DEF l

LEMMA BalancedOfThree ==
    ASSUME NEW a, NEW b, NEW c, a # b, a # c, b # c
    PROVE  Balanced(<<a, b, c>>) = [f \in {a, b, c} |->
              IF f = a THEN <<1, 1>> ELSE IF f = b THEN <<1, 2>> ELSE <<2>>]
<1>. DEFINE l == <<a, b, c>>
            index(f) == CHOOSE k \in DOMAIN l : l[k] = f
<1>1. DOMAIN l = {1, 2, 3} /\ Len(l) = 3 /\ l[1] = a /\ l[2] = b /\ l[3] = c
  OBVIOUS
<1>. HIDE DEF l
<1>2. index(a) = 1 /\ index(b) = 2 /\ index(c) = 3 /\ ToSet(l) = {a, b, c}
  BY <1>1 DEF ToSet
<1>. HIDE DEF index
<1>3. Balanced(l) = [f \in {a, b, c} |-> <<<<1, 1>>, <<1, 2>>, <<2>>>>[index(f)]]
  BY <1>1, <1>2 DEF Balanced, index
<1>4. Balanced(l) = [f \in {a, b, c} |->
         IF f = a THEN <<1, 1>> ELSE IF f = b THEN <<1, 2>> ELSE <<2>>]
  BY <1>2, <1>3
<1>. QED BY <1>4 DEF l

LEMMA CombOfThree ==
    ASSUME NEW a, NEW b, NEW c, a # b, a # c, b # c
    PROVE  Comb(<<a, b, c>>) = [f \in {a, b, c} |->
              IF f = a THEN <<1>> ELSE IF f = b THEN <<2, 1>> ELSE <<2, 2>>]
<1>. DEFINE l == <<a, b, c>>
            index(f) == CHOOSE k \in DOMAIN l : l[k] = f
<1>1. DOMAIN l = {1, 2, 3} /\ Len(l) = 3 /\ l[1] = a /\ l[2] = b /\ l[3] = c
  OBVIOUS
<1>. HIDE DEF l
<1>2. index(a) = 1 /\ index(b) = 2 /\ index(c) = 3 /\ ToSet(l) = {a, b, c}
  BY <1>1 DEF ToSet
<1>. HIDE DEF index
<1>3. Comb(l) = [f \in {a, b, c} |-> IF index(f) = 3 THEN Repeated(index(f) - 1)
                                     ELSE Append(Repeated(index(f) - 1), 1)]
  BY <1>1, <1>2 DEF Comb, index
<1>4. Comb(l) = [f \in {a, b, c} |->
         IF f = a THEN <<1>> ELSE IF f = b THEN <<2, 1>> ELSE <<2, 2>>]
  BY <1>2, <1>3, CombPaths
<1>. QED BY <1>4 DEF l

LEMMA OfFour ==
    ASSUME NEW a, NEW b, NEW c, NEW d, a # b, a # c, a # d, b # c, b # d, c # d
    PROVE  Balanced(<<a, b, c, d>>) = [f \in {a, b, c, d} |->
              IF f = a THEN <<1, 1>> ELSE IF f = b THEN <<1, 2>>
              ELSE IF f = c THEN <<2, 1>> ELSE <<2, 2>>]
<1>. DEFINE l == <<a, b, c, d>>
            index(f) == CHOOSE k \in DOMAIN l : l[k] = f
<1>1. /\ DOMAIN l = {1, 2, 3, 4} /\ Len(l) = 4
      /\ l[1] = a /\ l[2] = b /\ l[3] = c /\ l[4] = d
  OBVIOUS
<1>. HIDE DEF l
<1>2. /\ index(a) = 1 /\ index(b) = 2 /\ index(c) = 3 /\ index(d) = 4
      /\ ToSet(l) = {a, b, c, d}
  BY <1>1 DEF ToSet
<1>. HIDE DEF index
<1>3. Balanced(l) = [f \in {a, b, c, d} |->
                        <<<<1, 1>>, <<1, 2>>, <<2, 1>>, <<2, 2>>>>[index(f)]]
  BY <1>1, <1>2 DEF Balanced, index
<1>4. Balanced(l) = [f \in {a, b, c, d} |->
         IF f = a THEN <<1, 1>> ELSE IF f = b THEN <<1, 2>>
         ELSE IF f = c THEN <<2, 1>> ELSE <<2, 2>>]
  BY <1>2, <1>3
<1>. QED BY <1>4 DEF l

(* Where the contracts look for what the program has written. *)
LEMMA InternalMintIs ==
    ASSUME NEW a, NEW id
    PROVE  LET v == NewPair(NewString(a), NewNat(id)) IN
           /\ DOMAIN TypeInternalMint = {"token_address", "token_id"}
           /\ At(v, TypeInternalMint["token_address"]) = NewString(a)
           /\ At(v, TypeInternalMint["token_id"]) = NewNat(id)
<1>. DEFINE v == NewPair(NewString(a), NewNat(id))
<1>1. TypeInternalMint = [f \in {"token_address", "token_id"} |->
                             IF f = "token_address" THEN <<1>> ELSE <<2>>]
  BY OfTwo DEF TypeInternalMint
<1>2. /\ DOMAIN TypeInternalMint = {"token_address", "token_id"}
      /\ TypeInternalMint["token_address"] = <<1>> /\ TypeInternalMint["token_id"] = <<2>>
  BY <1>1
<1>3. At(v, <<1>>) = NewString(a) /\ At(v, <<2>>) = NewNat(id)
  BY AtOne, InPair
<1>. QED BY <1>2, <1>3

LEMMA InternalTransferIs ==
    ASSUME NEW from, NEW a, NEW txs
    PROVE  LET v == NewPair(NewBytes(from), NewPair(NewString(a), txs)) IN
           /\ DOMAIN TypeInternalTransfer = {"from_", "token_address", "txs"}
           /\ At(v, TypeInternalTransfer["from_"]) = NewBytes(from)
           /\ At(v, TypeInternalTransfer["token_address"]) = NewString(a)
           /\ At(v, TypeInternalTransfer["txs"]) = txs
<1>. DEFINE v == NewPair(NewBytes(from), NewPair(NewString(a), txs))
<1>1. TypeInternalTransfer = [f \in {"from_", "token_address", "txs"} |->
         IF f = "from_" THEN <<1>> ELSE IF f = "token_address" THEN <<2, 1>> ELSE <<2, 2>>]
  <2>1. "from_" # "token_address" /\ "from_" # "txs" /\ "token_address" # "txs"
    OBVIOUS
  <2>. QED BY <2>1, CombOfThree DEF TypeInternalTransfer
<1>2. /\ DOMAIN TypeInternalTransfer = {"from_", "token_address", "txs"}
      /\ TypeInternalTransfer["from_"] = <<1>>
      /\ TypeInternalTransfer["token_address"] = <<2, 1>>
      /\ TypeInternalTransfer["txs"] = <<2, 2>>
  BY <1>1
<1>3. /\ At(v, <<1>>) = NewBytes(from) /\ At(v, <<2, 1>>) = NewString(a)
      /\ At(v, <<2, 2>>) = txs
  BY AtOne, AtTwo, InPair
<1>. QED BY <1>2, <1>3

LEMMA InternalTransferToIs ==
    ASSUME NEW to, NEW id, NEW n
    PROVE  LET v == NewPair(NewBytes(to), NewPair(NewNat(id), NewNat(n))) IN
           /\ DOMAIN TypeInternalTransferTo = {"to_", "token_id", "amount"}
           /\ At(v, TypeInternalTransferTo["to_"]) = NewBytes(to)
           /\ At(v, TypeInternalTransferTo["token_id"]) = NewNat(id)
           /\ At(v, TypeInternalTransferTo["amount"]) = NewNat(n)
<1>. DEFINE v == NewPair(NewBytes(to), NewPair(NewNat(id), NewNat(n)))
<1>1. TypeInternalTransferTo = [f \in {"to_", "token_id", "amount"} |->
         IF f = "to_" THEN <<1>> ELSE IF f = "token_id" THEN <<2, 1>> ELSE <<2, 2>>]
  <2>1. "to_" # "token_id" /\ "to_" # "amount" /\ "token_id" # "amount"
    OBVIOUS
  <2>. QED BY <2>1, CombOfThree DEF TypeInternalTransferTo
<1>2. /\ DOMAIN TypeInternalTransferTo = {"to_", "token_id", "amount"}
      /\ TypeInternalTransferTo["to_"] = <<1>>
      /\ TypeInternalTransferTo["token_id"] = <<2, 1>>
      /\ TypeInternalTransferTo["amount"] = <<2, 2>>
  BY <1>1
<1>3. /\ At(v, <<1>>) = NewBytes(to) /\ At(v, <<2, 1>>) = NewNat(id)
      /\ At(v, <<2, 2>>) = NewNat(n)
  BY AtOne, AtTwo, InPair
<1>. QED BY <1>2, <1>3

LEMMA OperatorDataIs ==
    ASSUME NEW owner, NEW operator, NEW id
    PROVE  LET v == NewPair(NewBytes(owner), NewPair(NewString(operator), NewNat(id))) IN
           /\ DOMAIN TypeOperatorData = {"token_owner", "token_operator", "token_id"}
           /\ At(v, TypeOperatorData["token_owner"]) = NewBytes(owner)
           /\ At(v, TypeOperatorData["token_operator"]) = NewString(operator)
           /\ At(v, TypeOperatorData["token_id"]) = NewNat(id)
<1>. DEFINE v == NewPair(NewBytes(owner), NewPair(NewString(operator), NewNat(id)))
<1>1. TypeOperatorData = [f \in {"token_owner", "token_operator", "token_id"} |->
         IF f = "token_owner" THEN <<1>>
         ELSE IF f = "token_operator" THEN <<2, 1>> ELSE <<2, 2>>]
  <2>1. "token_owner" # "token_operator" /\ "token_owner" # "token_id" /\ "token_operator" # "token_id"
    OBVIOUS
  <2>. QED BY <2>1, CombOfThree DEF TypeOperatorData
<1>2. /\ DOMAIN TypeOperatorData = {"token_owner", "token_operator", "token_id"}
      /\ TypeOperatorData["token_owner"] = <<1>>
      /\ TypeOperatorData["token_operator"] = <<2, 1>>
      /\ TypeOperatorData["token_id"] = <<2, 2>>
  BY <1>1
<1>3. /\ At(v, <<1>>) = NewBytes(owner) /\ At(v, <<2, 1>>) = NewString(operator)
      /\ At(v, <<2, 2>>) = NewNat(id)
  BY AtOne, AtTwo, InPair
<1>. QED BY <1>2, <1>3

LEMMA InternalRetireIs ==
    ASSUME NEW a, NEW txs
    PROVE  LET v == NewPair(NewString(a), txs) IN
           /\ DOMAIN TypeInternalRetire = {"token_address", "txs"}
           /\ At(v, TypeInternalRetire["token_address"]) = NewString(a)
           /\ At(v, TypeInternalRetire["txs"]) = txs
<1>. DEFINE v == NewPair(NewString(a), txs)
<1>1. TypeInternalRetire = [f \in {"token_address", "txs"} |->
                               IF f = "token_address" THEN <<1>> ELSE <<2>>]
  BY OfTwo DEF TypeInternalRetire
<1>2. /\ DOMAIN TypeInternalRetire = {"token_address", "txs"}
      /\ TypeInternalRetire["token_address"] = <<1>> /\ TypeInternalRetire["txs"] = <<2>>
  BY <1>1
<1>3. At(v, <<1>>) = NewString(a) /\ At(v, <<2>>) = txs
  BY AtOne, InPair
<1>. QED BY <1>2, <1>3

LEMMA InternalRetireDataIs ==
    ASSUME NEW n, NEW data, NEW kyc, NEW id
    PROVE  LET v == NewPair(NewPair(NewNat(n), NewBytes(data)),
                            NewPair(NewBytes(kyc), NewNat(id))) IN
           /\ DOMAIN TypeInternalRetireData =
                 {"amount", "retiring_data", "retiring_party_kyc", "token_id"}
           /\ At(v, TypeInternalRetireData["amount"]) = NewNat(n)
           /\ At(v, TypeInternalRetireData["retiring_data"]) = NewBytes(data)
           /\ At(v, TypeInternalRetireData["retiring_party_kyc"]) = NewBytes(kyc)
           /\ At(v, TypeInternalRetireData["token_id"]) = NewNat(id)
<1>. DEFINE v == NewPair(NewPair(NewNat(n), NewBytes(data)),
                         NewPair(NewBytes(kyc), NewNat(id)))
<1>1. TypeInternalRetireData =
         [f \in {"amount", "retiring_data", "retiring_party_kyc", "token_id"} |->
            IF f = "amount" THEN <<1, 1>> ELSE IF f = "retiring_data" THEN <<1, 2>>
            ELSE IF f = "retiring_party_kyc" THEN <<2, 1>> ELSE <<2, 2>>]
  BY OfFour DEF TypeInternalRetireData
<1>2. /\ DOMAIN TypeInternalRetireData =
            {"amount", "retiring_data", "retiring_party_kyc", "token_id"}
      /\ TypeInternalRetireData["amount"] = <<1, 1>>
      /\ TypeInternalRetireData["retiring_data"] = <<1, 2>>
      /\ TypeInternalRetireData["retiring_party_kyc"] = <<2, 1>>
      /\ TypeInternalRetireData["token_id"] = <<2, 2>>
  BY <1>1
<1>3. /\ At(v, <<1, 1>>) = NewNat(n) /\ At(v, <<1, 2>>) = NewBytes(data)
      /\ At(v, <<2, 1>>) = NewBytes(kyc) /\ At(v, <<2, 2>>) = NewNat(id)
  BY AtTwo, InPair
<1>. QED BY <1>2, <1>3

LEMMA MintDataIs ==
    ASSUME NEW o, NEW n, NEW id
    PROVE  LET v == NewPair(NewPair(NewString(o), NewNat(n)), NewNat(id)) IN
           /\ DOMAIN TypeMintData = {"owner", "qty", "token_id"}
           /\ At(v, TypeMintData["owner"]) = NewString(o)
           /\ At(v, TypeMintData["qty"]) = NewNat(n)
           /\ At(v, TypeMintData["token_id"]) = NewNat(id)
<1>. DEFINE v == NewPair(NewPair(NewString(o), NewNat(n)), NewNat(id))
<1>1. TypeMintData = [f \in {"owner", "qty", "token_id"} |->
         IF f = "owner" THEN <<1, 1>> ELSE IF f = "qty" THEN <<1, 2>> ELSE <<2>>]
  <2>1. "owner" # "qty" /\ "owner" # "token_id" /\ "qty" # "token_id"
    OBVIOUS
  <2>. QED BY <2>1, BalancedOfThree DEF TypeMintData
<1>2. /\ DOMAIN TypeMintData = {"owner", "qty", "token_id"}
      /\ TypeMintData["owner"] = <<1, 1>> /\ TypeMintData["qty"] = <<1, 2>>
      /\ TypeMintData["token_id"] = <<2>>
  BY <1>1
<1>3. /\ At(v, <<1, 1>>) = NewString(o) /\ At(v, <<1, 2>>) = NewNat(n)
      /\ At(v, <<2>>) = NewNat(id)
  BY AtOne, AtTwo, InPair
<1>. QED BY <1>2, <1>3

LEMMA TokenMetadataIs ==
    ASSUME NEW id, NEW info
    PROVE  LET v == NewPair(NewNat(id), NewMap(info)) IN
           /\ DOMAIN TypeTokenMetadata = {"token_id", "token_info"}
           /\ At(v, TypeTokenMetadata["token_id"]) = NewNat(id)
           /\ At(v, TypeTokenMetadata["token_info"]) = NewMap(info)
<1>. DEFINE v == NewPair(NewNat(id), NewMap(info))
<1>1. TypeTokenMetadata = [f \in {"token_id", "token_info"} |->
                             IF f = "token_id" THEN <<1>> ELSE <<2>>]
  BY OfTwo DEF TypeTokenMetadata
<1>2. /\ DOMAIN TypeTokenMetadata = {"token_id", "token_info"}
      /\ TypeTokenMetadata["token_id"] = <<1>> /\ TypeTokenMetadata["token_info"] = <<2>>
  BY <1>1
<1>3. At(v, <<1>>) = NewNat(id) /\ At(v, <<2>>) = NewMap(info)
  BY AtOne, InPair
<1>. QED BY <1>2, <1>3

-----------------------------------------------------------------------------
(* Which parameters a node takes. *)

LEMMA OneFits == ASSUME NEW type, NEW v PROVE AllFit(type, NewSeq(v)) <=> Fits(type, v)
BY DEF AllFit, NewSeq

(* The kind of each field, by its name. *)
LEMMA Kinds ==
    /\ \A f \in {"token_id", "amount", "qty"} :
          f \in Nats /\ f \notin Addresses \cup Lists /\ f # "token_info"
    /\ \A f \in {"token_address", "token_operator", "owner"} :
          f \in Addresses /\ f \notin Nats \cup Lists /\ f # "token_info"
    /\ "txs" \in Lists /\ "txs" \notin Nats \cup Addresses
    /\ "token_info" \notin Nats \cup Addresses \cup Lists
    /\ \A f \in {"from_", "to_", "token_owner", "retiring_data", "retiring_party_kyc"} :
          f \notin Nats \cup Addresses \cup Lists /\ f # "token_info"
BY DEF Nats, Addresses, Lists

(* Whether a field fits, given what is where it is looked for.             *)
FieldFits(f, p) ==
    CASE f \in Nats -> p.prim = "int" /\ p.is >= 0
      [] f \in Addresses -> p.prim = "string" /\ p.is \in Address \cup FA2s
      [] f \in Lists -> p.prim = "seq"
      [] f = "token_info" -> p.prim = "map"
      [] OTHER -> p.prim = "bytes"

LEMMA FitsIs ==
    ASSUME NEW type, NEW v
    PROVE  Fits(type, v) <=> \A f \in DOMAIN type : FieldFits(f, At(v, type[f]))
BY DEF Fits, FieldFits

LEMMA NatFits ==
    ASSUME NEW n, NEW f \in {"token_id", "amount", "qty"}
    PROVE  FieldFits(f, NewNat(n)) <=> n >= 0
BY Kinds DEF FieldFits, NewNat

LEMMA AddressFits ==
    ASSUME NEW a, NEW f \in {"token_address", "token_operator", "owner"}
    PROVE  FieldFits(f, NewString(a)) <=> a \in Address \cup FA2s
BY Kinds DEF FieldFits, NewString

LEMMA BytesFit ==
    ASSUME NEW b,
           NEW f \in {"from_", "to_", "token_owner", "retiring_data", "retiring_party_kyc"}
    PROVE  FieldFits(f, NewBytes(b))
BY Kinds DEF FieldFits, NewBytes

LEMMA ListFits == ASSUME NEW v PROVE FieldFits("txs", NewSeq(v))
BY Kinds DEF FieldFits, NewSeq

LEMMA MapFits == ASSUME NEW m PROVE FieldFits("token_info", NewMap(m))
BY Kinds DEF FieldFits, NewMap

LEMMA IdsFit == \A id \in TokenIds : id >= 0
BY CommandLineAssumption

LEMMA ContractsFit == ContractAddresses \subseteq Address \cup FA2s
BY DEF ContractAddresses, Address

LEMMA InternalMintFits ==
    ASSUME NEW a \in ContractAddresses, NEW id \in TokenIds
    PROVE  FitsEntrypoint(CustodianInternalMint(a, id))
<1>. DEFINE v == NewPair(NewString(a), NewNat(id))
            p == CustodianInternalMint(a, id)
<1>1. p.entrypoint = "internal_mint" /\ p.value = NewSeq(v)
  BY DEF CustodianInternalMint
<1>2. \A f \in DOMAIN TypeInternalMint : FieldFits(f, At(v, TypeInternalMint[f]))
  BY InternalMintIs, NatFits, AddressFits, IdsFit, ContractsFit
<1>. HIDE DEF v, p
<1>3. AllFit(TypeInternalMint, p.value)
  BY <1>1, <1>2, FitsIs, OneFits
<1>4. FitsEntrypoint(p)
  BY <1>1, <1>3 DEF FitsEntrypoint
<1>. QED BY <1>4 DEF p

LEMMA InternalTransferFits ==
    ASSUME NEW a \in ContractAddresses, NEW id \in TokenIds, NEW n, NEW from, NEW to
    PROVE  FitsEntrypoint(CustodianInternalTransfer(a, id, n, from, to)) <=> n >= 0
<1>. DEFINE tx == NewPair(NewBytes(Pack(to)), NewPair(NewNat(id), NewNat(n)))
            v == NewPair(NewBytes(Pack(from)), NewPair(NewString(a), NewSeq(tx)))
            p == CustodianInternalTransfer(a, id, n, from, to)
<1>1. p.entrypoint = "internal_transfer" /\ p.value = NewSeq(v)
  BY DEF CustodianInternalTransfer
<1>2. \A f \in DOMAIN TypeInternalTransfer : FieldFits(f, At(v, TypeInternalTransfer[f]))
  BY InternalTransferIs, AddressFits, BytesFit, ListFits, ContractsFit
<1>3. (\A f \in DOMAIN TypeInternalTransferTo :
          FieldFits(f, At(tx, TypeInternalTransferTo[f]))) <=> n >= 0
  BY InternalTransferToIs, NatFits, BytesFit, IdsFit
<1>4. At(v, TypeInternalTransfer["txs"]) = NewSeq(tx)
  BY InternalTransferIs
<1>. HIDE DEF tx, v, p
<1>5. AllFit(TypeInternalTransfer, p.value)
  BY <1>1, <1>2, FitsIs, OneFits
<1>6. AllFit(TypeInternalTransferTo, NewSeq(tx)) <=> n >= 0
  BY <1>3, FitsIs, OneFits
<1>7. DOMAIN p.value.is = {1} /\ p.value.is[1] = v
  BY <1>1 DEF NewSeq
<1>8. FitsEntrypoint(p) <=> n >= 0
  BY <1>1, <1>4, <1>5, <1>6, <1>7 DEF FitsEntrypoint
<1>. QED BY <1>8 DEF p

LEMMA UpdateOperatorsFits ==
    ASSUME NEW add, NEW owner, NEW operator, NEW id \in TokenIds
    PROVE  FitsEntrypoint(CustodianUpdateOperators(add, owner, operator, id))
              <=> operator \in Address \cup FA2s
<1>. DEFINE v == NewPair(NewBytes(Pack(owner)), NewPair(NewString(operator), NewNat(id)))
            side == IF add THEN "left" ELSE "right"
            p == CustodianUpdateOperators(add, owner, operator, id)
<1>1. p.entrypoint = "update_internal_operators" /\ p.value = NewSeq(NewOr(side, v))
  BY DEF CustodianUpdateOperators
<1>2. (\A f \in DOMAIN TypeOperatorData : FieldFits(f, At(v, TypeOperatorData[f])))
         <=> operator \in Address \cup FA2s
  BY OperatorDataIs, NatFits, AddressFits, BytesFit, IdsFit
<1>. HIDE DEF v, p
<1>3. DOMAIN p.value.is = {1} /\ p.value.is[1] = NewOr(side, v)
  BY <1>1 DEF NewSeq
<1>4. /\ p.value.is[1].prim = side /\ p.value.is[1].is = v
      /\ side \in {"left", "right"}
  BY <1>3 DEF NewOr
<1>5. Fits(TypeOperatorData, v) <=> operator \in Address \cup FA2s
  BY <1>2, FitsIs
<1>. HIDE DEF side
<1>6. FitsEntrypoint(p) <=> operator \in Address \cup FA2s
  BY <1>1, <1>3, <1>4, <1>5 DEF FitsEntrypoint
<1>. QED BY <1>6 DEF p

LEMMA RetireFits ==
    ASSUME NEW a \in ContractAddresses, NEW id \in TokenIds, NEW kyc, NEW n, NEW reason
    PROVE  FitsEntrypoint(CustodianRetire(a, id, kyc, n, reason)) <=> n >= 0
<1>. DEFINE tx == NewPair(NewPair(NewNat(n), NewBytes(Raw(reason))),
                          NewPair(NewBytes(Pack(kyc)), NewNat(id)))
            v == NewPair(NewString(a), NewSeq(tx))
            p == CustodianRetire(a, id, kyc, n, reason)
<1>1. p.entrypoint = "retire" /\ p.value = NewSeq(v)
  BY DEF CustodianRetire
<1>2. \A f \in DOMAIN TypeInternalRetire : FieldFits(f, At(v, TypeInternalRetire[f]))
  BY InternalRetireIs, AddressFits, ListFits, ContractsFit
<1>3. (\A f \in DOMAIN TypeInternalRetireData :
          FieldFits(f, At(tx, TypeInternalRetireData[f]))) <=> n >= 0
  BY InternalRetireDataIs, NatFits, BytesFit, IdsFit
<1>4. At(v, TypeInternalRetire["txs"]) = NewSeq(tx)
  BY InternalRetireIs
<1>. HIDE DEF tx, v, p
<1>5. AllFit(TypeInternalRetire, p.value)
  BY <1>1, <1>2, FitsIs, OneFits
<1>6. AllFit(TypeInternalRetireData, NewSeq(tx)) <=> n >= 0
  BY <1>3, FitsIs, OneFits
<1>7. DOMAIN p.value.is = {1} /\ p.value.is[1] = v
  BY <1>1 DEF NewSeq
<1>8. FitsEntrypoint(p) <=> n >= 0
  BY <1>1, <1>4, <1>5, <1>6, <1>7 DEF FitsEntrypoint
<1>. QED BY <1>8 DEF p

LEMMA MintFits ==
    ASSUME NEW id \in TokenIds, NEW o \in Address, NEW n
    PROVE  FitsEntrypoint(FA2Mint(id, o, n)) <=> n >= 0
<1>. DEFINE v == NewPair(NewPair(NewString(o), NewNat(n)), NewNat(id))
            p == FA2Mint(id, o, n)
<1>1. p.entrypoint = "mint" /\ p.value = NewSeq(v)
  BY DEF FA2Mint
<1>2. (\A f \in DOMAIN TypeMintData : FieldFits(f, At(v, TypeMintData[f]))) <=> n >= 0
  BY MintDataIs, NatFits, AddressFits, IdsFit
<1>. HIDE DEF v, p
<1>3. AllFit(TypeMintData, p.value) <=> n >= 0
  BY <1>1, <1>2, FitsIs, OneFits
<1>4. FitsEntrypoint(p) <=> n >= 0
  BY <1>1, <1>3 DEF FitsEntrypoint
<1>. QED BY <1>4 DEF p

LEMMA AddTokenFits ==
    ASSUME NEW id \in TokenIds, NEW info
    PROVE  FitsEntrypoint(FA2AddToken(id, info))
<1>. DEFINE v == NewPair(NewNat(id), NewMap(info))
            p == FA2AddToken(id, info)
<1>1. p.entrypoint = "add_token_id" /\ p.value = NewSeq(v)
  BY DEF FA2AddToken
<1>2. \A f \in DOMAIN TypeTokenMetadata : FieldFits(f, At(v, TypeTokenMetadata[f]))
  BY TokenMetadataIs, NatFits, MapFits, IdsFit
<1>. HIDE DEF v, p
<1>3. AllFit(TypeTokenMetadata, p.value)
  BY <1>1, <1>2, FitsIs, OneFits
<1>4. FitsEntrypoint(p)
  BY <1>1, <1>3 DEF FitsEntrypoint
<1>. QED BY <1>4 DEF p

-----------------------------------------------------------------------------
(* What is under way is a command's. *)
SentByCommand(sent) ==
    \/ SentInternalMint(sent) \/ SentInternalTransfer(sent)
    \/ SentUpdateOperators(sent) \/ SentRetire(sent)
    \/ SentMint(sent) \/ SentAddToken(sent)

RunningInv == running # NoCommand => Signed(running) /\ SentByCommand(running)

LEMMA RunningNext == RunningInv /\ [CommandNext]_commandVars => RunningInv'
<1>. SUFFICES ASSUME RunningInv, [CommandNext]_commandVars, running' # running,
                     running' # NoCommand
              PROVE  Signed(running)' /\ SentByCommand(running)'
  <2>1. ASSUME running' = running, Signed(running) PROVE Signed(running)'
    BY <2>1 DEF Signed
  <2>2. ASSUME running' = running, SentInternalMint(running)
        PROVE  SentInternalMint(running)'
    BY <2>2 DEF SentInternalMint
  <2>3. ASSUME running' = running, SentInternalTransfer(running)
        PROVE  SentInternalTransfer(running)'
    BY <2>3 DEF SentInternalTransfer
  <2>4. ASSUME running' = running, SentUpdateOperators(running)
        PROVE  SentUpdateOperators(running)'
    BY <2>4 DEF SentUpdateOperators
  <2>5. ASSUME running' = running, SentRetire(running) PROVE SentRetire(running)'
    BY <2>5 DEF SentRetire
  <2>6. ASSUME running' = running, SentMint(running) PROVE SentMint(running)'
    BY <2>6 DEF SentMint
  <2>7. ASSUME running' = running, SentAddToken(running) PROVE SentAddToken(running)'
    BY <2>7 DEF SentAddToken
  <2>8. ASSUME running' = running, SentByCommand(running) PROVE SentByCommand(running)'
    BY <2>2, <2>3, <2>4, <2>5, <2>6, <2>7, <2>8 DEF SentByCommand
  <2>. QED BY <2>1, <2>8 DEF RunningInv
<1>1. running' \in InternalMints \cup InternalTransfers \cup OperatorUpdates
                     \cup (Retires \cup Posts) \cup Mints \cup AddTokens
  BY DEF CommandNext, commandVars, Submit, Called, ExecuteInternalMint,
         ExecuteInternalTransfer, ExecuteUpdateOperators, ExecuteRetire, ExecuteMint,
         ExecuteAddTokenId, Fail
<1>2. \A sent \in InternalMints \cup InternalTransfers \cup OperatorUpdates
                     \cup (Retires \cup Posts) \cup Mints \cup AddTokens :
         Signed(sent) /\ SentByCommand(sent)
  BY InternalMintsSent, InternalTransfersSent, OperatorUpdatesSent, RetiresSent,
     MintsSent, AddTokensSent DEF SentByCommand
<1>3. Signed(running') /\ SentByCommand(running')
  BY <1>1, <1>2
<1>. QED BY <1>3 DEF Signed, SentByCommand, SentInternalMint, SentInternalTransfer,
                     SentUpdateOperators, SentRetire, SentMint, SentAddToken

LEMMA SensibleFits ==
    ASSUME NEW sent, SentByCommand(sent), Sensible(sent.asked)
    PROVE  FitsEntrypoint(sent.parameters)
<1>1. CASE SentInternalMint(sent)
  BY <1>1, InternalMintFits DEF SentInternalMint
<1>2. CASE SentInternalTransfer(sent)
  BY <1>2, InternalTransferFits DEF SentInternalTransfer, Sensible
<1>3. CASE SentUpdateOperators(sent)
  BY <1>3, UpdateOperatorsFits DEF SentUpdateOperators, Sensible, Address
<1>4. CASE SentRetire(sent)
  BY <1>4, RetireFits DEF SentRetire, Sensible
<1>5. CASE SentMint(sent)
  BY <1>5, MintFits DEF SentMint, Sensible
<1>6. CASE SentAddToken(sent)
  BY <1>6, AddTokenFits DEF SentAddToken
<1>. QED BY <1>1, <1>2, <1>3, <1>4, <1>5, <1>6 DEF SentByCommand

(***************************************************************************)
(* What a command sends has the shape of the entrypoint it calls, whatever *)
(* words it was given, if no amount is negative and the operator is one.   *)
(***************************************************************************)
THEOREM ParametersAlwaysFit == CommandSpec => []ParametersFit
<1>1. CommandInit => RunningInv
  BY DEF CommandInit, RunningInv
<1>2. RunningInv => ParametersFit
  BY SensibleFits DEF RunningInv, ParametersFit
<1>. QED BY <1>1, <1>2, RunningNext, PTL DEF CommandSpec

-----------------------------------------------------------------------------
(* What is called.  Each of these says what a command that is executed has  *)
(* the contract do: the fields are found again where they were put.        *)

LEMMA Entrypoints ==
    ASSUME NEW sent
    PROVE  /\ SentInternalMint(sent) => sent.parameters.entrypoint = "internal_mint"
           /\ SentInternalTransfer(sent) => sent.parameters.entrypoint = "internal_transfer"
           /\ SentUpdateOperators(sent)
                 => sent.parameters.entrypoint = "update_internal_operators"
           /\ SentRetire(sent) => sent.parameters.entrypoint = "retire"
           /\ SentMint(sent) => sent.parameters.entrypoint = "mint"
           /\ SentAddToken(sent) => sent.parameters.entrypoint = "add_token_id"
<1>1. SentInternalMint(sent) => sent.parameters.entrypoint = "internal_mint"
  BY DEF SentInternalMint, CustodianInternalMint
<1>2. SentInternalTransfer(sent) => sent.parameters.entrypoint = "internal_transfer"
  BY DEF SentInternalTransfer, CustodianInternalTransfer
<1>3. SentUpdateOperators(sent)
         => sent.parameters.entrypoint = "update_internal_operators"
  BY DEF SentUpdateOperators, CustodianUpdateOperators
<1>4. SentRetire(sent) => sent.parameters.entrypoint = "retire"
  BY DEF SentRetire, CustodianRetire
<1>5. SentMint(sent) => sent.parameters.entrypoint = "mint"
  BY DEF SentMint, FA2Mint
<1>6. SentAddToken(sent) => sent.parameters.entrypoint = "add_token_id"
  BY DEF SentAddToken, FA2AddToken
<1>. QED BY <1>1, <1>2, <1>3, <1>4, <1>5, <1>6

LEMMA RunningIs ==
    ASSUME RunningInv, NEW entrypoint, Called(entrypoint)
    PROVE  /\ Signed(running) /\ FitsEntrypoint(running.parameters)
           /\ outbox = <<>> /\ running' = NoCommand
           /\ entrypoint = "internal_mint" => SentInternalMint(running)
           /\ entrypoint = "internal_transfer" => SentInternalTransfer(running)
           /\ entrypoint = "update_internal_operators" => SentUpdateOperators(running)
           /\ entrypoint = "retire" => SentRetire(running)
           /\ entrypoint = "mint" => SentMint(running)
           /\ entrypoint = "add_token_id" => SentAddToken(running)
BY Entrypoints DEF RunningInv, Called, SentByCommand

LEMMA FlattenOne == ASSUME NEW l PROVE FlattenSeq(<<l>>) = l
<1>. DEFINE flatten == CHOOSE f : f = [i \in 1..1 |->
                          IF i = 1 THEN <<l>>[i] ELSE f[i - 1] \o <<l>>[i]]
            only == [i \in 1..1 |-> l]
<1>1. only = [i \in 1..1 |-> IF i = 1 THEN <<l>>[i] ELSE only[i - 1] \o <<l>>[i]]
  OBVIOUS
<1>2. flatten = [i \in 1..1 |-> IF i = 1 THEN <<l>>[i] ELSE flatten[i - 1] \o <<l>>[i]]
  BY <1>1
<1>. HIDE DEF flatten
<1>3. flatten[1] = l
  BY <1>2
<1>4. Len(<<l>>) = 1
  OBVIOUS
<1>5. FlattenSeq(<<l>>) = flatten[1]
  BY <1>4 DEF FlattenSeq, flatten
<1>. QED BY <1>3, <1>5

LEMMA InternalMintDone ==
    ASSUME RunningInv, ExecuteInternalMint
    PROVE  /\ running.source \in Wallets /\ outbox = <<>> /\ running' = NoCommand
           /\ OfCustodianAlone
           /\ \E a \in ContractAddresses, id \in TokenIds,
                 named \in SUBSET ContractAddresses :
                 /\ running.asked = [command |-> "internal_mint", fa2 |-> named, id |-> id]
                 /\ a \in FA2s => a \in named
                 /\ InternalMint(running.source, <<<<a, id>>>>, CustodianView)
<1>1. /\ Signed(running) /\ SentInternalMint(running) /\ outbox = <<>>
      /\ running' = NoCommand /\ OfCustodianAlone
  BY RunningIs DEF ExecuteInternalMint
<1>2. PICK a \in ContractAddresses, id \in TokenIds, named \in SUBSET ContractAddresses :
        /\ running.parameters = CustodianInternalMint(a, id)
        /\ running.asked = [command |-> "internal_mint", fa2 |-> named, id |-> id]
        /\ a \in FA2s => a \in named
  BY <1>1 DEF SentInternalMint
<1>. DEFINE v == NewPair(NewString(a), NewNat(id))
            tokens == Sent(LAMBDA w : <<Field(TypeInternalMint, w, "token_address"),
                                        Field(TypeInternalMint, w, "token_id")>>)
<1>3. running.parameters.value.is = <<v>>
  BY <1>2 DEF CustodianInternalMint, NewSeq
<1>4. <<Field(TypeInternalMint, v, "token_address"),
        Field(TypeInternalMint, v, "token_id")>> = <<a, id>>
  BY InternalMintIs DEF Field, NewString, NewNat
<1>5. tokens = <<<<a, id>>>>
  BY <1>3, <1>4 DEF Sent
<1>6. InternalMint(running.source, tokens, CustodianView)
  BY DEF ExecuteInternalMint
<1>. HIDE DEF tokens
<1>7. InternalMint(running.source, <<<<a, id>>>>, CustodianView)
  BY <1>5, <1>6
<1>. QED BY <1>1, <1>2, <1>7 DEF Signed

LEMMA InternalTransferDone ==
    ASSUME RunningInv, ExecuteInternalTransfer
    PROVE  /\ running.source \in Wallets /\ outbox = <<>> /\ running' = NoCommand
           /\ OfCustodianAlone
           /\ \E a \in ContractAddresses, id \in TokenIds,
                 named \in SUBSET ContractAddresses, n \in Amounts, from, to \in Texts :
                 /\ running.asked = [command |-> "internal_transfer", fa2 |-> named,
                                     id |-> id, amount |-> n, from |-> from, to |-> to]
                 /\ a \in FA2s => a \in named
                 /\ InternalTransfer(running.source,
                       <<[from |-> Pack(from), to |-> Pack(to), token |-> <<a, id>>,
                          amount |-> n]>>)
<1>1. /\ Signed(running) /\ SentInternalTransfer(running) /\ outbox = <<>>
      /\ running' = NoCommand /\ OfCustodianAlone /\ FitsEntrypoint(running.parameters)
  BY RunningIs DEF ExecuteInternalTransfer
<1>2. PICK a \in ContractAddresses, id \in TokenIds, named \in SUBSET ContractAddresses,
           n \in Numbers, from \in Texts, to \in Texts :
        /\ running.parameters = CustodianInternalTransfer(a, id, n, from, to)
        /\ running.asked = [command |-> "internal_transfer", fa2 |-> named, id |-> id,
                            amount |-> n, from |-> from, to |-> to]
        /\ a \in FA2s => a \in named
  BY <1>1 DEF SentInternalTransfer
<1>3. n \in Amounts
  BY <1>1, <1>2, InternalTransferFits, CommandLineAssumption, CallersAssumption
<1>. DEFINE tx == NewPair(NewBytes(Pack(to)), NewPair(NewNat(id), NewNat(n)))
            v == NewPair(NewBytes(Pack(from)), NewPair(NewString(a), NewSeq(tx)))
            transfer == [from |-> Pack(from), to |-> Pack(to), token |-> <<a, id>>,
                         amount |-> n]
            decoded(w) == [i \in DOMAIN Txs(TypeInternalTransfer, w) |->
                    LET x == Txs(TypeInternalTransfer, w)[i]
                    IN  [from |-> Field(TypeInternalTransfer, w, "from_"),
                         to |-> Field(TypeInternalTransferTo, x, "to_"),
                         token |-> <<Field(TypeInternalTransfer, w, "token_address"),
                                     Field(TypeInternalTransferTo, x, "token_id")>>,
                         amount |-> Field(TypeInternalTransferTo, x, "amount")]]
            lists == Sent(LAMBDA w : decoded(w))
<1>4. running.parameters.value.is = <<v>>
  BY <1>2 DEF CustodianInternalTransfer, NewSeq
<1>5. Txs(TypeInternalTransfer, v) = <<tx>>
  BY InternalTransferIs DEF Txs, Field, NewSeq
<1>6. /\ Field(TypeInternalTransfer, v, "from_") = Pack(from)
      /\ Field(TypeInternalTransfer, v, "token_address") = a
  BY InternalTransferIs DEF Field, NewString, NewBytes
<1>7. /\ Field(TypeInternalTransferTo, tx, "to_") = Pack(to)
      /\ Field(TypeInternalTransferTo, tx, "token_id") = id
      /\ Field(TypeInternalTransferTo, tx, "amount") = n
  BY InternalTransferToIs DEF Field, NewNat, NewBytes
<1>. HIDE DEF tx, v
<1>8. decoded(v) = <<transfer>>
  BY <1>5, <1>6, <1>7
<1>9. lists = <<<<transfer>>>>
  <2>. HIDE DEF decoded
  <2>. QED BY <1>4, <1>8 DEF Sent
<1>10. InternalTransfer(running.source, FlattenSeq(lists))
  BY DEF ExecuteInternalTransfer
<1>. HIDE DEF lists, transfer
<1>11. InternalTransfer(running.source, <<transfer>>)
  <2>1. FlattenSeq(lists) = <<transfer>>
    BY <1>9, FlattenOne
  <2>. QED BY <1>10, <2>1
<1>. QED BY <1>1, <1>2, <1>3, <1>11 DEF Signed, transfer

LEMMA UpdateOperatorsDone ==
    ASSUME RunningInv, ExecuteUpdateOperators
    PROVE  /\ running.source \in Wallets /\ outbox = <<>> /\ running' = NoCommand
           /\ OfCustodianAlone
           /\ \E add \in BOOLEAN, owner \in Texts, operator \in Wallets, id \in TokenIds,
                 named \in SUBSET Wallets :
                 /\ running.asked =
                       [command |-> IF add THEN "add_operator" ELSE "remove_operator",
                        operator |-> named, id |-> id, owner |-> owner]
                 /\ operator \in named
                 /\ UpdateInternalOperators(running.source,
                       <<[add |-> add,
                          operator |-> [token_owner |-> Pack(owner),
                                        token_operator |-> operator, token_id |-> id]]>>)
<1>1. /\ Signed(running) /\ SentUpdateOperators(running) /\ outbox = <<>>
      /\ running' = NoCommand /\ OfCustodianAlone /\ FitsEntrypoint(running.parameters)
  BY RunningIs DEF ExecuteUpdateOperators
<1>2. PICK add \in BOOLEAN, owner \in Texts, operator \in Wallets \cup {NoAddress},
           id \in TokenIds, named \in SUBSET Wallets :
        /\ running.parameters = CustodianUpdateOperators(add, owner, operator, id)
        /\ running.asked = [command |-> IF add THEN "add_operator" ELSE "remove_operator",
                            operator |-> named, id |-> id, owner |-> owner]
        /\ operator \in Wallets <=> operator \in named
  BY <1>1 DEF SentUpdateOperators
<1>3. operator \in Wallets
  BY <1>1, <1>2, UpdateOperatorsFits, CommandLineAssumption
<1>. DEFINE v == NewPair(NewBytes(Pack(owner)), NewPair(NewString(operator), NewNat(id)))
            u == NewOr(IF add THEN "left" ELSE "right", v)
            grant == [token_owner |-> Pack(owner), token_operator |-> operator,
                      token_id |-> id]
            decoded(w) == [add |-> w.prim = "left",
                           operator |-> [f \in DOMAIN TypeOperatorData |->
                                            Field(TypeOperatorData, w.is, f)]]
            updates == Sent(LAMBDA w : decoded(w))
<1>4. running.parameters.value.is = <<u>>
  BY <1>2 DEF CustodianUpdateOperators, NewSeq
<1>5. u.is = v /\ (u.prim = "left") = add
  BY DEF NewOr
<1>6. [f \in DOMAIN TypeOperatorData |-> Field(TypeOperatorData, v, f)] = grant
  BY OperatorDataIs DEF Field, NewString, NewNat, NewBytes
<1>. HIDE DEF u, v, grant
<1>7. decoded(u) = [add |-> add, operator |-> grant]
  BY <1>5, <1>6
<1>8. updates = <<[add |-> add, operator |-> grant]>>
  <2>. HIDE DEF decoded
  <2>. QED BY <1>4, <1>7 DEF Sent
<1>9. UpdateInternalOperators(running.source, updates)
  BY DEF ExecuteUpdateOperators
<1>. HIDE DEF updates
<1>10. UpdateInternalOperators(running.source, <<[add |-> add, operator |-> grant]>>)
  BY <1>8, <1>9
<1>. QED BY <1>1, <1>2, <1>3, <1>10 DEF Signed, grant

LEMMA RetireDone ==
    ASSUME RunningInv, ExecuteRetire
    PROVE  /\ running.source \in Wallets /\ outbox = <<>> /\ running' = NoCommand
           /\ \E a \in ContractAddresses, id \in TokenIds,
                 named \in SUBSET ContractAddresses, kyc \in Texts, n \in Amounts :
                 /\ running.asked = [command |-> "retire", fa2 |-> named, id |-> id,
                                     amount |-> n, from |-> kyc]
                 /\ a \in named
                 /\ CallRetire(running.source,
                       <<[token_address |-> a,
                          txs |-> <<[from |-> Pack(kyc), token_id |-> id,
                                     amount |-> n]>>]>>)
<1>1. /\ Signed(running) /\ SentRetire(running) /\ outbox = <<>>
      /\ running' = NoCommand /\ FitsEntrypoint(running.parameters)
  BY RunningIs DEF ExecuteRetire
<1>2. PICK a \in ContractAddresses, id \in TokenIds, named \in SUBSET ContractAddresses,
           kyc \in Texts, n \in Numbers, reason \in Reasons :
        /\ running.parameters = CustodianRetire(a, id, kyc, n, reason)
        /\ running.asked = [command |-> "retire", fa2 |-> named, id |-> id,
                            amount |-> n, from |-> kyc]
        /\ a \in named
  BY <1>1 DEF SentRetire
<1>3. n \in Amounts
  BY <1>1, <1>2, RetireFits, CommandLineAssumption, CallersAssumption
<1>. DEFINE tx == NewPair(NewPair(NewNat(n), NewBytes(Raw(reason))),
                          NewPair(NewBytes(Pack(kyc)), NewNat(id)))
            v == NewPair(NewString(a), NewSeq(tx))
            retired == [from |-> Pack(kyc), token_id |-> id, amount |-> n]
            group == [token_address |-> a, txs |-> <<retired>>]
            decoded(w) ==
                [token_address |-> Field(TypeInternalRetire, w, "token_address"),
                 txs |-> [i \in DOMAIN Txs(TypeInternalRetire, w) |->
                    LET x == Txs(TypeInternalRetire, w)[i]
                    IN  [from |-> Field(TypeInternalRetireData, x, "retiring_party_kyc"),
                         token_id |-> Field(TypeInternalRetireData, x, "token_id"),
                         amount |-> Field(TypeInternalRetireData, x, "amount")]]]
            groups == Sent(LAMBDA w : decoded(w))
<1>4. running.parameters.value.is = <<v>>
  BY <1>2 DEF CustodianRetire, NewSeq
<1>5. Txs(TypeInternalRetire, v) = <<tx>> /\ Field(TypeInternalRetire, v, "token_address") = a
  BY InternalRetireIs DEF Txs, Field, NewSeq, NewString
<1>6. /\ Field(TypeInternalRetireData, tx, "retiring_party_kyc") = Pack(kyc)
      /\ Field(TypeInternalRetireData, tx, "token_id") = id
      /\ Field(TypeInternalRetireData, tx, "amount") = n
  BY InternalRetireDataIs DEF Field, NewNat, NewBytes
<1>. HIDE DEF tx, v
<1>7. decoded(v) = group
  BY <1>5, <1>6
<1>8. groups = <<group>>
  <2>. HIDE DEF decoded, group
  <2>. QED BY <1>4, <1>7 DEF Sent
<1>9. CallRetire(running.source, groups)
  BY DEF ExecuteRetire
<1>. HIDE DEF groups, group
<1>10. CallRetire(running.source, <<group>>)
  BY <1>8, <1>9
<1>. QED BY <1>1, <1>2, <1>3, <1>10 DEF Signed, group

LEMMA MintDone ==
    ASSUME RunningInv, ExecuteMint
    PROVE  /\ running.source \in Wallets /\ running.target \in FA2s
           /\ outbox = <<>> /\ running' = NoCommand /\ OfFA2Alone
           /\ \E id \in TokenIds, o \in Address, n \in Amounts, named \in SUBSET FA2s,
                 owners \in SUBSET Address :
                 /\ running.asked = [command |-> "mint", fa2 |-> named, id |-> id,
                                     amount |-> n, owner |-> owners]
                 /\ running.target \in named /\ o \in owners
                 /\ Mint(running.target, running.source,
                         <<[owner |-> o, token_id |-> id, amount |-> n]>>)
<1>1. /\ Signed(running) /\ SentMint(running) /\ outbox = <<>>
      /\ running' = NoCommand /\ OfFA2Alone /\ FitsEntrypoint(running.parameters)
      /\ running.parameters.entrypoint = "mint"
  BY RunningIs DEF ExecuteMint, Called
<1>2. PICK id \in TokenIds, o \in Address, n \in Numbers, named \in SUBSET FA2s,
           owners \in SUBSET Address :
        /\ running.parameters = FA2Mint(id, o, n)
        /\ running.asked = [command |-> "mint", fa2 |-> named, id |-> id, amount |-> n,
                            owner |-> owners]
        /\ running.target \in named /\ o \in owners
  BY <1>1 DEF SentMint
<1>3. n \in Amounts
  BY <1>1, <1>2, MintFits, CommandLineAssumption, CallersAssumption
<1>. DEFINE v == NewPair(NewPair(NewString(o), NewNat(n)), NewNat(id))
            entry == [owner |-> o, token_id |-> id, amount |-> n]
            decoded(w) == [owner |-> Field(TypeMintData, w, "owner"),
                           token_id |-> Field(TypeMintData, w, "token_id"),
                           amount |-> Field(TypeMintData, w, "qty")]
            entries == Sent(LAMBDA w : decoded(w))
<1>4. running.parameters.value.is = <<v>>
  BY <1>2 DEF FA2Mint, NewSeq
<1>5. decoded(v) = entry
  BY MintDataIs DEF Field, NewNat, NewString
<1>6. entries = <<entry>>
  <2>. HIDE DEF decoded, entry
  <2>. QED BY <1>4, <1>5 DEF Sent
<1>7. Mint(running.target, running.source, entries)
  BY DEF ExecuteMint
<1>. HIDE DEF entries, entry
<1>8. Mint(running.target, running.source, <<entry>>)
  BY <1>6, <1>7
<1>. QED BY <1>1, <1>2, <1>3, <1>8 DEF Signed, Having, entry

LEMMA AddTokenDone ==
    ASSUME RunningInv, ExecuteAddTokenId
    PROVE  /\ running.source \in Wallets /\ running.target \in FA2s
           /\ outbox = <<>> /\ running' = NoCommand /\ OfFA2Alone
           /\ \E id \in TokenIds, info \in TokenInfos, named \in SUBSET FA2s :
                 /\ running.asked = [command |-> "add_token", fa2 |-> named, id |-> id,
                                     info |-> info]
                 /\ running.target \in named
                 /\ AddTokenId(running.target, running.source,
                               <<[token_id |-> id, info |-> info]>>)
<1>1. /\ Signed(running) /\ SentAddToken(running) /\ outbox = <<>>
      /\ running' = NoCommand /\ OfFA2Alone
      /\ running.parameters.entrypoint = "add_token_id"
  BY RunningIs DEF ExecuteAddTokenId, Called
<1>2. PICK id \in TokenIds, info \in TokenInfos, named \in SUBSET FA2s :
        /\ running.parameters = FA2AddToken(id, info)
        /\ running.asked = [command |-> "add_token", fa2 |-> named, id |-> id,
                            info |-> info]
        /\ running.target \in named
  BY <1>1 DEF SentAddToken
<1>. DEFINE v == NewPair(NewNat(id), NewMap(info))
            definition == [token_id |-> id, info |-> info]
            decoded(w) == [token_id |-> Field(TypeTokenMetadata, w, "token_id"),
                           info |-> Field(TypeTokenMetadata, w, "token_info")]
            definitions == Sent(LAMBDA w : decoded(w))
<1>3. running.parameters.value.is = <<v>>
  BY <1>2 DEF FA2AddToken, NewSeq
<1>4. decoded(v) = definition
  BY TokenMetadataIs DEF Field, NewNat, NewMap
<1>5. definitions = <<definition>>
  <2>. HIDE DEF decoded, definition
  <2>. QED BY <1>3, <1>4 DEF Sent
<1>6. AddTokenId(running.target, running.source, definitions)
  BY DEF ExecuteAddTokenId
<1>. HIDE DEF definitions, definition
<1>7. AddTokenId(running.target, running.source, <<definition>>)
  BY <1>5, <1>6
<1>. QED BY <1>1, <1>2, <1>7 DEF Signed, Having, definition

-----------------------------------------------------------------------------
(* A command is a call. *)

LEMMA BatchOfOne == ASSUME NEW S, NEW x \in S PROVE <<x>> \in Batches(S)
<1>1. <<x>> \in [1..1 -> S] /\ 1 \in 0..MaxBatch
  BY CallersAssumption, BalancesAssumption
<1>. QED BY <1>1 DEF Batches, SeqOf

LEMMA TotalOfOne == ASSUME NEW n \in Int, NEW f, f = [i \in {1} |-> n] PROVE Total(f) = n
<1>. DEFINE D == {1}
<1>1. IsFiniteSet(D)
  BY FS_Singleton
<1>2. f \in [D -> Int] /\ 1 \in D /\ f[1] = n /\ \A x \in D : x # 1 => f[x] = 0
  OBVIOUS
<1>. HIDE DEF D
<1>3. Total(f) = f[1]
  BY <1>1, <1>2, TotalSingle
<1>. QED BY <1>2, <1>3

LEMMA RetirementOfOne ==
    ASSUME NEW a \in ContractAddresses, NEW x \in RetireTx
    PROVE  <<[token_address |-> a, txs |-> <<x>>]>> \in Retirements
<1>. DEFINE g == [token_address |-> a, txs |-> <<x>>]
            list == <<g>>
<1>1. g \in Groups(RetireTx)
  BY BatchOfOne, CallersAssumption DEF Groups
<1>2. list \in Batches(Groups(RetireTx))
  BY <1>1, BatchOfOne
<1>3. DOMAIN list = {1} /\ Len(list[1].txs) = 1
  OBVIOUS
<1>. HIDE DEF list
<1>. DEFINE sizes == [i \in DOMAIN list |-> Len(list[i].txs)]
<1>4. sizes = [i \in {1} |-> 1]
  BY <1>3
<1>5. Total(sizes) = 1
  <2>. HIDE DEF sizes
  <2>. QED BY <1>4, TotalOfOne
<1>6. list \in Retirements
  BY <1>2, <1>5, CallersAssumption, BalancesAssumption DEF Retirements, GroupBatches
<1>. QED BY <1>6 DEF list

LEMMA Packed == \A text \in Texts : Pack(text) \in Kycs
BY CommandLineAssumption

(***************************************************************************)
(* Whatever a command does is done by a call that X4CChain has.            *)
(***************************************************************************)
LEMMA CommandStep ==
    ASSUME RunningInv, [CommandNext]_commandVars
    PROVE  [ChainNext]_chainVars
<1>1. ASSUME ExecuteInternalMint PROVE ChainNext
  <2>1. PICK a \in ContractAddresses, id \in TokenIds :
           InternalMint(running.source, <<<<a, id>>>>, CustodianView)
    BY <1>1, InternalMintDone
  <2>2. <<<<a, id>>>> \in SyncBatches
    BY CallersAssumption DEF Token
  <2>3. CallCustodian(running.source) /\ running.source \in Wallets
    BY <1>1, <2>1, <2>2, InternalMintDone DEF CallCustodian, LedgerCall, OfCustodianAlone
  <2>. QED BY <2>3 DEF ChainNext
<1>2. ASSUME ExecuteInternalTransfer PROVE ChainNext
  <2>1. PICK a \in ContractAddresses, id \in TokenIds, n \in Amounts, from \in Texts,
             to \in Texts :
           InternalTransfer(running.source,
              <<[from |-> Pack(from), to |-> Pack(to), token |-> <<a, id>>,
                 amount |-> n]>>)
    BY <1>2, InternalTransferDone
  <2>. DEFINE tx == [from |-> Pack(from), to |-> Pack(to), token |-> <<a, id>>,
                     amount |-> n]
  <2>2. tx \in InternalTransferTx
    BY Packed, CallersAssumption DEF InternalTransferTx, Token
  <2>3. <<tx>> \in Batches(InternalTransferTx)
    BY <2>2, BatchOfOne
  <2>. HIDE DEF tx
  <2>4. CallCustodian(running.source) /\ running.source \in Wallets
    BY <1>2, <2>1, <2>3, InternalTransferDone
       DEF CallCustodian, LedgerCall, OfCustodianAlone, tx
  <2>. QED BY <2>4 DEF ChainNext
<1>3. ASSUME ExecuteUpdateOperators PROVE ChainNext
  <2>1. PICK add \in BOOLEAN, owner \in Texts, operator \in Wallets, id \in TokenIds :
           UpdateInternalOperators(running.source,
              <<[add |-> add,
                 operator |-> [token_owner |-> Pack(owner),
                               token_operator |-> operator, token_id |-> id]]>>)
    BY <1>3, UpdateOperatorsDone
  <2>. DEFINE u == [add |-> add,
                    operator |-> [token_owner |-> Pack(owner),
                                  token_operator |-> operator, token_id |-> id]]
  <2>2. u \in KycOperatorUpdate
    BY Packed DEF KycOperatorUpdate, KycOperator, Address
  <2>3. <<u>> \in Batches(KycOperatorUpdate)
    BY <2>2, BatchOfOne
  <2>. HIDE DEF u
  <2>4. CallCustodian(running.source) /\ running.source \in Wallets
    BY <1>3, <2>1, <2>3, UpdateOperatorsDone
       DEF CallCustodian, LedgerCall, OfCustodianAlone, u
  <2>. QED BY <2>4 DEF ChainNext
<1>4. ASSUME ExecuteRetire PROVE ChainNext
  <2>1. PICK a \in ContractAddresses, id \in TokenIds, kyc \in Texts, n \in Amounts :
           CallRetire(running.source,
              <<[token_address |-> a,
                 txs |-> <<[from |-> Pack(kyc), token_id |-> id, amount |-> n]>>]>>)
    BY <1>4, RetireDone
  <2>2. [from |-> Pack(kyc), token_id |-> id, amount |-> n] \in RetireTx
    BY Packed DEF RetireTx
  <2>3. \E groups \in Retirements : CallRetire(running.source, groups)
    BY <2>1, <2>2, RetirementOfOne
  <2>4. running.source \in Wallets
    BY <1>4, RetireDone
  <2>. QED BY <2>3, <2>4 DEF ChainNext
<1>5. ASSUME ExecuteMint PROVE ChainNext
  <2>1. PICK id \in TokenIds, o \in Address, n \in Amounts :
           Mint(running.target, running.source,
                <<[owner |-> o, token_id |-> id, amount |-> n]>>)
    BY <1>5, MintDone
  <2>2. [owner |-> o, token_id |-> id, amount |-> n] \in Entry
    BY DEF Entry
  <2>3. \E entries \in Batches(Entry) : Mint(running.target, running.source, entries)
    BY <2>1, <2>2, BatchOfOne
  <2>4. /\ running.target \in FA2s /\ running.source \in Wallets
        /\ CallFA2(running.target, running.source)
    BY <1>5, <2>3, MintDone DEF CallFA2, FA2Call, OfFA2Alone
  <2>. QED BY <2>4 DEF ChainNext
<1>6. ASSUME ExecuteAddTokenId PROVE ChainNext
  <2>1. PICK id \in TokenIds, info \in TokenInfos :
           AddTokenId(running.target, running.source, <<[token_id |-> id, info |-> info]>>)
    BY <1>6, AddTokenDone
  <2>2. [token_id |-> id, info |-> info] \in TokenMetadata
    BY DEF TokenMetadata
  <2>3. \E definitions \in Batches(TokenMetadata) :
           AddTokenId(running.target, running.source, definitions)
    BY <2>1, <2>2, BatchOfOne
  <2>4. /\ running.target \in FA2s /\ running.source \in Wallets
        /\ CallFA2(running.target, running.source)
    BY <1>6, <2>3, AddTokenDone DEF CallFA2, FA2Call, OfFA2Alone
  <2>. QED BY <2>4 DEF ChainNext
<1>7. \A sent : Submit(sent) => UNCHANGED chainVars
  BY DEF Submit
<1>8. Fail \/ UNCHANGED commandVars => UNCHANGED chainVars
  BY DEF Fail, commandVars
<1>9. ApplyOperation \/ RejectOperation => ChainNext
  BY DEF ChainNext
<1>. QED BY <1>1, <1>2, <1>3, <1>4, <1>5, <1>6, <1>7, <1>8, <1>9 DEF CommandNext

(***************************************************************************)
(* The program's commands are calls of the contracts: CommandSpec implies  *)
(* ChainSpec, and with it everything that is proved of the contracts.      *)
(***************************************************************************)
THEOREM CommandsCallTheContracts == CommandSpec => CommandsAreCalls /\ ChainSpec
<1>1. CommandInit => RunningInv /\ ChainInit
  BY DEF CommandInit, RunningInv
<1>2. RunningInv /\ [CommandNext]_commandVars
         => [ChainNext]_chainVars /\ [UNCHANGED chainVars \/ ChainNext]_commandVars
  BY CommandStep
<1>. QED BY <1>1, <1>2, RunningNext, PTL DEF CommandSpec, CommandsAreCalls, ChainSpec

(* And none of them books more than what has come in: internal_mint is     *)
(* sent one token at a time.                                               *)
LEMMA CommandBooks ==
    ASSUME RunningInv, ChainInv, [CommandNext]_commandVars, chainVars' # chainVars
    PROVE  BooksWhatCame
<1>. SUFFICES ASSUME outbox = <<>>, NEW t \in Credit PROVE Leveled(t)
  BY DEF BooksWhatCame
<1>1. ASSUME ExecuteInternalMint PROVE Leveled(t)
  <2>1. PICK a \in ContractAddresses, id \in TokenIds :
           InternalMint(running.source, <<<<a, id>>>>, CustodianView)
    BY <1>1, InternalMintDone
  <2>2. <<<<a, id>>>> \in SyncBatches
    BY CallersAssumption DEF Token
  <2>3. NamesOnce(<<<<a, id>>>>)
    BY DEF NamesOnce
  <2>. QED BY <2>1, <2>2, <2>3, SyncBooks
<1>2. ASSUME ExecuteInternalTransfer PROVE UNCHANGED <<externalLedger, outbox>>
  <2>1. \E txs : InternalTransfer(running.source, txs)
    BY <1>2, InternalTransferDone
  <2>. QED BY <2>1 DEF InternalTransfer
<1>3. ASSUME ExecuteUpdateOperators PROVE UNCHANGED <<externalLedger, outbox>>
  <2>1. \E updates : UpdateInternalOperators(running.source, updates)
    BY <1>3, UpdateOperatorsDone
  <2>. QED BY <2>1 DEF UpdateInternalOperators
<1>4. ASSUME ExecuteRetire PROVE Leveled(t)
  <2>1. PICK a \in ContractAddresses, id \in TokenIds, kyc \in Texts, n \in Amounts :
           CallRetire(running.source,
              <<[token_address |-> a,
                 txs |-> <<[from |-> Pack(kyc), token_id |-> id, amount |-> n]>>]>>)
    BY <1>4, RetireDone
  <2>2. [from |-> Pack(kyc), token_id |-> id, amount |-> n] \in RetireTx
    BY Packed DEF RetireTx
  <2>3. PICK groups \in Retirements : CallRetire(running.source, groups)
    BY <2>1, <2>2, RetirementOfOne
  <2>4. Retire(running.source, groups) /\ running.source \in Wallets
    BY <1>4, <2>3, RetireDone DEF CallRetire, RetireCall
  <2>5. t \in Token /\ CustodianInv
    BY CreditIsToken DEF ChainInv
  <2>. QED BY <2>4, <2>5, RetirePending DEF Leveled
<1>5. ASSUME ExecuteMint PROVE UNCHANGED <<externalLedger, outbox>>
  BY <1>5, MintDone DEF OfFA2Alone, custodianVars
<1>6. ASSUME ExecuteAddTokenId PROVE UNCHANGED <<externalLedger, outbox>>
  BY <1>6, AddTokenDone DEF OfFA2Alone, custodianVars
<1>7. /\ \A sent : ~Submit(sent)
      /\ ~Fail /\ ~UNCHANGED commandVars
  BY DEF Submit, Fail, commandVars
<1>8. ~ApplyOperation /\ ~RejectOperation
  BY DEF ApplyOperation, OperationApplied, RejectOperation, OperationRejected
<1>9. UNCHANGED <<externalLedger, outbox>> => Leveled(t)
  BY UntouchedBooks
<1>. QED BY <1>1, <1>2, <1>3, <1>4, <1>5, <1>6, <1>7, <1>8, <1>9 DEF CommandNext

LEMMA CommandsBackedSteps == CommandSpec => ChainInit /\ BackedSteps
<1>1. CommandInit => RunningInv /\ ChainInit /\ ChainInv
  BY ChainInitInv DEF CommandInit, RunningInv
<1>2. RunningInv /\ ChainInv /\ [CommandNext]_commandVars
         => [ChainNext /\ BooksWhatCame]_chainVars /\ ChainInv'
  BY CommandStep, CommandBooks, ChainNextInv
<1>. QED BY <1>1, <1>2, RunningNext, PTL DEF CommandSpec, BackedSteps

(***************************************************************************)
(* Under the program, as opposed to under everyone who can call the        *)
(* contracts, the parties' credits are always in the custodian's custody,  *)
(* and no operation that the custodian emits is ever refused.              *)
(***************************************************************************)
THEOREM ProgramKeepsBacking == CommandSpec => [](Backed /\ NothingRefused)
BY CommandsBackedSteps, BackedWhile, BackedAndTaken, PTL

(***************************************************************************)
(* A second internal_mint, typed again because nobody knew whether the     *)
(* first was executed, books nothing twice.                                *)
(***************************************************************************)
THEOREM ProgramSyncsAreIdempotent == CommandSpec => SyncIdempotent
BY CommandsBackedSteps, IdempotentWhile, PTL

(***************************************************************************)
(* And the program, from the words that are typed to the last operation a  *)
(* call has emitted, implements the one book of CreditBook.                *)
(***************************************************************************)
THEOREM ProgramKeepsOneBook == CommandSpec => ImplementsOneBook
BY CommandsBackedSteps, OneBookWhile, PTL

(***************************************************************************)
(* The state stays of its type, and whoever signs an operation is a wallet *)
(* that calls a contract with that entrypoint.                             *)
(***************************************************************************)
THEOREM CommandTypeCorrect == CommandSpec => []CommandTypeOK
<1>1. CommandInit => RunningInv
  BY DEF CommandInit, RunningInv
<1>2. RunningInv /\ ChainTypeOK => CommandTypeOK
  BY DEF RunningInv, Signed, CommandTypeOK
<1>. QED BY <1>1, <1>2, RunningNext, CommandsCallTheContracts, ChainTypeCorrect, PTL
         DEF CommandSpec
-----------------------------------------------------------------------------
(* What a command does. *)

LEMMA PlusIs ==
    ASSUME NEW D, NEW book \in [D -> Int], NEW k \in D, NEW n \in Int
    PROVE  /\ Plus(book, k, n) \in [D -> Int]
           /\ \A y \in D : Plus(book, k, n)[y] = book[y] + IF y = k THEN n ELSE 0
BY DEF Plus

LEMMA MinusIs ==
    ASSUME NEW D, NEW book \in [D -> Int], NEW k \in D, NEW n \in Nat
    PROVE  /\ Plus(book, k, -n) \in [D -> Int]
           /\ \A y \in D : Plus(book, k, -n)[y] = book[y] + IF y = k THEN -n ELSE 0
<1>. DEFINE d == -n
<1>1. d \in Int
  OBVIOUS
<1>. HIDE DEF d
<1>2. /\ Plus(book, k, d) \in [D -> Int]
      /\ \A y \in D : Plus(book, k, d)[y] = book[y] + IF y = k THEN d ELSE 0
  BY <1>1, PlusIs
<1>. QED BY <1>2 DEF d

(* A book that differs in one entry. *)
LEMMA BookIsPlus ==
    ASSUME NEW D, NEW book \in [D -> Int], NEW k \in D, NEW n \in Int,
           NEW f \in [D -> Int], \A y \in D : f[y] = book[y] + IF y = k THEN n ELSE 0
    PROVE  f = Plus(book, k, n)
<1>. DEFINE g == Plus(book, k, n)
<1>1. g \in [D -> Int] /\ \A y \in D : g[y] = book[y] + IF y = k THEN n ELSE 0
  BY PlusIs
<1>. HIDE DEF g
<1>2. \A y \in D : f[y] = g[y]
  BY <1>1
<1>3. f = g
  BY <1>1, <1>2
<1>. QED BY <1>3 DEF g

LEMMA BookIsLowered ==
    ASSUME NEW D, NEW book \in [D -> Int], NEW k \in D, NEW n \in Nat,
           NEW f \in [D -> Int],
           \A y \in D : book[y] - f[y] = IF y = k THEN n ELSE 0
    PROVE  f = Plus(book, k, -n)
<1>. DEFINE d == -n
<1>1. d \in Int
  OBVIOUS
<1>2. ASSUME NEW y \in D
      PROVE  f[y] = book[y] + IF y = k THEN d ELSE 0
  <2>1. book[y] \in Int /\ f[y] \in Int
    OBVIOUS
  <2>2. CASE y = k
    <3>1. book[y] - f[y] = n
      BY <2>2
    <3>. HIDE DEF d
    <3>2. f[y] = book[y] + d
      BY <2>1, <3>1 DEF d
    <3>. QED BY <2>2, <3>2
  <2>3. CASE y # k
    <3>1. book[y] - f[y] = 0
      BY <2>3
    <3>2. f[y] = book[y] + 0
      BY <2>1, <3>1
    <3>. HIDE DEF d
    <3>. QED BY <2>3, <3>2
  <2>. QED BY <2>2, <2>3
<1>. HIDE DEF d
<1>3. f = Plus(book, k, d)
  BY <1>1, <1>2, BookIsPlus
<1>. QED BY <1>3 DEF d

LEMMA UpdateIsPlus ==
    ASSUME NEW D, NEW book \in [D -> Nat], NEW k \in D, NEW n \in Int
    PROVE  UpdateBalance(k, n, book) = IF book[k] + n < 0 THEN Failed ELSE Plus(book, k, n)
BY DEF UpdateBalance, Plus

(* The books a command can write. *)
LEMMA LedgerTypes ==
    ASSUME ChainInv
    PROVE  /\ ledger \in KycLedger /\ externalLedger \in ExternalLedger
           /\ operators \in SUBSET KycOperator
           /\ CurrentBooks \in Books /\ BooksBalance(CurrentBooks)
           /\ fa2Ledger \in [FA2s -> FA2Ledger]
           /\ tokenMetadata \in [FA2s -> [TokenIds -> TokenInfos \cup {NoInfo}]]
<1>1. /\ ledger \in KycLedger /\ externalLedger \in ExternalLedger
      /\ operators \in SUBSET KycOperator
  BY DEF ChainInv, CustodianInv, CustodianTypeOK
<1>2. CurrentBooks \in Books
  BY <1>1 DEF CurrentBooks, Books
<1>3. BooksBalance(CurrentBooks)
  BY DEF ChainInv, CustodianInv, BalancedBooks
<1>4. fa2Ledger \in [FA2s -> FA2Ledger]
  BY DEF ChainInv, FA2Inv, FA2TypeOK
<1>5. tokenMetadata \in [FA2s -> [TokenIds -> TokenInfos \cup {NoInfo}]]
  BY DEF ChainInv, FA2Inv, FA2TypeOK
<1>. QED BY <1>1, <1>2, <1>3, <1>4, <1>5

WorldOf(f, d, p, e, g) ==
    [fa2 |-> f, defined |-> d, parties |-> p, external |-> e, grants |-> g]

LEMMA WorldIs == World = WorldOf(fa2Ledger, tokenMetadata, ledger, externalLedger, operators)
BY DEF World, WorldOf

LEMMA WorldBecomes ==
    World' = WorldOf(fa2Ledger', tokenMetadata', ledger', externalLedger', operators')
BY DEF World, WorldOf

LEMMA WorldWith ==
    ASSUME NEW f, NEW d, NEW p, NEW e, NEW g
    PROVE  /\ [World EXCEPT !.fa2 = f]
                 = WorldOf(f, tokenMetadata, ledger, externalLedger, operators)
           /\ [World EXCEPT !.defined = d]
                 = WorldOf(fa2Ledger, d, ledger, externalLedger, operators)
           /\ [World EXCEPT !.parties = p]
                 = WorldOf(fa2Ledger, tokenMetadata, p, externalLedger, operators)
           /\ [World EXCEPT !.parties = p, !.external = e]
                 = WorldOf(fa2Ledger, tokenMetadata, p, e, operators)
           /\ [World EXCEPT !.grants = g]
                 = WorldOf(fa2Ledger, tokenMetadata, ledger, externalLedger, g)
<1>1. [World EXCEPT !.fa2 = f]
         = WorldOf(f, tokenMetadata, ledger, externalLedger, operators)
  BY DEF World, WorldOf
<1>2. [World EXCEPT !.defined = d]
         = WorldOf(fa2Ledger, d, ledger, externalLedger, operators)
  BY DEF World, WorldOf
<1>3. [World EXCEPT !.parties = p]
         = WorldOf(fa2Ledger, tokenMetadata, p, externalLedger, operators)
  BY DEF World, WorldOf
<1>4. [World EXCEPT !.parties = p, !.external = e]
         = WorldOf(fa2Ledger, tokenMetadata, p, e, operators)
  <2>. DEFINE w == [World EXCEPT !.parties = p]
  <2>1. [World EXCEPT !.parties = p, !.external = e] = [w EXCEPT !.external = e]
    OBVIOUS
  <2>. HIDE DEF w
  <2>2. w = WorldOf(fa2Ledger, tokenMetadata, p, externalLedger, operators)
    BY <1>3 DEF w
  <2>3. [w EXCEPT !.external = e] = WorldOf(fa2Ledger, tokenMetadata, p, e, operators)
    BY <2>2 DEF WorldOf
  <2>. QED BY <2>1, <2>3
<1>5. [World EXCEPT !.grants = g]
         = WorldOf(fa2Ledger, tokenMetadata, ledger, externalLedger, g)
  BY DEF World, WorldOf
<1>. QED BY <1>1, <1>2, <1>3, <1>4, <1>5

(* A command done to one of the contracts it names is done. *)
LEMMA DoneByName ==
    ASSUME NEW asked, "operator" \notin DOMAIN asked, NEW c \in FA2s, c \in asked.fa2
    PROVE  DoneTo(asked, c) \subseteq Done(asked)
<1>1. c \in asked.fa2 \cap FA2s
  OBVIOUS
<1>. QED BY <1>1 DEF Done

LEMMA SyncIsDone ==
    ASSUME NEW c \in FA2s, NEW id, NEW named, c \in named, NEW asked,
           asked = [command |-> "internal_mint", fa2 |-> named, id |-> id],
           NEW new, new = CustodianView[<<c, id>>] - externalLedger[<<c, id>>]
    PROVE  WorldOf(fa2Ledger, tokenMetadata, Plus(ledger, <<Self, <<c, id>>>>, new),
                   Plus(externalLedger, <<c, id>>, new), operators) \in Done(asked)
<1>. DEFINE p == Plus(ledger, <<Self, <<c, id>>>>, new)
            e == Plus(externalLedger, <<c, id>>, new)
<1>1. "operator" \notin DOMAIN asked /\ asked.fa2 = named /\ asked.id = id
      /\ asked.command = "internal_mint"
  OBVIOUS
<1>2. DoneTo(asked, c) = {[World EXCEPT !.parties = p, !.external = e]}
  BY <1>1 DEF DoneTo
<1>. HIDE DEF p, e
<1>3. WorldOf(fa2Ledger, tokenMetadata, p, e, operators) \in DoneTo(asked, c)
  BY <1>2, WorldWith
<1>4. DoneTo(asked, c) \subseteq Done(asked)
  BY <1>1, DoneByName
<1>. QED BY <1>3, <1>4 DEF p, e

LEMMA InternalMintEffect ==
    ASSUME RunningInv, ChainInv, ExecuteInternalMint
    PROVE  World' \in Done(running.asked) /\ UNCHANGED outbox
<1>1. PICK a \in ContractAddresses, id \in TokenIds, named \in SUBSET ContractAddresses :
        /\ running.asked = [command |-> "internal_mint", fa2 |-> named, id |-> id]
        /\ a \in FA2s => a \in named
        /\ InternalMint(running.source, <<<<a, id>>>>, CustodianView)
  BY InternalMintDone
<1>. DEFINE t == <<a, id>>
            view == CustodianView
            new == view[t] - externalLedger[t]
            u == [token |-> t, amount |-> new]
            own == <<Self, t>>
<1>2. t \in Token /\ own \in Kycs \X Token
  BY CallersAssumption, CustodianAssumption DEF Token
<1>. HIDE DEF t
<1>3. InternalMint(running.source, <<t>>, view)
  BY <1>1 DEF t
<1>. HIDE DEF view, own
<1>4. /\ view[t] # NoView /\ view[t] >= externalLedger[t]
      /\ ledger' = ListFold(SyncStep, CurrentBooks, SyncUpdates(<<t>>, view)).ledger
      /\ externalLedger' =
            ListFold(SyncStep, CurrentBooks, SyncUpdates(<<t>>, view)).external_ledger
      /\ UNCHANGED <<operators, outbox>>
  BY <1>3 DEF InternalMint
<1>5. a \in FA2s /\ a \in named
  BY <1>1, <1>2, <1>4 DEF view, CustodianView, t
<1>6. view[t] \in Nat /\ externalLedger[t] \in Nat /\ new \in Nat
  <2>1. view[t] \in Nat \cup {NoView}
    BY <1>2, CustodianViewType DEF ChainInv, view
  <2>2. externalLedger[t] \in Nat
    BY <1>2, LedgerTypes DEF ExternalLedger
  <2>. QED BY <1>4, <2>1, <2>2
<1>7. u \in SyncUpdate
  BY <1>2, <1>6 DEF SyncUpdate
<1>8. SyncUpdates(<<t>>, view) = <<u>>
  BY DEF SyncUpdates
<1>. HIDE DEF u
<1>. DEFINE result == SyncStep[CurrentBooks][u]
<1>9. ListFold(SyncStep, CurrentBooks, <<u>>) = result
  <2>1. StaysIn(Books, SyncUpdate, SyncStep)
    BY SyncEffect DEF StaysIn
  <2>2. CurrentBooks \in Books /\ CurrentBooks # Failed
    BY LedgerTypes, BooksAssumption
  <2>. QED BY <1>7, <2>1, <2>2, FoldOfOne
<1>10. /\ result \in Books
       /\ \A key \in Kycs \X Token : result.ledger[key] =
             ledger[key] + IF key = own THEN new ELSE 0
       /\ \A s \in Token : result.external_ledger[s] =
             externalLedger[s] + IF s = t THEN new ELSE 0
  <2>1. u.token = t /\ u.amount = new
    BY DEF u
  <2>2. CurrentBooks.ledger = ledger /\ CurrentBooks.external_ledger = externalLedger
    BY DEF CurrentBooks
  <2>3. CurrentBooks \in Books
    BY LedgerTypes
  <2>. HIDE DEF new
  <2>. QED BY <1>7, <2>1, <2>2, <2>3, SyncEffect DEF own
<1>11. ledger' = result.ledger /\ externalLedger' = result.external_ledger
  BY <1>4, <1>8, <1>9
<1>. HIDE DEF result, new
<1>12. ledger' = Plus(ledger, own, new)
  <2>. DEFINE D == Kycs \X Token
  <2>1. ledger \in [D -> Int] /\ ledger' \in [D -> Int] /\ own \in D /\ new \in Int
    BY <1>2, <1>6, <1>10, <1>11, LedgerTypes DEF Books, KycLedger
  <2>2. \A key \in D : ledger'[key] = ledger[key] + IF key = own THEN new ELSE 0
    BY <1>10, <1>11
  <2>. HIDE DEF D
  <2>. QED BY <2>1, <2>2, BookIsPlus
<1>13. externalLedger' = Plus(externalLedger, t, new)
  <2>1. externalLedger \in [Token -> Int] /\ externalLedger' \in [Token -> Int]
    BY <1>10, <1>11, LedgerTypes DEF Books, ExternalLedger
  <2>2. \A s \in Token : externalLedger'[s] = externalLedger[s] + IF s = t THEN new ELSE 0
    BY <1>10, <1>11
  <2>. QED BY <1>2, <1>6, <2>1, <2>2, BookIsPlus
<1>14. UNCHANGED <<fa2Ledger, tokenMetadata>>
  BY InternalMintDone DEF OfCustodianAlone, fa2Vars
<1>15. WorldOf(fa2Ledger, tokenMetadata, Plus(ledger, own, new),
               Plus(externalLedger, t, new), operators) \in Done(running.asked)
  BY <1>1, <1>5, SyncIsDone DEF own, t, new, view
<1>. QED BY <1>4, <1>12, <1>13, <1>14, <1>15, WorldBecomes

(* What is not an FA2 contract's nobody owns. *)
LEMMA OnlyCreditsOwned ==
    ASSUME ChainInv, OnlyCreditsBooked, NEW t \in Token, t[1] \notin FA2s, NEW k \in Kycs
    PROVE  ledger[<<k, t>>] = 0
<1>. DEFINE f == Column(Kycs, ledger, t)
<1>1. ledger \in [Kycs \X Token -> Nat] /\ IsFiniteSet(Kycs)
  BY LedgerTypes, CustodianAssumption DEF KycLedger
<1>2. f \in [Kycs -> Nat] /\ f[k] = ledger[<<k, t>>]
  BY <1>1 DEF Column
<1>3. Total(f) = 0
  <2>1. Total(f) = externalLedger[t]
    BY LedgerTypes DEF BooksBalance, CurrentBooks
  <2>. QED BY <2>1 DEF OnlyCreditsBooked, OnlyCredits
<1>. HIDE DEF f
<1>4. f[k] <= Total(f)
  BY <1>1, <1>2, TotalBoundsEntry
<1>. QED BY <1>2, <1>3, <1>4

LEMMA TransferIsDone ==
    ASSUME NEW c \in FA2s, NEW id, NEW named, c \in named, NEW n, NEW from, NEW to,
           NEW asked,
           asked = [command |-> "internal_transfer", fa2 |-> named, id |-> id,
                    amount |-> n, from |-> from, to |-> to]
    PROVE  WorldOf(fa2Ledger, tokenMetadata,
                   Plus(Plus(ledger, <<Pack(from), <<c, id>>>>, -n),
                        <<Pack(to), <<c, id>>>>, n),
                   externalLedger, operators) \in Done(asked)
<1>. DEFINE p == Plus(Plus(ledger, <<Pack(from), <<c, id>>>>, -n), <<Pack(to), <<c, id>>>>, n)
<1>1. /\ "operator" \notin DOMAIN asked /\ asked.fa2 = named /\ asked.id = id
      /\ asked.command = "internal_transfer"
      /\ asked.amount = n /\ asked.from = from /\ asked.to = to
  OBVIOUS
<1>2. DoneTo(asked, c) = {[World EXCEPT !.parties = p]}
  BY <1>1 DEF DoneTo
<1>. HIDE DEF p
<1>3. WorldOf(fa2Ledger, tokenMetadata, p, externalLedger, operators) \in DoneTo(asked, c)
  BY <1>2, WorldWith
<1>4. DoneTo(asked, c) \subseteq Done(asked)
  BY <1>1, DoneByName
<1>. QED BY <1>3, <1>4 DEF p

LEMMA InternalTransferEffect ==
    ASSUME RunningInv, ChainInv, OnlyCreditsBooked, ExecuteInternalTransfer
    PROVE  (World' = World \/ World' \in Done(running.asked)) /\ UNCHANGED outbox
<1>1. PICK a \in ContractAddresses, id \in TokenIds,
           named \in SUBSET ContractAddresses, n \in Amounts, from \in Texts, to \in Texts :
        /\ running.asked = [command |-> "internal_transfer", fa2 |-> named,
                            id |-> id, amount |-> n, from |-> from, to |-> to]
        /\ a \in FA2s => a \in named
        /\ InternalTransfer(running.source,
              <<[from |-> Pack(from), to |-> Pack(to), token |-> <<a, id>>,
                 amount |-> n]>>)
  BY InternalTransferDone
<1>. DEFINE D == Kycs \X Token
            t == <<a, id>>
            tx == [from |-> Pack(from), to |-> Pack(to), token |-> t, amount |-> n]
            giver == <<Pack(from), t>>
            taker == <<Pack(to), t>>
            result == InternalTransferStep[ledger][tx]
<1>2. t \in Token /\ Pack(from) \in Kycs /\ Pack(to) \in Kycs /\ n \in Nat
  BY Packed, CallersAssumption, TezosAssumption DEF Token
<1>3. t[1] = a
  OBVIOUS
<1>. HIDE DEF t
<1>4. tx \in InternalTransferTx
  BY <1>2 DEF InternalTransferTx
<1>5. tx.from = Pack(from) /\ tx.to = Pack(to) /\ tx.token = t /\ tx.amount = n
  OBVIOUS
<1>6. InternalTransfer(running.source, <<tx>>)
  BY <1>1 DEF t
<1>. HIDE DEF tx
<1>7. /\ ledger' = result /\ result # Failed
      /\ UNCHANGED <<externalLedger, operators, outbox>>
  <2>1. /\ ListFold(InternalTransferStep, ledger, <<tx>>) # Failed
        /\ ledger' = ListFold(InternalTransferStep, ledger, <<tx>>)
        /\ UNCHANGED <<externalLedger, operators, outbox>>
    BY <1>6 DEF InternalTransfer
  <2>2. StaysIn(KycLedger, InternalTransferTx, InternalTransferStep)
    BY TransferKeepsTotals DEF StaysIn
  <2>3. ListFold(InternalTransferStep, ledger, <<tx>>)
           = IF ledger = Failed THEN Failed ELSE result
    BY <1>4, <2>2, LedgerTypes, FoldOfOne
  <2>. QED BY <2>1, <2>3
<1>8. ledger \in KycLedger /\ ledger' \in KycLedger
  <2>1. ledger \in KycLedger
    BY LedgerTypes
  <2>. QED BY <1>4, <1>7, <2>1, TransferKeepsTotals
<1>9. ASSUME NEW k \in Kycs, NEW s \in Token
      PROVE  ledger'[<<k, s>>] = ledger[<<k, s>>]
                + (IF s = t /\ k = Pack(to) THEN n ELSE 0)
                - (IF s = t /\ k = Pack(from) THEN n ELSE 0)
  <2>1. ledger'[<<k, s>>] = ledger[<<k, s>>] + Received(k, s)[tx]
    BY <1>4, <1>7, <1>8, TransferChanges
  <2>2. Received(k, s)[tx] = IF t # s THEN 0
           ELSE (IF Pack(to) = k THEN n ELSE 0) - (IF Pack(from) = k THEN n ELSE 0)
    BY <1>4, <1>5 DEF Received
  <2>3. ledger[<<k, s>>] \in Nat
    BY <1>8 DEF KycLedger
  <2>. QED BY <1>2, <2>1, <2>2, <2>3
<1>. HIDE DEF result
<1>10. UNCHANGED <<fa2Ledger, tokenMetadata>>
  BY InternalTransferDone DEF OfCustodianAlone, fa2Vars
<1>11. ASSUME NEW l, NEW m \in [D -> Int], l \in [D -> Int],
              \A k \in Kycs, s \in Token : l[<<k, s>>] = m[<<k, s>>]
       PROVE  l = m
  <2>1. \A key \in D : l[key] = m[key]
    BY <1>11
  <2>. HIDE DEF D
  <2>. QED BY <1>11, <2>1
<1>12. ledger \in [D -> Int] /\ ledger' \in [D -> Int]
  BY <1>8 DEF KycLedger
<1>13. CASE a \in FA2s
  <2>. DEFINE mid == Plus(ledger, giver, -n)
              end == Plus(mid, taker, n)
  <2>1. /\ mid \in [D -> Int]
        /\ \A y \in D : mid[y] = ledger[y] + IF y = giver THEN -n ELSE 0
    <3>1. giver \in D /\ n \in Nat
      BY <1>2
    <3>. HIDE DEF D, giver
    <3>. QED BY <1>12, <3>1, MinusIs
  <2>2. /\ end \in [D -> Int]
        /\ \A y \in D : end[y] = mid[y] + IF y = taker THEN n ELSE 0
    <3>1. taker \in D /\ n \in Int
      BY <1>2
    <3>. HIDE DEF D, taker, mid
    <3>. QED BY <2>1, <3>1, PlusIs
  <2>. HIDE DEF mid, end
  <2>3. ASSUME NEW k \in Kycs, NEW s \in Token
        PROVE  ledger'[<<k, s>>] = end[<<k, s>>]
    <3>1. <<k, s>> \in D
      OBVIOUS
    <3>2. end[<<k, s>>] = mid[<<k, s>>] + IF s = t /\ k = Pack(to) THEN n ELSE 0
      BY <2>2, <3>1
    <3>3. mid[<<k, s>>] = ledger[<<k, s>>] + IF s = t /\ k = Pack(from) THEN -n ELSE 0
      BY <2>1, <3>1
    <3>4. ledger[<<k, s>>] \in Int
      BY <1>12, <3>1
    <3>. QED BY <1>2, <1>9, <3>2, <3>3, <3>4
  <2>4. ledger' = end
    <3>. HIDE DEF D
    <3>. QED BY <1>11, <1>12, <2>2, <2>3
  <2>5. WorldOf(fa2Ledger, tokenMetadata, end, externalLedger, operators)
           \in Done(running.asked)
    BY <1>1, <1>13, TransferIsDone DEF end, mid, t
  <2>. QED BY <1>7, <1>10, <2>4, <2>5, WorldBecomes
<1>14. CASE a \notin FA2s
  <2>1. ledger[giver] = 0
    BY <1>2, <1>3, <1>14, OnlyCreditsOwned
  <2>2. Pack(from) = Pack(to) \/ n = 0
    <3>1. ledger'[giver] \in Nat
      BY <1>2, <1>8 DEF KycLedger
    <3>2. Pack(from) # Pack(to) => ledger'[giver] = 0 - n
      BY <1>2, <1>9, <2>1
    <3>. QED BY <1>2, <3>1, <3>2
  <2>3. ASSUME NEW k \in Kycs, NEW s \in Token
        PROVE  ledger'[<<k, s>>] = ledger[<<k, s>>]
    <3>1. ledger[<<k, s>>] \in Int
      BY <1>12
    <3>. QED BY <1>2, <1>9, <2>2, <3>1
  <2>4. ledger' = ledger
    <3>. HIDE DEF D
    <3>. QED BY <1>11, <1>12, <2>3
  <2>. QED BY <1>7, <1>10, <2>4, WorldIs, WorldBecomes
<1>. QED BY <1>7, <1>13, <1>14

LEMMA GrantIsDone ==
    ASSUME NEW add \in BOOLEAN, NEW owner, NEW id, NEW named, NEW operator \in named,
           NEW asked,
           asked = [command |-> IF add THEN "add_operator" ELSE "remove_operator",
                    operator |-> named, id |-> id, owner |-> owner],
           NEW g, g = [token_owner |-> Pack(owner), token_operator |-> operator,
                       token_id |-> id]
    PROVE  WorldOf(fa2Ledger, tokenMetadata, ledger, externalLedger,
                   IF add THEN operators \cup {g} ELSE operators \ {g}) \in Done(asked)
<1>. DEFINE grants == {[token_owner |-> Pack(asked.owner), token_operator |-> o,
                        token_id |-> asked.id] : o \in asked.operator}
            more == operators \cup {g}
            less == operators \ {g}
<1>1. /\ "operator" \in DOMAIN asked /\ asked.operator = named /\ asked.id = id
      /\ asked.owner = owner
      /\ asked.command = IF add THEN "add_operator" ELSE "remove_operator"
  OBVIOUS
<1>2. g \in grants
  BY <1>1
<1>3. Done(asked) = Granted(asked)
  BY <1>1 DEF Done
<1>. HIDE DEF grants
<1>4. Granted(asked) = IF asked.command = "add_operator"
                       THEN {[World EXCEPT !.grants = operators \cup {x}] : x \in grants}
                       ELSE {[World EXCEPT !.grants = operators \ {x}] : x \in grants}
  BY DEF Granted, grants
<1>5. CASE add
  <2>1. [World EXCEPT !.grants = more] \in Done(asked)
    BY <1>1, <1>2, <1>3, <1>4, <1>5
  <2>. HIDE DEF more
  <2>2. WorldOf(fa2Ledger, tokenMetadata, ledger, externalLedger, more) \in Done(asked)
    BY <2>1, WorldWith
  <2>. QED BY <1>5, <2>2 DEF more
<1>6. CASE ~add
  <2>1. [World EXCEPT !.grants = less] \in Done(asked)
    BY <1>1, <1>2, <1>3, <1>4, <1>6
  <2>. HIDE DEF less
  <2>2. WorldOf(fa2Ledger, tokenMetadata, ledger, externalLedger, less) \in Done(asked)
    BY <2>1, WorldWith
  <2>. QED BY <1>6, <2>2 DEF less
<1>. QED BY <1>5, <1>6

LEMMA UpdateOperatorsEffect ==
    ASSUME RunningInv, ChainInv, ExecuteUpdateOperators
    PROVE  (World' = World \/ World' \in Done(running.asked)) /\ UNCHANGED outbox
<1>1. PICK add \in BOOLEAN, owner \in Texts, operator \in Wallets, id \in TokenIds,
           named \in SUBSET Wallets :
        /\ running.asked =
              [command |-> IF add THEN "add_operator" ELSE "remove_operator",
               operator |-> named, id |-> id, owner |-> owner]
        /\ operator \in named
        /\ UpdateInternalOperators(running.source,
              <<[add |-> add,
                 operator |-> [token_owner |-> Pack(owner),
                               token_operator |-> operator, token_id |-> id]]>>)
  BY UpdateOperatorsDone
<1>. DEFINE g == [token_owner |-> Pack(owner), token_operator |-> operator, token_id |-> id]
            u == [add |-> add, operator |-> g]
            new == IF add THEN operators \cup {g} ELSE operators \ {g}
<1>2. g \in KycOperator
  BY Packed DEF KycOperator, Address
<1>. HIDE DEF g
<1>3. u \in KycOperatorUpdate /\ u.add = add /\ u.operator = g
  BY <1>2 DEF KycOperatorUpdate
<1>4. UpdateInternalOperators(running.source, <<u>>)
  BY <1>1 DEF g
<1>. HIDE DEF u
<1>5. /\ operators' = ListFold(KycOperatorStep, operators, <<u>>)
      /\ UNCHANGED <<ledger, externalLedger, outbox>>
  BY <1>4 DEF UpdateInternalOperators
<1>6. operators' = operators \/ operators' = new
  <2>. DEFINE Grants == SUBSET KycOperator
  <2>1. operators \in Grants
    BY LedgerTypes
  <2>2. StaysIn(Grants, KycOperatorUpdate, KycOperatorStep)
    BY DEF StaysIn, KycOperatorStep, KycOperatorUpdate
  <2>3. KycOperatorStep[operators][u] = new
    BY <1>3, <2>1 DEF KycOperatorStep
  <2>. HIDE DEF Grants, new
  <2>4. ListFold(KycOperatorStep, operators, <<u>>)
           = IF operators = Failed THEN Failed ELSE KycOperatorStep[operators][u]
    BY <1>3, <2>1, <2>2, FoldOfOne
  <2>. QED BY <1>5, <2>3, <2>4
<1>7. UNCHANGED <<fa2Ledger, tokenMetadata>>
  BY UpdateOperatorsDone DEF OfCustodianAlone, fa2Vars
<1>8. WorldOf(fa2Ledger, tokenMetadata, ledger, externalLedger, new) \in Done(running.asked)
  BY <1>1, GrantIsDone DEF g
<1>. HIDE DEF new
<1>. QED BY <1>5, <1>6, <1>7, <1>8, WorldIs, WorldBecomes

LEMMA MintIsDone ==
    ASSUME NEW c \in FA2s, NEW id, NEW n, NEW named, c \in named, NEW owners,
           NEW o \in owners, NEW asked,
           asked = [command |-> "mint", fa2 |-> named, id |-> id, amount |-> n,
                    owner |-> owners]
    PROVE  WorldOf([fa2Ledger EXCEPT ![c] = Plus(fa2Ledger[c], <<o, id>>, n)],
                   tokenMetadata, ledger, externalLedger, operators) \in Done(asked)
<1>. DEFINE f(x) == [fa2Ledger EXCEPT ![c] = Plus(fa2Ledger[c], <<x, id>>, n)]
            new == f(o)
<1>1. /\ "operator" \notin DOMAIN asked /\ asked.fa2 = named /\ asked.id = id
      /\ asked.command = "mint" /\ asked.amount = n /\ asked.owner = owners
  OBVIOUS
<1>2. DoneTo(asked, c) = {[World EXCEPT !.fa2 = f(x)] : x \in owners}
  BY <1>1 DEF DoneTo
<1>3. [World EXCEPT !.fa2 = new] \in DoneTo(asked, c)
  BY <1>2
<1>. HIDE DEF new
<1>4. WorldOf(new, tokenMetadata, ledger, externalLedger, operators) \in DoneTo(asked, c)
  BY <1>3, WorldWith
<1>5. DoneTo(asked, c) \subseteq Done(asked)
  BY <1>1, DoneByName
<1>. QED BY <1>4, <1>5 DEF new

LEMMA MintEffect ==
    ASSUME RunningInv, ChainInv, ExecuteMint
    PROVE  World' \in Done(running.asked) /\ UNCHANGED outbox
<1>1. PICK id \in TokenIds, o \in Address, n \in Amounts, named \in SUBSET FA2s,
           owners \in SUBSET Address :
        /\ running.asked = [command |-> "mint", fa2 |-> named, id |-> id, amount |-> n,
                            owner |-> owners]
        /\ running.target \in named /\ o \in owners
        /\ Mint(running.target, running.source,
                <<[owner |-> o, token_id |-> id, amount |-> n]>>)
  BY MintDone
<1>. DEFINE c == running.target
            e == [owner |-> o, token_id |-> id, amount |-> n]
            new == Plus(fa2Ledger[c], <<o, id>>, n)
<1>2. e \in Entry /\ e.owner = o /\ e.token_id = id /\ e.amount = n /\ n \in Nat
  BY TezosAssumption DEF Entry
<1>. HIDE DEF e
<1>3. /\ fa2Ledger' = [fa2Ledger EXCEPT ![c] = ListFold(CreditStep, fa2Ledger[c], <<e>>)]
      /\ UNCHANGED tokenMetadata
  BY <1>1 DEF Mint, e
<1>4. c \in FA2s /\ UNCHANGED <<ledger, externalLedger, operators, outbox>>
  BY MintDone DEF OfFA2Alone, custodianVars
<1>. HIDE DEF c
<1>5. fa2Ledger[c] \in FA2Ledger
  BY <1>4, LedgerTypes
<1>6. ListFold(CreditStep, fa2Ledger[c], <<e>>) = new
  <2>1. fa2Ledger[c] # Failed
    BY <1>5, FailureAssumption
  <2>2. ListFold(CreditStep, fa2Ledger[c], <<e>>) = CreditStep[fa2Ledger[c]][e]
    BY <1>2, <1>5, <2>1, CreditStaysIn, FoldOfOne
  <2>3. CreditStep[fa2Ledger[c]][e] = UpdateBalance(<<o, id>>, n, fa2Ledger[c])
    BY <1>2, <1>5 DEF CreditStep
  <2>. DEFINE l == fa2Ledger[c]
              key == <<o, id>>
  <2>4. l \in [Address \X TokenIds -> Nat] /\ key \in Address \X TokenIds
    BY <1>5, LedgerShape
  <2>. HIDE DEF l, key
  <2>5. UpdateBalance(key, n, l) = Plus(l, key, n)
    <3>1. l[key] \in Nat
      BY <2>4
    <3>2. ~(l[key] + n < 0) /\ n \in Int
      BY <1>2, <3>1
    <3>. DEFINE D == Address \X TokenIds
    <3>3. l \in [D -> Nat] /\ key \in D
      BY <2>4
    <3>. HIDE DEF D
    <3>4. UpdateBalance(key, n, l) = IF l[key] + n < 0 THEN Failed ELSE Plus(l, key, n)
      BY <3>2, <3>3, UpdateIsPlus
    <3>. QED BY <3>2, <3>4
  <2>. QED BY <2>2, <2>3, <2>5 DEF l, key
<1>7. WorldOf([fa2Ledger EXCEPT ![c] = new], tokenMetadata, ledger, externalLedger,
              operators) \in Done(running.asked)
  BY <1>1, <1>4, MintIsDone DEF c
<1>. HIDE DEF new
<1>. QED BY <1>3, <1>4, <1>6, <1>7, WorldBecomes

LEMMA AddTokenIsDone ==
    ASSUME NEW c \in FA2s, NEW id, NEW info, NEW named, c \in named, NEW asked,
           asked = [command |-> "add_token", fa2 |-> named, id |-> id, info |-> info]
    PROVE  WorldOf(fa2Ledger,
                   [tokenMetadata EXCEPT ![c] = [tokenMetadata[c] EXCEPT ![id] = info]],
                   ledger, externalLedger, operators) \in Done(asked)
<1>. DEFINE new == [tokenMetadata EXCEPT ![c] = [tokenMetadata[c] EXCEPT ![id] = info]]
<1>1. /\ "operator" \notin DOMAIN asked /\ asked.fa2 = named /\ asked.id = id
      /\ asked.command = "add_token" /\ asked.info = info
  OBVIOUS
<1>2. DoneTo(asked, c) = {[World EXCEPT !.defined = new]}
  BY <1>1 DEF DoneTo
<1>. HIDE DEF new
<1>3. WorldOf(fa2Ledger, new, ledger, externalLedger, operators) \in DoneTo(asked, c)
  BY <1>2, WorldWith
<1>4. DoneTo(asked, c) \subseteq Done(asked)
  BY <1>1, DoneByName
<1>. QED BY <1>3, <1>4 DEF new

LEMMA AddTokenEffect ==
    ASSUME RunningInv, ChainInv, ExecuteAddTokenId
    PROVE  World' \in Done(running.asked) /\ UNCHANGED outbox
<1>1. PICK id \in TokenIds, info \in TokenInfos, named \in SUBSET FA2s :
        /\ running.asked = [command |-> "add_token", fa2 |-> named, id |-> id,
                            info |-> info]
        /\ running.target \in named
        /\ AddTokenId(running.target, running.source, <<[token_id |-> id, info |-> info]>>)
  BY AddTokenDone
<1>. DEFINE c == running.target
            d == [token_id |-> id, info |-> info]
            Defined == [TokenIds -> TokenInfos \cup {NoInfo}]
            new == [tokenMetadata[c] EXCEPT ![id] = info]
<1>2. d \in TokenMetadata /\ d.token_id = id /\ d.info = info
  BY DEF TokenMetadata
<1>. HIDE DEF d
<1>3. /\ ListFold(AddTokenStep, tokenMetadata[c], <<d>>) # Failed
      /\ tokenMetadata' = [tokenMetadata EXCEPT ![c] =
                             ListFold(AddTokenStep, tokenMetadata[c], <<d>>)]
      /\ UNCHANGED fa2Ledger
  BY <1>1 DEF AddTokenId, d
<1>4. c \in FA2s /\ UNCHANGED <<ledger, externalLedger, operators, outbox>>
  BY AddTokenDone DEF OfFA2Alone, custodianVars
<1>. HIDE DEF c
<1>5. ListFold(AddTokenStep, tokenMetadata[c], <<d>>) = new
  <2>1. tokenMetadata[c] \in Defined
    BY <1>4, LedgerTypes
  <2>2. StaysIn(Defined, TokenMetadata, AddTokenStep)
    BY DEF StaysIn, AddTokenStep, TokenMetadata
  <2>3. AddTokenStep[tokenMetadata[c]][d] =
           IF tokenMetadata[c][id] # NoInfo THEN Failed ELSE new
    BY <1>2, <2>1 DEF AddTokenStep
  <2>. HIDE DEF Defined, new
  <2>4. ListFold(AddTokenStep, tokenMetadata[c], <<d>>)
           = IF tokenMetadata[c] = Failed THEN Failed ELSE AddTokenStep[tokenMetadata[c]][d]
    BY <1>2, <2>1, <2>2, FoldOfOne
  <2>. QED BY <1>3, <2>3, <2>4
<1>6. WorldOf(fa2Ledger, [tokenMetadata EXCEPT ![c] = new], ledger, externalLedger,
              operators) \in Done(running.asked)
  BY <1>1, <1>4, AddTokenIsDone DEF c
<1>. HIDE DEF new
<1>. QED BY <1>3, <1>4, <1>5, <1>6, WorldBecomes

(* A retirement of one kind of credits of one party. *)
OneRetirement(a, id, k, n) ==
    <<[token_address |-> a, txs |-> <<[from |-> k, token_id |-> id, amount |-> n]>>]>>

LEMMA RetiredByOne ==
    ASSUME NEW a, NEW id, NEW k, NEW n \in Nat, NEW t, t \in Token
    PROVE  RetiredBy(RetireOperations(OneRetirement(a, id, k, n)), t)
              = IF t = <<a, id>> THEN n ELSE 0
<1>. DEFINE groups == OneRetirement(a, id, k, n)
            txs == <<[owner |-> CustodianContract, token_id |-> id, amount |-> n]>>
            op == [entrypoint |-> "retire", target |-> a, txs |-> txs]
            m == IF id = t[2] THEN n ELSE 0
            q == IF a = t[1] THEN m ELSE 0
            inner == [j \in DOMAIN txs |-> IF txs[j].token_id = t[2]
                                           THEN txs[j].amount ELSE 0]
<1>1. /\ DOMAIN groups = {1} /\ groups[1].token_address = a
      /\ DOMAIN groups[1].txs = {1}
      /\ groups[1].txs[1].token_id = id /\ groups[1].txs[1].amount = n
  BY DEF OneRetirement
<1>. HIDE DEF groups
<1>2. /\ DOMAIN RetireOperations(groups) = {1}
      /\ RetireOperations(groups)[1].entrypoint = "retire"
      /\ RetireOperations(groups)[1].target = a
      /\ RetireOperations(groups)[1].txs = [j \in {1} |-> txs[1]]
  BY <1>1 DEF RetireOperations
<1>3. [j \in {1} |-> txs[1]] = txs
  OBVIOUS
<1>4. m \in Int /\ q \in Int
  OBVIOUS
<1>5. inner = [j \in {1} |-> m]
  OBVIOUS
<1>. HIDE DEF inner, m, txs
<1>6. Total(inner) = m
  BY <1>4, <1>5, TotalOfOne
<1>. DEFINE ops == RetireOperations(groups)
            outer == [i \in DOMAIN ops |->
                        IF ops[i].entrypoint = "retire" /\ ops[i].target = t[1]
                        THEN Total([j \in DOMAIN ops[i].txs |->
                                IF ops[i].txs[j].token_id = t[2]
                                THEN ops[i].txs[j].amount ELSE 0])
                        ELSE 0]
<1>7. DOMAIN ops = {1} /\ ops[1].entrypoint = "retire" /\ ops[1].target = a
      /\ ops[1].txs = txs
  BY <1>2, <1>3
<1>. HIDE DEF ops
<1>8. outer[1] = q
  <2>1. [j \in DOMAIN ops[1].txs |-> IF ops[1].txs[j].token_id = t[2]
                                     THEN ops[1].txs[j].amount ELSE 0] = inner
    BY <1>7 DEF inner
  <2>. QED BY <1>6, <1>7, <2>1
<1>9. outer = [i \in {1} |-> q]
  <2>1. outer = [i \in {1} |-> outer[i]]
    BY <1>7
  <2>. HIDE DEF outer, q
  <2>2. \A i \in {1} : outer[i] = q
    BY <1>8
  <2>. QED BY <2>1, <2>2
<1>10. RetiredBy(ops, t) = Total(outer)
  BY DEF RetiredBy
<1>. HIDE DEF outer
<1>11. Total(outer) = q
  <2>. HIDE DEF q
  <2>. QED BY <1>4, <1>9, TotalOfOne
<1>12. t = <<a, id>> <=> t[1] = a /\ t[2] = id
  BY DEF Token
<1>. QED BY <1>10, <1>11, <1>12 DEF ops, m, groups

LEMMA EventOfOne ==
    ASSUME NEW a, NEW id, NEW k, NEW n \in Nat, NEW t, t \in Token, NEW l, l \in Kycs
    PROVE  RetireEvents(OneRetirement(a, id, k, n))[<<l, t>>]
              = IF l = k /\ t = <<a, id>> THEN n ELSE 0
<1>. DEFINE groups == OneRetirement(a, id, k, n)
            txs == <<[from |-> k, token_id |-> id, amount |-> n]>>
            m == IF k = l /\ id = t[2] THEN n ELSE 0
            q == IF a = t[1] THEN m ELSE 0
            inner == [j \in DOMAIN txs |-> IF txs[j].from = l /\ txs[j].token_id = t[2]
                                           THEN txs[j].amount ELSE 0]
            outer == [i \in DOMAIN groups |->
                        IF groups[i].token_address = t[1]
                        THEN Total([j \in DOMAIN groups[i].txs |->
                                IF groups[i].txs[j].from = l /\ groups[i].txs[j].token_id = t[2]
                                THEN groups[i].txs[j].amount ELSE 0])
                        ELSE 0]
<1>1. DOMAIN groups = {1} /\ groups[1].token_address = a /\ groups[1].txs = txs
  BY DEF OneRetirement
<1>2. m \in Int /\ q \in Int
  OBVIOUS
<1>3. inner = [j \in {1} |-> m]
  OBVIOUS
<1>4. RetireEvents(groups)[<<l, t>>] = Total(outer)
  <2>. DEFINE key == <<l, t>>
  <2>1. key \in Kycs \X Token /\ key[1] = l /\ key[2] = t
    OBVIOUS
  <2>. HIDE DEF key, groups
  <2>2. RetireEvents(groups)[key] = Total(outer)
    BY <2>1 DEF RetireEvents
  <2>. QED BY <2>2 DEF key
<1>. HIDE DEF inner, m, txs, groups
<1>5. Total(inner) = m
  BY <1>2, <1>3, TotalOfOne
<1>6. outer[1] = q
  <2>1. [j \in DOMAIN groups[1].txs |->
            IF groups[1].txs[j].from = l /\ groups[1].txs[j].token_id = t[2]
            THEN groups[1].txs[j].amount ELSE 0] = inner
    BY <1>1 DEF inner
  <2>. QED BY <1>1, <1>5, <2>1
<1>7. outer = [i \in {1} |-> q]
  <2>1. outer = [i \in {1} |-> outer[i]]
    BY <1>1
  <2>. HIDE DEF outer, q
  <2>2. \A i \in {1} : outer[i] = q
    BY <1>6
  <2>. QED BY <2>1, <2>2
<1>. HIDE DEF outer
<1>8. Total(outer) = q
  <2>. HIDE DEF q
  <2>. QED BY <1>2, <1>7, TotalOfOne
<1>9. t = <<a, id>> <=> t[1] = a /\ t[2] = id
  BY DEF Token
<1>. QED BY <1>4, <1>8, <1>9 DEF m, groups

LEMMA RetirementIsDone ==
    ASSUME NEW c \in FA2s, NEW id, NEW named, c \in named, NEW n, NEW from, NEW asked,
           asked = [command |-> "retire", fa2 |-> named, id |-> id, amount |-> n,
                    from |-> from]
    PROVE  WorldOf(fa2Ledger, tokenMetadata, Plus(ledger, <<Pack(from), <<c, id>>>>, -n),
                   Plus(externalLedger, <<c, id>>, -n), operators) \in Done(asked)
<1>. DEFINE p == Plus(ledger, <<Pack(from), <<c, id>>>>, -n)
            e == Plus(externalLedger, <<c, id>>, -n)
<1>1. /\ "operator" \notin DOMAIN asked /\ asked.fa2 = named /\ asked.id = id
      /\ asked.command = "retire" /\ asked.amount = n /\ asked.from = from
  OBVIOUS
<1>2. DoneTo(asked, c) = {[World EXCEPT !.parties = p, !.external = e]}
  BY <1>1 DEF DoneTo
<1>. HIDE DEF p, e
<1>3. WorldOf(fa2Ledger, tokenMetadata, p, e, operators) \in DoneTo(asked, c)
  BY <1>2, WorldWith
<1>4. DoneTo(asked, c) \subseteq Done(asked)
  BY <1>1, DoneByName
<1>. QED BY <1>3, <1>4 DEF p, e

LEMMA RetireEffect ==
    ASSUME RunningInv, ChainInv, ChainInv', ExecuteRetire
    PROVE  World' \in Done(running.asked) /\ RetiresAsNamed(running.asked)
<1>1. PICK a \in ContractAddresses, id \in TokenIds,
           named \in SUBSET ContractAddresses, kyc \in Texts, n \in Amounts :
        /\ running.asked = [command |-> "retire", fa2 |-> named, id |-> id,
                            amount |-> n, from |-> kyc]
        /\ a \in named
        /\ CallRetire(running.source,
              <<[token_address |-> a,
                 txs |-> <<[from |-> Pack(kyc), token_id |-> id, amount |-> n]>>]>>)
  BY RetireDone
<1>. DEFINE D == Kycs \X Token
            k == Pack(kyc)
            t == <<a, id>>
            key == <<k, t>>
            groups == OneRetirement(a, id, k, n)
<1>2. t \in Token /\ k \in Kycs /\ key \in D /\ n \in Nat /\ -n \in Int
  BY Packed, CallersAssumption, TezosAssumption DEF Token
<1>3. groups \in Retirements
  <2>1. [from |-> k, token_id |-> id, amount |-> n] \in RetireTx
    BY <1>2 DEF RetireTx
  <2>. QED BY <2>1, RetirementOfOne DEF OneRetirement
<1>4. CallRetire(running.source, groups)
  BY <1>1 DEF OneRetirement
<1>5. groups[1].token_address = a /\ 1 \in DOMAIN groups
  BY DEF OneRetirement
<1>6. /\ \A s \in Token : RetiredBy(RetireOperations(groups), s) = IF s = t THEN n ELSE 0
      /\ \A l \in Kycs, s \in Token :
            RetireEvents(groups)[<<l, s>>] = IF l = k /\ s = t THEN n ELSE 0
  BY <1>2, RetiredByOne, EventOfOne
<1>. HIDE DEF groups
<1>7. /\ Retire(running.source, groups) /\ a \in FA2s
      /\ outbox' = RetireOperations(groups)
      /\ UNCHANGED <<operators, fa2Ledger, tokenMetadata>>
  BY <1>4, <1>5 DEF CallRetire, RetireCall, Retire, Emit, fa2Vars
<1>8. /\ \A s \in Token : RetiredBy(RetireOperations(groups), s) =
            externalLedger[s] - externalLedger'[s]
      /\ \A s \in Token, l \in Kycs : RetireEvents(groups)[<<l, s>>] =
            ledger[<<l, s>>] - ledger'[<<l, s>>]
  BY <1>3, <1>7, RetireTakes DEF ChainInv
<1>9. /\ ledger \in [D -> Int] /\ ledger' \in [D -> Int]
      /\ externalLedger \in [Token -> Int] /\ externalLedger' \in [Token -> Int]
  BY DEF ChainInv, CustodianInv, CustodianTypeOK, KycLedger, ExternalLedger
<1>. HIDE DEF t, k
<1>10. ledger' = Plus(ledger, key, -n)
  <2>1. ASSUME NEW y \in D
        PROVE  ledger[y] - ledger'[y] = IF y = key THEN n ELSE 0
    <3>1. PICK l \in Kycs, s \in Token : y = <<l, s>>
      OBVIOUS
    <3>2. ledger[<<l, s>>] - ledger'[<<l, s>>] = IF l = k /\ s = t THEN n ELSE 0
      BY <1>6, <1>8
    <3>3. y = key <=> l = k /\ s = t
      BY <3>1
    <3>. QED BY <3>1, <3>2, <3>3
  <2>. HIDE DEF D, key
  <2>. QED BY <1>2, <1>9, <2>1, BookIsLowered
<1>11. externalLedger' = Plus(externalLedger, t, -n)
  <2>1. \A s \in Token :
           externalLedger[s] - externalLedger'[s] = IF s = t THEN n ELSE 0
    BY <1>6, <1>8
  <2>. QED BY <1>2, <1>9, <2>1, BookIsLowered
<1>12. WorldOf(fa2Ledger, tokenMetadata, Plus(ledger, key, -n),
               Plus(externalLedger, t, -n), operators) \in Done(running.asked)
  BY <1>1, <1>7, RetirementIsDone DEF t, k
<1>13. RetiresAsNamed(running.asked)
  <2>1. /\ running.asked.command = "retire" /\ a \in running.asked.fa2 \cap FA2s
        /\ running.asked.id = id /\ running.asked.amount = n
    BY <1>1, <1>7
  <2>2. \A s \in Token : RetiredBy(outbox', s) =
           IF s = <<a, running.asked.id>> THEN running.asked.amount ELSE 0
    BY <1>6, <1>7, <2>1 DEF t
  <2>. QED BY <2>1, <2>2 DEF RetiresAsNamed
<1>. HIDE DEF key
<1>. QED BY <1>7, <1>10, <1>11, <1>12, <1>13, WorldBecomes

(***************************************************************************)
(* Every command that is given does what its words say, or nothing: the    *)
(* parties' balances, the external ledger, the grants, the FA2 ledgers and *)
(* token ids change by exactly that, and exactly that is emitted.          *)
(***************************************************************************)
THEOREM EffectsAreAsNamed == CommandSpec => EffectAsNamed
<1>. DEFINE Effect ==
        /\ World' = World \/ World' \in Done(running.asked)
        /\ outbox' # outbox => RetiresAsNamed(running.asked)
<1>1. CommandInit => RunningInv /\ ChainInit /\ ChainInv /\ OnlyCreditsBooked
  BY ChainInitInv
     DEF CommandInit, RunningInv, OnlyCreditsBooked, OnlyCredits, ChainInit, CustodianInit
<1>2. RunningInv /\ ChainInv /\ OnlyCreditsBooked /\ [CommandNext]_commandVars
         => ChainInv' /\ OnlyCreditsBooked'
  BY CommandStep, ChainNextInv, OnlyCreditsNext
<1>3. ASSUME RunningInv, ChainInv, ChainInv', OnlyCreditsBooked,
             [CommandNext]_commandVars, running # NoCommand, running' = NoCommand
      PROVE  Effect
  <2>1. ASSUME Fail PROVE Effect
    <3>1. UNCHANGED <<fa2Ledger, tokenMetadata, ledger, externalLedger, operators, outbox>>
      BY <2>1 DEF Fail, chainVars, fa2Vars, custodianVars
    <3>. QED BY <3>1, WorldIs, WorldBecomes
  <2>2. \/ ExecuteInternalMint \/ ExecuteInternalTransfer
        \/ ExecuteUpdateOperators \/ ExecuteRetire
        \/ ExecuteMint \/ ExecuteAddTokenId \/ Fail
    BY <1>3 DEF CommandNext, Submit, commandVars
  <2>. QED BY <1>3, <2>1, <2>2, InternalMintEffect, InternalTransferEffect,
              UpdateOperatorsEffect, RetireEffect, MintEffect, AddTokenEffect
<1>4. RunningInv /\ ChainInv /\ ChainInv' /\ OnlyCreditsBooked /\ [CommandNext]_commandVars
         => [running # NoCommand /\ running' = NoCommand => Effect]_commandVars
  <2>. HIDE DEF Effect
  <2>. QED BY <1>3
<1>. QED BY <1>1, <1>2, <1>4, RunningNext, PTL DEF CommandSpec, EffectAsNamed

=============================================================================
