--------------------------- MODULE ContractProofs ---------------------------
(***************************************************************************)
(* The two contracts, each on its own.  The FA2 contracts keep their types *)
(* and conserve credits, for any owners, token ids and amounts and for     *)
(* lists of any length; the custodian's books balance, its debits have     *)
(* authority, and its events tell its ledger, for any parties, tokens,     *)
(* callers and lists, and whatever the FA2 contracts answer.               *)
(***************************************************************************)
EXTENDS FA2, CustodianEvents, OperatorProofs

-----------------------------------------------------------------------------
(* The FA2 contracts *)

(* Ledger l and retirements r of a contract account for what n was minted. *)
Accounted(l, r, n) ==
    \A id \in TokenIds :
        Total(Column(Address, l, id)) + Total(Column(Address, r, id)) = n[id]

FA2Inv == FA2TypeOK /\ SupplyConserved

LEMMA AddressFinite == IsFiniteSet(Address)
<1>1. IsFiniteSet({CustodianContract})
  BY FS_Singleton
<1>. QED BY <1>1, TezosAssumption, FS_Union DEF Address

(* An FA2 ledger as the lemmas on balances know it. *)
LEMMA LedgerShape == FA2Ledger = [Address \X TokenIds -> Nat]
BY DEF FA2Ledger, Owner

LEMMA TotalsAreNat ==
    ASSUME NEW l \in FA2Ledger, NEW id \in TokenIds
    PROVE  Total(Column(Address, l, id)) \in Nat
<1>1. l \in [Address \X TokenIds -> Nat] /\ IsFiniteSet(Address)
  BY AddressFinite, LedgerShape
<1>. QED BY <1>1, ColumnType

-----------------------------------------------------------------------------
(* The steps of the folds. *)

LEMMA TransferStepKeeps ==
    ASSUME NEW l \in FA2Ledger, NEW tx \in TransferTx, TransferStep[l][tx] # Failed
    PROVE  /\ TransferStep[l][tx] \in FA2Ledger
           /\ \A id \in TokenIds : Total(Column(Address, TransferStep[l][tx], id))
                                      = Total(Column(Address, l, id))
<1>1. /\ tx.to \in Address /\ tx.from \in Address /\ tx.token_id \in TokenIds
      /\ tx.amount \in Nat
  BY TezosAssumption DEF TransferTx
<1>2. l \in [Address \X TokenIds -> Nat] /\ IsFiniteSet(Address)
  BY AddressFinite, LedgerShape
<1>3. TransferStep[l][tx] =
         UpdateBalance(<<tx.from, tx.token_id>>, -tx.amount,
            UpdateBalance(<<tx.to, tx.token_id>>, tx.amount, l))
  BY DEF TransferStep
<1>4. Shifts(Address, TokenIds, l, TransferStep[l][tx], tx.token_id, 0)
  BY <1>1, <1>2, <1>3, MoveKeepsTotals
<1>5. \A id \in TokenIds : Total(Column(Address, l, id)) \in Nat
  BY TotalsAreNat
<1>. QED BY <1>4, <1>5, LedgerShape DEF Shifts

LEMMA CreditShifts ==
    ASSUME NEW l \in FA2Ledger, NEW e \in Entry
    PROVE  Shifts(Address, TokenIds, l, CreditStep[l][e], e.token_id, e.amount)
<1>1. e.owner \in Address /\ e.token_id \in TokenIds /\ e.amount \in Nat
  BY TezosAssumption DEF Entry
<1>5. e.amount \in Int
  BY <1>1
<1>2. l \in [Address \X TokenIds -> Nat] /\ IsFiniteSet(Address)
  BY AddressFinite, LedgerShape
<1>3. l[<<e.owner, e.token_id>>] + e.amount >= 0
  BY <1>1, <1>2
<1>4. CreditStep[l][e] = UpdateBalance(<<e.owner, e.token_id>>, e.amount, l)
  BY DEF CreditStep
<1>. QED BY <1>1, <1>2, <1>3, <1>4, <1>5, BalanceShift

LEMMA RetireShifts ==
    ASSUME NEW l \in FA2Ledger, NEW e \in Entry, RetireStep[l][e] # Failed
    PROVE  Shifts(Address, TokenIds, l, RetireStep[l][e], e.token_id, -e.amount)
<1>1. e.owner \in Address /\ e.token_id \in TokenIds /\ e.amount \in Nat
  BY TezosAssumption DEF Entry
<1>5. -e.amount \in Int
  BY <1>1
<1>2. l \in [Address \X TokenIds -> Nat] /\ IsFiniteSet(Address)
  BY AddressFinite, LedgerShape
<1>3. RetireStep[l][e] = UpdateBalance(<<e.owner, e.token_id>>, -e.amount, l)
  BY DEF RetireStep
<1>4. l[<<e.owner, e.token_id>>] + (-e.amount) >= 0
  BY <1>1, <1>2, <1>3 DEF UpdateBalance
<1>. QED BY <1>1, <1>2, <1>3, <1>4, <1>5, BalanceShift

LEMMA ShiftStaysLedger ==
    ASSUME NEW l \in FA2Ledger, NEW m, NEW id, NEW d,
           Shifts(Address, TokenIds, l, m, id, d)
    PROVE  m \in FA2Ledger
BY LedgerShape DEF Shifts

LEMMA CreditStaysIn == StaysIn(FA2Ledger, Entry, CreditStep)
<1>1. \A l \in FA2Ledger, e \in Entry : CreditStep[l][e] \in FA2Ledger
  BY CreditShifts, ShiftStaysLedger
<1>. QED BY <1>1 DEF StaysIn

LEMMA RetireStaysIn == StaysIn(FA2Ledger, Entry, RetireStep)
<1>1. \A l \in FA2Ledger, e \in Entry :
         RetireStep[l][e] # Failed => RetireStep[l][e] \in FA2Ledger
  BY RetireShifts, ShiftStaysLedger
<1>. QED BY <1>1 DEF StaysIn

LEMMA TallyShifts ==
    ASSUME NEW n \in Tally, NEW e \in Entry
    PROVE  /\ TallyStep[n][e] \in Tally
           /\ \A id \in TokenIds : TallyStep[n][e][id] =
                 n[id] + IF id = e.token_id THEN e.amount ELSE 0
<1>1. e.token_id \in TokenIds /\ e.amount \in Nat
  BY TezosAssumption DEF Entry
<1>2. TallyStep[n][e] = [n EXCEPT ![e.token_id] = @ + e.amount]
  BY DEF TallyStep
<1>. QED BY <1>1, <1>2 DEF Tally

-----------------------------------------------------------------------------
(* The folds. *)

LEMMA TransfersConserve ==
    ASSUME NEW l \in FA2Ledger, NEW r, NEW n, Accounted(l, r, n),
           NEW txs \in Seq(TransferTx), ListFold(TransferStep, l, txs) # Failed
    PROVE  /\ ListFold(TransferStep, l, txs) \in FA2Ledger
           /\ Accounted(ListFold(TransferStep, l, txs), r, n)
<1>. DEFINE Level == {m \in FA2Ledger : Accounted(m, r, n)}
<1>1. StaysIn(Level, TransferTx, TransferStep)
  <2>. SUFFICES ASSUME NEW m \in Level, NEW tx \in TransferTx,
                       TransferStep[m][tx] # Failed
                PROVE  TransferStep[m][tx] \in Level
    BY DEF StaysIn
  <2>. QED BY TransferStepKeeps DEF Accounted
<1>2. l \in Level
  OBVIOUS
<1>3. ListFold(TransferStep, l, txs) \in Level
  <2>. HIDE DEF Level
  <2>. QED BY <1>1, <1>2, FoldStaysIn
<1>. QED BY <1>3

(* Minting: the ledger grows by as much as the tally of what was minted. *)
LEMMA MintsConserve ==
    ASSUME NEW l \in FA2Ledger, NEW r \in FA2Ledger, NEW n \in Tally,
           Accounted(l, r, n), NEW entries \in Seq(Entry)
    PROVE  /\ ListFold(CreditStep, l, entries) \in FA2Ledger
           /\ ListFold(TallyStep, n, entries) \in Tally
           /\ Accounted(ListFold(CreditStep, l, entries), r,
                        ListFold(TallyStep, n, entries))
<1>. DEFINE R == {p \in [left : FA2Ledger, right : Tally] :
                     Accounted(p.left, r, p.right)}
<1>1. \A m \in FA2Ledger, e \in Entry : CreditStep[m][e] \in FA2Ledger
  BY CreditShifts, ShiftStaysLedger
<1>2. \A k \in Tally, e \in Entry : TallyStep[k][e] \in Tally
  BY TallyShifts
<1>3. ListFold(CreditStep, l, entries) \in FA2Ledger
  BY <1>1, FoldNeverFails
<1>4. ListFold(CreditStep, l, entries) # Failed
  BY <1>3, FailureAssumption
<1>5. Abreast(R, Entry, CreditStep, TallyStep)
  <2>. SUFFICES ASSUME NEW p \in R, NEW e \in Entry
                PROVE  [left |-> CreditStep[p.left][e],
                        right |-> TallyStep[p.right][e]] \in R
    BY DEF Abreast
  <2>1. p.left \in FA2Ledger /\ p.right \in Tally /\ Accounted(p.left, r, p.right)
    OBVIOUS
  <2>2. /\ e.amount \in Nat
        /\ \A id \in TokenIds : /\ Total(Column(Address, p.left, id)) \in Nat
                                /\ Total(Column(Address, r, id)) \in Nat
                                /\ p.right[id] \in Nat
    BY <2>1, TotalsAreNat, TezosAssumption DEF Entry, Tally
  <2>3. Accounted(CreditStep[p.left][e], r, TallyStep[p.right][e])
    <3>1. \A id \in TokenIds : Total(Column(Address, CreditStep[p.left][e], id)) =
             Total(Column(Address, p.left, id)) + IF id = e.token_id THEN e.amount ELSE 0
      BY <2>1, CreditShifts DEF Shifts
    <3>2. \A id \in TokenIds : TallyStep[p.right][e][id] =
             p.right[id] + IF id = e.token_id THEN e.amount ELSE 0
      BY <2>1, TallyShifts
    <3>. QED BY <2>1, <2>2, <3>1, <3>2 DEF Accounted
  <2>. QED BY <1>1, <1>2, <2>1, <2>3
<1>6. R \in SUBSET [left : FA2Ledger, right : Tally] /\ [left |-> l, right |-> n] \in R
  OBVIOUS
<1>7. StaysIn(FA2Ledger, Entry, CreditStep) /\ StaysIn(Tally, Entry, TallyStep)
  BY <1>1, <1>2 DEF StaysIn
<1>8. [left |-> ListFold(CreditStep, l, entries),
       right |-> ListFold(TallyStep, n, entries)] \in R
  <2>. HIDE DEF R
  <2>. QED BY <1>4, <1>5, <1>6, <1>7, FailureAssumption, FoldsAbreast
<1>. QED BY <1>8

(* Retiring: the ledger falls by as much as the %retire events report. *)
LEMMA RetirementsConserve ==
    ASSUME NEW l \in FA2Ledger, NEW r \in FA2Ledger, NEW n \in Tally,
           Accounted(l, r, n), NEW entries \in Seq(Entry),
           ListFold(RetireStep, l, entries) # Failed
    PROVE  /\ ListFold(RetireStep, l, entries) \in FA2Ledger
           /\ ListFold(CreditStep, r, entries) \in FA2Ledger
           /\ Accounted(ListFold(RetireStep, l, entries),
                        ListFold(CreditStep, r, entries), n)
<1>. DEFINE R == {p \in [left : FA2Ledger, right : FA2Ledger] :
                     Accounted(p.left, p.right, n)}
<1>1. Abreast(R, Entry, RetireStep, CreditStep)
  <2>. SUFFICES ASSUME NEW p \in R, NEW e \in Entry, RetireStep[p.left][e] # Failed
                PROVE  [left |-> RetireStep[p.left][e],
                        right |-> CreditStep[p.right][e]] \in R
    BY DEF Abreast
  <2>1. p.left \in FA2Ledger /\ p.right \in FA2Ledger /\ Accounted(p.left, p.right, n)
    OBVIOUS
  <2>2. /\ e.amount \in Nat
        /\ \A id \in TokenIds : /\ Total(Column(Address, p.left, id)) \in Nat
                                /\ Total(Column(Address, p.right, id)) \in Nat
    BY <2>1, TotalsAreNat, TezosAssumption DEF Entry
  <2>3. /\ Shifts(Address, TokenIds, p.left, RetireStep[p.left][e], e.token_id, -e.amount)
        /\ Shifts(Address, TokenIds, p.right, CreditStep[p.right][e], e.token_id, e.amount)
    BY <2>1, RetireShifts, CreditShifts
  <2>4. Accounted(RetireStep[p.left][e], CreditStep[p.right][e], n)
    <3>1. \A id \in TokenIds : Total(Column(Address, RetireStep[p.left][e], id)) =
             Total(Column(Address, p.left, id)) + IF id = e.token_id THEN -e.amount ELSE 0
      BY <2>3 DEF Shifts
    <3>2. \A id \in TokenIds : Total(Column(Address, CreditStep[p.right][e], id)) =
             Total(Column(Address, p.right, id)) + IF id = e.token_id THEN e.amount ELSE 0
      BY <2>3 DEF Shifts
    <3>. QED BY <2>1, <2>2, <3>1, <3>2 DEF Accounted
  <2>5. RetireStep[p.left][e] \in FA2Ledger /\ CreditStep[p.right][e] \in FA2Ledger
    BY <2>1, <2>3, ShiftStaysLedger
  <2>. QED BY <2>4, <2>5
<1>2. R \in SUBSET [left : FA2Ledger, right : FA2Ledger] /\ [left |-> l, right |-> r] \in R
  OBVIOUS
<1>3. [left |-> ListFold(RetireStep, l, entries),
       right |-> ListFold(CreditStep, r, entries)] \in R
  <2>. HIDE DEF R
  <2>. QED BY <1>1, <1>2, RetireStaysIn, CreditStaysIn, FailureAssumption, FoldsAbreast
<1>. QED BY <1>3

-----------------------------------------------------------------------------
(* The invariant holds of contracts as they are originated. *)
LEMMA Originated == FA2Init => FA2Inv
<1>. SUFFICES ASSUME FA2Init PROVE FA2Inv
  OBVIOUS
<1>1. FA2TypeOK
  BY DEF FA2Init, FA2TypeOK, Address, FA2Ledger, Tally
<1>2. ASSUME NEW l \in FA2Ledger, l = [o \in Owner |-> 0], NEW id \in TokenIds
      PROVE  Total(Column(Address, l, id)) = 0
  <2>1. \A o \in Address : Column(Address, l, id)[o] = 0
    BY <1>2 DEF Column, Owner
  <2>2. Column(Address, l, id) \in [Address -> Nat]
    BY AddressFinite, LedgerShape, ColumnType
  <2>. QED BY <2>1, <2>2, AddressFinite, TotalZero
<1>3. SupplyConserved
  <2>. SUFFICES ASSUME NEW c \in FA2s, NEW id \in TokenIds
                PROVE  Total(Column(Address, fa2Ledger[c], id))
                         + Total(Column(Address, fa2Retired[c], id)) = minted[c][id]
    BY DEF SupplyConserved
  <2>1. /\ fa2Ledger[c] = [o \in Owner |-> 0] /\ fa2Ledger[c] \in FA2Ledger
        /\ fa2Retired[c] = [o \in Owner |-> 0] /\ fa2Retired[c] \in FA2Ledger
        /\ minted[c][id] = 0
    BY DEF FA2Init, FA2Ledger
  <2>2. /\ Total(Column(Address, fa2Ledger[c], id)) = 0
        /\ Total(Column(Address, fa2Retired[c], id)) = 0
    BY <2>1, <1>2
  <2>. QED BY <2>1, <2>2
<1>. QED BY <1>1, <1>3 DEF FA2Inv

(* What a contract's books are, and what a step that rewrites one's leaves. *)
LEMMA BooksOf ==
    ASSUME FA2Inv, NEW c \in FA2s
    PROVE  /\ fa2Ledger[c] \in FA2Ledger
           /\ fa2Retired[c] \in FA2Ledger
           /\ minted[c] \in Tally
           /\ Accounted(fa2Ledger[c], fa2Retired[c], minted[c])
BY DEF FA2Inv, FA2TypeOK, SupplyConserved, Accounted

LEMMA OneContract ==
    ASSUME FA2Inv, NEW c \in FA2s, NEW l \in FA2Ledger, NEW r \in FA2Ledger,
           NEW n \in Tally, Accounted(l, r, n),
           fa2Ledger' = [fa2Ledger EXCEPT ![c] = l],
           fa2Retired' = [fa2Retired EXCEPT ![c] = r],
           minted' = [minted EXCEPT ![c] = n]
    PROVE  /\ fa2Ledger' \in [FA2s -> FA2Ledger]
           /\ fa2Retired' \in [FA2s -> FA2Ledger]
           /\ minted' \in [FA2s -> Tally]
           /\ SupplyConserved'
<1>1. /\ fa2Ledger \in [FA2s -> FA2Ledger]
      /\ fa2Retired \in [FA2s -> FA2Ledger]
      /\ minted \in [FA2s -> Tally]
  BY DEF FA2Inv, FA2TypeOK
<1>2. ASSUME NEW d \in FA2s
      PROVE  Accounted(fa2Ledger'[d], fa2Retired'[d], minted'[d])
  <2>1. CASE d = c
    BY <1>1, <2>1
  <2>2. CASE d # c
    <3>1. /\ fa2Ledger'[d] = fa2Ledger[d]
          /\ fa2Retired'[d] = fa2Retired[d]
          /\ minted'[d] = minted[d]
      BY <1>1, <2>2
    <3>. QED BY <3>1, BooksOf
  <2>. QED BY <2>1, <2>2
<1>3. SupplyConserved'
  BY <1>2 DEF SupplyConserved, Accounted
<1>. QED BY <1>1, <1>3

(* A step that leaves the credits alone has only its types to answer for. *)
LEMMA CreditsAlone ==
    ASSUME FA2Inv, UNCHANGED <<fa2Ledger, minted, fa2Retired>>
    PROVE  /\ fa2Ledger' \in [FA2s -> FA2Ledger]
           /\ fa2Retired' \in [FA2s -> FA2Ledger]
           /\ minted' \in [FA2s -> Tally]
           /\ SupplyConserved'
<1>1. /\ fa2Ledger' \in [FA2s -> FA2Ledger]
      /\ fa2Retired' \in [FA2s -> FA2Ledger]
      /\ minted' \in [FA2s -> Tally]
  BY DEF FA2Inv, FA2TypeOK
<1>2. SupplyConserved'
  BY DEF FA2Inv, SupplyConserved
<1>. QED BY <1>1, <1>2

-----------------------------------------------------------------------------
(* One lemma for each entrypoint. *)

LEMMA TransferInv ==
    ASSUME FA2Inv, NEW c \in FA2s, NEW caller \in Address,
           NEW txs \in Seq(TransferTx), Transfer(c, caller, txs)
    PROVE  FA2Inv'
<1>. DEFINE l == ListFold(TransferStep, fa2Ledger[c], txs)
<1>1. /\ l # Failed
      /\ fa2Ledger' = [fa2Ledger EXCEPT ![c] = l]
  BY DEF Transfer, TransferResult
<1>2. /\ sender' = caller
      /\ UNCHANGED <<oracle, fa2Operators, tokenMetadata, metadata, minted,
                     fa2Retired>>
  BY DEF Transfer
<1>4. l \in FA2Ledger /\ Accounted(l, fa2Retired[c], minted[c])
  BY <1>1, BooksOf, TransfersConserve
<1>5. /\ fa2Retired' = [fa2Retired EXCEPT ![c] = fa2Retired[c]]
      /\ minted' = [minted EXCEPT ![c] = minted[c]]
  BY <1>2 DEF FA2Inv, FA2TypeOK
<1>. HIDE DEF l
<1>6. /\ fa2Ledger' \in [FA2s -> FA2Ledger]
      /\ fa2Retired' \in [FA2s -> FA2Ledger]
      /\ minted' \in [FA2s -> Tally]
      /\ SupplyConserved'
  BY <1>1, <1>4, <1>5, BooksOf, OneContract
<1>. QED BY <1>2, <1>6 DEF FA2Inv, FA2TypeOK

LEMMA UpdateOperatorsInv ==
    ASSUME FA2Inv, NEW c \in FA2s, NEW caller \in Address,
           NEW updates \in Seq(OperatorUpdate),
           UpdateOperators(c, caller, updates)
    PROVE  FA2Inv'
<1>. DEFINE new == ListFold(OperatorStep, fa2Operators[c], updates)
<1>1. /\ fa2Operators' = [fa2Operators EXCEPT ![c] = new]
      /\ sender' = caller
      /\ UNCHANGED <<oracle, fa2Ledger, tokenMetadata, metadata, minted,
                     fa2Retired>>
  BY DEF UpdateOperators
<1>2. \A ops \in SUBSET FA2Operator, u \in OperatorUpdate :
         OperatorStep[ops][u] \in SUBSET FA2Operator
  BY DEF OperatorStep, OperatorUpdate
<1>3. new \in SUBSET FA2Operator
  <2>1. fa2Operators[c] \in SUBSET FA2Operator
    BY DEF FA2Inv, FA2TypeOK
  <2>. QED BY <1>2, <2>1, FoldNeverFails
<1>. HIDE DEF new
<1>4. fa2Operators' \in [FA2s -> SUBSET FA2Operator]
  BY <1>1, <1>3 DEF FA2Inv, FA2TypeOK
<1>5. /\ fa2Ledger' \in [FA2s -> FA2Ledger]
      /\ fa2Retired' \in [FA2s -> FA2Ledger]
      /\ minted' \in [FA2s -> Tally]
      /\ SupplyConserved'
  BY <1>1, CreditsAlone
<1>. QED BY <1>1, <1>4, <1>5 DEF FA2Inv, FA2TypeOK

LEMMA MintInv ==
    ASSUME FA2Inv, NEW c \in FA2s, NEW caller \in Address,
           NEW entries \in Seq(Entry), Mint(c, caller, entries)
    PROVE  FA2Inv'
<1>. DEFINE l == ListFold(CreditStep, fa2Ledger[c], entries)
            n == ListFold(TallyStep, minted[c], entries)
<1>1. /\ fa2Ledger' = [fa2Ledger EXCEPT ![c] = l]
      /\ minted' = [minted EXCEPT ![c] = n]
      /\ sender' = caller
      /\ UNCHANGED <<oracle, fa2Operators, tokenMetadata, metadata, fa2Retired>>
  BY DEF Mint
<1>3. l \in FA2Ledger /\ n \in Tally /\ Accounted(l, fa2Retired[c], n)
  BY BooksOf, MintsConserve
<1>4. fa2Retired' = [fa2Retired EXCEPT ![c] = fa2Retired[c]]
  BY <1>1 DEF FA2Inv, FA2TypeOK
<1>. HIDE DEF l, n
<1>5. /\ fa2Ledger' \in [FA2s -> FA2Ledger]
      /\ fa2Retired' \in [FA2s -> FA2Ledger]
      /\ minted' \in [FA2s -> Tally]
      /\ SupplyConserved'
  BY <1>1, <1>3, <1>4, BooksOf, OneContract
<1>. QED BY <1>1, <1>5 DEF FA2Inv, FA2TypeOK

LEMMA RetireTokensInv ==
    ASSUME FA2Inv, NEW c \in FA2s, NEW caller \in Address,
           NEW entries \in Seq(Entry), RetireTokens(c, caller, entries)
    PROVE  FA2Inv'
<1>. DEFINE l == ListFold(RetireStep, fa2Ledger[c], entries)
            r == ListFold(CreditStep, fa2Retired[c], entries)
<1>1. /\ l # Failed
      /\ fa2Ledger' = [fa2Ledger EXCEPT ![c] = l]
  BY DEF RetireTokens, RetireResult
<1>2. /\ fa2Retired' = [fa2Retired EXCEPT ![c] = r]
      /\ sender' = caller
      /\ UNCHANGED <<oracle, fa2Operators, tokenMetadata, metadata, minted>>
  BY DEF RetireTokens
<1>4. l \in FA2Ledger /\ r \in FA2Ledger /\ Accounted(l, r, minted[c])
  BY <1>1, BooksOf, RetirementsConserve
<1>5. minted' = [minted EXCEPT ![c] = minted[c]]
  BY <1>2 DEF FA2Inv, FA2TypeOK
<1>. HIDE DEF l, r
<1>6. /\ fa2Ledger' \in [FA2s -> FA2Ledger]
      /\ fa2Retired' \in [FA2s -> FA2Ledger]
      /\ minted' \in [FA2s -> Tally]
      /\ SupplyConserved'
  BY <1>1, <1>2, <1>4, <1>5, BooksOf, OneContract
<1>. QED BY <1>2, <1>6 DEF FA2Inv, FA2TypeOK

LEMMA AddTokenIdInv ==
    ASSUME FA2Inv, NEW c \in FA2s, NEW caller \in Address,
           NEW definitions \in Seq(TokenMetadata),
           AddTokenId(c, caller, definitions)
    PROVE  FA2Inv'
<1>. DEFINE new == ListFold(AddTokenStep, tokenMetadata[c], definitions)
            Defined == [TokenIds -> TokenInfos \cup {NoInfo}]
<1>1. /\ new # Failed
      /\ tokenMetadata' = [tokenMetadata EXCEPT ![c] = new]
      /\ sender' = caller
      /\ UNCHANGED <<oracle, fa2Ledger, fa2Operators, metadata, minted,
                     fa2Retired>>
  BY DEF AddTokenId
<1>2. StaysIn(Defined, TokenMetadata, AddTokenStep)
  BY DEF StaysIn, AddTokenStep, TokenMetadata
<1>3. new \in Defined
  <2>1. tokenMetadata[c] \in Defined
    BY DEF FA2Inv, FA2TypeOK
  <2>. HIDE DEF Defined
  <2>2. new \in Defined \cup {Failed}
    BY <1>2, <2>1, FoldStaysIn
  <2>. QED BY <1>1, <2>2
<1>. HIDE DEF new
<1>4. tokenMetadata' \in [FA2s -> Defined]
  BY <1>1, <1>3 DEF FA2Inv, FA2TypeOK
<1>5. /\ fa2Ledger' \in [FA2s -> FA2Ledger]
      /\ fa2Retired' \in [FA2s -> FA2Ledger]
      /\ minted' \in [FA2s -> Tally]
      /\ SupplyConserved'
  BY <1>1, CreditsAlone
<1>. QED BY <1>1, <1>4, <1>5 DEF FA2Inv, FA2TypeOK

LEMMA AdministrationInv ==
    ASSUME FA2Inv, NEW c \in FA2s, NEW caller \in Address,
           \/ \E new \in Metadata : UpdateContractMetadata(c, caller, new)
           \/ \E newOracle \in Address : UpdateOracle(c, caller, newOracle)
    PROVE  FA2Inv'
<1>1. /\ sender' = caller
      /\ oracle' \in [FA2s -> Address] /\ metadata' \in [FA2s -> Metadata]
      /\ UNCHANGED <<fa2Ledger, fa2Operators, tokenMetadata, minted, fa2Retired>>
  BY DEF UpdateContractMetadata, UpdateOracle, FA2Inv, FA2TypeOK
<1>2. /\ fa2Ledger' \in [FA2s -> FA2Ledger]
      /\ fa2Retired' \in [FA2s -> FA2Ledger]
      /\ minted' \in [FA2s -> Tally]
      /\ SupplyConserved'
  BY <1>1, CreditsAlone
<1>. QED BY <1>1, <1>2 DEF FA2Inv, FA2TypeOK

-----------------------------------------------------------------------------
(* Any entrypoint, called by anybody. *)
LEMMA FA2CallInv ==
    ASSUME FA2Inv, NEW c \in FA2s, NEW caller \in Address, FA2Call(c, caller)
    PROVE  FA2Inv'
<1>1. CASE \E txs \in Batches(TransferTx) : Transfer(c, caller, txs)
  BY <1>1, TransferInv, BatchesAreSequences
<1>2. CASE \E updates \in Batches(OperatorUpdate) : UpdateOperators(c, caller, updates)
  BY <1>2, UpdateOperatorsInv, BatchesAreSequences
<1>3. CASE \E entries \in Batches(Entry) : Mint(c, caller, entries)
  BY <1>3, MintInv, BatchesAreSequences
<1>4. CASE \E entries \in Batches(Entry) : RetireTokens(c, caller, entries)
  BY <1>4, RetireTokensInv, BatchesAreSequences
<1>5. CASE \E definitions \in Batches(TokenMetadata) : AddTokenId(c, caller, definitions)
  BY <1>5, AddTokenIdInv, BatchesAreSequences
<1>6. CASE \/ \E new \in Metadata : UpdateContractMetadata(c, caller, new)
           \/ \E newOracle \in Address : UpdateOracle(c, caller, newOracle)
  BY <1>6, AdministrationInv
<1>. QED BY <1>1, <1>2, <1>3, <1>4, <1>5, <1>6 DEF FA2Call

LEMMA FA2StutterInv ==
    ASSUME FA2Inv, UNCHANGED fa2Vars, sender' \in Address
    PROVE  FA2Inv'
<1>1. FA2TypeOK'
  BY DEF FA2Inv, FA2TypeOK, fa2Vars
<1>2. SupplyConserved'
  BY CreditsAlone DEF fa2Vars
<1>. QED BY <1>1, <1>2 DEF FA2Inv

LEMMA FA2Inductive == FA2Inv /\ [FA2Next]_<<sender, fa2Vars>> => FA2Inv'
<1>. SUFFICES ASSUME FA2Inv, [FA2Next]_<<sender, fa2Vars>> PROVE FA2Inv'
  OBVIOUS
<1>1. CASE UNCHANGED <<sender, fa2Vars>>
  <2>1. sender' \in Address
    BY <1>1 DEF FA2Inv, FA2TypeOK
  <2>. QED BY <1>1, <2>1, FA2StutterInv
<1>2. CASE FA2Next
  BY <1>2, FA2CallInv DEF FA2Next
<1>. QED BY <1>1, <1>2

(* The contracts' variables keep their types: in particular no balance and *)
(* no sum of retirements is ever negative, whatever the lists called with. *)
THEOREM FA2TypeCorrect == FA2Spec => []FA2TypeOK
<1>1. FA2Inv => FA2TypeOK
  BY DEF FA2Inv
<1>. QED BY Originated, FA2Inductive, <1>1, PTL DEF FA2Spec

(***************************************************************************)
(* Whatever an oracle has minted of a token is in somebody's balance or    *)
(* has left in a %retire event: the folds of transfer, mint_tokens and     *)
(* retire_tokens over update_balance neither create nor lose credits.      *)
(***************************************************************************)
THEOREM CreditsConserved == FA2Spec => []SupplyConserved
<1>1. FA2Inv => SupplyConserved
  BY DEF FA2Inv
<1>. QED BY Originated, FA2Inductive, <1>1, PTL DEF FA2Spec

-----------------------------------------------------------------------------
(* Token ids. *)

(* Defining token ids leaves the ids that are defined as they are. *)
LEMMA AddTokenIdKeeps ==
    ASSUME FA2Inv, NEW c \in FA2s, NEW caller \in Address,
           NEW definitions \in Seq(TokenMetadata),
           AddTokenId(c, caller, definitions),
           NEW d \in FA2s, NEW id \in TokenIds, tokenMetadata[d][id] # NoInfo
    PROVE  tokenMetadata'[d][id] = tokenMetadata[d][id]
<1>. DEFINE Defined == [TokenIds -> TokenInfos \cup {NoInfo}]
            info == tokenMetadata[c][id]
            Keep == {m \in Defined : info # NoInfo => m[id] = info}
            new == ListFold(AddTokenStep, tokenMetadata[c], definitions)
<1>1. new # Failed /\ tokenMetadata' = [tokenMetadata EXCEPT ![c] = new]
  BY DEF AddTokenId
<1>2. tokenMetadata \in [FA2s -> Defined]
  BY DEF FA2Inv, FA2TypeOK
<1>3. StaysIn(Keep, TokenMetadata, AddTokenStep)
  <2>. SUFFICES ASSUME NEW m \in Keep, NEW e \in TokenMetadata,
                       AddTokenStep[m][e] # Failed
                PROVE  AddTokenStep[m][e] \in Keep
    BY DEF StaysIn
  <2>1. m \in Defined /\ e.token_id \in TokenIds /\ e.info \in TokenInfos
    BY DEF TokenMetadata
  <2>2. m[e.token_id] = NoInfo /\ AddTokenStep[m][e] = [m EXCEPT ![e.token_id] = e.info]
    BY <2>1 DEF AddTokenStep
  <2>. QED BY <2>1, <2>2
<1>4. tokenMetadata[c] \in Keep
  BY <1>2
<1>5. new \in Keep
  <2>. HIDE DEF Keep
  <2>. QED BY <1>1, <1>3, <1>4, FoldStaysIn
<1>. HIDE DEF new
<1>. QED BY <1>1, <1>2, <1>5

LEMMA CallKeepsDefinitions ==
    ASSUME FA2Inv, NEW c \in FA2s, NEW caller \in Address, FA2Call(c, caller),
           NEW d \in FA2s, NEW id \in TokenIds, tokenMetadata[d][id] # NoInfo
    PROVE  tokenMetadata'[d][id] = tokenMetadata[d][id]
<1>1. CASE \E definitions \in Batches(TokenMetadata) : AddTokenId(c, caller, definitions)
  BY <1>1, AddTokenIdKeeps, BatchesAreSequences
<1>2. CASE UNCHANGED tokenMetadata
  BY <1>2
<1>. QED BY <1>1, <1>2
         DEF FA2Call, Transfer, UpdateOperators, Mint, RetireTokens,
             UpdateContractMetadata, UpdateOracle

(* Minting tallies nothing of an id that is not defined. *)
MintedDefined ==
    \A c \in FA2s, id \in TokenIds :
        tokenMetadata[c][id] = NoInfo => minted[c][id] = 0

LEMMA MintTalliesDefined ==
    ASSUME FA2Inv, MintedDefined, NEW c \in FA2s, NEW caller \in Address,
           NEW entries \in Seq(Entry), Mint(c, caller, entries)
    PROVE  MintedDefined'
<1>. DEFINE Known == {e \in Entry : tokenMetadata[c][e.token_id] # NoInfo}
            Level == {n \in Tally : \A id \in TokenIds :
                                       tokenMetadata[c][id] = NoInfo => n[id] = 0}
            new == ListFold(TallyStep, minted[c], entries)
<1>1. /\ minted' = [minted EXCEPT ![c] = new]
      /\ UNCHANGED tokenMetadata
      /\ \A i \in DOMAIN entries : tokenMetadata[c][entries[i].token_id] # NoInfo
  BY DEF Mint
<1>2. \A n \in Level, e \in Known : TallyStep[n][e] \in Level
  <2>. SUFFICES ASSUME NEW n \in Level, NEW e \in Known
                PROVE  TallyStep[n][e] \in Level
    OBVIOUS
  <2>1. /\ TallyStep[n][e] \in Tally
        /\ \A id \in TokenIds : TallyStep[n][e][id] =
              n[id] + IF id = e.token_id THEN e.amount ELSE 0
    BY TallyShifts
  <2>2. ASSUME NEW id \in TokenIds, tokenMetadata[c][id] = NoInfo
        PROVE  TallyStep[n][e][id] = 0
    <3>1. id # e.token_id /\ n[id] = 0
      BY <2>2
    <3>. QED BY <2>1, <3>1
  <2>. QED BY <2>1, <2>2
<1>3. entries \in Seq(Known)
  <2>1. \A i \in DOMAIN entries : entries[i] \in Known
    BY <1>1
  <2>. HIDE DEF Known
  <2>. QED BY <2>1, ListOf
<1>4. minted \in [FA2s -> Tally] /\ minted[c] \in Level
  BY DEF FA2Inv, FA2TypeOK, MintedDefined
<1>5. new \in Level
  <2>. HIDE DEF Known, Level
  <2>. QED BY <1>2, <1>3, <1>4, FoldNeverFails
<1>. HIDE DEF new
<1>. QED BY <1>1, <1>4, <1>5 DEF MintedDefined

(* Any other call mints nothing and undefines no id. *)
LEMMA CallKeepsMintedDefined ==
    ASSUME FA2Inv, MintedDefined, NEW c \in FA2s, NEW caller \in Address,
           FA2Call(c, caller)
    PROVE  MintedDefined'
<1>1. CASE \E entries \in Batches(Entry) : Mint(c, caller, entries)
  BY <1>1, MintTalliesDefined, BatchesAreSequences
<1>2. CASE UNCHANGED minted
  <2>1. \A d \in FA2s, id \in TokenIds :
           tokenMetadata'[d][id] = NoInfo => tokenMetadata[d][id] = NoInfo
    BY CallKeepsDefinitions
  <2>. QED BY <1>2, <2>1 DEF MintedDefined
<1>. QED BY <1>1, <1>2
         DEF FA2Call, Transfer, UpdateOperators, RetireTokens, AddTokenId,
             UpdateContractMetadata, UpdateOracle

(* Of what has not been minted nobody has a balance. *)
LEMMA HeldIsMinted ==
    ASSUME FA2Inv, NEW c \in FA2s, NEW o \in Address, NEW id \in TokenIds
    PROVE  fa2Ledger[c][<<o, id>>] <= minted[c][id]
<1>1. /\ fa2Ledger[c] \in FA2Ledger /\ fa2Retired[c] \in FA2Ledger
      /\ Total(Column(Address, fa2Ledger[c], id))
            + Total(Column(Address, fa2Retired[c], id)) = minted[c][id]
  BY BooksOf DEF Accounted
<1>2. /\ Total(Column(Address, fa2Ledger[c], id)) \in Nat
      /\ Total(Column(Address, fa2Retired[c], id)) \in Nat
  BY <1>1, TotalsAreNat
<1>3. Column(Address, fa2Ledger[c], id) \in [Address -> Nat]
  BY <1>1, AddressFinite, LedgerShape, ColumnType
<1>4. Column(Address, fa2Ledger[c], id)[o] <= Total(Column(Address, fa2Ledger[c], id))
  BY <1>3, AddressFinite, TotalBoundsEntry
<1>5. fa2Ledger[c][<<o, id>>] = Column(Address, fa2Ledger[c], id)[o]
      /\ fa2Ledger[c][<<o, id>>] \in Nat
  BY <1>1, LedgerShape DEF Column
<1>. QED BY <1>1, <1>2, <1>4, <1>5

LEMMA MintedDefinedInductive ==
    /\ FA2Init => MintedDefined
    /\ FA2Inv /\ MintedDefined /\ [FA2Next]_<<sender, fa2Vars>> => MintedDefined'
<1>1. FA2Init => MintedDefined
  BY DEF FA2Init, MintedDefined
<1>2. ASSUME FA2Inv, MintedDefined, [FA2Next]_<<sender, fa2Vars>>
      PROVE  MintedDefined'
  <2>1. CASE UNCHANGED <<sender, fa2Vars>>
    BY <1>2, <2>1 DEF fa2Vars, MintedDefined
  <2>2. CASE FA2Next
    BY <1>2, <2>2, CallKeepsMintedDefined DEF FA2Next
  <2>. QED BY <1>2, <2>1, <2>2
<1>. QED BY <1>1, <1>2

(***************************************************************************)
(* mint_tokens checks each token id of its list against the ids defined,   *)
(* and nothing else puts credits into an id that has none: whoever holds a *)
(* token can look up what it stands for.                                   *)
(***************************************************************************)
THEOREM HeldTokensDefined == FA2Spec => []OnlyDefinedTokensHeld
<1>1. FA2Inv /\ MintedDefined => OnlyDefinedTokensHeld
  <2>. SUFFICES ASSUME FA2Inv, MintedDefined,
                       NEW c \in FA2s, NEW o \in Address, NEW id \in TokenIds,
                       fa2Ledger[c][<<o, id>>] > 0
                PROVE  tokenMetadata[c][id] # NoInfo
    BY DEF OnlyDefinedTokensHeld
  <2>1. fa2Ledger[c][<<o, id>>] <= minted[c][id]
    BY HeldIsMinted
  <2>2. fa2Ledger[c][<<o, id>>] \in Nat
    BY LedgerShape, BooksOf
  <2>. QED BY <2>1, <2>2 DEF MintedDefined
<1>. QED BY <1>1, Originated, FA2Inductive, MintedDefinedInductive, PTL DEF FA2Spec

(* add_token_id fails on an id that is in use, be it in use since an earlier*)
(* call or an earlier element of the same list, so no call redefines one.  *)
THEOREM DefinitionsFixed == FA2Spec => TokenMetadataFixed
<1>1. FA2Inv /\ [FA2Next]_<<sender, fa2Vars>>
         => [\A c \in FA2s, id \in TokenIds :
                tokenMetadata[c][id] # NoInfo
                   => tokenMetadata'[c][id] = tokenMetadata[c][id]]_<<sender, fa2Vars>>
  BY CallKeepsDefinitions DEF FA2Next
<1>. QED BY <1>1, Originated, FA2Inductive, PTL DEF FA2Spec, TokenMetadataFixed

-----------------------------------------------------------------------------
(* Authority: no list lowers the balance of an owner it does not name.     *)

(* The ledgers in which o has no less of id than floor. *)
HoldsAtLeast(o, id, floor) == {l \in FA2Ledger : l[<<o, id>>] >= floor}

LEMMA TransfersSpareOthers ==
    ASSUME NEW o \in Address, NEW id \in TokenIds, NEW l \in FA2Ledger,
           NEW txs \in Seq(TransferTx),
           \A i \in DOMAIN txs : ~(txs[i].from = o /\ txs[i].token_id = id),
           ListFold(TransferStep, l, txs) # Failed
    PROVE  ListFold(TransferStep, l, txs)[<<o, id>>] >= l[<<o, id>>]
<1>. DEFINE Others == {tx \in TransferTx : ~(tx.from = o /\ tx.token_id = id)}
            S == HoldsAtLeast(o, id, l[<<o, id>>])
            key == <<o, id>>
<1>1. StaysIn(S, Others, TransferStep)
  <2>. SUFFICES ASSUME NEW m \in S, NEW tx \in Others, TransferStep[m][tx] # Failed
                PROVE  TransferStep[m][tx] \in S
    BY DEF StaysIn
  <2>. DEFINE giver == <<tx.from, tx.token_id>>
              taker == <<tx.to, tx.token_id>>
  <2>1. /\ tx.to \in Address /\ tx.from \in Address /\ tx.token_id \in TokenIds
        /\ tx.amount \in Nat
    <3>1. tx \in TransferTx
      OBVIOUS
    <3>. QED BY <3>1, TezosAssumption DEF TransferTx
  <2>2. key \in Owner /\ giver \in Owner /\ taker \in Owner /\ giver # key
    <3>1. ~(tx.from = o /\ tx.token_id = id)
      OBVIOUS
    <3>. QED BY <2>1, <3>1 DEF Owner
  <2>3. m \in [Owner -> Nat] /\ m[key] >= l[key] /\ l[key] \in Nat
    BY <2>2 DEF HoldsAtLeast, FA2Ledger
  <2>4. TransferStep[m][tx] =
           UpdateBalance(giver, -tx.amount, UpdateBalance(taker, tx.amount, m))
    BY DEF TransferStep, HoldsAtLeast
  <2>5. \A n \in [Owner -> Nat] : n[key] >= l[key] => n \in S
    BY DEF HoldsAtLeast, FA2Ledger
  <2>. HIDE DEF giver, taker, key, S
  <2>6. /\ TransferStep[m][tx] \in [Owner -> Nat]
        /\ TransferStep[m][tx][key] >= m[key]
    BY <2>1, <2>2, <2>3, <2>4, MoveSparesOthers
  <2>7. TransferStep[m][tx][key] \in Nat /\ m[key] \in Nat
    BY <2>2, <2>3, <2>6
  <2>. QED BY <2>3, <2>5, <2>6, <2>7
<1>2. txs \in Seq(Others)
  <2>1. \A i \in DOMAIN txs : txs[i] \in Others
    OBVIOUS
  <2>. HIDE DEF Others
  <2>. QED BY <2>1, ListOf
<1>3. l \in S
  BY DEF HoldsAtLeast, FA2Ledger, Owner
<1>4. ListFold(TransferStep, l, txs) \in S
  <2>. HIDE DEF S, Others
  <2>. QED BY <1>1, <1>2, <1>3, FoldStaysIn
<1>. QED BY <1>4 DEF HoldsAtLeast

LEMMA RetirementsSpareOthers ==
    ASSUME NEW o \in Address, NEW id \in TokenIds, NEW l \in FA2Ledger,
           NEW entries \in Seq(Entry),
           \A i \in DOMAIN entries : ~(entries[i].owner = o /\ entries[i].token_id = id),
           ListFold(RetireStep, l, entries) # Failed
    PROVE  ListFold(RetireStep, l, entries)[<<o, id>>] >= l[<<o, id>>]
<1>. DEFINE Others == {e \in Entry : ~(e.owner = o /\ e.token_id = id)}
            S == HoldsAtLeast(o, id, l[<<o, id>>])
            key == <<o, id>>
<1>1. StaysIn(S, Others, RetireStep)
  <2>. SUFFICES ASSUME NEW m \in S, NEW e \in Others, RetireStep[m][e] # Failed
                PROVE  RetireStep[m][e] \in S
    BY DEF StaysIn
  <2>. DEFINE giver == <<e.owner, e.token_id>>
  <2>0. /\ e.owner \in Address /\ e.token_id \in TokenIds /\ e.amount \in Nat
    <3>1. e \in Entry
      OBVIOUS
    <3>. QED BY <3>1, TezosAssumption DEF Entry
  <2>1. /\ e.owner \in Address /\ e.token_id \in TokenIds
        /\ e.amount \in Nat /\ -e.amount \in Int
    BY <2>0
  <2>2. key \in Owner /\ giver \in Owner /\ giver # key
    <3>1. ~(e.owner = o /\ e.token_id = id)
      OBVIOUS
    <3>. QED BY <2>1, <3>1 DEF Owner
  <2>3. m \in [Owner -> Nat] /\ m[key] >= l[key] /\ l[key] \in Nat
    BY <2>2 DEF HoldsAtLeast, FA2Ledger
  <2>4. RetireStep[m][e] = UpdateBalance(giver, -e.amount, m)
    BY DEF RetireStep, HoldsAtLeast
  <2>5. \A n \in [Owner -> Nat] : n[key] >= l[key] => n \in S
    BY DEF HoldsAtLeast, FA2Ledger
  <2>. HIDE DEF giver, key, S
  <2>6. m[giver] + (-e.amount) >= 0
    BY <2>1, <2>2, <2>3, <2>4 DEF UpdateBalance
  <2>7. /\ RetireStep[m][e] \in [Owner -> Nat]
        /\ RetireStep[m][e][key] >= m[key]
    <3>. DEFINE d == -e.amount
    <3>1. d \in Int /\ m[giver] + d >= 0 /\ m \in [Owner -> Nat]
      BY <2>1, <2>3, <2>6
    <3>. HIDE DEF d
    <3>2. /\ UpdateBalance(giver, d, m) \in [Owner -> Nat]
          /\ UpdateBalance(giver, d, m)[key] >= m[key]
      BY <2>2, <3>1, UpdateSparesOthers
    <3>. QED BY <2>4, <3>2 DEF d
  <2>8. RetireStep[m][e][key] \in Nat /\ m[key] \in Nat
    BY <2>2, <2>3, <2>7
  <2>. QED BY <2>3, <2>5, <2>7, <2>8
<1>2. entries \in Seq(Others)
  <2>1. \A i \in DOMAIN entries : entries[i] \in Others
    OBVIOUS
  <2>. HIDE DEF Others
  <2>. QED BY <2>1, ListOf
<1>3. l \in S
  BY DEF HoldsAtLeast, FA2Ledger, Owner
<1>4. ListFold(RetireStep, l, entries) \in S
  <2>. HIDE DEF S, Others
  <2>. QED BY <1>1, <1>2, <1>3, FoldStaysIn
<1>. QED BY <1>4 DEF HoldsAtLeast

LEMMA MintSpares ==
    ASSUME NEW o \in Address, NEW id \in TokenIds, NEW l \in FA2Ledger,
           NEW entries \in Seq(Entry)
    PROVE  ListFold(CreditStep, l, entries)[<<o, id>>] >= l[<<o, id>>]
<1>. DEFINE S == HoldsAtLeast(o, id, l[<<o, id>>])
            key == <<o, id>>
<1>1. \A m \in S, e \in Entry : CreditStep[m][e] \in S
  <2>. SUFFICES ASSUME NEW m \in S, NEW e \in Entry
                PROVE  CreditStep[m][e] \in S
    OBVIOUS
  <2>. DEFINE giver == <<e.owner, e.token_id>>
  <2>0. /\ e.owner \in Address /\ e.token_id \in TokenIds /\ e.amount \in Nat
    BY TezosAssumption DEF Entry
  <2>1. /\ e.owner \in Address /\ e.token_id \in TokenIds /\ e.amount \in Nat
        /\ e.amount \in Int /\ e.amount >= 0
    BY <2>0
  <2>2. key \in Owner /\ giver \in Owner
    BY <2>1 DEF Owner
  <2>3. m \in [Owner -> Nat] /\ m[key] >= l[key] /\ l[key] \in Nat
    BY <2>2 DEF HoldsAtLeast, FA2Ledger
  <2>4. CreditStep[m][e] = UpdateBalance(giver, e.amount, m)
    BY DEF CreditStep, HoldsAtLeast
  <2>5. \A n \in [Owner -> Nat] : n[key] >= l[key] => n \in S
    BY DEF HoldsAtLeast, FA2Ledger
  <2>. HIDE DEF giver, key, S
  <2>6. m[giver] + e.amount >= 0
    BY <2>1, <2>2, <2>3
  <2>7. /\ CreditStep[m][e] \in [Owner -> Nat]
        /\ CreditStep[m][e][key] >= m[key]
    BY <2>1, <2>2, <2>3, <2>4, <2>6, UpdateSparesOthers
  <2>8. CreditStep[m][e][key] \in Nat /\ m[key] \in Nat
    BY <2>2, <2>3, <2>7
  <2>. QED BY <2>3, <2>5, <2>7, <2>8
<1>2. l \in S
  BY DEF HoldsAtLeast, FA2Ledger, Owner
<1>3. ListFold(CreditStep, l, entries) \in S
  <2>. HIDE DEF S
  <2>. QED BY <1>1, <1>2, FoldNeverFails
<1>. QED BY <1>3 DEF HoldsAtLeast

LEMMA TransferAuthorised ==
    ASSUME FA2Inv, NEW c \in FA2s, NEW caller \in Address,
           NEW txs \in Seq(TransferTx), Transfer(c, caller, txs),
           NEW d \in FA2s, NEW o \in Address, NEW id \in TokenIds,
           fa2Ledger'[d][<<o, id>>] < fa2Ledger[d][<<o, id>>]
    PROVE  d = c /\ MayMove(c, caller, o, id)
<1>. DEFINE l == ListFold(TransferStep, fa2Ledger[c], txs)
<1>1. /\ l # Failed /\ fa2Ledger' = [fa2Ledger EXCEPT ![c] = l]
      /\ \A i \in DOMAIN txs : MayMove(c, caller, txs[i].from, txs[i].token_id)
  BY DEF Transfer, TransferResult
<1>2. /\ fa2Ledger \in [FA2s -> FA2Ledger] /\ fa2Ledger[c] \in FA2Ledger
      /\ fa2Ledger[d][<<o, id>>] \in Nat
  BY DEF FA2Inv, FA2TypeOK, FA2Ledger, Owner
<1>3. l \in FA2Ledger
  BY <1>1, BooksOf, TransfersConserve
<1>4. l[<<o, id>>] \in Nat
  <2>. HIDE DEF l
  <2>. QED BY <1>3 DEF FA2Ledger, Owner
<1>5. d = c
  <2>. HIDE DEF l
  <2>. QED BY <1>1, <1>2
<1>6. l[<<o, id>>] < fa2Ledger[c][<<o, id>>]
  <2>. HIDE DEF l
  <2>. QED BY <1>1, <1>2, <1>5
<1>7. PICK i \in DOMAIN txs : txs[i].from = o /\ txs[i].token_id = id
  <2>. SUFFICES ASSUME \A i \in DOMAIN txs : ~(txs[i].from = o /\ txs[i].token_id = id)
                PROVE  FALSE
    OBVIOUS
  <2>1. l[<<o, id>>] >= fa2Ledger[c][<<o, id>>]
    BY <1>1, <1>2, TransfersSpareOthers
  <2>. HIDE DEF l
  <2>. QED BY <1>2, <1>4, <1>5, <1>6, <2>1
<1>. QED BY <1>1, <1>5, <1>7

LEMMA RetireTokensAuthorised ==
    ASSUME FA2Inv, NEW c \in FA2s, NEW caller \in Address,
           NEW entries \in Seq(Entry), RetireTokens(c, caller, entries),
           NEW d \in FA2s, NEW o \in Address, NEW id \in TokenIds,
           fa2Ledger'[d][<<o, id>>] < fa2Ledger[d][<<o, id>>]
    PROVE  d = c /\ MayMove(c, caller, o, id)
<1>. DEFINE l == ListFold(RetireStep, fa2Ledger[c], entries)
<1>1. /\ l # Failed /\ fa2Ledger' = [fa2Ledger EXCEPT ![c] = l]
      /\ \A i \in DOMAIN entries :
            MayMove(c, caller, entries[i].owner, entries[i].token_id)
  BY DEF RetireTokens, RetireResult
<1>2. /\ fa2Ledger \in [FA2s -> FA2Ledger] /\ fa2Ledger[c] \in FA2Ledger
      /\ fa2Ledger[d][<<o, id>>] \in Nat
  BY DEF FA2Inv, FA2TypeOK, FA2Ledger, Owner
<1>3. l \in FA2Ledger
  BY <1>1, BooksOf, RetirementsConserve
<1>4. l[<<o, id>>] \in Nat
  <2>. HIDE DEF l
  <2>. QED BY <1>3 DEF FA2Ledger, Owner
<1>5. d = c
  <2>. HIDE DEF l
  <2>. QED BY <1>1, <1>2
<1>6. l[<<o, id>>] < fa2Ledger[c][<<o, id>>]
  <2>. HIDE DEF l
  <2>. QED BY <1>1, <1>2, <1>5
<1>7. PICK i \in DOMAIN entries : entries[i].owner = o /\ entries[i].token_id = id
  <2>. SUFFICES ASSUME \A i \in DOMAIN entries :
                          ~(entries[i].owner = o /\ entries[i].token_id = id)
                PROVE  FALSE
    OBVIOUS
  <2>1. l[<<o, id>>] >= fa2Ledger[c][<<o, id>>]
    BY <1>1, <1>2, RetirementsSpareOthers
  <2>. HIDE DEF l
  <2>. QED BY <1>2, <1>4, <1>5, <1>6, <2>1
<1>. QED BY <1>1, <1>5, <1>7

(* A call of any entrypoint takes from an owner only in the contract called *)
(* and with that owner's authority.                                        *)
LEMMA FA2CallAuthorised ==
    ASSUME FA2Inv, NEW c \in FA2s, NEW caller \in Address, FA2Call(c, caller),
           NEW d \in FA2s, NEW o \in Address, NEW id \in TokenIds,
           fa2Ledger'[d][<<o, id>>] < fa2Ledger[d][<<o, id>>]
    PROVE  d = c /\ MayMove(c, caller, o, id)
<1>1. CASE \E txs \in Batches(TransferTx) : Transfer(c, caller, txs)
  BY <1>1, TransferAuthorised, BatchesAreSequences
<1>2. CASE \E entries \in Batches(Entry) : RetireTokens(c, caller, entries)
  BY <1>2, RetireTokensAuthorised, BatchesAreSequences
<1>3. /\ fa2Ledger \in [FA2s -> FA2Ledger] /\ fa2Ledger[d] \in FA2Ledger
      /\ fa2Ledger[d][<<o, id>>] \in Nat
  <2>1. fa2Ledger \in [FA2s -> FA2Ledger]
    BY DEF FA2Inv, FA2TypeOK
  <2>. QED BY <2>1 DEF FA2Ledger, Owner
<1>4. ASSUME NEW entries \in Batches(Entry), Mint(c, caller, entries) PROVE FALSE
  <2>. DEFINE l == ListFold(CreditStep, fa2Ledger[c], entries)
  <2>1. fa2Ledger' = [fa2Ledger EXCEPT ![c] = l]
    BY <1>4 DEF Mint
  <2>2. entries \in Seq(Entry)
    BY BatchesAreSequences
  <2>3. fa2Ledger[c] \in FA2Ledger
    BY <1>3
  <2>4. l \in FA2Ledger /\ l[<<o, id>>] >= fa2Ledger[c][<<o, id>>]
    <3>1. \A m \in FA2Ledger, e \in Entry : CreditStep[m][e] \in FA2Ledger
      BY CreditShifts, ShiftStaysLedger
    <3>. QED BY <2>2, <2>3, <3>1, FoldNeverFails, MintSpares
  <2>. HIDE DEF l
  <2>5. l[<<o, id>>] \in Nat
    BY <2>4 DEF FA2Ledger, Owner
  <2>. QED BY <1>3, <2>1, <2>4, <2>5
<1>5. CASE UNCHANGED fa2Ledger
  BY <1>3, <1>5
<1>. QED BY <1>1, <1>2, <1>4, <1>5
         DEF FA2Call, UpdateOperators, AddTokenId, UpdateContractMetadata, UpdateOracle

(***************************************************************************)
(* transfer and retire_tokens check is_operator for every element of their *)
(* list before the folds, and no element lowers another owner's balance:   *)
(* who loses credits has called, or has appointed who calls for that token.*)
(***************************************************************************)
THEOREM FA2DebitsAuthorised == FA2Spec => DebitAuthorised
<1>1. ASSUME FA2Inv, FA2Next,
             NEW c \in FA2s, NEW o \in Address, NEW id \in TokenIds,
             fa2Ledger'[c][<<o, id>>] < fa2Ledger[c][<<o, id>>]
      PROVE  MayMove(c, sender', o, id)
  <2>1. PICK d \in FA2s, caller \in Address : FA2Call(d, caller)
    BY <1>1 DEF FA2Next
  <2>2. sender' = caller
    BY <2>1 DEF FA2Call, Transfer, UpdateOperators, Mint, RetireTokens,
                AddTokenId, UpdateContractMetadata, UpdateOracle
  <2>3. c = d /\ MayMove(d, caller, o, id)
    BY <1>1, <2>1, FA2CallAuthorised
  <2>. QED BY <2>2, <2>3
<1>2. FA2Inv /\ [FA2Next]_<<sender, fa2Vars>>
         => [\A c \in FA2s, o \in Address, id \in TokenIds :
                fa2Ledger'[c][o, id] < fa2Ledger[c][o, id]
                   => MayMove(c, sender', o, id)]_<<sender, fa2Vars>>
  BY <1>1
<1>. QED BY <1>2, Originated, FA2Inductive, PTL DEF FA2Spec, DebitAuthorised

-----------------------------------------------------------------------------
(* The custodian contract *)

(* The books in which the two ledgers agree. *)
BalancedBooks == {b \in Books : BooksBalance(b)}

(* The inductive invariant: the books balance, and so do those Tezos goes  *)
(* back to when an operation that is executing is rejected.                *)
CustodianInv ==
    /\ CustodianTypeOK
    /\ CurrentBooks \in BalancedBooks
    /\ outbox # <<>> => before \in BalancedBooks

(* A list of transactions for one FA2 contract. *)
GroupsOf(tx) == [token_address : TokenAddress, txs : Seq(tx)]

LEMMA GroupShape ==
    ASSUME NEW tx, NEW g \in GroupsOf(tx)
    PROVE  /\ g = [token_address |-> g.token_address, txs |-> g.txs]
           /\ g.token_address \in TokenAddress /\ g.txs \in Seq(tx)
           /\ DOMAIN g.txs = 1..Len(g.txs) /\ Len(g.txs) \in Nat
           /\ \A j \in DOMAIN g.txs : g.txs[j] \in tx
           /\ \A b \in Books : DebitGroups(tx)[b][g] =
                 ListFold(DebitTxs(tx, g.token_address), b, g.txs)
BY DEF GroupsOf, DebitGroups

LEMMA GroupBatchesAreSequences ==
    ASSUME NEW tx, NEW list \in GroupBatches(tx)
    PROVE  list \in Seq(GroupsOf(tx))
<1>1. list \in Batches(Groups(tx))
  BY DEF GroupBatches
<1>2. list \in Seq(Groups(tx))
  BY <1>1, BatchesAreSequences
<1>3. \A t \in Batches(tx) : t \in Seq(tx)
  BY BatchesAreSequences
<1>4. \A g \in Groups(tx) : g \in GroupsOf(tx)
  BY <1>3 DEF Groups, GroupsOf
<1>5. Groups(tx) \subseteq GroupsOf(tx)
  BY <1>4
<1>. QED BY <1>2, <1>5, SeqMonotone

-----------------------------------------------------------------------------
(* One internal transfer moves credits and leaves every total alone. *)
LEMMA TransferKeepsTotals ==
    ASSUME NEW l \in KycLedger, NEW tx \in InternalTransferTx,
           InternalTransferStep[l][tx] # Failed
    PROVE  /\ InternalTransferStep[l][tx] \in KycLedger
           /\ \A t \in Token : Total(Column(Kycs, InternalTransferStep[l][tx], t))
                                  = Total(Column(Kycs, l, t))
<1>1. /\ tx.to \in Kycs /\ tx.from \in Kycs /\ tx.token \in Token
      /\ tx.amount \in Nat
  BY TezosAssumption DEF InternalTransferTx
<1>2. l \in [Kycs \X Token -> Nat] /\ IsFiniteSet(Kycs)
  BY CustodianAssumption DEF KycLedger
<1>3. InternalTransferStep[l][tx] =
         UpdateBalance(<<tx.from, tx.token>>, -tx.amount,
            UpdateBalance(<<tx.to, tx.token>>, tx.amount, l))
  BY DEF InternalTransferStep
<1>4. Shifts(Kycs, Token, l, InternalTransferStep[l][tx], tx.token, 0)
  BY <1>1, <1>2, <1>3, MoveKeepsTotals
<1>5. \A t \in Token : Total(Column(Kycs, l, t)) \in Nat
  BY <1>2, ColumnType
<1>. QED BY <1>4, <1>5 DEF Shifts, KycLedger

(* So a whole list of internal transfers does. *)
LEMMA TransfersKeepBalance ==
    ASSUME CurrentBooks \in BalancedBooks, NEW txs \in Seq(InternalTransferTx),
           NEW result, result = ListFold(InternalTransferStep, ledger, txs),
           result # Failed
    PROVE  [ledger |-> result, external_ledger |-> externalLedger] \in BalancedBooks
<1>. DEFINE Level == {l \in KycLedger : \A t \in Token :
                         Total(Column(Kycs, l, t)) = externalLedger[t]}
<1>1. ledger \in Level /\ externalLedger \in ExternalLedger
  BY DEF BalancedBooks, Books, BooksBalance, CurrentBooks
<1>2. StaysIn(Level, InternalTransferTx, InternalTransferStep)
  <2>. SUFFICES ASSUME NEW l \in Level, NEW tx \in InternalTransferTx,
                       InternalTransferStep[l][tx] # Failed
                PROVE  InternalTransferStep[l][tx] \in Level
    BY DEF StaysIn
  <2>. QED BY TransferKeepsTotals
<1>3. result \in Level
  <2>. HIDE DEF Level
  <2>1. ListFold(InternalTransferStep, ledger, txs) \in Level \cup {Failed}
    BY <1>1, <1>2, FoldStaysIn
  <2>. QED BY <2>1
<1>. QED BY <1>1, <1>3 DEF BalancedBooks, Books, BooksBalance

(* Booking d more (or less) of t for one party and in the external ledger. *)
LEMMA BothShift ==
    ASSUME NEW b \in BalancedBooks, NEW k \in Kycs, NEW t \in Token, NEW d \in Int,
           b.ledger[<<k, t>>] + d >= 0, b.external_ledger[t] + d >= 0
    PROVE  [ledger |-> UpdateBalance(<<k, t>>, d, b.ledger),
            external_ledger |-> UpdateBalance(t, d, b.external_ledger)]
                \in BalancedBooks
<1>. DEFINE l == b.ledger
            e == b.external_ledger
            m == UpdateBalance(<<k, t>>, d, l)
            f == UpdateBalance(t, d, e)
<1>1. /\ l \in [Kycs \X Token -> Nat] /\ e \in [Token -> Nat]
      /\ \A u \in Token : Total(Column(Kycs, l, u)) = e[u]
      /\ IsFiniteSet(Kycs)
  BY CustodianAssumption DEF BalancedBooks, Books, BooksBalance, KycLedger, ExternalLedger
<1>2. Shifts(Kycs, Token, l, m, t, d)
  <2>. HIDE DEF l
  <2>1. l[<<k, t>>] + d >= 0
    BY DEF l
  <2>. QED BY <1>1, <2>1, BalanceShift
<1>3. f = [e EXCEPT ![t] = @ + d] /\ f \in [Token -> Nat]
  <2>1. f = [e EXCEPT ![t] = @ + d]
    BY <1>1 DEF UpdateBalance
  <2>2. e[t] + d \in Nat
    BY <1>1
  <2>. QED BY <1>1, <2>1, <2>2
<1>4. \A u \in Token : f[u] = e[u] + IF u = t THEN d ELSE 0
  BY <1>1, <1>3
<1>. HIDE DEF l, e, m, f
<1>5. m \in KycLedger /\ f \in ExternalLedger
  BY <1>2, <1>3 DEF Shifts, KycLedger, ExternalLedger
<1>6. \A u \in Token : Total(Column(Kycs, m, u)) = f[u]
  BY <1>1, <1>2, <1>4 DEF Shifts
<1>7. [ledger |-> m, external_ledger |-> f] \in BalancedBooks
  BY <1>5, <1>6 DEF BalancedBooks, Books, BooksBalance
<1>. QED BY <1>7 DEF l, e, m, f

(* A sync books the same on Self and in the external ledger, once per entry *)
(* of its list: the books balance even if a token is listed twice.         *)
LEMMA SyncsKeepBalance ==
    ASSUME NEW books \in BalancedBooks, NEW updates \in Seq(SyncUpdate)
    PROVE  ListFold(SyncStep, books, updates) \in BalancedBooks
<1>1. ASSUME NEW b \in BalancedBooks, NEW u \in SyncUpdate
      PROVE  SyncStep[b][u] \in BalancedBooks
  <2>1. /\ b \in Books /\ Self \in Kycs /\ u.token \in Token /\ u.amount \in Nat
        /\ u.amount \in Int
    BY CustodianAssumption DEF BalancedBooks, SyncUpdate
  <2>2. b.ledger[<<Self, u.token>>] \in Nat /\ b.external_ledger[u.token] \in Nat
    BY <2>1 DEF Books, KycLedger, ExternalLedger
  <2>3. b.ledger[<<Self, u.token>>] + u.amount >= 0
        /\ b.external_ledger[u.token] + u.amount >= 0
    BY <2>1, <2>2
  <2>4. [ledger |-> UpdateBalance(<<Self, u.token>>, u.amount, b.ledger),
         external_ledger |-> UpdateBalance(u.token, u.amount, b.external_ledger)]
            \in BalancedBooks
    BY <2>1, <2>3, BothShift
  <2>. QED BY <2>1, <2>4 DEF SyncStep
<1>2. \A b \in BalancedBooks, u \in SyncUpdate : SyncStep[b][u] \in BalancedBooks
  BY <1>1
<1>. QED BY <1>2, FoldNeverFails

(* A debit that succeeds lowers both ledgers by the same amount. *)
LEMMA DebitKeepsBalance ==
    ASSUME NEW b \in BalancedBooks, NEW k \in Kycs, NEW t \in Token, NEW n \in Nat,
           DebitBooks(b, k, t, n) # Failed
    PROVE  DebitBooks(b, k, t, n) \in BalancedBooks
<1>. DEFINE l == UpdateBalance(<<k, t>>, -n, b.ledger)
            e == UpdateBalance(t, -n, b.external_ledger)
<1>1. /\ l # Failed /\ e # Failed
      /\ DebitBooks(b, k, t, n) = [ledger |-> l, external_ledger |-> e]
  BY DEF DebitBooks
<1>2. b.ledger[<<k, t>>] \in Nat /\ b.external_ledger[t] \in Nat
  BY DEF BalancedBooks, Books, KycLedger, ExternalLedger
<1>3. b.ledger[<<k, t>>] + (-n) >= 0 /\ b.external_ledger[t] + (-n) >= 0
  BY <1>1, <1>2 DEF UpdateBalance
<1>4. -n \in Int
  OBVIOUS
<1>5. [ledger |-> l, external_ledger |-> e] \in BalancedBooks
  BY <1>3, <1>4, BothShift
<1>. QED BY <1>1, <1>5

(* What retire and external_transfer take parameters from: sets of records *)
(* that name a party, a token id and an amount.                            *)
IsDebit(tx) ==
    \A x \in tx : x.from \in Kycs /\ x.token_id \in TokenIds /\ x.amount \in Nat

(* Their nested folds keep the books balanced, or fail as a whole. *)
LEMMA DebitsKeepBalance ==
    ASSUME CurrentBooks \in BalancedBooks, NEW tx, IsDebit(tx),
           NEW groups \in Seq(GroupsOf(tx))
    PROVE  ListFold(DebitGroups(tx), CurrentBooks, groups) \in BalancedBooks \cup {Failed}
<1>. DEFINE Group == GroupsOf(tx)
<1>1. ASSUME NEW address \in TokenAddress
      PROVE  StaysIn(BalancedBooks, tx, DebitTxs(tx, address))
  <2>. SUFFICES ASSUME NEW b \in BalancedBooks, NEW x \in tx,
                       DebitTxs(tx, address)[b][x] # Failed
                PROVE  DebitTxs(tx, address)[b][x] \in BalancedBooks
    BY DEF StaysIn
  <2>1. DebitTxs(tx, address)[b][x] =
           DebitBooks(b, x.from, <<address, x.token_id>>, x.amount)
    BY DEF DebitTxs, BalancedBooks
  <2>2. /\ x.from \in Kycs /\ <<address, x.token_id>> \in Token
        /\ x.amount \in Nat
    BY DEF IsDebit, Token
  <2>. QED BY <2>1, <2>2, DebitKeepsBalance
<1>2. StaysIn(BalancedBooks, Group, DebitGroups(tx))
  <2>. SUFFICES ASSUME NEW b \in BalancedBooks, NEW g \in Group
                PROVE  DebitGroups(tx)[b][g] \in BalancedBooks \cup {Failed}
    BY DEF StaysIn
  <2>1. DebitGroups(tx)[b][g] = ListFold(DebitTxs(tx, g.token_address), b, g.txs)
    BY GroupShape DEF BalancedBooks
  <2>2. g.token_address \in TokenAddress /\ g.txs \in Seq(tx)
    BY GroupShape
  <2>3. StaysIn(BalancedBooks, tx, DebitTxs(tx, g.token_address))
    BY <1>1, <2>2
  <2>4. ListFold(DebitTxs(tx, g.token_address), b, g.txs) \in BalancedBooks \cup {Failed}
    BY <2>2, <2>3, FoldStaysIn
  <2>. QED BY <2>1, <2>4
<1>. HIDE DEF Group
<1>3. groups \in Seq(Group)
  BY DEF Group
<1>. QED BY <1>2, <1>3, FoldStaysIn

-----------------------------------------------------------------------------
LEMMA CustodianInitInv == CustodianInit => CustodianInv
<1>. SUFFICES ASSUME CustodianInit PROVE CustodianInv
  OBVIOUS
<1>. USE DEF CustodianInit
<1>1. ledger \in KycLedger /\ externalLedger \in ExternalLedger
  BY DEF KycLedger, ExternalLedger
<1>2. CustodianTypeOK
  BY <1>1 DEF CustodianTypeOK, Address
<1>3. ASSUME NEW t \in Token
      PROVE  Total(Column(Kycs, ledger, t)) = externalLedger[t]
  <2>. DEFINE f == Column(Kycs, ledger, t)
  <2>1. f \in [Kycs -> Nat] /\ \A k \in Kycs : f[k] = 0
    BY DEF Column
  <2>2. IsFiniteSet(Kycs)
    BY CustodianAssumption
  <2>. HIDE DEF f
  <2>3. Total(f) = 0
    BY <2>1, <2>2, TotalZero
  <2>. QED BY <2>3 DEF f
<1>4. CurrentBooks \in BalancedBooks
  BY <1>1, <1>3 DEF CurrentBooks, BalancedBooks, Books, BooksBalance
<1>. QED BY <1>2, <1>4 DEF CustodianInv

(* A call that books new balances and leaves everything else of a kind     *)
(* that keeps its type: what every step of the contract comes down to.     *)
LEMMA NewBooks ==
    ASSUME sender' \in Address, custodian' \in Address,
           operators' \in SUBSET KycOperator, outbox' \in Seq(Operation),
           before' \in Books \cup {NoCall},
           outbox' # <<>> => before' \in BalancedBooks,
           CurrentBooks' \in BalancedBooks
    PROVE  CustodianInv'
<1>1. ledger' \in KycLedger /\ externalLedger' \in ExternalLedger
  BY DEF CurrentBooks, BalancedBooks, Books
<1>. QED BY <1>1 DEF CustodianInv, CustodianTypeOK, BalancedBooks

(* What a call emits, and the books it can be taken back to. *)
LEMMA Emitted ==
    ASSUME CustodianInv, NEW operations \in Seq(Operation), Emit(operations)
    PROVE  /\ outbox' \in Seq(Operation)
           /\ before' \in Books \cup {NoCall}
           /\ outbox' # <<>> => before' \in BalancedBooks
BY DEF Emit, CustodianInv, BalancedBooks

LEMMA InternalTransferInv ==
    ASSUME CustodianInv, NEW caller \in Wallets,
           NEW txs \in Batches(InternalTransferTx), InternalTransfer(caller, txs)
    PROVE  CustodianInv'
<1>. DEFINE result == ListFold(InternalTransferStep, ledger, txs)
<1>1. txs \in Seq(InternalTransferTx)
  BY BatchesAreSequences
<1>2. /\ result # Failed /\ ledger' = result /\ sender' = caller
      /\ UNCHANGED <<custodian, externalLedger, operators, outbox, before>>
  BY DEF InternalTransfer
<1>. HIDE DEF result
<1>3. CurrentBooks \in BalancedBooks
  BY DEF CustodianInv
<1>4. [ledger |-> result, external_ledger |-> externalLedger] \in BalancedBooks
  BY <1>1, <1>2, <1>3, TransfersKeepBalance DEF result
<1>5. CurrentBooks' \in BalancedBooks
  BY <1>2, <1>4 DEF CurrentBooks
<1>. QED BY <1>2, <1>5, NewBooks DEF CustodianInv, CustodianTypeOK, Address

(* One step of a sync raises Self's balance and the external ledger. *)
LEMMA SyncEffect ==
    ASSUME NEW b \in Books, NEW u \in SyncUpdate
    PROVE  /\ SyncStep[b][u] \in Books
           /\ \A key \in Kycs \X Token : SyncStep[b][u].ledger[key] =
                 b.ledger[key] + IF key = <<Self, u.token>> THEN u.amount ELSE 0
           /\ \A t \in Token : SyncStep[b][u].external_ledger[t] =
                 b.external_ledger[t] + IF t = u.token THEN u.amount ELSE 0
<1>. DEFINE l == UpdateBalance(<<Self, u.token>>, u.amount, b.ledger)
            e == UpdateBalance(u.token, u.amount, b.external_ledger)
            own == <<Self, u.token>>
<1>1. /\ u.token \in Token /\ u.amount \in Nat /\ own \in Kycs \X Token
      /\ b.ledger \in [Kycs \X Token -> Nat] /\ b.external_ledger \in [Token -> Nat]
  BY CustodianAssumption DEF SyncUpdate, Books, KycLedger, ExternalLedger
<1>2. SyncStep[b][u] = [ledger |-> l, external_ledger |-> e]
  BY DEF SyncStep
<1>3. l = UpdateBalance(own, u.amount, b.ledger)
  OBVIOUS
<1>. HIDE DEF own, l
<1>4. b.ledger[own] + u.amount \in Nat /\ b.external_ledger[u.token] + u.amount \in Nat
  BY <1>1
<1>5. /\ l = [b.ledger EXCEPT ![own] = @ + u.amount]
      /\ e = [b.external_ledger EXCEPT ![u.token] = @ + u.amount]
  BY <1>3, <1>4 DEF UpdateBalance
<1>. HIDE DEF e
<1>6. l \in [Kycs \X Token -> Nat] /\ e \in [Token -> Nat]
  BY <1>1, <1>4, <1>5
<1>7. \A key \in Kycs \X Token :
         l[key] = b.ledger[key] + IF key = own THEN u.amount ELSE 0
  BY <1>1, <1>5
<1>8. \A t \in Token :
         e[t] = b.external_ledger[t] + IF t = u.token THEN u.amount ELSE 0
  BY <1>1, <1>5
<1>. QED BY <1>2, <1>6, <1>7, <1>8 DEF Books, KycLedger, ExternalLedger, own

(* The updates of a sync: none is negative. *)
LEMMA SyncList ==
    ASSUME CustodianInv, NEW caller, NEW tokens \in SyncBatches,
           NEW view \in [Token -> Nat \cup {NoView}],
           InternalMint(caller, tokens, view)
    PROVE  SyncUpdates(tokens, view) \in Seq(SyncUpdate)
<1>1. tokens \in Seq(Token)
  BY CustodianAssumption
<1>2. DOMAIN tokens = 1..Len(tokens) /\ Len(tokens) \in Nat
  BY <1>1
<1>3. ASSUME NEW i \in DOMAIN tokens
      PROVE  [token |-> tokens[i],
              amount |-> view[tokens[i]] - externalLedger[tokens[i]]] \in SyncUpdate
  <2>1. tokens[i] \in Token
    BY <1>1, <1>2
  <2>2. view[tokens[i]] \in Nat /\ externalLedger[tokens[i]] \in Nat
    BY <2>1 DEF InternalMint, CustodianInv, CustodianTypeOK, ExternalLedger
  <2>3. view[tokens[i]] - externalLedger[tokens[i]] \in Nat
    BY <2>2 DEF InternalMint
  <2>. QED BY <2>1, <2>3 DEF SyncUpdate
<1>4. SyncUpdates(tokens, view) \in [1..Len(tokens) -> SyncUpdate]
  BY <1>2, <1>3 DEF SyncUpdates
<1>. QED BY <1>2, <1>4, SeqDef

LEMMA InternalMintInv ==
    ASSUME CustodianInv, NEW caller \in Wallets, NEW tokens \in SyncBatches,
           NEW view \in [Token -> Nat \cup {NoView}],
           InternalMint(caller, tokens, view)
    PROVE  CustodianInv'
<1>. DEFINE updates == SyncUpdates(tokens, view)
            result == ListFold(SyncStep, CurrentBooks, updates)
<1>1. /\ ledger' = result.ledger /\ externalLedger' = result.external_ledger
      /\ sender' = caller
      /\ UNCHANGED <<custodian, operators, outbox, before>>
  BY DEF InternalMint
<1>2. updates \in Seq(SyncUpdate)
  BY SyncList
<1>. HIDE DEF updates
<1>3. result \in BalancedBooks
  BY <1>2, SyncsKeepBalance DEF CustodianInv
<1>. HIDE DEF result
<1>4. CurrentBooks' \in BalancedBooks
  BY <1>1, <1>3 DEF CurrentBooks, BalancedBooks, Books
<1>. QED BY <1>1, <1>4, NewBooks DEF CustodianInv, CustodianTypeOK, Address

(* The call of an entrypoint that debits groups of transactions. *)
LEMMA DebitCallInv ==
    ASSUME CustodianInv, NEW caller \in Wallets, NEW tx, IsDebit(tx),
           NEW groups \in GroupBatches(tx),
           BooksBecome(ListFold(DebitGroups(tx), CurrentBooks, groups)),
           NEW operations \in Seq(Operation), Emit(operations),
           sender' = caller, UNCHANGED <<custodian, operators>>
    PROVE  CustodianInv'
<1>. DEFINE result == ListFold(DebitGroups(tx), CurrentBooks, groups)
<1>1. groups \in Seq(GroupsOf(tx))
  BY GroupBatchesAreSequences
<1>2. CurrentBooks \in BalancedBooks
  BY DEF CustodianInv
<1>3. result \in BalancedBooks \cup {Failed}
  BY <1>1, <1>2, DebitsKeepBalance
<1>4. result # Failed /\ ledger' = result.ledger /\ externalLedger' = result.external_ledger
  BY DEF BooksBecome
<1>. HIDE DEF result
<1>5. CurrentBooks' \in BalancedBooks
  BY <1>3, <1>4 DEF CurrentBooks, BalancedBooks, Books
<1>6. /\ outbox' \in Seq(Operation) /\ before' \in Books \cup {NoCall}
      /\ outbox' # <<>> => before' \in BalancedBooks
  BY Emitted
<1>. QED BY <1>5, <1>6, NewBooks DEF CustodianInv, CustodianTypeOK, Address

(* A group whose txs is a sequence, and what its operation then carries. *)
LEMMA GroupTxs ==
    ASSUME NEW tx, NEW groups \in GroupBatches(tx), NEW i \in DOMAIN groups
    PROVE  /\ DOMAIN groups = 1..Len(groups) /\ Len(groups) \in Nat
           /\ DOMAIN groups[i].txs = 1..Len(groups[i].txs)
           /\ Len(groups[i].txs) \in Nat
           /\ \A j \in DOMAIN groups[i].txs : groups[i].txs[j] \in tx
<1>. DEFINE Group == GroupsOf(tx)
<1>1. groups \in Seq(Group)
  BY GroupBatchesAreSequences
<1>2. groups[i] \in Group /\ DOMAIN groups = 1..Len(groups) /\ Len(groups) \in Nat
  <2>. HIDE DEF Group
  <2>. QED BY <1>1
<1>. QED BY <1>2, GroupShape

LEMMA ExternalTransferInv ==
    ASSUME CustodianInv, NEW caller \in Wallets,
           NEW groups \in ExternalTransfers, ExternalTransfer(caller, groups)
    PROVE  CustodianInv'
<1>. DEFINE Txs(i) == [j \in DOMAIN groups[i].txs |->
                         [from |-> CustodianContract, to |-> groups[i].txs[j].to,
                          token_id |-> groups[i].txs[j].token_id,
                          amount |-> groups[i].txs[j].amount]]
            operations == [i \in DOMAIN groups |->
                [entrypoint |-> "transfer", target |-> groups[i].token_address,
                 txs |-> Txs(i)]]
<1>1. /\ BooksBecome(ListFold(DebitGroups(ExternalTransferTx), CurrentBooks, groups))
      /\ \A i \in DOMAIN groups : groups[i].token_address \in FA2s
      /\ Emit(operations) /\ sender' = caller /\ UNCHANGED <<custodian, operators>>
  BY DEF ExternalTransfer, TransferOperations
<1>2. groups \in GroupBatches(ExternalTransferTx)
  BY DEF ExternalTransfers
<1>3. IsDebit(ExternalTransferTx)
  BY TezosAssumption DEF IsDebit, ExternalTransferTx
<1>4. ASSUME NEW i \in DOMAIN groups PROVE Txs(i) \in Seq(FA2Transfer)
  <2>1. /\ DOMAIN groups[i].txs = 1..Len(groups[i].txs) /\ Len(groups[i].txs) \in Nat
        /\ \A j \in DOMAIN groups[i].txs : groups[i].txs[j] \in ExternalTransferTx
    BY <1>2, GroupTxs
  <2>2. Txs(i) \in [1..Len(groups[i].txs) -> FA2Transfer]
    BY <2>1 DEF ExternalTransferTx, FA2Transfer
  <2>. QED BY <2>1, <2>2, SeqDef
<1>5. operations \in Seq(Operation)
  <2>. HIDE DEF Txs
  <2>1. \A i \in DOMAIN groups :
           [entrypoint |-> "transfer", target |-> groups[i].token_address,
            txs |-> Txs(i)] \in Operation
    BY <1>1, <1>4 DEF Operation
  <2>2. DOMAIN groups = 1..Len(groups) /\ Len(groups) \in Nat
    BY <1>2, GroupBatchesAreSequences
  <2>3. operations \in [1..Len(groups) -> Operation]
    BY <2>1, <2>2
  <2>. QED BY <2>2, <2>3, SeqDef
<1>. HIDE DEF operations
<1>. QED BY <1>1, <1>2, <1>3, <1>5, DebitCallInv

LEMMA RetireInv ==
    ASSUME CustodianInv, NEW caller \in Wallets,
           NEW groups \in Retirements, Retire(caller, groups)
    PROVE  CustodianInv'
<1>. DEFINE Txs(i) == [j \in DOMAIN groups[i].txs |->
                         [owner |-> CustodianContract,
                          token_id |-> groups[i].txs[j].token_id,
                          amount |-> groups[i].txs[j].amount]]
            operations == [i \in DOMAIN groups |->
                [entrypoint |-> "retire", target |-> groups[i].token_address,
                 txs |-> Txs(i)]]
<1>1. /\ BooksBecome(ListFold(DebitGroups(RetireTx), CurrentBooks, groups))
      /\ \A i \in DOMAIN groups : groups[i].token_address \in FA2s
      /\ Emit(operations) /\ sender' = caller /\ UNCHANGED <<custodian, operators>>
  BY DEF Retire, RetireOperations
<1>2. groups \in GroupBatches(RetireTx)
  BY DEF Retirements
<1>3. IsDebit(RetireTx)
  BY TezosAssumption DEF IsDebit, RetireTx
<1>4. ASSUME NEW i \in DOMAIN groups PROVE Txs(i) \in Seq(FA2Entry)
  <2>1. /\ DOMAIN groups[i].txs = 1..Len(groups[i].txs) /\ Len(groups[i].txs) \in Nat
        /\ \A j \in DOMAIN groups[i].txs : groups[i].txs[j] \in RetireTx
    BY <1>2, GroupTxs
  <2>2. Txs(i) \in [1..Len(groups[i].txs) -> FA2Entry]
    BY <2>1 DEF RetireTx, FA2Entry
  <2>. QED BY <2>1, <2>2, SeqDef
<1>5. operations \in Seq(Operation)
  <2>. HIDE DEF Txs
  <2>1. \A i \in DOMAIN groups :
           [entrypoint |-> "retire", target |-> groups[i].token_address,
            txs |-> Txs(i)] \in Operation
    BY <1>1, <1>4 DEF Operation
  <2>2. DOMAIN groups = 1..Len(groups) /\ Len(groups) \in Nat
    BY <1>2, GroupBatchesAreSequences
  <2>3. operations \in [1..Len(groups) -> Operation]
    BY <2>1, <2>2
  <2>. QED BY <2>2, <2>3, SeqDef
<1>. HIDE DEF operations
<1>. QED BY <1>1, <1>2, <1>3, <1>5, DebitCallInv

LEMMA UpdateInternalOperatorsInv ==
    ASSUME CustodianInv, NEW caller \in Wallets,
           NEW updates \in Batches(KycOperatorUpdate),
           UpdateInternalOperators(caller, updates)
    PROVE  CustodianInv'
<1>. DEFINE Grants == SUBSET KycOperator
<1>1. updates \in Seq(KycOperatorUpdate)
  BY BatchesAreSequences
<1>2. \A ops \in Grants, u \in KycOperatorUpdate : KycOperatorStep[ops][u] \in Grants
  BY DEF KycOperatorStep, KycOperatorUpdate
<1>3. operators \in Grants
  BY DEF CustodianInv, CustodianTypeOK
<1>4. ListFold(KycOperatorStep, operators, updates) \in Grants
  <2>. HIDE DEF Grants
  <2>. QED BY <1>1, <1>2, <1>3, FoldNeverFails
<1>5. /\ operators' = ListFold(KycOperatorStep, operators, updates)
      /\ sender' = caller
      /\ UNCHANGED <<custodian, ledger, externalLedger, outbox, before>>
  BY DEF UpdateInternalOperators
<1>6. CurrentBooks' \in BalancedBooks
  BY <1>5 DEF CustodianInv, CurrentBooks
<1>. QED BY <1>4, <1>5, <1>6, NewBooks DEF CustodianInv, CustodianTypeOK, Address

LEMMA UpdateCustodianInv ==
    ASSUME CustodianInv, NEW caller \in Wallets, NEW newCustodian \in Address,
           UpdateCustodian(caller, newCustodian)
    PROVE  CustodianInv'
<1>1. /\ custodian' = newCustodian /\ sender' = caller
      /\ UNCHANGED <<ledger, externalLedger, operators, outbox, before>>
  BY DEF UpdateCustodian
<1>2. CurrentBooks' \in BalancedBooks
  BY <1>1 DEF CustodianInv, CurrentBooks
<1>. QED BY <1>1, <1>2, NewBooks DEF CustodianInv, CustodianTypeOK, Address

LEMMA OperationAppliedInv ==
    ASSUME CustodianInv, OperationApplied
    PROVE  CustodianInv'
<1>1. /\ outbox # <<>> /\ outbox' = Tail(outbox)
      /\ before' = IF Tail(outbox) = <<>> THEN NoCall ELSE before
      /\ sender' = CustodianContract
      /\ UNCHANGED <<custodian, ledger, externalLedger, operators>>
  BY DEF OperationApplied
<1>2. outbox \in Seq(Operation) /\ before \in BalancedBooks
  BY <1>1 DEF CustodianInv, CustodianTypeOK
<1>3. outbox' \in Seq(Operation)
  BY <1>1, <1>2, HeadTailProperties
<1>4. CurrentBooks' \in BalancedBooks
  BY <1>1 DEF CustodianInv, CurrentBooks
<1>5. before' \in Books \cup {NoCall} /\ (outbox' # <<>> => before' \in BalancedBooks)
  BY <1>1, <1>2 DEF BalancedBooks
<1>. QED BY <1>1, <1>3, <1>4, <1>5, NewBooks
         DEF CustodianInv, CustodianTypeOK, Address

LEMMA OperationRejectedInv ==
    ASSUME CustodianInv, OperationRejected
    PROVE  CustodianInv'
<1>1. /\ outbox # <<>> /\ outbox' = <<>> /\ before' = NoCall
      /\ ledger' = before.ledger /\ externalLedger' = before.external_ledger
      /\ sender' = CustodianContract /\ UNCHANGED <<custodian, operators>>
  BY DEF OperationRejected
<1>2. before \in BalancedBooks
  BY <1>1 DEF CustodianInv
<1>3. CurrentBooks' \in BalancedBooks
  BY <1>1, <1>2 DEF CurrentBooks, BalancedBooks, Books
<1>. QED BY <1>1, <1>3, NewBooks DEF CustodianInv, CustodianTypeOK, Address

(* A call keeps it whatever the FA2 contracts answer to its views. *)
LEMMA LedgerCallInv ==
    ASSUME CustodianInv, NEW caller \in Wallets,
           NEW view \in [Token -> Nat \cup {NoView}], LedgerCall(caller, view)
    PROVE  CustodianInv'
BY InternalTransferInv, InternalMintInv, ExternalTransferInv,
   UpdateInternalOperatorsInv, UpdateCustodianInv DEF LedgerCall

(* Every step of the contract keeps the inductive invariant. *)
LEMMA CustodianNextInv ==
    ASSUME CustodianInv, [CustodianNext]_<<sender, custodianVars>>
    PROVE  CustodianInv'
<1>1. CASE UNCHANGED <<sender, custodianVars>>
  BY <1>1 DEF CustodianInv, CustodianTypeOK, CurrentBooks, custodianVars
<1>2. ASSUME NEW caller \in Wallets, NEW view \in Views, LedgerCall(caller, view)
      PROVE  CustodianInv'
  <2>1. view \in [Token -> Nat \cup {NoView}]
    BY TezosAssumption DEF Views
  <2>. QED BY <1>2, <2>1, LedgerCallInv
<1>3. ASSUME NEW caller \in Wallets, NEW groups \in Retirements,
             RetireCall(caller, groups)
      PROVE  CustodianInv'
  BY <1>3, RetireInv DEF RetireCall
<1>. QED BY <1>1, <1>2, <1>3, OperationAppliedInv, OperationRejectedInv
         DEF CustodianNext

(* custodian.mligo's storage keeps its type: in particular no balance is    *)
(* ever negative, whatever the lists and the order of calls.               *)
THEOREM CustodianTypeCorrect == CustodianSpec => []CustodianTypeOK
<1>1. CustodianInv => CustodianTypeOK
  BY DEF CustodianInv
<1>. QED BY <1>1, CustodianInitInv, CustodianNextInv, PTL DEF CustodianSpec

(* internal_transfer, internal_mint, external_transfer and retire keep the  *)
(* sum of ledger equal to external_ledger, for each token, also between a  *)
(* call and the FA2 operations it emitted, and after a rejection.          *)
THEOREM BooksAlwaysBalance == CustodianSpec => []LedgerSumsToExternal
<1>1. CustodianInv => LedgerSumsToExternal
  BY DEF CustodianInv, BalancedBooks, LedgerSumsToExternal
<1>. QED BY <1>1, CustodianInitInv, CustodianNextInv, PTL DEF CustodianSpec

-----------------------------------------------------------------------------
(* Authority: no list of transactions lowers what a party it does not name *)
(* as the giver owns.                                                      *)

(* The ledgers in which k has no less of t than floor. *)
AtLeast(k, t, floor) == {l \in KycLedger : l[<<k, t>>] >= floor}

(* A transfer lowers nobody's balance but its giver's. *)
LEMMA TransferSparesOthers ==
    ASSUME NEW k \in Kycs, NEW t \in Token, NEW floor \in Nat,
           NEW l \in AtLeast(k, t, floor), NEW tx \in InternalTransferTx,
           ~(tx.from = k /\ tx.token[2] = t[2]),
           InternalTransferStep[l][tx] # Failed
    PROVE  InternalTransferStep[l][tx] \in AtLeast(k, t, floor)
<1>. DEFINE D == Kycs \X Token
            giver == <<tx.from, tx.token>>
            taker == <<tx.to, tx.token>>
            key == <<k, t>>
            m == InternalTransferStep[l][tx]
<1>1. tx.to \in Kycs /\ tx.from \in Kycs /\ tx.token \in Token /\ tx.amount \in Nat
  BY TezosAssumption DEF InternalTransferTx
<1>2. key \in D /\ taker \in D /\ giver \in D /\ giver # key
  BY <1>1
<1>3. l \in [D -> Nat] /\ l[key] >= floor
  BY DEF AtLeast, KycLedger
<1>4. m = UpdateBalance(giver, -tx.amount, UpdateBalance(taker, tx.amount, l))
      /\ m # Failed
  BY DEF InternalTransferStep, AtLeast
<1>5. m \in [D -> Nat] /\ m[key] >= floor => m \in AtLeast(k, t, floor)
  BY DEF AtLeast, KycLedger
<1>. HIDE DEF D, giver, taker, key, m
<1>6. m \in [D -> Nat] /\ m[key] >= l[key]
  BY <1>1, <1>2, <1>3, <1>4, MoveSparesOthers
<1>7. m[key] \in Nat /\ l[key] \in Nat
  BY <1>2, <1>3, <1>6
<1>8. m \in AtLeast(k, t, floor)
  BY <1>3, <1>5, <1>6, <1>7
<1>. QED BY <1>8 DEF m

LEMMA InternalTransferAuthorised ==
    ASSUME CustodianInv, NEW caller \in Wallets,
           NEW txs \in Batches(InternalTransferTx), InternalTransfer(caller, txs),
           NEW k \in Kycs, NEW t \in Token, ledger'[<<k, t>>] < ledger[<<k, t>>]
    PROVE  MayActFor(caller, k, t[2])
<1>. DEFINE Others == {tx \in InternalTransferTx : ~(tx.from = k /\ tx.token[2] = t[2])}
            S == AtLeast(k, t, ledger[<<k, t>>])
<1>1. /\ ListFold(InternalTransferStep, ledger, txs) # Failed
      /\ ledger' = ListFold(InternalTransferStep, ledger, txs)
      /\ \A i \in DOMAIN txs : MayActFor(caller, txs[i].from, txs[i].token[2])
  BY DEF InternalTransfer
<1>2. ledger \in KycLedger /\ ledger[<<k, t>>] \in Nat /\ ledger \in S
  BY DEF CustodianInv, CustodianTypeOK, KycLedger, AtLeast
<1>3. StaysIn(S, Others, InternalTransferStep)
  <2>. SUFFICES ASSUME NEW l \in S, NEW tx \in Others,
                       InternalTransferStep[l][tx] # Failed
                PROVE  InternalTransferStep[l][tx] \in S
    BY DEF StaysIn
  <2>. QED BY <1>2, TransferSparesOthers
<1>4. txs \in Seq(InternalTransferTx)
  BY BatchesAreSequences
<1>5. CASE txs \in Seq(Others)
  <2>. HIDE DEF S, Others
  <2>1. ListFold(InternalTransferStep, ledger, txs) \in S \cup {Failed}
    BY <1>2, <1>3, <1>5, FoldStaysIn
  <2>2. ledger' \in S
    BY <1>1, <2>1
  <2>3. ledger'[<<k, t>>] >= ledger[<<k, t>>] /\ ledger'[<<k, t>>] \in Nat
    BY <2>2 DEF S, AtLeast, KycLedger
  <2>. QED BY <1>2, <2>3
<1>6. CASE txs \notin Seq(Others)
  <2>1. PICK i \in DOMAIN txs : txs[i] \notin Others
    BY <1>4, <1>6
  <2>2. txs[i].from = k /\ txs[i].token[2] = t[2]
    BY <1>4, <2>1
  <2>. QED BY <1>1, <2>2
<1>. QED BY <1>5, <1>6

(* The books in which k has no less of t than floor. *)
BooksAtLeast(k, t, floor) == {b \in Books : b.ledger \in AtLeast(k, t, floor)}

(* What retire takes from others than k, or in tokens of other ids. *)
RetiredByOthers(k, t) == {x \in RetireTx : ~(x.from = k /\ x.token_id = t[2])}

(* One retirement lowers nobody's balance but its party's. *)
LEMMA RetirementSparesOthers ==
    ASSUME NEW k \in Kycs, NEW t \in Token, NEW floor \in Nat,
           NEW b \in BooksAtLeast(k, t, floor), NEW address \in TokenAddress,
           NEW x \in RetiredByOthers(k, t),
           DebitTxs(RetireTx, address)[b][x] # Failed
    PROVE  DebitTxs(RetireTx, address)[b][x] \in BooksAtLeast(k, t, floor)
<1>. DEFINE D == Kycs \X Token
            token == <<address, x.token_id>>
            giver == <<x.from, token>>
            key == <<k, t>>
            n == x.amount
            l == UpdateBalance(giver, -n, b.ledger)
            e == UpdateBalance(token, -n, b.external_ledger)
<1>1. /\ x \in RetireTx /\ x.from \in Kycs /\ x.token_id \in TokenIds /\ n \in Nat
      /\ ~(x.from = k /\ x.token_id = t[2])
  BY TezosAssumption DEF RetireTx, RetiredByOthers
<1>2. token \in Token /\ key \in D /\ giver \in D /\ giver # key
  BY <1>1 DEF Token
<1>3. /\ b \in Books /\ b.ledger \in [D -> Nat] /\ b.ledger[key] >= floor
      /\ b.external_ledger \in [Token -> Nat]
  BY DEF BooksAtLeast, AtLeast, Books, KycLedger, ExternalLedger
<1>4. /\ l # Failed /\ e # Failed
      /\ DebitTxs(RetireTx, address)[b][x] = [ledger |-> l, external_ledger |-> e]
  BY <1>1, <1>3 DEF DebitTxs, DebitBooks
<1>5. \A m \in [D -> Nat], f \in [Token -> Nat] :
         m[key] >= floor
            => [ledger |-> m, external_ledger |-> f] \in BooksAtLeast(k, t, floor)
  BY DEF BooksAtLeast, AtLeast, Books, KycLedger, ExternalLedger
<1>. HIDE DEF D, token, giver, key, n
<1>6. l \in [D -> Nat] /\ l[key] >= b.ledger[key]
  <2>1. b.ledger[giver] + (-n) >= 0 /\ -n \in Int
    BY <1>1, <1>2, <1>3, <1>4 DEF UpdateBalance
  <2>. QED BY <1>2, <1>3, <2>1, UpdateSparesOthers
<1>7. e \in [Token -> Nat]
  <2>1. b.external_ledger[token] + (-n) >= 0
    BY <1>1, <1>2, <1>3, <1>4 DEF UpdateBalance
  <2>2. /\ e = [b.external_ledger EXCEPT ![token] = @ + (-n)]
        /\ b.external_ledger[token] + (-n) \in Nat
    BY <1>1, <1>2, <1>3, <2>1 DEF UpdateBalance
  <2>. QED BY <1>2, <1>3, <2>2
<1>. HIDE DEF l, e
<1>8. l[key] >= floor
  <2>1. b.ledger[key] \in Nat /\ l[key] \in Nat
    BY <1>2, <1>3, <1>6
  <2>. QED BY <1>3, <1>6, <2>1
<1>. QED BY <1>4, <1>5, <1>6, <1>7, <1>8

(* A group of a list that a batched entrypoint is called with. *)
LEMMA GroupOf ==
    ASSUME NEW tx, NEW groups \in GroupBatches(tx), NEW i \in DOMAIN groups
    PROVE  /\ groups[i] = [token_address |-> groups[i].token_address,
                           txs |-> groups[i].txs]
           /\ groups[i].token_address \in TokenAddress
           /\ groups[i].txs \in Seq(tx)
<1>. DEFINE Group == GroupsOf(tx)
<1>1. groups \in Seq(Group)
  BY GroupBatchesAreSequences
<1>2. groups[i] \in Group
  <2>. HIDE DEF Group
  <2>. QED BY <1>1
<1>. QED BY <1>2, GroupShape

LEMMA RetireAuthorised ==
    ASSUME CustodianInv, NEW caller \in Wallets,
           NEW groups \in Retirements, Retire(caller, groups),
           NEW k \in Kycs, NEW t \in Token, ledger'[<<k, t>>] < ledger[<<k, t>>]
    PROVE  MayActFor(caller, k, t[2])
<1>. DEFINE Others == RetiredByOthers(k, t)
            S == BooksAtLeast(k, t, ledger[<<k, t>>])
            Group == GroupsOf(Others)
            result == ListFold(DebitGroups(RetireTx), CurrentBooks, groups)
<1>1. /\ result # Failed /\ ledger' = result.ledger
      /\ \A i \in DOMAIN groups : \A j \in DOMAIN groups[i].txs :
            MayActFor(caller, groups[i].txs[j].from, groups[i].txs[j].token_id)
  BY DEF Retire, BooksBecome
<1>2. /\ ledger[<<k, t>>] \in Nat /\ CurrentBooks \in S
  BY DEF CustodianInv, CustodianTypeOK, KycLedger, AtLeast, BooksAtLeast,
         CurrentBooks, Books
<1>3. ASSUME NEW address \in TokenAddress
      PROVE  StaysIn(S, Others, DebitTxs(RetireTx, address))
  <2>. SUFFICES ASSUME NEW b \in S, NEW x \in Others,
                       DebitTxs(RetireTx, address)[b][x] # Failed
                PROVE  DebitTxs(RetireTx, address)[b][x] \in S
    BY DEF StaysIn
  <2>. QED BY <1>2, RetirementSparesOthers
<1>4. StaysIn(S, Group, DebitGroups(RetireTx))
  <2>. SUFFICES ASSUME NEW b \in S, NEW g \in Group
                PROVE  DebitGroups(RetireTx)[b][g] \in S \cup {Failed}
    BY DEF StaysIn
  <2>1. /\ g = [token_address |-> g.token_address, txs |-> g.txs]
        /\ g.token_address \in TokenAddress /\ g.txs \in Seq(Others)
    BY GroupShape
  <2>2. g.txs \in Seq(RetireTx)
    BY <2>1, SeqMonotone DEF RetiredByOthers
  <2>3. g \in GroupsOf(RetireTx)
    BY <2>1, <2>2 DEF GroupsOf
  <2>4. DebitGroups(RetireTx)[b][g] =
           ListFold(DebitTxs(RetireTx, g.token_address), b, g.txs)
    BY <2>3, GroupShape DEF BooksAtLeast
  <2>5. StaysIn(S, Others, DebitTxs(RetireTx, g.token_address))
    BY <1>3, <2>1
  <2>. HIDE DEF S, Others
  <2>6. ListFold(DebitTxs(RetireTx, g.token_address), b, g.txs) \in S \cup {Failed}
    BY <2>1, <2>5, FoldStaysIn
  <2>. QED BY <2>4, <2>6
<1>5. CASE \A i \in DOMAIN groups : groups[i].txs \in Seq(Others)
  <2>1. groups \in Seq(Group)
    <3>1. groups \in Seq(GroupsOf(RetireTx))
      BY GroupBatchesAreSequences DEF Retirements
    <3>2. ASSUME NEW i \in DOMAIN groups PROVE groups[i] \in Group
      <4>1. /\ groups[i] = [token_address |-> groups[i].token_address,
                            txs |-> groups[i].txs]
            /\ groups[i].token_address \in TokenAddress
        BY GroupOf DEF Retirements
      <4>. QED BY <1>5, <4>1 DEF GroupsOf
    <3>. HIDE DEF Group
    <3>. QED BY <3>1, <3>2, SeqDef
  <2>. HIDE DEF S, Group
  <2>2. result \in S \cup {Failed}
    BY <1>2, <1>4, <2>1, FoldStaysIn
  <2>3. result \in S
    BY <1>1, <2>2
  <2>. HIDE DEF result
  <2>4. ledger'[<<k, t>>] >= ledger[<<k, t>>] /\ ledger'[<<k, t>>] \in Nat
    BY <1>1, <2>3 DEF S, BooksAtLeast, AtLeast, KycLedger
  <2>. QED BY <1>2, <2>4
<1>6. CASE ~ \A i \in DOMAIN groups : groups[i].txs \in Seq(Others)
  <2>1. PICK i \in DOMAIN groups : groups[i].txs \notin Seq(Others)
    BY <1>6
  <2>2. /\ DOMAIN groups[i].txs = 1..Len(groups[i].txs) /\ Len(groups[i].txs) \in Nat
        /\ \A j \in DOMAIN groups[i].txs : groups[i].txs[j] \in RetireTx
    BY GroupTxs DEF Retirements
  <2>3. groups[i].txs \in Seq(RetireTx)
    BY GroupOf DEF Retirements
  <2>4. PICK j \in DOMAIN groups[i].txs : groups[i].txs[j] \notin Others
    <3>. HIDE DEF Others
    <3>. QED BY <2>1, <2>2, <2>3, SeqDef
  <2>5. groups[i].txs[j].from = k /\ groups[i].txs[j].token_id = t[2]
    BY <2>2, <2>4 DEF RetiredByOthers
  <2>. QED BY <1>1, <2>5
<1>. QED BY <1>5, <1>6

(* Each step that takes from a party is its operator's or the custodian's. *)
LEMMA StepAuthorised ==
    ASSUME CustodianInv, CustodianNext, outbox = <<>>,
           NEW k \in Kycs, NEW t \in Token, ledger'[<<k, t>>] < ledger[<<k, t>>]
    PROVE  MayActFor(sender', k, t[2])
<1>0. ledger[<<k, t>>] \in Nat
  BY DEF CustodianInv, CustodianTypeOK, KycLedger
<1>1. ASSUME NEW caller \in Wallets, NEW view \in Views, LedgerCall(caller, view)
      PROVE  MayActFor(sender', k, t[2])
  <2>1. ASSUME NEW txs \in Batches(InternalTransferTx), InternalTransfer(caller, txs)
        PROVE  MayActFor(sender', k, t[2])
    BY <2>1, InternalTransferAuthorised DEF InternalTransfer
  <2>2. ASSUME NEW tokens \in SyncBatches, InternalMint(caller, tokens, view)
        PROVE  MayActFor(sender', k, t[2])
    BY <2>2 DEF InternalMint, MayActFor
  <2>3. ASSUME NEW groups \in ExternalTransfers, ExternalTransfer(caller, groups)
        PROVE  MayActFor(sender', k, t[2])
    BY <2>3 DEF ExternalTransfer, MayActFor
  <2>4. ASSUME NEW updates \in Batches(KycOperatorUpdate),
               UpdateInternalOperators(caller, updates)
        PROVE  MayActFor(sender', k, t[2])
    BY <2>4 DEF UpdateInternalOperators, MayActFor
  <2>5. ASSUME NEW newCustodian \in Address, UpdateCustodian(caller, newCustodian)
        PROVE  MayActFor(sender', k, t[2])
    BY <2>5 DEF UpdateCustodian, MayActFor
  <2>. QED BY <1>1, <2>1, <2>2, <2>3, <2>4, <2>5 DEF LedgerCall
<1>2. ASSUME NEW caller \in Wallets, NEW groups \in Retirements,
             RetireCall(caller, groups)
      PROVE  MayActFor(sender', k, t[2])
  <2>1. Retire(caller, groups) /\ sender' = caller
    BY <1>2 DEF RetireCall, Retire
  <2>. QED BY <2>1, RetireAuthorised
<1>3. ~OperationApplied /\ ~OperationRejected
  BY DEF OperationApplied, OperationRejected
<1>. QED BY <1>1, <1>2, <1>3 DEF CustodianNext

(* internal_transfer, external_transfer and retire take from a party only   *)
(* for the custodian or for an operator appointed for the party and the    *)
(* token's id, whatever their lists, except that a rejection undoes a call.*)
THEOREM DebitsAuthorised == CustodianSpec => HolderDebitAuthorised
<1>1. CustodianInv /\ [CustodianNext]_<<sender, custodianVars>>
         => [\A k \in Kycs, t \in Token :
                (outbox = <<>> /\ ledger'[k, t] < ledger[k, t])
                   => MayActFor(sender', k, t[2])]_<<sender, custodianVars>>
  BY StepAuthorised
<1>. QED BY <1>1, CustodianInitInv, CustodianNextInv, PTL
         DEF CustodianSpec, HolderDebitAuthorised

-----------------------------------------------------------------------------
(* Amounts: what a list of debits takes out of the books is what it says.  *)

(* The amounts of the elements in sel, in the groups of one FA2 contract.  *)
TakenOf(sel, address, groups) ==
    Total([i \in DOMAIN groups |->
        IF groups[i].token_address = address
        THEN Total([j \in DOMAIN groups[i].txs |->
                IF groups[i].txs[j] \in sel THEN groups[i].txs[j].amount ELSE 0])
        ELSE 0])

(* One debit lowers one balance and one entry of the external ledger. *)
LEMMA DebitEffect ==
    ASSUME NEW b \in Books, NEW k \in Kycs, NEW t \in Token, NEW n \in Nat,
           DebitBooks(b, k, t, n) # Failed
    PROVE  /\ DebitBooks(b, k, t, n) \in Books
           /\ \A key \in Kycs \X Token : DebitBooks(b, k, t, n).ledger[key] =
                 b.ledger[key] - IF key = <<k, t>> THEN n ELSE 0
           /\ \A u \in Token : DebitBooks(b, k, t, n).external_ledger[u] =
                 b.external_ledger[u] - IF u = t THEN n ELSE 0
<1>. DEFINE l == UpdateBalance(<<k, t>>, -n, b.ledger)
            e == UpdateBalance(t, -n, b.external_ledger)
            giver == <<k, t>>
<1>1. /\ l # Failed /\ e # Failed
      /\ DebitBooks(b, k, t, n) = [ledger |-> l, external_ledger |-> e]
  BY DEF DebitBooks
<1>2. /\ b.ledger \in [Kycs \X Token -> Nat] /\ b.external_ledger \in [Token -> Nat]
      /\ giver \in Kycs \X Token
  BY DEF Books, KycLedger, ExternalLedger
<1>3. /\ b.ledger[giver] + (-n) \in Nat /\ b.external_ledger[t] + (-n) \in Nat
      /\ l = [b.ledger EXCEPT ![giver] = @ + (-n)]
      /\ e = [b.external_ledger EXCEPT ![t] = @ + (-n)]
  <2>1. b.ledger[giver] \in Nat /\ b.external_ledger[t] \in Nat
    BY <1>2
  <2>. QED BY <1>1, <2>1 DEF UpdateBalance
<1>. HIDE DEF l, e, giver
<1>4. l \in [Kycs \X Token -> Nat] /\ e \in [Token -> Nat]
  BY <1>2, <1>3
<1>5. \A key \in Kycs \X Token : l[key] = b.ledger[key] - IF key = giver THEN n ELSE 0
  BY <1>2, <1>3
<1>6. \A u \in Token : e[u] = b.external_ledger[u] - IF u = t THEN n ELSE 0
  BY <1>2, <1>3
<1>. QED BY <1>1, <1>4, <1>5, <1>6 DEF Books, KycLedger, ExternalLedger, giver

LEMMA DebitTxsStayIn ==
    ASSUME NEW tx, IsDebit(tx), NEW address \in TokenAddress
    PROVE  StaysIn(Books, tx, DebitTxs(tx, address))
<1>. SUFFICES ASSUME NEW b \in Books, NEW x \in tx, DebitTxs(tx, address)[b][x] # Failed
              PROVE  DebitTxs(tx, address)[b][x] \in Books
  BY DEF StaysIn
<1>1. /\ x.from \in Kycs /\ <<address, x.token_id>> \in Token /\ x.amount \in Nat
      /\ DebitTxs(tx, address)[b][x] =
            DebitBooks(b, x.from, <<address, x.token_id>>, x.amount)
  BY DEF IsDebit, Token, DebitTxs
<1>. QED BY <1>1, DebitEffect

(* Each debit of sel at address adds its amount to a measure of the books,  *)
(* or takes it from it, and no other debit does.                           *)
DebitsAdd(tx, m, sel, address) ==
    \A a \in TokenAddress, b \in Books, x \in tx :
        DebitTxs(tx, a)[b][x] # Failed =>
            m[DebitTxs(tx, a)[b][x]] =
               m[b] + IF a = address /\ x \in sel THEN x.amount ELSE 0

DebitsTake(tx, m, sel, address) ==
    \A a \in TokenAddress, b \in Books, x \in tx :
        DebitTxs(tx, a)[b][x] # Failed =>
            m[DebitTxs(tx, a)[b][x]] =
               m[b] - IF a = address /\ x \in sel THEN x.amount ELSE 0

(* Then the nested folds add what the list takes in all. *)
LEMMA DebitsSum ==
    ASSUME NEW tx, IsDebit(tx), NEW m \in [Books -> Int], NEW sel, NEW address,
           DebitsAdd(tx, m, sel, address), NEW books \in Books,
           NEW groups \in Seq(GroupsOf(tx)),
           ListFold(DebitGroups(tx), books, groups) # Failed
    PROVE  /\ ListFold(DebitGroups(tx), books, groups) \in Books
           /\ m[ListFold(DebitGroups(tx), books, groups)] =
                 m[books] + TakenOf(sel, address, groups)
           /\ TakenOf(sel, address, groups) \in Int
<1>. DEFINE Group == GroupsOf(tx)
            w(a) == [x \in tx |-> IF a = address /\ x \in sel THEN x.amount ELSE 0]
            Sum(g) == IF g.token_address = address
                      THEN Total([j \in DOMAIN g.txs |->
                              IF g.txs[j] \in sel THEN g.txs[j].amount ELSE 0])
                      ELSE 0
            d == [g \in Group |-> Sum(g)]
<1>1. \A x \in tx : x.amount \in Nat
  BY DEF IsDebit
<1>2. \A a \in TokenAddress : w(a) \in [tx -> Int]
  BY <1>1
<1>3. ASSUME NEW g \in Group
      PROVE  /\ Total([j \in DOMAIN g.txs |-> w(g.token_address)[g.txs[j]]]) = Sum(g)
             /\ Sum(g) \in Int
  <2>. DEFINE f == [j \in DOMAIN g.txs |-> w(g.token_address)[g.txs[j]]]
  <2>1. /\ DOMAIN g.txs = 1..Len(g.txs) /\ Len(g.txs) \in Nat
        /\ g.token_address \in TokenAddress
        /\ \A j \in DOMAIN g.txs : g.txs[j] \in tx
    BY GroupShape
  <2>2. IsFiniteSet(DOMAIN g.txs) /\ f \in [DOMAIN g.txs -> Int]
    <3>1. \A j \in DOMAIN g.txs : f[j] \in Int
      <4>. HIDE DEF w
      <4>. QED BY <1>2, <2>1
    <3>2. f = [j \in DOMAIN g.txs |-> f[j]]
      OBVIOUS
    <3>3. IsFiniteSet(DOMAIN g.txs)
      BY <2>1, FS_Interval
    <3>. HIDE DEF f
    <3>. QED BY <3>1, <3>2, <3>3
  <2>3. CASE g.token_address = address
    <3>1. f = [j \in DOMAIN g.txs |->
                 IF g.txs[j] \in sel THEN g.txs[j].amount ELSE 0]
      BY <2>1, <2>3
    <3>2. Total(f) = Sum(g)
      BY <2>3, <3>1
    <3>. HIDE DEF f
    <3>3. Total(f) \in Int
      BY <2>2, TotalInt
    <3>4. Total(f) = Sum(g) /\ Sum(g) \in Int
      BY <3>2, <3>3
    <3>. QED BY <3>4 DEF f
  <2>4. CASE g.token_address # address
    <3>1. \A j \in DOMAIN g.txs : f[j] = 0
      BY <2>1, <2>4
    <3>. HIDE DEF f
    <3>2. Total(f) = 0
      BY <2>2, <3>1, TotalZero
    <3>. QED BY <2>4, <3>2 DEF f
  <2>. QED BY <2>3, <2>4
<1>4. d \in [Group -> Int]
  BY <1>3
<1>5. ASSUME NEW b \in Books, NEW g \in Group, DebitGroups(tx)[b][g] # Failed
      PROVE  DebitGroups(tx)[b][g] \in Books /\ m[DebitGroups(tx)[b][g]] = m[b] + d[g]
  <2>. DEFINE step == DebitTxs(tx, g.token_address)
              v == w(g.token_address)
  <2>1. g.token_address \in TokenAddress /\ g.txs \in Seq(tx)
    BY GroupShape
  <2>2. DebitGroups(tx)[b][g] = ListFold(step, b, g.txs)
    BY GroupShape
  <2>3. StaysIn(Books, tx, step)
    BY <2>1, DebitTxsStayIn
  <2>4. Adds(Books, tx, step, m, v)
    <3>1. \A c \in Books, x \in tx : step[c][x] # Failed => m[step[c][x]] = m[c] + v[x]
      BY <2>1 DEF DebitsAdd
    <3>. QED BY <3>1 DEF Adds
  <2>5. v \in [tx -> Int]
    BY <1>2, <2>1
  <2>6. SumOver(v, g.txs) = d[g]
    BY <1>3 DEF SumOver
  <2>. HIDE DEF v, step, d
  <2>7. ListFold(step, b, g.txs) # Failed
    BY <1>5, <2>2
  <2>8. /\ ListFold(step, b, g.txs) \in Books
        /\ m[ListFold(step, b, g.txs)] = m[b] + SumOver(v, g.txs)
    BY <2>1, <2>3, <2>4, <2>5, <2>7, FoldSums
  <2>. QED BY <2>2, <2>6, <2>8
<1>6. StaysIn(Books, Group, DebitGroups(tx))
  BY <1>5 DEF StaysIn
<1>7. TakenOf(sel, address, groups) = SumOver(d, groups)
  <2>1. \A i \in DOMAIN groups : groups[i] \in Group
    <3>1. groups \in Seq(Group)
      OBVIOUS
    <3>. HIDE DEF Group
    <3>. QED BY <3>1
  <2>2. \A i \in DOMAIN groups : d[groups[i]] = Sum(groups[i])
    BY <2>1
  <2>3. TakenOf(sel, address, groups) = Total([i \in DOMAIN groups |-> Sum(groups[i])])
    BY DEF TakenOf
  <2>. HIDE DEF d, Sum
  <2>4. [i \in DOMAIN groups |-> d[groups[i]]] = [i \in DOMAIN groups |-> Sum(groups[i])]
    BY <2>2
  <2>. QED BY <2>3, <2>4 DEF SumOver
<1>8. groups \in Seq(Group)
  OBVIOUS
<1>. HIDE DEF Group, d
<1>9. /\ ListFold(DebitGroups(tx), books, groups) \in Books
      /\ m[ListFold(DebitGroups(tx), books, groups)] =
            m[books] + SumOver(d, groups)
  <2>1. Adds(Books, Group, DebitGroups(tx), m, d)
    BY <1>5 DEF Adds
  <2>2. ListFold(DebitGroups(tx), books, groups) \in Books
    BY <1>4, <1>6, <1>8, <2>1, FoldSums
  <2>3. m[ListFold(DebitGroups(tx), books, groups)] = m[books] + SumOver(d, groups)
    BY <1>4, <1>6, <1>8, <2>1, FoldSums
  <2>. QED BY <2>2, <2>3
<1>10. SumOver(d, groups) \in Int
  <2>1. DOMAIN groups = 1..Len(groups) /\ Len(groups) \in Nat
        /\ \A i \in DOMAIN groups : groups[i] \in Group
    BY <1>8
  <2>2. IsFiniteSet(DOMAIN groups)
    BY <2>1, FS_Interval
  <2>3. [i \in DOMAIN groups |-> d[groups[i]]] \in [DOMAIN groups -> Int]
    BY <1>4, <2>1
  <2>. QED BY <2>2, <2>3, TotalInt DEF SumOver
<1>. QED BY <1>7, <1>9, <1>10

(* The same of a measure that falls by what is taken. *)
LEMMA DebitsLower ==
    ASSUME NEW tx, IsDebit(tx), NEW m \in [Books -> Int], NEW sel, NEW address,
           DebitsTake(tx, m, sel, address), NEW books \in Books,
           NEW groups \in Seq(GroupsOf(tx)),
           ListFold(DebitGroups(tx), books, groups) # Failed
    PROVE  /\ ListFold(DebitGroups(tx), books, groups) \in Books
           /\ TakenOf(sel, address, groups) =
                 m[books] - m[ListFold(DebitGroups(tx), books, groups)]
<1>. DEFINE result == ListFold(DebitGroups(tx), books, groups)
<1>1. PICK n \in [Books -> Int] : \A b \in Books : n[b] = -m[b] /\ m[b] \in Int
  <2>. DEFINE n == [b \in Books |-> -m[b]]
  <2>1. n \in [Books -> Int] /\ \A b \in Books : n[b] = -m[b] /\ m[b] \in Int
    OBVIOUS
  <2>. HIDE DEF n
  <2>. QED BY <2>1
<1>2. ASSUME NEW a \in TokenAddress, NEW b \in Books, NEW x \in tx,
             DebitTxs(tx, a)[b][x] # Failed
      PROVE  n[DebitTxs(tx, a)[b][x]] =
                n[b] + IF a = address /\ x \in sel THEN x.amount ELSE 0
  <2>. DEFINE c == DebitTxs(tx, a)[b][x]
  <2>1. c \in Books
    BY <1>2, DebitTxsStayIn DEF StaysIn
  <2>2. m[c] = m[b] - IF a = address /\ x \in sel THEN x.amount ELSE 0
    BY <1>2 DEF DebitsTake
  <2>3. x.amount \in Nat
    BY DEF IsDebit
  <2>. HIDE DEF c
  <2>4. n[c] = n[b] + IF a = address /\ x \in sel THEN x.amount ELSE 0
    BY <1>1, <2>1, <2>2, <2>3
  <2>. QED BY <2>4 DEF c
<1>3. /\ result \in Books /\ n[result] = n[books] + TakenOf(sel, address, groups)
      /\ TakenOf(sel, address, groups) \in Int
  <2>1. DebitsAdd(tx, n, sel, address)
    BY <1>2 DEF DebitsAdd
  <2>. QED BY <2>1, DebitsSum
<1>. HIDE DEF result
<1>4. TakenOf(sel, address, groups) = m[books] - m[result]
  <2>1. n[result] = -m[result] /\ n[books] = -m[books]
        /\ m[result] \in Int /\ m[books] \in Int
    BY <1>1, <1>3
  <2>2. TakenOf(sel, address, groups) \in Int
        /\ n[result] = n[books] + TakenOf(sel, address, groups)
    BY <1>3
  <2>. QED BY <2>1, <2>2
<1>. QED BY <1>3, <1>4 DEF result

(* The elements of tx that are of a token id, and those of a party, too. *)
OfId(tx, id) == {x \in tx : x.token_id = id}
OfParty(tx, k, id) == {x \in tx : x.from = k /\ x.token_id = id}

(* What the nested folds leave of each entry of the books. *)
LEMMA DebitsTaken ==
    ASSUME NEW tx, IsDebit(tx), NEW books \in Books,
           NEW groups \in Seq(GroupsOf(tx)),
           NEW result, result = ListFold(DebitGroups(tx), books, groups),
           result # Failed, NEW t \in Token
    PROVE  /\ result \in Books
           /\ TakenOf(OfId(tx, t[2]), t[1], groups) =
                 books.external_ledger[t] - result.external_ledger[t]
           /\ \A k \in Kycs : TakenOf(OfParty(tx, k, t[2]), t[1], groups) =
                 books.ledger[<<k, t>>] - result.ledger[<<k, t>>]
<1>1. ASSUME NEW a \in TokenAddress, NEW b \in Books, NEW x \in tx,
             DebitTxs(tx, a)[b][x] # Failed
      PROVE  /\ DebitTxs(tx, a)[b][x] \in Books
             /\ DebitTxs(tx, a)[b][x].external_ledger[t] =
                   b.external_ledger[t] - IF a = t[1] /\ x \in OfId(tx, t[2])
                                          THEN x.amount ELSE 0
             /\ \A k \in Kycs : DebitTxs(tx, a)[b][x].ledger[<<k, t>>] =
                   b.ledger[<<k, t>>] - IF a = t[1] /\ x \in OfParty(tx, k, t[2])
                                        THEN x.amount ELSE 0
  <2>. DEFINE u == <<a, x.token_id>>
              c == DebitBooks(b, x.from, u, x.amount)
  <2>1. /\ x.from \in Kycs /\ u \in Token /\ x.amount \in Nat
        /\ DebitTxs(tx, a)[b][x] = c
    BY DEF IsDebit, Token, DebitTxs
  <2>2. /\ t = u <=> (a = t[1] /\ x \in OfId(tx, t[2]))
        /\ \A k \in Kycs : <<k, t>> = <<x.from, u>>
                              <=> (a = t[1] /\ x \in OfParty(tx, k, t[2]))
    BY DEF Token, OfId, OfParty
  <2>3. c # Failed
    BY <1>1, <2>1
  <2>. HIDE DEF u
  <2>4. /\ c \in Books
        /\ \A key \in Kycs \X Token : c.ledger[key] =
              b.ledger[key] - IF key = <<x.from, u>> THEN x.amount ELSE 0
        /\ c.external_ledger[t] = b.external_ledger[t] - IF t = u THEN x.amount ELSE 0
    BY <2>1, <2>3, DebitEffect
  <2>. HIDE DEF c
  <2>5. \A k \in Kycs : c.ledger[<<k, t>>] =
           b.ledger[<<k, t>>] - IF <<k, t>> = <<x.from, u>> THEN x.amount ELSE 0
    BY <2>4
  <2>. QED BY <2>1, <2>2, <2>4, <2>5
<1>2. \A b \in Books : /\ b.external_ledger[t] \in Nat
                       /\ \A k \in Kycs : b.ledger[<<k, t>>] \in Nat
  BY DEF Books, KycLedger, ExternalLedger
<1>3. /\ result \in Books
      /\ TakenOf(OfId(tx, t[2]), t[1], groups) =
            books.external_ledger[t] - result.external_ledger[t]
  <2>1. PICK m \in [Books -> Int] : \A b \in Books : m[b] = b.external_ledger[t]
    <3>. DEFINE m == [b \in Books |-> b.external_ledger[t]]
    <3>1. m \in [Books -> Int] /\ \A b \in Books : m[b] = b.external_ledger[t]
      BY <1>2
    <3>. HIDE DEF m
    <3>. QED BY <3>1
  <2>2. DebitsTake(tx, m, OfId(tx, t[2]), t[1])
    BY <1>1, <2>1 DEF DebitsTake
  <2>3. result \in Books
    BY <2>2, DebitsLower
  <2>4. TakenOf(OfId(tx, t[2]), t[1], groups) = m[books] - m[result]
    BY <2>2, DebitsLower
  <2>. QED BY <2>1, <2>3, <2>4
<1>4. ASSUME NEW k \in Kycs
      PROVE  TakenOf(OfParty(tx, k, t[2]), t[1], groups) =
                books.ledger[<<k, t>>] - result.ledger[<<k, t>>]
  <2>1. PICK m \in [Books -> Int] : \A b \in Books : m[b] = b.ledger[<<k, t>>]
    <3>. DEFINE m == [b \in Books |-> b.ledger[<<k, t>>]]
    <3>1. m \in [Books -> Int] /\ \A b \in Books : m[b] = b.ledger[<<k, t>>]
      BY <1>2
    <3>. HIDE DEF m
    <3>. QED BY <3>1
  <2>2. DebitsTake(tx, m, OfParty(tx, k, t[2]), t[1])
    <3>. SUFFICES ASSUME NEW a \in TokenAddress, NEW b \in Books, NEW x \in tx,
                         DebitTxs(tx, a)[b][x] # Failed
                  PROVE  m[DebitTxs(tx, a)[b][x]] =
                            m[b] - IF a = t[1] /\ x \in OfParty(tx, k, t[2])
                                   THEN x.amount ELSE 0
      BY DEF DebitsTake
    <3>. DEFINE c == DebitTxs(tx, a)[b][x]
    <3>1. c \in Books /\ c.ledger[<<k, t>>] =
             b.ledger[<<k, t>>] - IF a = t[1] /\ x \in OfParty(tx, k, t[2])
                                  THEN x.amount ELSE 0
      BY <1>1
    <3>. HIDE DEF c
    <3>2. m[c] = c.ledger[<<k, t>>] /\ m[b] = b.ledger[<<k, t>>]
      BY <2>1, <3>1
    <3>3. m[c] = m[b] - IF a = t[1] /\ x \in OfParty(tx, k, t[2])
                        THEN x.amount ELSE 0
      BY <3>1, <3>2
    <3>. QED BY <3>3 DEF c
  <2>3. TakenOf(OfParty(tx, k, t[2]), t[1], groups) = m[books] - m[result]
    BY <2>2, DebitsLower
  <2>. QED BY <1>3, <2>1, <2>3
<1>. QED BY <1>3, <1>4

(* The operations that retire emits, and its events, are for what it takes. *)
LEMMA OperationsRetireTaken ==
    ASSUME NEW groups \in Retirements, NEW t \in Token
    PROVE  RetiredBy(RetireOperations(groups), t) =
              TakenOf(OfId(RetireTx, t[2]), t[1], groups)
<1>. DEFINE ops == RetireOperations(groups)
            left(i) == [j \in DOMAIN ops[i].txs |->
                IF ops[i].txs[j].token_id = t[2] THEN ops[i].txs[j].amount ELSE 0]
            right(i) == [j \in DOMAIN groups[i].txs |->
                IF groups[i].txs[j] \in OfId(RetireTx, t[2])
                THEN groups[i].txs[j].amount ELSE 0]
<1>1. DOMAIN ops = DOMAIN groups
  BY DEF RetireOperations
<1>2. ASSUME NEW i \in DOMAIN groups
      PROVE  /\ ops[i].entrypoint = "retire"
             /\ ops[i].target = groups[i].token_address
             /\ left(i) = right(i)
  <2>1. /\ ops[i].entrypoint = "retire" /\ ops[i].target = groups[i].token_address
        /\ ops[i].txs = [j \in DOMAIN groups[i].txs |->
              [owner |-> CustodianContract, token_id |-> groups[i].txs[j].token_id,
               amount |-> groups[i].txs[j].amount]]
    BY DEF RetireOperations
  <2>2. /\ DOMAIN ops[i].txs = DOMAIN groups[i].txs
        /\ \A j \in DOMAIN groups[i].txs :
              /\ ops[i].txs[j].token_id = groups[i].txs[j].token_id
              /\ ops[i].txs[j].amount = groups[i].txs[j].amount
    BY <2>1
  <2>3. \A j \in DOMAIN groups[i].txs : groups[i].txs[j] \in RetireTx
    BY GroupTxs DEF Retirements
  <2>. HIDE DEF ops
  <2>4. \A j \in DOMAIN groups[i].txs :
           groups[i].txs[j] \in OfId(RetireTx, t[2]) <=> ops[i].txs[j].token_id = t[2]
    BY <2>2, <2>3 DEF OfId
  <2>5. left(i) = right(i)
    BY <2>2, <2>4
  <2>. QED BY <2>1, <2>5
<1>. HIDE DEF ops, left, right
<1>3. RetiredBy(ops, t) = Total([i \in DOMAIN ops |->
         IF ops[i].entrypoint = "retire" /\ ops[i].target = t[1]
         THEN Total(left(i)) ELSE 0])
  BY DEF RetiredBy, left
<1>4. TakenOf(OfId(RetireTx, t[2]), t[1], groups) = Total([i \in DOMAIN groups |->
         IF groups[i].token_address = t[1] THEN Total(right(i)) ELSE 0])
  BY DEF TakenOf, right
<1>5. [i \in DOMAIN ops |->
         IF ops[i].entrypoint = "retire" /\ ops[i].target = t[1]
         THEN Total(left(i)) ELSE 0]
      = [i \in DOMAIN groups |->
         IF groups[i].token_address = t[1] THEN Total(right(i)) ELSE 0]
  BY <1>1, <1>2
<1>. QED BY <1>3, <1>4, <1>5 DEF ops

LEMMA EventsRetireTaken ==
    ASSUME NEW groups \in Retirements, NEW k \in Kycs, NEW t \in Token
    PROVE  RetireEvents(groups)[<<k, t>>] =
              TakenOf(OfParty(RetireTx, k, t[2]), t[1], groups)
<1>. DEFINE left(i) == [j \in DOMAIN groups[i].txs |->
                IF groups[i].txs[j].from = k /\ groups[i].txs[j].token_id = t[2]
                THEN groups[i].txs[j].amount ELSE 0]
            right(i) == [j \in DOMAIN groups[i].txs |->
                IF groups[i].txs[j] \in OfParty(RetireTx, k, t[2])
                THEN groups[i].txs[j].amount ELSE 0]
<1>1. \A i \in DOMAIN groups : left(i) = right(i)
  <2>. SUFFICES ASSUME NEW i \in DOMAIN groups PROVE left(i) = right(i)
    OBVIOUS
  <2>1. \A j \in DOMAIN groups[i].txs : groups[i].txs[j] \in RetireTx
    BY GroupTxs DEF Retirements
  <2>. QED BY <2>1 DEF OfParty
<1>2. RetireEvents(groups)[<<k, t>>] = Total([i \in DOMAIN groups |->
         IF groups[i].token_address = t[1] THEN Total(left(i)) ELSE 0])
  BY DEF RetireEvents
<1>3. TakenOf(OfParty(RetireTx, k, t[2]), t[1], groups) = Total([i \in DOMAIN groups |->
         IF groups[i].token_address = t[1] THEN Total(right(i)) ELSE 0])
  BY DEF TakenOf
<1>. HIDE DEF left, right
<1>4. [i \in DOMAIN groups |->
         IF groups[i].token_address = t[1] THEN Total(left(i)) ELSE 0]
      = [i \in DOMAIN groups |->
         IF groups[i].token_address = t[1] THEN Total(right(i)) ELSE 0]
  BY <1>1
<1>. QED BY <1>2, <1>3, <1>4

(* Amounts of events are natural numbers. *)
LEMMA TakenNat ==
    ASSUME NEW tx, IsDebit(tx), NEW sel, NEW address,
           NEW groups \in Seq(GroupsOf(tx))
    PROVE  TakenOf(sel, address, groups) \in Nat
<1>. DEFINE Part(i) == [j \in DOMAIN groups[i].txs |->
                IF groups[i].txs[j] \in sel THEN groups[i].txs[j].amount ELSE 0]
            f == [i \in DOMAIN groups |->
                    IF groups[i].token_address = address THEN Total(Part(i)) ELSE 0]
            Group == GroupsOf(tx)
<1>1. ASSUME NEW i \in DOMAIN groups PROVE Total(Part(i)) \in Nat
  <2>1. groups \in Seq(Group)
    OBVIOUS
  <2>2. groups[i] \in Group
    <3>. HIDE DEF Group
    <3>. QED BY <2>1
  <2>3. /\ DOMAIN groups[i].txs = 1..Len(groups[i].txs)
        /\ Len(groups[i].txs) \in Nat
        /\ \A j \in DOMAIN groups[i].txs : groups[i].txs[j] \in tx
    BY <2>2, GroupShape
  <2>4. Part(i) \in [1..Len(groups[i].txs) -> Nat]
    BY <2>3 DEF IsDebit
  <2>5. IsFiniteSet(1..Len(groups[i].txs))
    BY <2>3, FS_Interval
  <2>. HIDE DEF Part
  <2>. QED BY <2>4, <2>5, TotalType
<1>2. DOMAIN groups = 1..Len(groups) /\ Len(groups) \in Nat
  <2>1. groups \in Seq(Group)
    OBVIOUS
  <2>. HIDE DEF Group
  <2>. QED BY <2>1
<1>3. f \in [1..Len(groups) -> Nat]
  <2>. HIDE DEF Part
  <2>. QED BY <1>1, <1>2
<1>4. TakenOf(sel, address, groups) = Total(f)
  BY DEF TakenOf
<1>. HIDE DEF f
<1>5. IsFiniteSet(1..Len(groups))
  BY <1>2, FS_Interval
<1>. QED BY <1>3, <1>4, <1>5, TotalType

LEMMA RetireEventsNat ==
    ASSUME NEW groups \in Retirements, NEW k \in Kycs, NEW t \in Token
    PROVE  RetireEvents(groups)[<<k, t>>] \in Nat
<1>1. IsDebit(RetireTx)
  BY TezosAssumption DEF IsDebit, RetireTx
<1>2. groups \in Seq(GroupsOf(RetireTx))
  BY GroupBatchesAreSequences DEF Retirements
<1>. QED BY <1>1, <1>2, TakenNat, EventsRetireTaken

(* What a call of retire does to the books, to what it emits and to what   *)
(* its events say: of each token the same.                                 *)
LEMMA RetireTakes ==
    ASSUME CustodianInv, NEW caller, NEW groups \in Retirements,
           Retire(caller, groups), NEW t \in Token
    PROVE  /\ RetiredBy(RetireOperations(groups), t) =
                 externalLedger[t] - externalLedger'[t]
           /\ \A k \in Kycs : RetireEvents(groups)[<<k, t>>] =
                 ledger[<<k, t>>] - ledger'[<<k, t>>]
<1>. DEFINE result == ListFold(DebitGroups(RetireTx), CurrentBooks, groups)
<1>1. /\ result # Failed /\ ledger' = result.ledger
      /\ externalLedger' = result.external_ledger
  BY DEF Retire, BooksBecome
<1>2. IsDebit(RetireTx)
  BY TezosAssumption DEF IsDebit, RetireTx
<1>3. groups \in Seq(GroupsOf(RetireTx))
  BY GroupBatchesAreSequences DEF Retirements
<1>4. /\ CurrentBooks \in Books /\ CurrentBooks.ledger = ledger
      /\ CurrentBooks.external_ledger = externalLedger
  BY DEF CustodianInv, BalancedBooks, CurrentBooks
<1>. HIDE DEF result
<1>5. /\ TakenOf(OfId(RetireTx, t[2]), t[1], groups) =
            externalLedger[t] - externalLedger'[t]
      /\ \A k \in Kycs : TakenOf(OfParty(RetireTx, k, t[2]), t[1], groups) =
            ledger[<<k, t>>] - ledger'[<<k, t>>]
  <2>1. result = ListFold(DebitGroups(RetireTx), CurrentBooks, groups)
    BY DEF result
  <2>2. TakenOf(OfId(RetireTx, t[2]), t[1], groups) =
           CurrentBooks.external_ledger[t] - result.external_ledger[t]
    BY <1>1, <1>2, <1>3, <1>4, <2>1, DebitsTaken
  <2>3. \A k \in Kycs : TakenOf(OfParty(RetireTx, k, t[2]), t[1], groups) =
           CurrentBooks.ledger[<<k, t>>] - result.ledger[<<k, t>>]
    BY <1>1, <1>2, <1>3, <1>4, <2>1, DebitsTaken
  <2>. QED BY <1>1, <1>4, <2>2, <2>3
<1>. QED BY <1>5, OperationsRetireTaken, EventsRetireTaken

LEMMA NothingEmitted == ASSUME NEW t PROVE RetiredBy(<<>>, t) = 0
<1>. DEFINE f == [i \in DOMAIN <<>> |->
        IF <<>>[i].entrypoint = "retire" /\ <<>>[i].target = t[1]
        THEN Total([j \in DOMAIN <<>>[i].txs |->
                IF <<>>[i].txs[j].token_id = t[2]
                THEN <<>>[i].txs[j].amount ELSE 0])
        ELSE 0]
<1>1. DOMAIN <<>> = {} /\ IsFiniteSet({})
  BY FS_EmptySet
<1>2. f \in [{} -> Int] /\ \A x \in {} : f[x] = 0
  BY <1>1
<1>3. RetiredBy(<<>>, t) = Total(f)
  BY DEF RetiredBy
<1>. HIDE DEF f
<1>. QED BY <1>1, <1>2, <1>3, TotalZero

(***************************************************************************)
(* Only retire lets somebody other than the custodian take from the        *)
(* external ledger, and the two nested folds of it and of its operations   *)
(* go over the same amounts: every credit it unbooks it sends to %retire.  *)
(***************************************************************************)
THEOREM OperatorsRetireWhatTheyTake == CustodianSpec => OperatorsOnlyRetire
<1>1. ASSUME CustodianInv, CustodianNext, outbox = <<>>, sender' # custodian,
             NEW t \in Token
      PROVE  externalLedger[t] - externalLedger'[t] = RetiredBy(outbox', t)
  <2>0. externalLedger[t] \in Nat
    BY <1>1 DEF CustodianInv, CustodianTypeOK, ExternalLedger
  <2>1. ASSUME NEW caller \in Wallets, NEW view \in Views, LedgerCall(caller, view)
        PROVE  externalLedger' = externalLedger /\ outbox' = <<>>
    BY <1>1, <2>1 DEF LedgerCall, InternalTransfer, InternalMint,
          ExternalTransfer, UpdateInternalOperators, UpdateCustodian
  <2>2. ASSUME NEW caller \in Wallets, NEW groups \in Retirements,
               RetireCall(caller, groups)
        PROVE  externalLedger[t] - externalLedger'[t] = RetiredBy(outbox', t)
    <3>1. Retire(caller, groups) /\ outbox' = RetireOperations(groups)
      BY <2>2 DEF RetireCall, Retire, Emit
    <3>. QED BY <1>1, <3>1, RetireTakes
  <2>3. ~OperationApplied /\ ~OperationRejected
    BY <1>1 DEF OperationApplied, OperationRejected
  <2>4. CASE \E caller \in Wallets, view \in Views : LedgerCall(caller, view)
    BY <2>0, <2>1, <2>4, NothingEmitted
  <2>. QED BY <1>1, <2>2, <2>3, <2>4 DEF CustodianNext
<1>2. CustodianInv /\ [CustodianNext]_<<sender, custodianVars>>
         => [(outbox = <<>> /\ sender' # custodian) =>
                \A t \in Token :
                   externalLedger[t] - externalLedger'[t] = RetiredBy(outbox', t)
            ]_<<sender, custodianVars>>
  BY <1>1
<1>. QED BY <1>2, CustodianInitInv, CustodianNextInv, PTL
         DEF CustodianSpec, OperatorsOnlyRetire

-----------------------------------------------------------------------------
(* CustodianEvents. *)

(* The inductive invariant: the reader knows the ledger, and knew the one   *)
(* Tezos goes back to when an operation that is executing is rejected.     *)
ReplayInv ==
    /\ CustodianInv
    /\ replay # NoReplay => replay = ledger
    /\ outbox # <<>> /\ replayBefore # NoReplay => replayBefore = before.ledger

-----------------------------------------------------------------------------
(* What the events of a list add up to. *)

(* What a transfer changes of what k owns of t, and what a sync does. *)
Received(k, t) == [tx \in InternalTransferTx |->
    IF tx.token # t THEN 0
    ELSE (IF tx.to = k THEN tx.amount ELSE 0) - (IF tx.from = k THEN tx.amount ELSE 0)]

Synced(k, t) == [u \in SyncUpdate |->
    IF u.token = t /\ k = Self /\ u.amount # 0 THEN u.amount ELSE 0]

LEMMA TransferChanges ==
    ASSUME NEW l \in KycLedger, NEW tx \in InternalTransferTx,
           InternalTransferStep[l][tx] # Failed, NEW k \in Kycs, NEW t \in Token
    PROVE  InternalTransferStep[l][tx][<<k, t>>] = l[<<k, t>>] + Received(k, t)[tx]
<1>. DEFINE giver == <<tx.from, tx.token>>
            taker == <<tx.to, tx.token>>
            key == <<k, t>>
            mid == UpdateBalance(taker, tx.amount, l)
            end == UpdateBalance(giver, -tx.amount, mid)
            up == IF taker = key THEN tx.amount ELSE 0
            down == IF giver = key THEN tx.amount ELSE 0
<1>1. /\ giver \in Kycs \X Token /\ taker \in Kycs \X Token /\ key \in Kycs \X Token
      /\ tx.amount \in Nat /\ l \in [Kycs \X Token -> Nat]
  BY TezosAssumption DEF InternalTransferTx, KycLedger
<1>2. InternalTransferStep[l][tx] = end /\ end # Failed
  BY DEF InternalTransferStep
<1>3. Received(k, t)[tx] = up - down
  <2>1. /\ taker = key <=> tx.to = k /\ tx.token = t
        /\ giver = key <=> tx.from = k /\ tx.token = t
    OBVIOUS
  <2>2. Received(k, t)[tx] =
           IF tx.token # t THEN 0
           ELSE (IF tx.to = k THEN tx.amount ELSE 0)
              - (IF tx.from = k THEN tx.amount ELSE 0)
    BY DEF Received
  <2>. HIDE DEF giver, taker, key
  <2>. QED BY <1>1, <2>1, <2>2
<1>. HIDE DEF giver, taker, key
<1>4. l[taker] + tx.amount \in Nat
  BY <1>1
<1>5. mid = [l EXCEPT ![taker] = @ + tx.amount]
  BY <1>4 DEF UpdateBalance
<1>6. mid \in [Kycs \X Token -> Nat] /\ mid[key] = l[key] + up
  BY <1>1, <1>4, <1>5
<1>. HIDE DEF mid
<1>7. mid[giver] + (-tx.amount) \in Nat
  BY <1>1, <1>2, <1>6 DEF UpdateBalance
<1>8. end = [mid EXCEPT ![giver] = @ + (-tx.amount)]
  BY <1>7 DEF UpdateBalance
<1>9. end[key] = mid[key] - down
  <2>1. mid[key] \in Nat
    BY <1>1, <1>6
  <2>2. CASE giver = key
    <3>1. end[key] = mid[key] + (-tx.amount)
      BY <1>1, <1>6, <1>8, <2>2
    <3>. QED BY <1>1, <2>1, <2>2, <3>1
  <2>3. CASE giver # key
    <3>1. end[key] = mid[key]
      BY <1>1, <1>6, <1>8, <2>3
    <3>. QED BY <2>1, <2>3, <3>1
  <2>. QED BY <2>2, <2>3
<1>10. l[key] \in Nat /\ up \in Int /\ down \in Int
  BY <1>1
<1>. HIDE DEF end, up, down
<1>11. end[key] = l[key] + (up - down)
  BY <1>6, <1>9, <1>10
<1>. QED BY <1>2, <1>3, <1>11 DEF key

(* So a list of transfers changes the ledger by what its events say. *)
LEMMA TransfersTold ==
    ASSUME CustodianInv, NEW caller \in Wallets,
           NEW txs \in Batches(InternalTransferTx), InternalTransfer(caller, txs),
           NEW k \in Kycs, NEW t \in Token
    PROVE  ledger'[<<k, t>>] = ledger[<<k, t>>] + InternalTransferEvents(txs)[<<k, t>>]
<1>. DEFINE result == ListFold(InternalTransferStep, ledger, txs)
<1>1. result # Failed /\ ledger' = result
  BY DEF InternalTransfer
<1>2. txs \in Seq(InternalTransferTx)
  BY BatchesAreSequences
<1>3. ledger \in KycLedger
  BY DEF CustodianInv, CustodianTypeOK
<1>4. PICK m \in [KycLedger -> Int] : \A l \in KycLedger : m[l] = l[<<k, t>>]
  <2>1. \A l \in KycLedger : l[<<k, t>>] \in Int
    BY DEF KycLedger
  <2>2. [l \in KycLedger |-> l[<<k, t>>]] \in [KycLedger -> Int]
    BY <2>1
  <2>. QED BY <2>2
<1>5. Received(k, t) \in [InternalTransferTx -> Int]
  <2>1. \A tx \in InternalTransferTx : tx.amount \in Nat
    BY TezosAssumption DEF InternalTransferTx
  <2>2. \A tx \in InternalTransferTx : tx.amount \in Int
    BY <2>1
  <2>. QED BY <2>2 DEF Received
<1>6. StaysIn(KycLedger, InternalTransferTx, InternalTransferStep)
  BY TransferKeepsTotals DEF StaysIn
<1>7. Adds(KycLedger, InternalTransferTx, InternalTransferStep, m, Received(k, t))
  <2>. SUFFICES ASSUME NEW l \in KycLedger, NEW tx \in InternalTransferTx,
                       InternalTransferStep[l][tx] # Failed
                PROVE  m[InternalTransferStep[l][tx]] = m[l] + Received(k, t)[tx]
    BY DEF Adds
  <2>1. InternalTransferStep[l][tx] \in KycLedger
    BY TransferKeepsTotals
  <2>2. InternalTransferStep[l][tx][<<k, t>>] = l[<<k, t>>] + Received(k, t)[tx]
    BY TransferChanges
  <2>. QED BY <1>4, <2>1, <2>2
<1>8. result \in KycLedger /\ m[result] = m[ledger] + SumOver(Received(k, t), txs)
  BY <1>1, <1>2, <1>3, <1>5, <1>6, <1>7, FoldSums
<1>9. InternalTransferEvents(txs)[<<k, t>>] = SumOver(Received(k, t), txs)
  <2>1. \A i \in DOMAIN txs : txs[i] \in InternalTransferTx
    BY <1>2
  <2>2. [i \in DOMAIN txs |-> Received(k, t)[txs[i]]] =
        [i \in DOMAIN txs |->
            IF txs[i].token # t THEN 0
            ELSE (IF txs[i].to = k THEN txs[i].amount ELSE 0)
               - (IF txs[i].from = k THEN txs[i].amount ELSE 0)]
    BY <2>1 DEF Received
  <2>. QED BY <2>2 DEF InternalTransferEvents, SumOver
<1>. QED BY <1>1, <1>3, <1>4, <1>8, <1>9

LEMMA SyncsTold ==
    ASSUME CustodianInv, NEW caller \in Wallets, NEW tokens \in SyncBatches,
           NEW view \in [Token -> Nat \cup {NoView}],
           InternalMint(caller, tokens, view), NEW k \in Kycs, NEW t \in Token
    PROVE  ledger'[<<k, t>>] =
              ledger[<<k, t>>] + InternalMintEvents(SyncUpdates(tokens, view))[<<k, t>>]
<1>. DEFINE updates == SyncUpdates(tokens, view)
            result == ListFold(SyncStep, CurrentBooks, updates)
<1>1. ledger' = result.ledger
  BY DEF InternalMint
<1>2. updates \in Seq(SyncUpdate)
  BY SyncList
<1>. HIDE DEF updates
<1>3. CurrentBooks \in BalancedBooks /\ CurrentBooks \in Books /\ CurrentBooks.ledger = ledger
  BY DEF CustodianInv, BalancedBooks, CurrentBooks
<1>4. result \in BalancedBooks
  BY <1>2, <1>3, SyncsKeepBalance
<1>. HIDE DEF result
<1>5. result # Failed
  BY <1>4, BooksAssumption DEF BalancedBooks
<1>6. PICK m \in [Books -> Int] : \A b \in Books : m[b] = b.ledger[<<k, t>>]
  <2>1. \A b \in Books : b.ledger[<<k, t>>] \in Int
    BY DEF Books, KycLedger
  <2>2. [b \in Books |-> b.ledger[<<k, t>>]] \in [Books -> Int]
    BY <2>1
  <2>. QED BY <2>2
<1>7. Synced(k, t) \in [SyncUpdate -> Int]
  <2>1. \A u \in SyncUpdate : u.amount \in Int
    BY DEF SyncUpdate
  <2>. QED BY <2>1 DEF Synced
<1>8. ASSUME NEW b \in Books, NEW u \in SyncUpdate
      PROVE  SyncStep[b][u] \in Books /\ m[SyncStep[b][u]] = m[b] + Synced(k, t)[u]
  <2>1. /\ SyncStep[b][u] \in Books
        /\ SyncStep[b][u].ledger[<<k, t>>] =
              b.ledger[<<k, t>>] + IF <<k, t>> = <<Self, u.token>> THEN u.amount ELSE 0
    BY SyncEffect
  <2>2. Synced(k, t)[u] = IF <<k, t>> = <<Self, u.token>> THEN u.amount ELSE 0
    BY DEF Synced
  <2>. QED BY <1>6, <2>1, <2>2
<1>9. StaysIn(Books, SyncUpdate, SyncStep) /\ Adds(Books, SyncUpdate, SyncStep, m, Synced(k, t))
  BY <1>8 DEF StaysIn, Adds
<1>10. result \in Books /\ m[result] = m[CurrentBooks] + SumOver(Synced(k, t), updates)
  BY <1>2, <1>3, <1>5, <1>7, <1>9, FoldSums DEF result
<1>11. InternalMintEvents(updates)[<<k, t>>] = SumOver(Synced(k, t), updates)
  <2>1. \A i \in DOMAIN updates : updates[i] \in SyncUpdate
    BY <1>2
  <2>2. [i \in DOMAIN updates |-> Synced(k, t)[updates[i]]] =
        [i \in DOMAIN updates |->
            IF updates[i].token = t /\ k = Self /\ updates[i].amount # 0
            THEN updates[i].amount ELSE 0]
    BY <2>1 DEF Synced
  <2>. QED BY <2>2 DEF InternalMintEvents, SumOver
<1>. QED BY <1>1, <1>3, <1>6, <1>10, <1>11 DEF updates

(* external_transfer tells nothing, but who sees the external ledger as it  *)
(* was knows that nothing was sent out.                                    *)
LEMMA NothingSentOut ==
    ASSUME CustodianInv, NEW caller \in Wallets, NEW groups \in ExternalTransfers,
           ExternalTransfer(caller, groups), externalLedger' = externalLedger
    PROVE  ledger' = ledger
<1>. DEFINE result == ListFold(DebitGroups(ExternalTransferTx), CurrentBooks, groups)
<1>1. result # Failed /\ ledger' = result.ledger
  BY DEF ExternalTransfer, BooksBecome
<1>2. IsDebit(ExternalTransferTx)
  BY TezosAssumption DEF IsDebit, ExternalTransferTx
<1>3. groups \in Seq(GroupsOf(ExternalTransferTx))
  BY GroupBatchesAreSequences DEF ExternalTransfers
<1>4. CurrentBooks \in Books /\ CurrentBooks.ledger = ledger
  BY DEF CustodianInv, BalancedBooks, CurrentBooks
<1>5. CustodianInv'
  BY ExternalTransferInv
<1>6. ledger \in [Kycs \X Token -> Nat] /\ ledger' \in [Kycs \X Token -> Nat]
  BY <1>5 DEF CustodianInv, CustodianTypeOK, KycLedger
<1>. HIDE DEF result
<1>7. ASSUME NEW k \in Kycs, NEW t \in Token PROVE ledger'[<<k, t>>] = ledger[<<k, t>>]
  <2>. DEFINE f == Column(Kycs, ledger', t)
              g == Column(Kycs, ledger, t)
  <2>1. ASSUME NEW h \in Kycs PROVE ledger'[<<h, t>>] <= ledger[<<h, t>>]
    <3>1. TakenOf(OfParty(ExternalTransferTx, h, t[2]), t[1], groups) =
             ledger[<<h, t>>] - ledger'[<<h, t>>]
      BY <1>1, <1>2, <1>3, <1>4, DebitsTaken DEF result
    <3>2. TakenOf(OfParty(ExternalTransferTx, h, t[2]), t[1], groups) \in Nat
      BY <1>2, <1>3, TakenNat
    <3>3. ledger[<<h, t>>] \in Nat /\ ledger'[<<h, t>>] \in Nat
      BY <1>6
    <3>. QED BY <3>1, <3>2, <3>3
  <2>2. Total(f) = externalLedger[t] /\ Total(g) = externalLedger[t]
    BY <1>5 DEF CustodianInv, BalancedBooks, BooksBalance, CurrentBooks
  <2>3. f \in [Kycs -> Nat] /\ g \in [Kycs -> Nat] /\ IsFiniteSet(Kycs)
    BY <1>6, CustodianAssumption, ColumnType
  <2>4. \A h \in Kycs : f[h] = ledger'[<<h, t>>]
    BY Zenon DEF Column
  <2>5. \A h \in Kycs : g[h] = ledger[<<h, t>>]
    BY Zenon DEF Column
  <2>. HIDE DEF f, g
  <2>6. \A h \in Kycs : f[h] <= g[h]
    BY <2>1, <2>4, <2>5
  <2>7. Total(f) = Total(g)
    BY <2>2
  <2>8. f = g
    BY <2>3, <2>6, <2>7, TotalDetermines
  <2>. QED BY <2>4, <2>5, <2>8
<1>. QED BY <1>6, <1>7

-----------------------------------------------------------------------------
(* Every step. *)

(* The reader adds to the ledger what a call has changed in it. *)
LEMMA Told ==
    ASSUME ReplayInv, CustodianInv', outbox = <<>>,
           outbox' # <<>> => before' = CurrentBooks,
           NEW change, Replay(change),
           \A k \in Kycs, t \in Token :
              ledger'[<<k, t>>] = ledger[<<k, t>>] + change[<<k, t>>]
    PROVE  ReplayInv'
<1>1. /\ replay' = IF replay = NoReplay THEN NoReplay
                   ELSE [kt \in Kycs \X Token |-> replay[kt] + change[kt]]
      /\ replayBefore' = IF outbox' = <<>> THEN NoReplay ELSE replay
  BY DEF Replay
<1>2. replay # NoReplay => replay = ledger
  BY DEF ReplayInv
<1>3. ledger' \in [Kycs \X Token -> Nat]
  BY DEF CustodianInv, CustodianTypeOK, KycLedger
<1>4. ASSUME replay' # NoReplay PROVE replay' = ledger'
  <2>1. replay = ledger
    BY <1>1, <1>2, <1>4
  <2>2. replay' = [kt \in Kycs \X Token |-> ledger[kt] + change[kt]]
    BY <1>1, <1>4, <2>1
  <2>3. \A kt \in Kycs \X Token : ledger[kt] + change[kt] = ledger'[kt]
    OBVIOUS
  <2>4. ledger' = [kt \in Kycs \X Token |-> ledger'[kt]]
    BY <1>3
  <2>. QED BY <2>2, <2>3, <2>4
<1>5. ASSUME outbox' # <<>>, replayBefore' # NoReplay
      PROVE  replayBefore' = before'.ledger
  <2>1. replayBefore' = ledger
    BY <1>1, <1>2, <1>5
  <2>2. before'.ledger = ledger
    BY <1>5 DEF CurrentBooks
  <2>. QED BY <2>1, <2>2
<1>. QED BY <1>4, <1>5 DEF ReplayInv

LEMMA ReplayInvInit == EventsInit => ReplayInv
BY CustodianInitInv DEF EventsInit, ReplayInv, CustodianInit, Nothing

LEMMA InternalTransferCallInv ==
    ASSUME ReplayInv, NEW caller \in Wallets, NEW txs \in Batches(InternalTransferTx),
           InternalTransferCall(caller, txs)
    PROVE  ReplayInv'
<1>1. /\ InternalTransfer(caller, txs) /\ Replay(InternalTransferEvents(txs))
      /\ outbox = <<>> /\ outbox' = <<>> /\ CustodianInv
  BY DEF InternalTransferCall, InternalTransfer, ReplayInv
<1>2. CustodianInv'
  BY <1>1, InternalTransferInv
<1>3. \A k \in Kycs, t \in Token : ledger'[<<k, t>>] =
         ledger[<<k, t>>] + InternalTransferEvents(txs)[<<k, t>>]
  BY <1>1, TransfersTold
<1>. QED BY <1>1, <1>2, <1>3, Told

LEMMA InternalMintCallInv ==
    ASSUME ReplayInv, NEW caller \in Wallets, NEW tokens \in SyncBatches,
           NEW view \in Views, InternalMintCall(caller, tokens, view)
    PROVE  ReplayInv'
<1>1. /\ InternalMint(caller, tokens, view)
      /\ Replay(InternalMintEvents(SyncUpdates(tokens, view)))
      /\ outbox = <<>> /\ outbox' = <<>> /\ CustodianInv
  BY DEF InternalMintCall, InternalMint, ReplayInv
<1>2. view \in [Token -> Nat \cup {NoView}]
  BY TezosAssumption DEF Views
<1>3. CustodianInv'
  BY <1>1, <1>2, InternalMintInv
<1>4. \A k \in Kycs, t \in Token : ledger'[<<k, t>>] =
         ledger[<<k, t>>] + InternalMintEvents(SyncUpdates(tokens, view))[<<k, t>>]
  BY <1>1, <1>2, SyncsTold
<1>. QED BY <1>1, <1>3, <1>4, Told

LEMMA ExternalTransferCallInv ==
    ASSUME ReplayInv, NEW caller \in Wallets, NEW groups \in ExternalTransfers,
           ExternalTransferCall(caller, groups)
    PROVE  ReplayInv'
<1>1. /\ ExternalTransfer(caller, groups) /\ CustodianInv
      /\ replay' = IF externalLedger' = externalLedger THEN replay ELSE NoReplay
      /\ replayBefore' = IF outbox' = <<>> THEN NoReplay ELSE replay
      /\ outbox' # <<>> => before' = CurrentBooks
      /\ replay # NoReplay => replay = ledger
  BY DEF ExternalTransferCall, ReplayExternal, ReplayInv, ExternalTransfer, Emit
<1>2. CustodianInv'
  BY <1>1, ExternalTransferInv
<1>3. replay' # NoReplay => replay' = ledger'
  BY <1>1, NothingSentOut
<1>4. outbox' # <<>> /\ replayBefore' # NoReplay => replayBefore' = before'.ledger
  BY <1>1 DEF CurrentBooks
<1>. QED BY <1>2, <1>3, <1>4 DEF ReplayInv

LEMMA RetireAndEmitInv ==
    ASSUME ReplayInv, NEW caller \in Wallets, NEW groups \in Retirements,
           RetireAndEmit(caller, groups)
    PROVE  ReplayInv'
<1>. DEFINE change == [kt \in Kycs \X Token |-> -RetireEvents(groups)[kt]]
<1>1. /\ Retire(caller, groups) /\ Replay(change) /\ outbox = <<>> /\ CustodianInv
      /\ outbox' # <<>> => before' = CurrentBooks
  BY DEF RetireAndEmit, RetireCall, Retire, Emit, ReplayInv
<1>2. CustodianInv'
  BY <1>1, RetireInv
<1>3. ASSUME NEW k \in Kycs, NEW t \in Token
      PROVE  ledger'[<<k, t>>] = ledger[<<k, t>>] + change[<<k, t>>]
  <2>1. RetireEvents(groups)[<<k, t>>] = ledger[<<k, t>>] - ledger'[<<k, t>>]
    BY <1>1, RetireTakes
  <2>2. ledger[<<k, t>>] \in Nat /\ ledger'[<<k, t>>] \in Nat
    BY <1>1, <1>2 DEF CustodianInv, CustodianTypeOK, KycLedger
  <2>3. change[<<k, t>>] = -RetireEvents(groups)[<<k, t>>]
    OBVIOUS
  <2>. HIDE DEF change
  <2>. QED BY <2>1, <2>2, <2>3
<1>. HIDE DEF change
<1>. QED BY <1>1, <1>2, <1>3, Told

(* What only an admin changes has no events of credits. *)
LEMMA AdminCallInv ==
    ASSUME ReplayInv, CustodianInv', outbox = <<>>, UNCHANGED <<ledger, outbox>>,
           Replay(Nothing)
    PROVE  ReplayInv'
<1>1. ASSUME NEW k \in Kycs, NEW t \in Token
      PROVE  ledger'[<<k, t>>] = ledger[<<k, t>>] + Nothing[<<k, t>>]
  <2>1. ledger[<<k, t>>] \in Nat
    BY DEF ReplayInv, CustodianInv, CustodianTypeOK, KycLedger
  <2>2. Nothing[<<k, t>>] = 0
    BY DEF Nothing
  <2>. QED BY <2>1, <2>2
<1>. QED BY <1>1, Told

LEMMA ReplayInvNext ==
    ASSUME ReplayInv, [EventsNext]_eventsVars
    PROVE  ReplayInv'
<1>1. CASE UNCHANGED eventsVars
  BY <1>1 DEF eventsVars, custodianVars, ReplayInv, CustodianInv, CustodianTypeOK,
              CurrentBooks
<1>2. ASSUME NEW caller \in Wallets, NEW updates \in Batches(KycOperatorUpdate),
             UpdateOperatorsCall(caller, updates)
      PROVE  ReplayInv'
  <2>1. UpdateInternalOperators(caller, updates) /\ outbox = <<>> /\ Replay(Nothing)
    BY <1>2 DEF UpdateOperatorsCall
  <2>2. CustodianInv'
    BY <2>1, UpdateInternalOperatorsInv DEF ReplayInv
  <2>. QED BY <2>1, <2>2, AdminCallInv DEF UpdateInternalOperators
<1>3. ASSUME NEW caller \in Wallets, NEW newCustodian \in Address,
             UpdateCustodianCall(caller, newCustodian)
      PROVE  ReplayInv'
  <2>1. UpdateCustodian(caller, newCustodian) /\ outbox = <<>> /\ Replay(Nothing)
    BY <1>3 DEF UpdateCustodianCall
  <2>2. CustodianInv'
    BY <2>1, UpdateCustodianInv DEF ReplayInv
  <2>. QED BY <2>1, <2>2, AdminCallInv DEF UpdateCustodian
<1>4. ASSUME Applied PROVE ReplayInv'
  <2>1. CustodianInv'
    BY <1>4, OperationAppliedInv DEF ReplayInv, Applied
  <2>2. /\ UNCHANGED <<ledger, replay>> /\ outbox # <<>>
        /\ outbox' # <<>> => UNCHANGED <<before, replayBefore>>
    BY <1>4 DEF Applied, OperationApplied
  <2>. QED BY <2>1, <2>2 DEF ReplayInv
<1>5. ASSUME Rejected PROVE ReplayInv'
  <2>1. CustodianInv'
    BY <1>5, OperationRejectedInv DEF ReplayInv, Rejected
  <2>2. /\ outbox # <<>> /\ outbox' = <<>>
        /\ replay' = replayBefore /\ ledger' = before.ledger
    BY <1>5 DEF Rejected, OperationRejected
  <2>. QED BY <2>1, <2>2 DEF ReplayInv
<1>. QED BY <1>1, <1>2, <1>3, <1>4, <1>5, InternalTransferCallInv, InternalMintCallInv,
            ExternalTransferCallInv, RetireAndEmitInv DEF EventsNext

(***************************************************************************)
(* Who has added up the events of the custodian contract knows its ledger, *)
(* as long as external_transfer has sent nothing out, which emits none.    *)
(***************************************************************************)
THEOREM EventsTellLedger == EventsSpec => []EventsGiveLedger
<1>1. ReplayInv => EventsGiveLedger
  BY DEF ReplayInv, EventsGiveLedger
<1>. QED BY <1>1, ReplayInvInit, ReplayInvNext, PTL DEF EventsSpec
=============================================================================
