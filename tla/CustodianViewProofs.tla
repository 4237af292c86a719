------------------------ MODULE CustodianViewProofs ------------------------
(***************************************************************************)
(* What the commands that read a custodian contract show is that of the    *)
(* contract while they ran, for any parties, tokens and amounts, however   *)
(* many calls arrive between their requests.                               *)
(***************************************************************************)
EXTENDS CustodianView, OperatorProofs

-----------------------------------------------------------------------------
(* The contract, block after block. *)

(* What the parties own of a token is what the contract has of it. *)
Balanced(b) == \A t \in Tokens : Total(Column(Parties, b.ledger, t)) = b.external[t]

GoodBlock(b) == b \in Block /\ IsFiniteSet(b.events) /\ Balanced(b)

(* Events stay. *)
Chain(bs) ==
    /\ bs \in Seq(Block) /\ Len(bs) \in 1..MaxBlocks
    /\ \A n \in 1..Len(bs) : GoodBlock(bs[n])
    /\ \A m, n \in 1..Len(bs) : m <= n => bs[m].events \subseteq bs[n].events

LEMMA ChainBegins == Chain(<<EmptyBlock>>)
<1>1. EmptyBlock \in Block
  BY DEF EmptyBlock, Block
<1>2. Balanced(EmptyBlock)
  <2>. SUFFICES ASSUME NEW t \in Tokens
                PROVE  Total(Column(Parties, EmptyBlock.ledger, t)) = 0
    BY DEF Balanced, EmptyBlock
  <2>. DEFINE l == EmptyBlock.ledger
              f == Column(Parties, l, t)
  <2>1. l \in [Parties \X Tokens -> Nat]
    BY DEF EmptyBlock
  <2>2. \A k \in Parties \X Tokens : l[k] = 0
    BY DEF EmptyBlock
  <2>. HIDE DEF l
  <2>3. f \in [Parties -> Nat]
    BY <2>1, ColumnType, CustodianViewAssumption
  <2>4. ASSUME NEW p \in Parties PROVE f[p] = 0
    <3>1. f[p] = l[<<p, t>>]
      BY Zenon DEF Column
    <3>2. <<p, t>> \in Parties \X Tokens
      OBVIOUS
    <3>. QED BY <2>2, <3>1, <3>2
  <2>. HIDE DEF f
  <2>5. f \in [Parties -> Int]
    BY <2>3
  <2>6. Total(f) = 0
    BY <2>4, <2>5, TotalZero, CustodianViewAssumption
  <2>. QED BY <2>6 DEF f, l
<1>3. IsFiniteSet(EmptyBlock.events)
  BY FS_EmptySet DEF EmptyBlock
<1>4. GoodBlock(EmptyBlock)
  BY <1>1, <1>2, <1>3 DEF GoodBlock
<1>5. <<EmptyBlock>> \in Seq(Block) /\ Len(<<EmptyBlock>>) = 1 /\ <<EmptyBlock>>[1] = EmptyBlock
  BY <1>1
<1>. QED BY <1>4, <1>5, IndexerAssumption DEF Chain

LEMMA ChainGrows ==
    ASSUME NEW bs, Chain(bs), Len(bs) < MaxBlocks, NEW b, GoodBlock(b),
           bs[Len(bs)].events \subseteq b.events
    PROVE  Chain(Append(bs, b))
<1>. DEFINE len == Len(bs)
            cs == Append(bs, b)
<1>1. /\ bs \in Seq(Block) /\ len \in 1..MaxBlocks /\ b \in Block
      /\ len \in Nat \ {0} /\ len + 1 \in 1..MaxBlocks
  BY IndexerAssumption DEF Chain, GoodBlock
<1>2. /\ cs \in Seq(Block) /\ Len(cs) = len + 1
      /\ cs[len + 1] = b /\ \A n \in 1..len : cs[n] = bs[n]
  BY <1>1
<1>. HIDE DEF cs
<1>3. \A n \in 1..(len + 1) : n \in 1..len \/ n = len + 1
  BY <1>1
<1>4. \A n \in 1..Len(cs) : GoodBlock(cs[n])
  BY <1>2, <1>3 DEF Chain
<1>5. ASSUME NEW m \in 1..(len + 1), NEW n \in 1..(len + 1), m <= n
      PROVE  cs[m].events \subseteq cs[n].events
  <2>1. CASE n \in 1..len
    <3>1. m \in 1..len
      BY <1>1, <1>5, <2>1
    <3>. QED BY <1>2, <1>5, <2>1, <3>1 DEF Chain
  <2>2. CASE n = len + 1 /\ m \in 1..len
    <3>1. cs[m] = bs[m] /\ bs[m].events \subseteq bs[len].events
      BY <1>1, <1>2, <2>2 DEF Chain
    <3>. QED BY <1>2, <2>2, <3>1
  <2>3. CASE n = len + 1 /\ m = len + 1
    BY <2>3
  <2>. QED BY <1>3, <2>1, <2>2, <2>3
<1>. QED BY <1>1, <1>2, <1>4, <1>5 DEF Chain, cs

(* A block whose ledgers are shifted alike, with events that were there     *)
(* and at most one more.                                                   *)
LEMMA GoodSuccessor ==
    ASSUME NEW old, GoodBlock(old), NEW l, NEW t \in Tokens, NEW d \in Int,
           Shifts(Parties, Tokens, old.ledger, l, t, d),
           NEW events, events \in SUBSET Event, IsFiniteSet(events),
           NEW b, b = [ledger |-> l, external |-> [old.external EXCEPT ![t] = @ + d],
                       events |-> events]
    PROVE  GoodBlock(b)
<1>. DEFINE e == [old.external EXCEPT ![t] = @ + d]
<1>1. l \in [Parties \X Tokens -> Nat] /\ old.external \in [Tokens -> Nat]
  BY DEF Shifts, GoodBlock, Block
<1>2. \A u \in Tokens : Total(Column(Parties, l, u)) =
                           old.external[u] + IF u = t THEN d ELSE 0
  BY DEF Shifts, GoodBlock, Balanced
<1>3. \A u \in Tokens : Total(Column(Parties, l, u)) \in Nat
  BY <1>1, ColumnType, CustodianViewAssumption
<1>4. \A u \in Tokens : e[u] = Total(Column(Parties, l, u))
  BY <1>1, <1>2
<1>5. e \in [Tokens -> Nat]
  BY <1>1, <1>3, <1>4
<1>. HIDE DEF e
<1>6. b = [ledger |-> l, external |-> e, events |-> events]
  BY DEF e
<1>7. b \in Block /\ b.ledger = l /\ b.external = e /\ b.events = events
  BY <1>1, <1>5, <1>6 DEF Block
<1>. QED BY <1>4, <1>7 DEF GoodBlock, Balanced

(* A change of one balance by d, and a transfer: credited first. *)
LEMMA OneShift ==
    ASSUME NEW l \in [Parties \X Tokens -> Nat], NEW p \in Parties,
           NEW t \in Tokens, NEW d \in Int, l[<<p, t>>] + d >= 0
    PROVE  Shifts(Parties, Tokens, l, [l EXCEPT ![<<p, t>>] = @ + d], t, d)
<1>1. UpdateBalance(<<p, t>>, d, l) = [l EXCEPT ![<<p, t>>] = @ + d]
  BY DEF UpdateBalance
<1>2. Shifts(Parties, Tokens, l, UpdateBalance(<<p, t>>, d, l), t, d)
  BY BalanceShift, CustodianViewAssumption
<1>. QED BY <1>1, <1>2

LEMMA BackAndForth ==
    ASSUME NEW D, NEW l \in [D -> Nat], NEW x \in D, NEW n \in Nat
    PROVE  [[l EXCEPT ![x] = @ - n] EXCEPT ![x] = @ + n] = l
<1>1. l[x] \in Nat /\ l[x] - n + n = l[x]
  OBVIOUS
<1>2. \A y \in D : [[l EXCEPT ![x] = @ - n] EXCEPT ![x] = @ + n][y] = l[y]
  BY <1>1
<1>. QED BY <1>2

LEMMA TransferShift ==
    ASSUME NEW l \in [Parties \X Tokens -> Nat], NEW p \in Parties,
           NEW q \in Parties, NEW t \in Tokens, NEW n \in Nat,
           n <= l[<<p, t>>] \/ p = q
    PROVE  Shifts(Parties, Tokens, l,
              [[l EXCEPT ![<<p, t>>] = @ - n] EXCEPT ![<<q, t>>] = @ + n], t, 0)
<1>. DEFINE m == [[l EXCEPT ![<<p, t>>] = @ - n] EXCEPT ![<<q, t>>] = @ + n]
<1>1. CASE p = q
  <2>1. m = l
    <3>1. <<p, t>> \in Parties \X Tokens
      OBVIOUS
    <3>. QED BY <1>1, <3>1, BackAndForth
  <2>2. \A u \in Tokens : Total(Column(Parties, l, u)) \in Nat
    BY ColumnType, CustodianViewAssumption
  <2>. HIDE DEF m
  <2>3. Shifts(Parties, Tokens, l, m, t, 0)
    BY <2>1, <2>2 DEF Shifts
  <2>. QED BY <2>3 DEF m
<1>2. CASE p # q
  <2>. DEFINE d == -n
              k == [l EXCEPT ![<<p, t>>] = @ + d]
  <2>0. <<p, t>> \in Parties \X Tokens /\ l[<<p, t>>] \in Nat
    OBVIOUS
  <2>1. d \in Int /\ l[<<p, t>>] + d >= 0 /\ l[<<p, t>>] + d = l[<<p, t>>] - n
    BY <1>2, <2>0
  <2>2. Shifts(Parties, Tokens, l, k, t, d)
    <3>. HIDE DEF d
    <3>. QED BY <2>1, OneShift
  <2>3. m = [k EXCEPT ![<<q, t>>] = @ + n]
    <3>1. k = [l EXCEPT ![<<p, t>>] = @ - n]
      <4>. HIDE DEF d
      <4>. QED BY <2>1, Zenon
    <3>. HIDE DEF k
    <3>. QED BY <3>1
  <2>. HIDE DEF k, d, m
  <2>4. k \in [Parties \X Tokens -> Nat] /\ <<q, t>> \in Parties \X Tokens
    BY <2>2 DEF Shifts
  <2>5. k[<<q, t>>] + n >= 0
    BY <2>4
  <2>6. Shifts(Parties, Tokens, k, m, t, n)
    <3>1. Shifts(Parties, Tokens, k, [k EXCEPT ![<<q, t>>] = @ + n], t, n)
      <4>1. n \in Int
        OBVIOUS
      <4>. QED BY <2>4, <2>5, <4>1, OneShift, Zenon
    <3>. QED BY <2>3, <3>1
  <2>7. \A u \in Tokens : Total(Column(Parties, l, u)) \in Nat
    BY ColumnType, CustodianViewAssumption
  <2>8. \A u \in Tokens : Total(Column(Parties, k, u)) =
                             Total(Column(Parties, l, u)) + IF u = t THEN d ELSE 0
    BY <2>2 DEF Shifts
  <2>9. \A u \in Tokens : Total(Column(Parties, m, u)) =
                             Total(Column(Parties, k, u)) + IF u = t THEN n ELSE 0
    BY <2>6 DEF Shifts
  <2>10. \A u \in Tokens : Total(Column(Parties, m, u)) =
                              Total(Column(Parties, l, u)) + 0
    BY <2>7, <2>8, <2>9 DEF d
  <2>11. m \in [Parties \X Tokens -> Nat]
    BY <2>6 DEF Shifts
  <2>. QED BY <2>10, <2>11 DEF Shifts, m
<1>. QED BY <1>1, <1>2

(* Whoever owns credits: the contract has as many of the token. *)
LEMMA OwnedIsThere ==
    ASSUME NEW b, GoodBlock(b), NEW p \in Parties, NEW t \in Tokens
    PROVE  b.ledger[<<p, t>>] <= b.external[t]
<1>. DEFINE l == b.ledger
            f == Column(Parties, l, t)
<1>1. l \in [Parties \X Tokens -> Nat]
  BY DEF GoodBlock, Block
<1>. HIDE DEF l
<1>2. f \in [Parties -> Nat]
  BY <1>1, ColumnType, CustodianViewAssumption
<1>3. f[p] = l[<<p, t>>]
  BY Zenon DEF Column
<1>4. f[p] <= Total(f)
  <2>. HIDE DEF f
  <2>. QED BY <1>2, TotalBoundsEntry, CustodianViewAssumption
<1>5. Total(f) = b.external[t]
  BY DEF GoodBlock, Balanced, l
<1>. QED BY <1>3, <1>4, <1>5 DEF l

(* The events with the one of a call. *)
LEMMA EmittedEvents ==
    ASSUME GoodBlock(Now), NEW tag \in Tags,
           NEW p \in Parties \cup {Outside}, NEW q \in Parties \cup {Outside},
           NEW t \in Tokens, NEW n \in Amounts, NEW legible \in BOOLEAN
    PROVE  /\ Emitted(tag, p, q, t, n, legible) \in SUBSET Event
           /\ IsFiniteSet(Emitted(tag, p, q, t, n, legible))
           /\ Now.events \subseteq Emitted(tag, p, q, t, n, legible)
<1>. DEFINE e == [id |-> Cardinality(Now.events) + 1, tag |-> tag, from |-> p,
                  to |-> q, token |-> t, amount |-> n, legible |-> legible]
<1>1. Now.events \in SUBSET Event /\ IsFiniteSet(Now.events)
  BY DEF GoodBlock, Block
<1>2. Cardinality(Now.events) + 1 \in Nat
  BY <1>1, FS_CardinalityType
<1>3. e \in Event
  BY <1>2 DEF Event
<1>4. Emitted(tag, p, q, t, n, legible) = Now.events \cup {e}
  BY DEF Emitted
<1>. HIDE DEF e
<1>5. IsFiniteSet(Now.events \cup {e})
  BY <1>1, FS_AddElement
<1>. QED BY <1>1, <1>3, <1>4, <1>5

(* Blocks are made by changing some of their fields. *)
LEMMA BlockWith ==
    ASSUME NEW b \in Block, NEW l, NEW events
    PROVE  [b EXCEPT !.ledger = l, !.events = events] =
              [ledger |-> l, external |-> b.external, events |-> events]
<1>. DEFINE L == [Parties \X Tokens -> Nat]
            E == [Tokens -> Nat]
            V == SUBSET Event
            c == [b EXCEPT !.ledger = l]
<1>1. b \in [ledger : L, external : E, events : V]
  BY DEF Block
<1>. HIDE DEF L, E, V
<1>2. c \in [ledger : {l}, external : E, events : V] /\ c.external = b.external
  BY <1>1
<1>3. [b EXCEPT !.ledger = l, !.events = events] = [c EXCEPT !.events = events]
  OBVIOUS
<1>. HIDE DEF c
<1>4. [c EXCEPT !.events = events] =
         [ledger |-> c.ledger, external |-> c.external, events |-> events]
  BY <1>2
<1>. QED BY <1>2, <1>3, <1>4

LEMMA BlockDebited ==
    ASSUME NEW b \in Block, NEW l, NEW e, NEW events
    PROVE  [[b EXCEPT !.ledger = l, !.external = e] EXCEPT !.events = events] =
              [ledger |-> l, external |-> e, events |-> events]
<1>. DEFINE L == [Parties \X Tokens -> Nat]
            E == [Tokens -> Nat]
            V == SUBSET Event
            c == [b EXCEPT !.ledger = l]
            d == [c EXCEPT !.external = e]
<1>1. b \in [ledger : L, external : E, events : V]
  BY DEF Block
<1>. HIDE DEF L, E, V
<1>2. c \in [ledger : {l}, external : E, events : V]
  BY <1>1
<1>3. [b EXCEPT !.ledger = l, !.external = e] = d
  OBVIOUS
<1>. HIDE DEF c
<1>4. d \in [ledger : {l}, external : {e}, events : V]
  BY <1>2
<1>. HIDE DEF d
<1>5. [d EXCEPT !.events = events] =
         [ledger |-> d.ledger, external |-> d.external, events |-> events]
  BY <1>4
<1>6. d.ledger = l /\ d.external = e
  BY <1>4
<1>. QED BY <1>3, <1>5, <1>6

(* What a call adds. *)
Arrives(b) == GoodBlock(b) /\ Now.events \subseteq b.events /\ NewBlock(b)

LEMMA InternalMintArrives ==
    ASSUME GoodBlock(Now), NEW t \in Tokens, NEW n \in Amounts, InternalMint(t, n)
    PROVE  \E b : Arrives(b)
<1>. DEFINE l == [Now.ledger EXCEPT ![<<Self, t>>] = @ + n]
            e == [Now.external EXCEPT ![t] = @ + n]
            events == Emitted("internal_mint", Outside, Self, t, n, TRUE)
            b == [ledger |-> l, external |-> e, events |-> events]
<1>1. /\ n \in Int /\ n >= 0 /\ Self \in Parties /\ "internal_mint" \in Tags
      /\ Now.ledger \in [Parties \X Tokens -> Nat]
  BY CustodianViewAssumption DEF Tags, GoodBlock, Block
<1>2. events \in SUBSET Event /\ IsFiniteSet(events) /\ Now.events \subseteq events
  BY <1>1, EmittedEvents
<1>3. Shifts(Parties, Tokens, Now.ledger, l, t, n)
  <2>1. <<Self, t>> \in Parties \X Tokens
    BY <1>1
  <2>2. Now.ledger[<<Self, t>>] + n >= 0
    BY <1>1, <2>1
  <2>. QED BY <1>1, <2>2, OneShift
<1>4. NewBlock(b)
  BY DEF InternalMint
<1>. HIDE DEF l, events
<1>5. GoodBlock(b)
  BY <1>1, <1>2, <1>3, GoodSuccessor
<1>6. Now.events \subseteq b.events
  BY <1>2
<1>. HIDE DEF b
<1>. QED BY <1>4, <1>5, <1>6 DEF Arrives

LEMMA InternalTransferArrives ==
    ASSUME GoodBlock(Now), NEW p \in Parties, NEW q \in Parties,
           NEW t \in Tokens, NEW n \in Amounts, InternalTransfer(p, q, t, n)
    PROVE  \E b : Arrives(b)
<1>. DEFINE l == Moved(Now.ledger, p, q, t, n)
            e == [Now.external EXCEPT ![t] = @ + 0]
            events == Emitted("internal_transfer", p, q, t, n, TRUE)
            b == [ledger |-> l, external |-> e, events |-> events]
<1>1. /\ n \in Nat /\ "internal_transfer" \in Tags
      /\ Now \in Block /\ Now.ledger \in [Parties \X Tokens -> Nat]
      /\ Now.external \in [Tokens -> Nat]
  BY CustodianViewAssumption DEF Tags, GoodBlock, Block
<1>2. events \in SUBSET Event /\ IsFiniteSet(events) /\ Now.events \subseteq events
  BY <1>1, EmittedEvents
<1>3. Shifts(Parties, Tokens, Now.ledger, l, t, 0)
  <2>1. n <= Now.ledger[<<p, t>>] \/ p = q
    BY DEF InternalTransfer
  <2>. QED BY <1>1, <2>1, TransferShift DEF Moved
<1>4. NewBlock(b)
  <2>. HIDE DEF events
  <2>1. e = Now.external
    BY <1>1
  <2>2. b = [Now EXCEPT !.ledger = l, !.events = events]
    <3>. HIDE DEF l, e
    <3>. QED BY <1>1, <2>1, BlockWith
  <2>3. NewBlock([Now EXCEPT !.ledger = l, !.events = events])
    BY Zenon DEF InternalTransfer, events
  <2>. HIDE DEF b, l
  <2>. QED BY <2>2, <2>3
<1>. HIDE DEF l, events
<1>5. GoodBlock(b)
  BY <1>1, <1>2, <1>3, GoodSuccessor
<1>6. Now.events \subseteq b.events
  BY <1>2
<1>. HIDE DEF b
<1>. QED BY <1>4, <1>5, <1>6 DEF Arrives

(* Debiting a party that has the credits. *)
LEMMA DebitedBlock ==
    ASSUME GoodBlock(Now), NEW p \in Parties, NEW t \in Tokens, NEW n \in Amounts,
           n <= Now.ledger[<<p, t>>],
           NEW events, events \in SUBSET Event, IsFiniteSet(events)
    PROVE  GoodBlock([Debited(p, t, n) EXCEPT !.events = events])
<1>. DEFINE d == -n
            l == [Now.ledger EXCEPT ![<<p, t>>] = @ + d]
            e == [Now.external EXCEPT ![t] = @ + d]
            b == [ledger |-> l, external |-> e, events |-> events]
<1>1. /\ n \in Nat /\ Now \in Block
      /\ Now.ledger \in [Parties \X Tokens -> Nat]
      /\ Now.external \in [Tokens -> Nat]
  BY CustodianViewAssumption DEF GoodBlock, Block
<1>2. <<p, t>> \in Parties \X Tokens /\ d \in Int /\ Now.ledger[<<p, t>>] + d >= 0
  BY <1>1
<1>3. Shifts(Parties, Tokens, Now.ledger, l, t, d)
  <2>. HIDE DEF d
  <2>. QED BY <1>1, <1>2, OneShift
<1>4. [Debited(p, t, n) EXCEPT !.events = events] = b
  <2>1. l = [Now.ledger EXCEPT ![<<p, t>>] = @ - n] /\ e = [Now.external EXCEPT ![t] = @ - n]
    BY <1>1
  <2>2. Debited(p, t, n) = [Now EXCEPT !.ledger = l, !.external = e]
    <3>. HIDE DEF l, e
    <3>. QED BY <1>1, <2>1, Zenon DEF Debited
  <2>. HIDE DEF l, e, d
  <2>3. [[Now EXCEPT !.ledger = l, !.external = e] EXCEPT !.events = events] = b
    <3>1. Now \in Block
      BY <1>1
    <3>. QED BY <3>1, BlockDebited
  <2>. QED BY <2>2, <2>3, Zenon
<1>. HIDE DEF l, d
<1>5. GoodBlock(b)
  BY <1>2, <1>3, GoodSuccessor
<1>. HIDE DEF b
<1>. QED BY <1>4, <1>5

LEMMA ExternalTransferArrives ==
    ASSUME GoodBlock(Now), NEW p \in Parties, NEW t \in Tokens, NEW n \in Amounts,
           ExternalTransfer(p, t, n)
    PROVE  \E b : Arrives(b)
<1>. DEFINE b == [Debited(p, t, n) EXCEPT !.events = Now.events]
<1>1. Now \in Block /\ Now.events \in SUBSET Event /\ IsFiniteSet(Now.events)
  BY DEF GoodBlock, Block
<1>2. b = Debited(p, t, n) /\ b.events = Now.events
  BY <1>1 DEF Debited, Block
<1>3. GoodBlock(b)
  BY <1>1, DebitedBlock DEF ExternalTransfer
<1>. HIDE DEF b
<1>. QED BY <1>2, <1>3 DEF Arrives, ExternalTransfer

LEMMA RetireArrives ==
    ASSUME GoodBlock(Now), NEW p \in Parties, NEW t \in Tokens, NEW n \in Amounts,
           NEW legible \in BOOLEAN, Retire(p, t, n, legible)
    PROVE  \E b : Arrives(b)
<1>. DEFINE events == Emitted("retire", p, Outside, t, n, legible)
            b == [Debited(p, t, n) EXCEPT !.events = events]
<1>1. Now \in Block /\ "retire" \in Tags
  BY DEF GoodBlock, Block, Tags
<1>2. events \in SUBSET Event /\ IsFiniteSet(events) /\ Now.events \subseteq events
  BY <1>1, EmittedEvents
<1>3. NewBlock(b)
  BY DEF Retire
<1>. HIDE DEF events
<1>4. b.events = events
  BY <1>1 DEF Debited, Block
<1>5. GoodBlock(b)
  BY <1>2, DebitedBlock DEF Retire
<1>. HIDE DEF b
<1>. QED BY <1>2, <1>3, <1>4, <1>5 DEF Arrives

LEMMA CallArrives == GoodBlock(Now) /\ CustodianCall => \E b : Arrives(b)
<1>. SUFFICES ASSUME GoodBlock(Now), CustodianCall PROVE \E b : Arrives(b)
  OBVIOUS
<1>1. PICK p \in Parties, t \in Tokens, n \in Amounts :
         \/ InternalMint(t, n)
         \/ \E q \in Parties : InternalTransfer(p, q, t, n)
         \/ ExternalTransfer(p, t, n)
         \/ \E legible \in BOOLEAN : Retire(p, t, n, legible)
  BY DEF CustodianCall
<1>. QED BY <1>1, InternalMintArrives, InternalTransferArrives,
            ExternalTransferArrives, RetireArrives

-----------------------------------------------------------------------------
(* The inductive invariant.  left requests are still to be made; a command  *)
(* that has the ledger has that of a block n since it began, and from then *)
(* on what it gets is of n or later.                                       *)

Snapshots == [command : {"sources", "info"},
              ledger : Maps(Parties \X Tokens, 1..MaxInt64),
              external : Maps(Tokens, 1..MaxInt64),
              events : SUBSET Event]

LedgerShown(b, s) ==
    \A p \in Parties, t \in Tokens :
        /\ AmountOf(s.ledger, <<p, t>>) = b.ledger[p, t]
        /\ <<p, t>> \in DOMAIN s.ledger <=> b.ledger[p, t] # 0

ExternalShown(b, s) ==
    \A t \in Tokens : b.external[t] # 0 => AmountOf(s.external, t) = b.external[t]

ExternalSince(bs, n, s) == \E m \in n..Len(bs) : ExternalShown(bs[m], s)

EventsShown(b, s, tags) ==
    \A e \in b.events : e.tag \in tags => e.id \in Ids(s.events)

Fetched(left) ==
    {tag \in Tags : \/ tag = "internal_mint" /\ left <= 2
                    \/ tag = "internal_transfer" /\ left <= 1
                    \/ tag = "retire" /\ left <= 0}

InfoTold(bs, n, s, left) ==
    /\ LedgerShown(bs[n], s)
    /\ left <= 4 => ExternalSince(bs, n, s)
    /\ EventsShown(bs[n], s, Fetched(left))

Told(bs, first, s, left) ==
    IF s.command = "info"
    THEN left <= 5 => \E n \in first..Len(bs) : InfoTold(bs, n, s, left)
    ELSE left <= 0 => \E n \in first..Len(bs) : LedgerShown(bs[n], s)

RequestNames == {"storage", "ledger", "external_ledger", "metadata",
                 "internal_mint", "internal_transfer", "retire"}

RequestsOf(command) == IF command = "info" THEN Info ELSE Sources

(* list is how requests ends. *)
EndOf(requests, list) ==
    /\ list \in Seq(RequestNames) /\ Len(list) <= Len(requests)
    /\ \A i \in 1..Len(list) : list[i] = requests[Len(requests) - Len(list) + i]

CommandInv ==
    /\ outcome \in Outcomes /\ start \in 1..Level
    /\ outcome = "running" => todo # <<>>
    /\ outcome = "shown" => todo = <<>>
    /\ outcome # "idle" => seen \in Snapshots
    /\ outcome \in {"running", "shown"} =>
          /\ EndOf(RequestsOf(seen.command), todo)
          /\ Told(blocks, start, seen, Len(todo))

ViewInv == Chain(blocks) /\ CommandInv

LEMMA ViewInitInv == ViewInit => ViewInv
<1>. SUFFICES ASSUME ViewInit PROVE ViewInv
  OBVIOUS
<1>1. blocks = <<EmptyBlock>> /\ start = 1 /\ outcome = "idle"
  BY DEF ViewInit, IndexerInit
<1>2. Chain(blocks)
  BY <1>1, ChainBegins
<1>3. Level = 1
  BY <1>1 DEF Level
<1>4. CommandInv
  BY <1>1, <1>3 DEF CommandInv, Outcomes
<1>. QED BY <1>2, <1>4 DEF ViewInv

(* A block takes nothing from what a command has read. *)
LEMMA ToldBeforeBlock ==
    ASSUME NEW bs \in Seq(Block), NEW b \in Block, NEW first \in 1..Len(bs),
           NEW s, NEW left, Told(bs, first, s, left)
    PROVE  Told(Append(bs, b), first, s, left)
<1>. DEFINE cs == Append(bs, b)
<1>1. /\ Len(bs) \in Nat /\ Len(cs) = Len(bs) + 1
      /\ \A n \in 1..Len(bs) : cs[n] = bs[n]
  OBVIOUS
<1>. HIDE DEF cs
<1>2. \A n \in first..Len(bs) : n \in first..Len(cs) /\ cs[n] = bs[n]
  BY <1>1
<1>3. ASSUME NEW n \in first..Len(bs), InfoTold(bs, n, s, left)
      PROVE  InfoTold(cs, n, s, left)
  <2>1. cs[n] = bs[n] /\ \A m \in n..Len(bs) : m \in n..Len(cs) /\ cs[m] = bs[m]
    BY <1>1
  <2>. QED BY <1>3, <2>1 DEF InfoTold, ExternalSince
<1>4. Told(cs, first, s, left)
  BY <1>2, <1>3 DEF Told
<1>. QED BY <1>4 DEF cs

LEMMA CallInv == ViewInv /\ CustodianCall => ViewInv'
<1>. SUFFICES ASSUME ViewInv, CustodianCall PROVE ViewInv'
  OBVIOUS
<1>1. /\ Chain(blocks) /\ blocks \in Seq(Block)
      /\ Level = Len(blocks) /\ Level \in Nat \ {0} /\ Now = blocks[Level]
      /\ start \in 1..Level
  BY IndexerAssumption DEF ViewInv, CommandInv, Chain, Level, Now
<1>2. GoodBlock(Now)
  BY <1>1 DEF Chain
<1>3. PICK b : Arrives(b)
  BY <1>2, CallArrives
<1>4. /\ Level < MaxBlocks /\ blocks' = Append(blocks, b)
      /\ UNCHANGED <<todo, start, seen, outcome>>
      /\ b \in Block
  BY <1>3 DEF Arrives, NewBlock, GoodBlock
<1>5. Chain(blocks')
  BY <1>1, <1>3, <1>4, ChainGrows DEF Arrives
<1>6. Level' = Level + 1
  BY <1>1, <1>4 DEF Level
<1>7. Told(blocks, start, seen, Len(todo)) => Told(blocks', start, seen, Len(todo))
  BY <1>1, <1>4, ToldBeforeBlock
<1>8. CommandInv'
  BY <1>1, <1>4, <1>6, <1>7 DEF ViewInv, CommandInv
<1>. QED BY <1>5, <1>8 DEF ViewInv

LEMMA Requests ==
    /\ Info \in Seq(RequestNames) /\ Len(Info) = 7
    /\ Sources \in Seq(RequestNames) /\ Len(Sources) = 2
BY DEF Info, Sources, RequestNames

LEMMA WholeIsEnd ==
    ASSUME NEW requests \in Seq(RequestNames)
    PROVE  EndOf(requests, requests)
<1>1. Len(requests) \in Nat
  OBVIOUS
<1>2. \A i \in 1..Len(requests) : Len(requests) - Len(requests) + i = i
  BY <1>1
<1>. QED BY <1>1, <1>2 DEF EndOf

(* A command begins with all its requests to make. *)
LEMMA BeginInv ==
    ASSUME ViewInv, NEW command \in {"sources", "info"},
           Begin(RequestsOf(command), Nothing(command))
    PROVE  ViewInv'
<1>. DEFINE requests == RequestsOf(command)
            s == Nothing(command)
<1>1. /\ todo' = requests /\ start' = Level /\ seen' = s
      /\ outcome' = "running" /\ blocks' = blocks
  BY DEF Begin
<1>2. Level \in 1..Level /\ Level' = Level
  BY <1>1, IndexerAssumption DEF ViewInv, Chain, Level
<1>3. s \in Snapshots /\ s.command = command
  <2>1. \A keys, values : <<>> \in Maps(keys, values)
    <3>1. \A values : <<>> \in [{} -> values]
      OBVIOUS
    <3>. QED BY <3>1, Zenon DEF Maps
  <2>. QED BY <2>1 DEF Nothing, Snapshots
<1>4. EndOf(requests, requests) /\ requests # <<>>
      /\ Len(requests) = IF command = "info" THEN 7 ELSE 2
  <2>1. /\ requests \in Seq(RequestNames)
        /\ Len(requests) = IF command = "info" THEN 7 ELSE 2
    BY Requests DEF RequestsOf
  <2>. HIDE DEF requests
  <2>2. requests # <<>>
    <3>1. Len(requests) # 0 /\ Len(<<>>) = 0
      BY <2>1
    <3>. QED BY <3>1
  <2>. QED BY <2>1, <2>2, WholeIsEnd
<1>5. Told(blocks, Level, s, Len(requests))
  BY <1>3, <1>4 DEF Told
<1>. HIDE DEF requests, s
<1>6. CommandInv'
  BY <1>1, <1>2, <1>3, <1>4, <1>5 DEF CommandInv, Outcomes, requests
<1>. QED BY <1>1, <1>6 DEF ViewInv

LEMMA EndInv ==
    ASSUME ViewInv, NEW why \in {"unanswered", "not understood"}, GiveUp(why)
    PROVE  ViewInv'
<1>1. /\ outcome = "running" /\ outcome' = why /\ todo' = <<>>
      /\ UNCHANGED <<blocks, start, seen>>
  BY DEF GiveUp
<1>2. CommandInv' /\ Chain(blocks')
  BY <1>1 DEF ViewInv, CommandInv, Outcomes, Level
<1>. QED BY <1>2 DEF ViewInv

LEMMA FinishInv ==
    ASSUME ViewInv, Finish
    PROVE  ViewInv'
<1>1. outcome' = "idle" /\ start' = 1 /\ UNCHANGED <<blocks, todo>>
  BY DEF Finish
<1>2. 1 \in 1..Level
  BY IndexerAssumption DEF ViewInv, Chain, Level
<1>3. CommandInv' /\ Chain(blocks')
  BY <1>1, <1>2 DEF ViewInv, CommandInv, Outcomes, Level
<1>. QED BY <1>3 DEF ViewInv

(* Which request it is tells how many are left. *)
LEMMA Left ==
    ASSUME ViewInv, NEW request, Asked(request)
    PROVE  /\ seen \in Snapshots
           /\ seen.command = "info" => /\ Len(todo) \in 1..7
                                       /\ request = Info[8 - Len(todo)]
           /\ seen.command # "info" => /\ Len(todo) \in 1..2
                                       /\ request = Sources[3 - Len(todo)]
<1>1. /\ outcome = "running" /\ request = Head(todo) /\ todo # <<>>
      /\ seen \in Snapshots /\ EndOf(RequestsOf(seen.command), todo)
  BY DEF Asked, ViewInv, CommandInv
<1>2. /\ todo \in Seq(RequestNames) /\ Len(todo) \in Nat /\ Len(todo) >= 1
      /\ request = todo[1] /\ 1 \in 1..Len(todo)
  BY <1>1 DEF EndOf
<1>3. \A requests \in Seq(RequestNames) :
         EndOf(requests, todo) => /\ Len(todo) <= Len(requests)
                                  /\ todo[1] = requests[Len(requests) - Len(todo) + 1]
  BY <1>2, Zenon DEF EndOf
<1>4. CASE seen.command = "info"
  <2>1. EndOf(Info, todo)
    BY <1>1, <1>4 DEF RequestsOf
  <2>2. Len(todo) <= 7 /\ todo[1] = Info[7 - Len(todo) + 1]
    BY <1>3, <2>1, Requests, Zenon
  <2>3. 7 - Len(todo) + 1 = 8 - Len(todo) /\ Len(todo) \in 1..7
    <3>1. \A n \in Nat : n >= 1 /\ n <= 7 => 7 - n + 1 = 8 - n /\ n \in 1..7
      OBVIOUS
    <3>. QED BY <1>2, <2>2, <3>1, Zenon
  <2>4. request = Info[8 - Len(todo)]
    BY <1>2, <2>2, <2>3, Zenon
  <2>. QED BY <1>1, <1>4, <2>3, <2>4, Zenon
<1>5. CASE seen.command # "info"
  <2>1. EndOf(Sources, todo)
    BY <1>1, <1>5 DEF RequestsOf
  <2>2. Len(todo) <= 2 /\ todo[1] = Sources[2 - Len(todo) + 1]
    BY <1>3, <2>1, Requests, Zenon
  <2>3. 2 - Len(todo) + 1 = 3 - Len(todo) /\ Len(todo) \in 1..2
    <3>1. \A n \in Nat : n >= 1 /\ n <= 2 => 2 - n + 1 = 3 - n /\ n \in 1..2
      OBVIOUS
    <3>. QED BY <1>2, <2>2, <3>1, Zenon
  <2>4. request = Sources[3 - Len(todo)]
    BY <1>2, <2>2, <2>3, Zenon
  <2>. QED BY <1>1, <1>5, <2>3, <2>4, Zenon
<1>. QED BY <1>4, <1>5

LEMMA Order ==
    /\ Info[1] = "storage" /\ Info[2] = "ledger" /\ Info[3] = "external_ledger"
    /\ Info[4] = "metadata" /\ Info[5] = "internal_mint"
    /\ Info[6] = "internal_transfer" /\ Info[7] = "retire"
    /\ Sources[1] = "storage" /\ Sources[2] = "ledger"
BY DEF Info, Sources

(* The request left numbers tells which it is, and the other way round.    *)
LEMMA LeftOf ==
    ASSUME ViewInv, NEW request, Asked(request)
    PROVE  IF seen.command = "info"
           THEN /\ request = "storage" => Len(todo) = 7
                /\ request = "ledger" => Len(todo) = 6
                /\ request = "external_ledger" => Len(todo) = 5
                /\ request = "metadata" => Len(todo) = 4
                /\ request = "internal_mint" => Len(todo) = 3
                /\ request = "internal_transfer" => Len(todo) = 2
                /\ request = "retire" => Len(todo) = 1
           ELSE /\ request \in {"storage", "ledger"}
                /\ request = "storage" => Len(todo) = 2
                /\ request = "ledger" => Len(todo) = 1
<1>1. CASE seen.command = "info"
  <2>1. Len(todo) \in 1..7 /\ request = Info[8 - Len(todo)]
    BY <1>1, Left
  <2>2. \/ Len(todo) = 1 \/ Len(todo) = 2 \/ Len(todo) = 3 \/ Len(todo) = 4
        \/ Len(todo) = 5 \/ Len(todo) = 6 \/ Len(todo) = 7
    BY <2>1
  <2>3. \/ Len(todo) = 1 /\ request = "retire"
        \/ Len(todo) = 2 /\ request = "internal_transfer"
        \/ Len(todo) = 3 /\ request = "internal_mint"
        \/ Len(todo) = 4 /\ request = "metadata"
        \/ Len(todo) = 5 /\ request = "external_ledger"
        \/ Len(todo) = 6 /\ request = "ledger"
        \/ Len(todo) = 7 /\ request = "storage"
    <3>1. \A left \in 1..7 :
             /\ left = 1 => 8 - left = 7
             /\ left = 2 => 8 - left = 6
             /\ left = 3 => 8 - left = 5
             /\ left = 4 => 8 - left = 4
             /\ left = 5 => 8 - left = 3
             /\ left = 6 => 8 - left = 2
             /\ left = 7 => 8 - left = 1
      OBVIOUS
    <3>. QED BY <2>1, <2>2, <3>1, Order, Zenon
  <2>. QED BY <1>1, <2>3
<1>2. CASE seen.command # "info"
  <2>1. Len(todo) \in 1..2 /\ request = Sources[3 - Len(todo)]
    BY <1>2, Left
  <2>2. Len(todo) = 1 \/ Len(todo) = 2
    BY <2>1
  <2>3. \/ Len(todo) = 1 /\ request = "ledger"
        \/ Len(todo) = 2 /\ request = "storage"
    <3>1. \A left \in 1..2 : /\ left = 1 => 3 - left = 2
                             /\ left = 2 => 3 - left = 1
      OBVIOUS
    <3>. QED BY <2>1, <2>2, <3>1, Order, Zenon
  <2>. QED BY <1>2, <2>3
<1>. QED BY <1>1, <1>2

LEMMA TailIsEnd ==
    ASSUME NEW requests \in Seq(RequestNames), NEW list, EndOf(requests, list),
           list # <<>>
    PROVE  EndOf(requests, Tail(list)) /\ Len(Tail(list)) = Len(list) - 1
<1>1. /\ list \in Seq(RequestNames) /\ Len(list) <= Len(requests)
      /\ Len(requests) \in Nat /\ Len(list) \in Nat /\ Len(list) >= 1
      /\ \A i \in 1..Len(list) : list[i] = requests[Len(requests) - Len(list) + i]
  BY DEF EndOf
<1>. DEFINE rest == Tail(list)
<1>2. /\ rest \in Seq(RequestNames) /\ Len(rest) = Len(list) - 1
      /\ \A i \in 1..Len(rest) : rest[i] = list[i + 1]
  BY <1>1
<1>. HIDE DEF rest
<1>3. ASSUME NEW i \in 1..Len(rest)
      PROVE  rest[i] = requests[Len(requests) - Len(rest) + i]
  <2>1. /\ i + 1 \in 1..Len(list)
        /\ Len(requests) - Len(list) + (i + 1) = Len(requests) - Len(rest) + i
    BY <1>1, <1>2
  <2>2. list[i + 1] = requests[Len(requests) - Len(list) + (i + 1)]
    BY <1>1, <2>1
  <2>3. rest[i] = list[i + 1]
    BY <1>2
  <2>. QED BY <2>1, <2>2, <2>3
<1>4. Len(rest) <= Len(requests)
  BY <1>1, <1>2
<1>. QED BY <1>2, <1>3, <1>4 DEF EndOf, rest

(* What a command makes of an answer. *)
LEMMA ReadInv ==
    ASSUME ViewInv, NEW request, NEW result \in Snapshots, Read(request, result),
           result.command = seen.command,
           Told(blocks, start, result, Len(todo) - 1)
    PROVE  ViewInv'
<1>1. /\ Asked(request) /\ outcome = "running" /\ todo # <<>>
      /\ todo' = Tail(todo) /\ seen' = result
      /\ outcome' = IF Len(todo) = 1 THEN "shown" ELSE "running"
      /\ UNCHANGED <<blocks, start>>
      /\ EndOf(RequestsOf(seen.command), todo)
      /\ Chain(blocks) /\ start \in 1..Level
  BY DEF Read, Asked, ViewInv, CommandInv
<1>2. RequestsOf(seen.command) \in Seq(RequestNames)
  BY Requests DEF RequestsOf
<1>3. EndOf(RequestsOf(result.command), todo') /\ Len(todo') = Len(todo) - 1
  BY <1>1, <1>2, TailIsEnd
<1>4. todo' \in Seq(RequestNames) /\ todo \in Seq(RequestNames)
  BY <1>1, <1>3 DEF EndOf
<1>5. outcome' = "shown" => todo' = <<>>
  BY <1>1, <1>3, <1>4
<1>6. outcome' = "running" => todo' # <<>>
  <2>1. outcome' = "running" => Len(todo') # 0
    BY <1>1, <1>3, <1>4
  <2>2. Len(<<>>) = 0
    OBVIOUS
  <2>. QED BY <2>1, <2>2
<1>7. Told(blocks', start', seen', Len(todo'))
  BY <1>1, <1>3, Zenon
<1>8. start' \in 1..Level' /\ outcome' \in {"shown", "running"}
  BY <1>1 DEF Level
<1>9. CommandInv'
  <2>1. outcome' \in Outcomes /\ seen' \in Snapshots
    BY <1>1, <1>8 DEF Outcomes
  <2>2. EndOf(RequestsOf(seen.command), todo)'
    BY <1>1, <1>3, Zenon
  <2>. QED BY <1>5, <1>6, <1>7, <1>8, <2>1, <2>2 DEF CommandInv
<1>. QED BY <1>1, <1>9 DEF ViewInv

-----------------------------------------------------------------------------
(* The requests, one after the other. *)

LEMMA SnapshotWith ==
    ASSUME NEW s \in Snapshots, NEW ledger \in Maps(Parties \X Tokens, 1..MaxInt64),
           NEW external \in Maps(Tokens, 1..MaxInt64), NEW events \in SUBSET Event
    PROVE  /\ [s EXCEPT !.ledger = ledger] =
                 [command |-> s.command, ledger |-> ledger,
                  external |-> s.external, events |-> s.events]
           /\ [s EXCEPT !.external = external] =
                 [command |-> s.command, ledger |-> s.ledger,
                  external |-> external, events |-> s.events]
           /\ [s EXCEPT !.events = events] =
                 [command |-> s.command, ledger |-> s.ledger,
                  external |-> s.external, events |-> events]
           /\ [s EXCEPT !.ledger = ledger] \in Snapshots
           /\ [s EXCEPT !.external = external] \in Snapshots
           /\ [s EXCEPT !.events = events] \in Snapshots
<1>. DEFINE L == Maps(Parties \X Tokens, 1..MaxInt64)
            E == Maps(Tokens, 1..MaxInt64)
            V == SUBSET Event
<1>1. Snapshots = [command : {"sources", "info"}, ledger : L, external : E, events : V]
  BY DEF Snapshots
<1>2. ledger \in L /\ external \in E /\ events \in V
  OBVIOUS
<1>. HIDE DEF L, E, V
<1>. QED BY <1>1, <1>2

LEMMA BlocksRead ==
    ASSUME ViewInv
    PROVE  /\ Level \in Nat \ {0} /\ start \in 1..Level /\ Level = Len(blocks)
           /\ Now = blocks[Level] /\ Now \in Block /\ Chain(blocks)
           /\ [n \in 1..Level |-> blocks[n].ledger]
                 \in Histories(Level, Parties \X Tokens)
           /\ [n \in 1..Level |-> blocks[n].external] \in Histories(Level, Tokens)
<1>1. /\ Level \in Nat \ {0} /\ start \in 1..Level /\ Level = Len(blocks)
      /\ Now = blocks[Level] /\ Chain(blocks) /\ blocks \in Seq(Block)
  BY IndexerAssumption DEF ViewInv, CommandInv, Chain, Level, Now
<1>2. \A n \in 1..Level : blocks[n] \in Block
  BY <1>1
<1>3. \A n \in 1..Level : /\ blocks[n].ledger \in [Parties \X Tokens -> Nat]
                          /\ blocks[n].external \in [Tokens -> Nat]
  BY <1>2 DEF Block
<1>4. Now \in Block
  BY <1>1, <1>2
<1>. QED BY <1>1, <1>3, <1>4 DEF Histories

LEMMA StorageInv == ViewInv /\ GetContractStorage => ViewInv'
<1>. SUFFICES ASSUME ViewInv, GetContractStorage PROVE ViewInv'
  OBVIOUS
<1>1. Read("storage", seen) /\ Asked("storage")
  BY DEF GetContractStorage, Read
<1>2. seen \in Snapshots
  BY <1>1, Left
<1>3. Told(blocks, start, seen, Len(todo) - 1)
  <2>1. CASE seen.command = "info"
    <3>1. Len(todo) = 7
      BY <1>1, <2>1, LeftOf
    <3>2. ~(Len(todo) - 1 <= 5)
      BY <3>1
    <3>. QED BY <2>1, <3>2, Zenon DEF Told
  <2>2. CASE seen.command # "info"
    <3>1. Len(todo) = 2
      BY <1>1, <2>2, LeftOf
    <3>2. ~(Len(todo) - 1 <= 0)
      BY <3>1
    <3>. QED BY <2>2, <3>2, Zenon DEF Told
  <2>. QED BY <2>1, <2>2
<1>. QED BY <1>1, <1>2, <1>3, ReadInv

(* What the ledger's answer is decoded to. *)
LEMMA LedgerAnswer ==
    ASSUME ViewInv, NEW items, items = ActiveItems(LedgerItems), Fits(items)
    PROVE  /\ AsMap(items) \in Maps(Parties \X Tokens, 1..MaxInt64)
           /\ \A k \in Parties \X Tokens :
                 /\ AmountOf(AsMap(items), k) = Now.ledger[k]
                 /\ k \in DOMAIN AsMap(items) <=> Now.ledger[k] # 0
<1>. DEFINE amounts == [n \in 1..Level |-> blocks[n].ledger]
            map == AsMap(items)
<1>1. /\ Level \in Nat \ {0} /\ amounts \in Histories(Level, Parties \X Tokens)
      /\ amounts[Level] = Now.ledger
  BY BlocksRead
<1>2. items = ActiveItems(BigMapItems(amounts, Parties \X Tokens))
  BY DEF LedgerItems
<1>3. map = AsMap(items)
  OBVIOUS
<1>. HIDE DEF amounts, map
<1>4. /\ map \in Maps(Parties \X Tokens, 1..MaxInt64)
      /\ \A k \in Parties \X Tokens : /\ AmountOf(map, k) = amounts[Level][k]
                                      /\ k \in DOMAIN map <=> amounts[Level][k] # 0
  <2>. DEFINE Keys == Parties \X Tokens
  <2>1. /\ Level \in Nat \ {0} /\ amounts \in Histories(Level, Keys)
        /\ items = ActiveItems(BigMapItems(amounts, Keys))
        /\ MaxInt64 \in Nat /\ \A i \in items : i.value <= MaxInt64
    BY <1>1, <1>2, IndexerAssumption DEF Fits
  <2>. HIDE DEF Keys
  <2>2. map \in Maps(Keys, 1..MaxInt64)
    BY <2>1, <1>3, ActiveMap
  <2>3. ASSUME NEW k \in Keys
        PROVE  /\ AmountOf(map, k) = amounts[Level][k]
               /\ k \in DOMAIN map <=> amounts[Level][k] # 0
    BY <2>1, <1>3, ActiveMap
  <2>. QED BY <2>2, <2>3 DEF Keys
<1>. QED BY <1>1, <1>4 DEF map

LEMMA LedgerInv == ViewInv /\ GetLedger => ViewInv'
<1>. SUFFICES ASSUME ViewInv, GetLedger PROVE ViewInv'
  OBVIOUS
<1>. DEFINE items == ActiveItems(LedgerItems)
            map == AsMap(items)
            result == [seen EXCEPT !.ledger = map]
<1>1. CASE NotUnderstood("ledger")
  BY <1>1, EndInv DEF NotUnderstood
<1>2. CASE Fits(items) /\ Read("ledger", result)
  <2>1. Asked("ledger")
    BY <1>2 DEF Read
  <2>2. /\ map \in Maps(Parties \X Tokens, 1..MaxInt64)
        /\ \A k \in Parties \X Tokens :
                 /\ AmountOf(map, k) = Now.ledger[k]
                 /\ k \in DOMAIN map <=> Now.ledger[k] # 0
    BY <1>2, LedgerAnswer
  <2>3. seen \in Snapshots
    BY <2>1, Left
  <2>. HIDE DEF map
  <2>4. /\ result \in Snapshots /\ result.command = seen.command
        /\ result.ledger = map
    <3>1. {} \in SUBSET Event /\ seen.external \in Maps(Tokens, 1..MaxInt64)
      BY <2>3 DEF Snapshots
    <3>2. /\ result = [command |-> seen.command, ledger |-> map,
                       external |-> seen.external, events |-> seen.events]
          /\ result \in Snapshots
      BY <2>2, <2>3, <3>1, SnapshotWith
    <3>. HIDE DEF result
    <3>. QED BY <3>2
  <2>. HIDE DEF result
  <2>5. LedgerShown(blocks[Level], result)
    <3>1. Now = blocks[Level]
      BY BlocksRead
    <3>2. ASSUME NEW p \in Parties, NEW t \in Tokens
          PROVE  /\ AmountOf(result.ledger, <<p, t>>) = blocks[Level].ledger[<<p, t>>]
                 /\ <<p, t>> \in DOMAIN result.ledger <=> blocks[Level].ledger[<<p, t>>] # 0
      BY <2>2, <2>4, <3>1
    <3>. QED BY <3>2, Zenon DEF LedgerShown
  <2>6. Level \in start..Len(blocks)
    BY BlocksRead
  <2>7. Told(blocks, start, result, Len(todo) - 1)
    <3>1. CASE seen.command = "info"
      <4>1. Len(todo) - 1 = 5
        BY <2>1, <3>1, LeftOf
      <4>2. InfoTold(blocks, Level, result, 5)
        BY <2>5 DEF InfoTold, EventsShown, Fetched
      <4>. QED BY <2>4, <2>6, <3>1, <4>1, <4>2 DEF Told
    <3>2. CASE seen.command # "info"
      BY <2>4, <2>5, <2>6, <3>2 DEF Told
    <3>. QED BY <3>1, <3>2
  <2>. QED BY <1>2, <2>4, <2>7, ReadInv
<1>. QED BY <1>1, <1>2 DEF GetLedger

(* What the external ledger's answer is decoded to. *)
LEMMA ExternalAnswer ==
    ASSUME ViewInv, Fits(ExternalItems)
    PROVE  /\ AsMap(ExternalItems) \in Maps(Tokens, 1..MaxInt64)
           /\ \A t \in Tokens : Now.external[t] # 0 =>
                 AmountOf(AsMap(ExternalItems), t) = Now.external[t]
<1>. DEFINE amounts == [n \in 1..Level |-> blocks[n].external]
            items == BigMapItems(amounts, Tokens)
            map == AsMap(items)
<1>1. /\ Level \in Nat \ {0} /\ amounts \in Histories(Level, Tokens)
      /\ amounts[Level] = Now.external
  BY BlocksRead
<1>2. /\ items = ExternalItems
      /\ MaxInt64 \in Nat /\ \A i \in items : i.value <= MaxInt64
  BY IndexerAssumption DEF ExternalItems, Fits
<1>3. items = BigMapItems(amounts, Tokens) /\ map = AsMap(items)
  OBVIOUS
<1>. HIDE DEF amounts, map, items
<1>4. map \in Maps(Tokens, 1..MaxInt64)
  BY <1>1, <1>2, <1>3, WholeMap
<1>5. ASSUME NEW t \in Tokens, amounts[Level][t] # 0
      PROVE  AmountOf(map, t) = amounts[Level][t]
  BY <1>1, <1>2, <1>3, <1>5, WholeMap
<1>6. map = AsMap(ExternalItems)
  BY <1>2, <1>3
<1>. QED BY <1>1, <1>4, <1>5, <1>6

(* info has been told of the ledger of some block n since it began. *)
LEMMA InfoSoFar ==
    ASSUME ViewInv, NEW request, Asked(request), seen.command = "info",
           Len(todo) <= 5
    PROVE  \E n \in start..Len(blocks) : InfoTold(blocks, n, seen, Len(todo))
BY DEF ViewInv, CommandInv, Asked, Told

LEMMA ExternalLedgerInv == ViewInv /\ GetExternalLedger => ViewInv'
<1>. SUFFICES ASSUME ViewInv, GetExternalLedger PROVE ViewInv'
  OBVIOUS
<1>. DEFINE map == AsMap(ExternalItems)
            result == [seen EXCEPT !.external = map]
<1>1. CASE NotUnderstood("external_ledger")
  BY <1>1, EndInv DEF NotUnderstood
<1>2. CASE Fits(ExternalItems) /\ Read("external_ledger", result)
  <2>1. Asked("external_ledger")
    BY <1>2 DEF Read
  <2>2. /\ map \in Maps(Tokens, 1..MaxInt64)
        /\ \A t \in Tokens : Now.external[t] # 0 => AmountOf(map, t) = Now.external[t]
    BY <1>2, ExternalAnswer
  <2>3. seen \in Snapshots
    BY <2>1, Left
  <2>4. seen.command = "info" /\ Len(todo) = 5
    BY <2>1, LeftOf
  <2>. HIDE DEF map
  <2>5. /\ result \in Snapshots /\ result.command = seen.command
        /\ result.ledger = seen.ledger /\ result.external = map
        /\ result.events = seen.events
    <3>1. {} \in SUBSET Event /\ seen.ledger \in Maps(Parties \X Tokens, 1..MaxInt64)
      BY <2>3 DEF Snapshots
    <3>2. /\ result = [command |-> seen.command, ledger |-> seen.ledger,
                       external |-> map, events |-> seen.events]
          /\ result \in Snapshots
      BY <2>2, <2>3, <3>1, SnapshotWith
    <3>. HIDE DEF result
    <3>. QED BY <3>2
  <2>. HIDE DEF result
  <2>6. /\ Level \in start..Len(blocks) /\ Level = Len(blocks) /\ Level \in Nat
        /\ start \in Nat /\ Now = blocks[Level]
    BY BlocksRead
  <2>7. PICK n \in start..Len(blocks) : InfoTold(blocks, n, seen, 5)
    BY <2>1, <2>4, InfoSoFar
  <2>8. ExternalSince(blocks, n, result)
    <3>1. Level \in n..Len(blocks)
      BY <2>6
    <3>2. ExternalShown(blocks[Level], result)
      BY <2>2, <2>5, <2>6 DEF ExternalShown
    <3>. QED BY <3>1, <3>2 DEF ExternalSince
  <2>9. LedgerShown(blocks[n], result)
    BY <2>5, <2>7 DEF InfoTold, LedgerShown
  <2>10. InfoTold(blocks, n, result, 4)
    BY <2>8, <2>9 DEF InfoTold, EventsShown, Fetched
  <2>11. Told(blocks, start, result, Len(todo) - 1)
    <3>1. Len(todo) - 1 = 4
      BY <2>4
    <3>. QED BY <2>4, <2>5, <2>10, <3>1, Zenon DEF Told
  <2>. QED BY <1>2, <2>5, <2>11, ReadInv
<1>. QED BY <1>1, <1>2 DEF GetExternalLedger

LEMMA MetadataInv == ViewInv /\ GetCustodianMetadata => ViewInv'
<1>. SUFFICES ASSUME ViewInv, GetCustodianMetadata PROVE ViewInv'
  OBVIOUS
<1>1. Read("metadata", seen) /\ Asked("metadata")
  BY DEF GetCustodianMetadata, Read
<1>2. seen \in Snapshots /\ seen.command = "info" /\ Len(todo) = 4
  BY <1>1, Left, LeftOf
<1>3. PICK n \in start..Len(blocks) : InfoTold(blocks, n, seen, 4)
  BY <1>1, <1>2, InfoSoFar
<1>4. InfoTold(blocks, n, seen, 3)
  BY <1>3 DEF InfoTold, EventsShown, Fetched
<1>5. Told(blocks, start, seen, Len(todo) - 1)
  <2>1. Len(todo) - 1 = 3
    BY <1>2
  <2>. QED BY <1>2, <1>4, <2>1, Zenon DEF Told
<1>. QED BY <1>1, <1>2, <1>5, ReadInv

(* Events are added: those of one more kind, with the latest block's.      *)
LEMMA EventsInv ==
    ASSUME ViewInv, NEW tag \in Tags, NEW events \in SUBSET Event, Show(tag, events),
           \A e \in EventsTagged(tag) : e.id \in Ids(events)
    PROVE  ViewInv'
<1>. DEFINE left == Len(todo)
            shown == seen.events \cup events
            result == [seen EXCEPT !.events = shown]
<1>1. Asked(tag) /\ Read(tag, result)
  BY DEF Show, Read
<1>2. seen \in Snapshots /\ seen.events \in SUBSET Event
  BY <1>1, Left DEF Snapshots
<1>3. /\ seen.command = "info" /\ left \in 1..3
      /\ tag = "internal_mint" => left = 3
      /\ tag = "internal_transfer" => left = 2
      /\ tag = "retire" => left = 1
  BY <1>1, LeftOf DEF Tags
<1>4. \A t \in Fetched(left - 1) : t \in Fetched(left) \/ t = tag
  <2>1. left = 1 \/ left = 2 \/ left = 3
    BY <1>3
  <2>. HIDE DEF left
  <2>2. left = 3 => tag = "internal_mint"
    BY <1>3 DEF Tags
  <2>3. left = 2 => tag = "internal_transfer"
    BY <1>3 DEF Tags
  <2>4. left = 1 => tag = "retire"
    BY <1>3 DEF Tags
  <2>. QED BY <2>1, <2>2, <2>3, <2>4 DEF Fetched, Tags
<1>5. PICK n \in start..Len(blocks) : InfoTold(blocks, n, seen, left)
  <2>1. left <= 5
    <3>. HIDE DEF left
    <3>. QED BY <1>3
  <2>2. Len(todo) <= 5
    BY <2>1, Zenon
  <2>. QED BY <1>1, <1>3, <2>2, InfoSoFar, Zenon
<1>6. blocks[n].events \subseteq Now.events
  BY BlocksRead DEF Chain
<1>. HIDE DEF shown
<1>7. /\ result \in Snapshots /\ result.command = seen.command
      /\ result.ledger = seen.ledger /\ result.external = seen.external
      /\ result.events = shown
  <2>1. /\ shown \in SUBSET Event /\ seen.external \in Maps(Tokens, 1..MaxInt64)
        /\ seen.ledger \in Maps(Parties \X Tokens, 1..MaxInt64)
    BY <1>2 DEF Snapshots, shown
  <2>2. /\ result = [command |-> seen.command, ledger |-> seen.ledger,
                     external |-> seen.external, events |-> shown]
        /\ result \in Snapshots
    BY <1>2, <2>1, SnapshotWith
  <2>. HIDE DEF result
  <2>. QED BY <2>2
<1>. HIDE DEF result, left
<1>8. LedgerShown(blocks[n], result) /\ ExternalSince(blocks, n, result)
  <2>1. left <= 4
    BY <1>3
  <2>2. LedgerShown(blocks[n], seen) /\ ExternalSince(blocks, n, seen)
    BY <1>5, <2>1 DEF InfoTold
  <2>. QED BY <1>7, <2>2 DEF LedgerShown, ExternalSince, ExternalShown
<1>9. EventsShown(blocks[n], result, Fetched(left - 1))
  <2>. SUFFICES ASSUME NEW e \in blocks[n].events, e.tag \in Fetched(left - 1)
                PROVE  e.id \in Ids(shown)
    BY <1>7 DEF EventsShown
  <2>1. CASE e.tag = tag
    <3>1. e \in EventsTagged(tag)
      BY <1>6, <2>1 DEF EventsTagged
    <3>. QED BY <3>1 DEF Ids, shown
  <2>2. CASE e.tag \in Fetched(left)
    <3>1. e.id \in Ids(seen.events)
      BY <1>5, <2>2 DEF InfoTold, EventsShown
    <3>. QED BY <3>1 DEF Ids, shown
  <2>. QED BY <1>4, <2>1, <2>2
<1>10. Told(blocks, start, result, Len(todo) - 1)
  <2>1. InfoTold(blocks, n, result, left - 1)
    BY <1>8, <1>9 DEF InfoTold
  <2>. QED BY <1>3, <1>7, <2>1, Zenon DEF Told, left
<1>11. Read(tag, result)
  BY <1>1
<1>. QED BY <1>7, <1>10, <1>11, ReadInv

LEMMA MintEventsInv == ViewInv /\ GetInternalMintEvents => ViewInv'
<1>. SUFFICES ASSUME ViewInv, GetInternalMintEvents PROVE ViewInv'
  OBVIOUS
<1>. DEFINE events == EventsTagged("internal_mint")
<1>1. events \in SUBSET Event
  BY BlocksRead DEF EventsTagged, Block
<1>2. \A e \in events : e.id \in Ids(events)
  BY DEF Ids
<1>3. "internal_mint" \in Tags /\ Show("internal_mint", events)
  BY DEF Tags, GetInternalMintEvents
<1>. QED BY <1>1, <1>2, <1>3, EventsInv

LEMMA DecodedEvent ==
    ASSUME NEW e \in Event
    PROVE  DecodedTransfer(e) \in Event /\ DecodedTransfer(e).id = e.id
BY DEF Event, DecodedTransfer

LEMMA TransferEventsInv == ViewInv /\ GetInternalTransferEvents => ViewInv'
<1>. SUFFICES ASSUME ViewInv, GetInternalTransferEvents PROVE ViewInv'
  OBVIOUS
<1>. DEFINE told == EventsTagged("internal_transfer")
            events == {DecodedTransfer(e) : e \in told}
<1>1. told \in SUBSET Event
  BY BlocksRead DEF EventsTagged, Block
<1>2. "internal_transfer" \in Tags /\ Show("internal_transfer", events)
  BY DEF Tags, GetInternalTransferEvents
<1>. HIDE DEF told
<1>3. events \in SUBSET Event
  BY <1>1, DecodedEvent
<1>4. \A e \in told : e.id \in Ids(events)
  <2>. SUFFICES ASSUME NEW e \in told PROVE e.id \in Ids(events)
    OBVIOUS
  <2>1. DecodedTransfer(e) \in events /\ DecodedTransfer(e).id = e.id
    BY <1>1, DecodedEvent
  <2>. HIDE DEF events
  <2>. QED BY <2>1 DEF Ids
<1>. HIDE DEF events
<1>. QED BY <1>2, <1>3, <1>4, EventsInv DEF told

LEMMA RetireEventsInv == ViewInv /\ GetCustodianRetireEvents => ViewInv'
<1>. SUFFICES ASSUME ViewInv, GetCustodianRetireEvents PROVE ViewInv'
  OBVIOUS
<1>. DEFINE events == EventsTagged("retire")
<1>1. CASE NotUnderstood("retire")
  BY <1>1, EndInv DEF NotUnderstood
<1>2. CASE Show("retire", events)
  <2>1. events \in SUBSET Event
    BY BlocksRead DEF EventsTagged, Block
  <2>2. \A e \in events : e.id \in Ids(events)
    BY DEF Ids
  <2>3. "retire" \in Tags
    BY DEF Tags
  <2>. QED BY <1>2, <2>1, <2>2, <2>3, EventsInv
<1>. QED BY <1>1, <1>2 DEF GetCustodianRetireEvents

LEMMA ViewNextInv == ViewInv /\ [ViewNext]_vars => ViewInv'
<1>. SUFFICES ASSUME ViewInv, [ViewNext]_vars PROVE ViewInv'
  OBVIOUS
<1>1. CASE CustodianCall
  BY <1>1, CallInv
<1>2. CASE BeginSources
  BY <1>2, BeginInv DEF BeginSources, RequestsOf
<1>3. CASE BeginInfo
  BY <1>3, BeginInv DEF BeginInfo, RequestsOf
<1>4. CASE RequestFails
  BY <1>4, EndInv DEF RequestFails
<1>5. CASE CreditSourcesEnds \/ InfoEnds
  BY <1>5, FinishInv DEF CreditSourcesEnds, InfoEnds
<1>6. CASE UNCHANGED vars
  BY <1>6 DEF vars, ViewInv, CommandInv, Level
<1>. QED BY <1>1, <1>2, <1>3, <1>4, <1>5, <1>6, StorageInv, LedgerInv,
            ExternalLedgerInv, MetadataInv, MintEventsInv, TransferEventsInv,
            RetireEventsInv DEF ViewNext

LEMMA ViewAlways == ViewSpec => []ViewInv
BY ViewInitInv, ViewNextInv, PTL DEF ViewSpec

-----------------------------------------------------------------------------
(* The indexer's blocks and what a command has read keep their types, the   *)
(* amounts it has decoded among them, however often it is called.          *)
LEMMA MapsAre ==
    ASSUME NEW keys, NEW values, NEW map \in Maps(keys, values)
    PROVE  DOMAIN map \subseteq keys /\ \A k \in DOMAIN map : map[k] \in values
BY DEF Maps

THEOREM ViewTypeCorrect == ViewSpec => []ViewTypeOK
<1>1. ViewInv => ViewTypeOK
  <2>. SUFFICES ASSUME ViewInv PROVE ViewTypeOK
    OBVIOUS
  <2>1. outcome # "idle" =>
          /\ seen.command \in {"sources", "info"}
          /\ seen.ledger \in Maps(Parties \X Tokens, 1..MaxInt64)
          /\ seen.external \in Maps(Tokens, 1..MaxInt64)
          /\ seen.events \subseteq Event
    BY DEF ViewInv, CommandInv, Snapshots
  <2>2. /\ blocks \in Seq(Block) /\ Level \in 1..MaxBlocks /\ start \in 1..Level
        /\ outcome \in Outcomes
        /\ outcome = "running" => todo # <<>>
    BY DEF ViewInv, CommandInv, Chain, Level
  <2>3. ASSUME outcome # "idle"
        PROVE  /\ DOMAIN seen.ledger \subseteq Parties \X Tokens
               /\ \A k \in DOMAIN seen.ledger : seen.ledger[k] \in 1..MaxInt64
    BY <2>1, <2>3, MapsAre
  <2>4. ASSUME outcome # "idle"
        PROVE  /\ DOMAIN seen.external \subseteq Tokens
               /\ \A t \in DOMAIN seen.external : seen.external[t] \in 1..MaxInt64
    BY <2>1, <2>4, MapsAre
  <2>. QED BY <2>1, <2>2, <2>3, <2>4, Zenon DEF ViewTypeOK
<1>. QED BY <1>1, ViewAlways, PTL

(* GET /credit/sources shows the credits the contract had after one block   *)
(* that was the latest while it ran, whatever was called in the meantime.  *)
THEOREM SourcesShowOneBlock == ViewSpec => []SourcesOfOneBlock
<1>1. ViewInv => SourcesOfOneBlock
  <2>. SUFFICES ASSUME ViewInv, Shown("sources")
                PROVE  \E n \in During : IsLedgerOf(n)
    BY DEF SourcesOfOneBlock
  <2>1. /\ seen.command = "sources" /\ todo = <<>>
        /\ Told(blocks, start, seen, Len(todo))
    BY DEF Shown, ViewInv, CommandInv
  <2>2. Len(todo) <= 0
    BY <2>1
  <2>3. \E n \in start..Len(blocks) : LedgerShown(blocks[n], seen)
    BY <2>1, <2>2 DEF Told
  <2>. QED BY <2>3 DEF LedgerShown, IsLedgerOf, During, Level
<1>. QED BY <1>1, ViewAlways, PTL

(* What info has told in the end. *)
LEMMA InfoInTheEnd ==
    ASSUME ViewInv, Shown("info")
    PROVE  \E n \in During : /\ IsLedgerOf(n)
                             /\ \E m \in n..Level : ExternalShown(blocks[m], seen)
                             /\ EventsShown(blocks[n], seen, Tags)
<1>1. /\ seen.command = "info" /\ todo = <<>>
      /\ Told(blocks, start, seen, Len(todo))
  BY DEF Shown, ViewInv, CommandInv
<1>2. Len(todo) = 0
  BY <1>1
<1>3. PICK n \in start..Len(blocks) : InfoTold(blocks, n, seen, 0)
  BY <1>1, <1>2 DEF Told
<1>4. Fetched(0) = Tags
  BY DEF Fetched, Tags
<1>5. /\ LedgerShown(blocks[n], seen) /\ ExternalSince(blocks, n, seen)
      /\ EventsShown(blocks[n], seen, Tags)
  BY <1>3, <1>4 DEF InfoTold
<1>6. IsLedgerOf(n) /\ n \in During
  BY <1>5 DEF LedgerShown, IsLedgerOf, During, Level
<1>. QED BY <1>5, <1>6 DEF ExternalSince, Level

(* Every credit in the ledger that `custodian info` shows can be followed   *)
(* through the events it shows, as it fetches them after the ledger.       *)
THEOREM LedgerIsTold == ViewSpec => []EventsReachLedger
<1>1. ViewInv => EventsReachLedger
  <2>. SUFFICES ASSUME ViewInv, Shown("info")
                PROVE  \E n \in During : /\ IsLedgerOf(n)
                                         /\ Ids(blocks[n].events) \subseteq Ids(seen.events)
    BY DEF EventsReachLedger
  <2>1. PICK n \in During : IsLedgerOf(n) /\ EventsShown(blocks[n], seen, Tags)
    BY InfoInTheEnd
  <2>2. blocks[n].events \in SUBSET Event
    <3>1. n \in 1..Len(blocks)
      BY BlocksRead DEF During
    <3>. QED BY <3>1 DEF ViewInv, Chain, GoodBlock, Block
  <2>3. Ids(blocks[n].events) \subseteq Ids(seen.events)
    BY <2>1, <2>2 DEF EventsShown, Event, Ids
  <2>. QED BY <2>1, <2>3
<1>. QED BY <1>1, ViewAlways, PTL

(* Of the tokens that are held, `custodian info` shows an external ledger   *)
(* at least as new as the ledger: it fetches it later, and the removed     *)
(* keys it does not leave out are of tokens nobody holds.                  *)
THEOREM ExternalKeepsUp == ViewSpec => []ExternalNotOlder
<1>1. ViewInv => ExternalNotOlder
  <2>. SUFFICES ASSUME ViewInv, Shown("info")
                PROVE  \E n, m \in During :
                          /\ n <= m /\ IsLedgerOf(n)
                          /\ \A t \in Tokens : blocks[m].external[t] # 0
                                => AmountOf(seen.external, t) = blocks[m].external[t]
    BY DEF ExternalNotOlder
  <2>1. PICK n \in During :
           IsLedgerOf(n) /\ \E m \in n..Level : ExternalShown(blocks[m], seen)
    BY InfoInTheEnd
  <2>2. PICK m \in n..Level : ExternalShown(blocks[m], seen)
    BY <2>1
  <2>3. n <= m /\ m \in During
    BY BlocksRead DEF During
  <2>. QED BY <2>1, <2>2, <2>3 DEF ExternalShown
<1>. QED BY <1>1, ViewAlways, PTL
=============================================================================
