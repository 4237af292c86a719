---------------------------- MODULE FA2ViewProofs ----------------------------
(***************************************************************************)
(* What `x4cli fa2 info` shows adds up to all the credits there were when  *)
(* it began, and names the tokens it shows, for any owners, token ids and  *)
(* amounts, however many calls arrive between its requests.                *)
(***************************************************************************)
EXTENDS FA2View, OperatorProofs

-----------------------------------------------------------------------------
(* Totals *)

(* A total over the images of the elements of a set, none of them shared:  *)
(* by induction over the set.                                              *)
Images(h, s) == {h[x] : x \in s}

Part(f, s) == [x \in s |-> f[x]]

SameTotal(h, f, g, s) ==
    IsFiniteSet(Images(h, s)) /\ Total(Part(g, Images(h, s))) = Total(Part(f, s))

(* g is f of the same elements by another name.                            *)
Renames(h, f, g, s) ==
    /\ \A x, y \in s : h[x] = h[y] => x = y
    /\ \A x \in s : g[h[x]] = f[x]

LEMMA PartType ==
    ASSUME NEW D, NEW f, f \in [D -> Int], NEW s \in SUBSET D
    PROVE  Part(f, s) \in [s -> Int] /\ \A x \in s : Part(f, s)[x] = f[x]
BY DEF Part

LEMMA PartWith ==
    ASSUME NEW D, NEW f, f \in [D -> Int], NEW r, IsFiniteSet(r), NEW x, x \notin r,
           r \cup {x} \in SUBSET D
    PROVE  Total(Part(f, r \cup {x})) = f[x] + Total(Part(f, r))
<1>. DEFINE g == Part(f, r \cup {x})
            h == Part(f, r)
<1>1. g \in [r \cup {x} -> Int] /\ h \in [r -> Int] /\ \A y \in r : h[y] = g[y]
  BY DEF Part
<1>2. g[x] = f[x]
  BY DEF Part
<1>. HIDE DEF g, h
<1>3. Total(g) = g[x] + Total(h)
  BY <1>1, TotalWith
<1>. QED BY <1>2, <1>3 DEF g, h

LEMMA ImagesWith ==
    ASSUME NEW D, NEW h, \A x, y \in D : h[x] = h[y] => x = y,
           NEW s \in SUBSET D, NEW x \in s
    PROVE  /\ Images(h, s) = Images(h, s \ {x}) \cup {h[x]}
           /\ h[x] \notin Images(h, s \ {x})
BY DEF Images

LEMMA TotalImage ==
    ASSUME NEW D, IsFiniteSet(D), NEW h, NEW f, f \in [D -> Int],
           NEW g, g \in [Images(h, D) -> Int], Renames(h, f, g, D)
    PROVE  Total(g) = Total(f)
<1>. DEFINE Q == {s \in SUBSET D : SameTotal(h, f, g, s)}
<1>0. (\A x, y \in D : h[x] = h[y] => x = y) /\ \A x \in D : g[h[x]] = f[x]
  BY DEF Renames
<1>1. {} \in Q
  <2>1. Images(h, {}) = {} /\ Part(g, {}) = Part(f, {})
    BY DEF Images, Part
  <2>2. SameTotal(h, f, g, {})
    BY <2>1, FS_EmptySet, Zenon DEF SameTotal
  <2>. QED BY <2>2
<1>2. ASSUME NEW s \in SUBSET D, s # {}, s \ {First(s)} \in Q
      PROVE  s \in Q
  <2>. DEFINE x == First(s)
              r == s \ {x}
  <2>1. x \in s /\ SameTotal(h, f, g, r)
    BY <1>2, Zenon DEF First
  <2>. HIDE DEF x
  <2>2. r \cup {x} = s /\ x \notin r /\ r \cup {x} \in SUBSET D /\ IsFiniteSet(r)
    <3>1. IsFiniteSet(r)
      BY FS_Subset
    <3>. QED BY <2>1, <3>1
  <2>3. /\ Images(h, s) = Images(h, r) \cup {h[x]}
        /\ h[x] \notin Images(h, r)
    BY <1>0, <2>1, ImagesWith
  <2>4. IsFiniteSet(Images(h, r)) /\ IsFiniteSet(Images(h, s))
    <3>1. IsFiniteSet(Images(h, r))
      BY <2>1 DEF SameTotal
    <3>. DEFINE i == Images(h, r)
                y == h[x]
    <3>2. IsFiniteSet(i \cup {y})
      <4>. HIDE DEF i, y
      <4>1. IsFiniteSet(i)
        BY <3>1 DEF i
      <4>. QED BY <4>1, FS_AddElement
    <3>. QED BY <2>3, <3>1, <3>2, Zenon
  <2>5. Images(h, r) \cup {h[x]} \in SUBSET Images(h, D)
    BY <2>2, <2>3 DEF Images
  <2>. HIDE DEF r
  <2>6. Total(Part(f, s)) = f[x] + Total(Part(f, r))
    BY <2>2, PartWith
  <2>7. Total(Part(g, Images(h, s))) = g[h[x]] + Total(Part(g, Images(h, r)))
    <3>. DEFINE i == Images(h, r)
                y == h[x]
                E == Images(h, D)
    <3>1. /\ g \in [E -> Int] /\ IsFiniteSet(i) /\ y \notin i
          /\ i \cup {y} \in SUBSET E
      BY <2>3, <2>4, <2>5
    <3>. HIDE DEF i, y, E
    <3>2. Total(Part(g, i \cup {y})) = g[y] + Total(Part(g, i))
      BY <3>1, PartWith
    <3>. QED BY <2>3, <3>2, Zenon DEF i, y
  <2>8. g[h[x]] = f[x] /\ Total(Part(g, Images(h, r))) = Total(Part(f, r))
    BY <1>0, <2>1, <2>2 DEF SameTotal
  <2>9. SameTotal(h, f, g, s)
    BY <2>4, <2>6, <2>7, <2>8, Zenon DEF SameTotal
  <2>. QED BY <2>9
<1>3. Q = SUBSET D
  <2>. HIDE DEF Q
  <2>1. Q \in SUBSET (SUBSET D)
    BY DEF Q
  <2>. QED BY <1>1, <1>2, <2>1, SubsetInduction
<1>4. SameTotal(h, f, g, D)
  BY <1>3
<1>5. Part(g, Images(h, D)) = g /\ Part(f, D) = f
  BY DEF Part
<1>. QED BY <1>4, <1>5, Zenon DEF SameTotal

-----------------------------------------------------------------------------
(* The contract, block after block. *)

Keys == Owners \X TokenIds

AmountsOf(events) == [e \in events |-> e.amount]

LEMMA KeysFinite == IsFiniteSet(Keys)
BY FS_Product, FA2ViewAssumption DEF Keys

LEMMA RetiredIsTotal == ASSUME NEW events PROVE RetiredIn(events) = Total(AmountsOf(events))
BY DEF RetiredIn, Total, AmountsOf

LEMMA RetiredType ==
    ASSUME NEW events \in SUBSET Event, IsFiniteSet(events)
    PROVE  AmountsOf(events) \in [events -> Nat] /\ RetiredIn(events) \in Nat
<1>1. \A e \in events : e.amount \in Nat
  BY FA2ViewAssumption DEF Event
<1>2. AmountsOf(events) \in [events -> Nat]
  BY <1>1 DEF AmountsOf
<1>. QED BY <1>2, RetiredIsTotal, TotalType

LEMMA AmountsType ==
    ASSUME NEW events, events \subseteq Event
    PROVE  AmountsOf(events) \in [events -> Int]
<1>1. \A e \in Event : e.amount \in Nat
  BY FA2ViewAssumption DEF Event
<1>2. \A e \in events : e.amount \in Int
  BY <1>1
<1>. QED BY <1>2 DEF AmountsOf

(* What is minted is held or has been retired; only defined tokens are      *)
(* held; the retirements are numbered.                                     *)
GoodBlock(b) ==
    /\ b \in Block /\ IsFiniteSet(b.events)
    /\ \A e \in b.events : e.id <= Cardinality(b.events)
    /\ \A d, e \in b.events : d.id = e.id => d = e
    /\ Total(b.ledger) + RetiredIn(b.events) = Total(b.minted)
    /\ \A k \in Keys : b.ledger[k] # 0 => k[2] \in b.defined

(* Tokens stay defined, and neither mints nor retirements are undone. *)
Follows(b, c) ==
    /\ b.defined \subseteq c.defined
    /\ RetiredIn(b.events) <= RetiredIn(c.events)
    /\ Total(b.minted) <= Total(c.minted)

Chain(bs) ==
    /\ bs \in Seq(Block) /\ Len(bs) \in 1..MaxBlocks
    /\ \A n \in 1..Len(bs) : GoodBlock(bs[n])
    /\ \A m, n \in 1..Len(bs) : m <= n => Follows(bs[m], bs[n])

LEMMA BlockType ==
    ASSUME NEW b, GoodBlock(b)
    PROVE  /\ b = [ledger |-> b.ledger, defined |-> b.defined,
                   events |-> b.events, minted |-> b.minted]
           /\ b.ledger \in [Keys -> Nat] /\ b.defined \in SUBSET TokenIds
           /\ b.events \in SUBSET Event /\ b.minted \in [TokenIds -> Nat]
           /\ Total(b.ledger) \in Nat /\ RetiredIn(b.events) \in Nat
           /\ Total(b.minted) \in Nat
<1>1. /\ b = [ledger |-> b.ledger, defined |-> b.defined,
              events |-> b.events, minted |-> b.minted]
      /\ b.ledger \in [Keys -> Nat] /\ b.defined \in SUBSET TokenIds
      /\ b.events \in SUBSET Event /\ b.minted \in [TokenIds -> Nat]
      /\ IsFiniteSet(b.events)
  BY DEF GoodBlock, Block, Keys
<1>2. Total(b.ledger) \in Nat
  BY <1>1, KeysFinite, TotalType
<1>3. Total(b.minted) \in Nat
  BY <1>1, FA2ViewAssumption, TotalType
<1>4. RetiredIn(b.events) \in Nat
  BY <1>1, RetiredType
<1>. QED BY <1>1, <1>2, <1>3, <1>4

LEMMA FollowsItself ==
    ASSUME NEW b, GoodBlock(b)
    PROVE  Follows(b, b)
BY BlockType DEF Follows

LEMMA FollowsOn ==
    ASSUME NEW a, NEW b, NEW c, GoodBlock(a), GoodBlock(b), GoodBlock(c),
           Follows(a, b), Follows(b, c)
    PROVE  Follows(a, c)
<1>1. /\ RetiredIn(a.events) \in Nat /\ RetiredIn(b.events) \in Nat
      /\ RetiredIn(c.events) \in Nat /\ Total(a.minted) \in Nat
      /\ Total(b.minted) \in Nat /\ Total(c.minted) \in Nat
  BY BlockType
<1>2. a.defined \subseteq c.defined
  BY DEF Follows
<1>3. RetiredIn(a.events) <= RetiredIn(c.events) /\ Total(a.minted) <= Total(c.minted)
  BY <1>1 DEF Follows
<1>. QED BY <1>2, <1>3 DEF Follows

LEMMA ChainBegins == Chain(<<EmptyBlock>>)
<1>. DEFINE b == EmptyBlock
<1>1. /\ b \in Block /\ b.events = {}
      /\ b.ledger \in [Keys -> Int] /\ \A k \in Keys : b.ledger[k] = 0
      /\ b.minted \in [TokenIds -> Int] /\ \A i \in TokenIds : b.minted[i] = 0
  BY DEF EmptyBlock, Block, Keys
<1>. HIDE DEF b
<1>2. IsFiniteSet(b.events)
  BY <1>1, FS_EmptySet
<1>3. Total(b.ledger) = 0
  BY <1>1, KeysFinite, TotalZero
<1>4. Total(b.minted) = 0
  BY <1>1, FA2ViewAssumption, TotalZero
<1>5. RetiredIn(b.events) = 0
  <2>1. /\ AmountsOf(b.events) \in [b.events -> Int]
        /\ \A e \in b.events : AmountsOf(b.events)[e] = 0
    BY <1>1 DEF AmountsOf
  <2>. QED BY <1>2, <2>1, TotalZero, RetiredIsTotal
<1>6. GoodBlock(b)
  BY <1>1, <1>2, <1>3, <1>4, <1>5 DEF GoodBlock
<1>7. Follows(b, b)
  BY <1>6, FollowsItself
<1>8. <<b>> \in Seq(Block) /\ Len(<<b>>) = 1 /\ <<b>>[1] = b
  BY <1>1
<1>. QED BY <1>6, <1>7, <1>8, IndexerAssumption DEF Chain, b

LEMMA ChainGrows ==
    ASSUME NEW bs, Chain(bs), Len(bs) < MaxBlocks, NEW b, GoodBlock(b),
           Follows(bs[Len(bs)], b)
    PROVE  Chain(Append(bs, b))
<1>. DEFINE len == Len(bs)
            cs == Append(bs, b)
<1>1. /\ bs \in Seq(Block) /\ len \in 1..MaxBlocks /\ b \in Block
      /\ len \in Nat \ {0} /\ len + 1 \in 1..MaxBlocks
  BY IndexerAssumption DEF Chain, GoodBlock
<1>2. /\ cs \in Seq(Block) /\ Len(cs) = len + 1
      /\ cs[len + 1] = b /\ \A n \in 1..len : cs[n] = bs[n]
  BY <1>1
<1>. HIDE DEF cs
<1>3. \A n \in 1..(len + 1) : n \in 1..len \/ n = len + 1
  BY <1>1
<1>4. \A n \in 1..Len(cs) : GoodBlock(cs[n])
  BY <1>2, <1>3 DEF Chain
<1>5. ASSUME NEW m \in 1..(len + 1), NEW n \in 1..(len + 1), m <= n
      PROVE  Follows(cs[m], cs[n])
  <2>1. CASE n \in 1..len
    <3>1. m \in 1..len
      BY <1>1, <1>5, <2>1
    <3>. QED BY <1>2, <1>5, <2>1, <3>1 DEF Chain
  <2>2. CASE n = len + 1 /\ m \in 1..len
    <3>1. /\ cs[m] = bs[m] /\ cs[n] = b /\ GoodBlock(bs[m]) /\ GoodBlock(bs[len])
          /\ Follows(bs[m], bs[len])
      BY <1>1, <1>2, <2>2 DEF Chain
    <3>. QED BY <3>1, FollowsOn
  <2>3. CASE n = len + 1 /\ m = len + 1
    BY <1>2, <2>3, FollowsItself
  <2>. QED BY <1>3, <2>1, <2>2, <2>3
<1>. QED BY <1>1, <1>2, <1>4, <1>5 DEF Chain, cs

-----------------------------------------------------------------------------
(* Calls *)

(* What a call adds. *)
Arrives(b) == GoodBlock(b) /\ Follows(Now, b) /\ NewBlock(b)

(* A block with the same retirements, of which what is held and what has    *)
(* been minted grow alike.                                                 *)
LEMMA SameEvents ==
    ASSUME NEW old, GoodBlock(old), NEW l, l \in [Keys -> Nat],
           NEW defined \in SUBSET TokenIds, old.defined \subseteq defined,
           NEW minted, minted \in [TokenIds -> Nat], NEW d \in Nat,
           Total(l) = Total(old.ledger) + d,
           Total(minted) = Total(old.minted) + d,
           \A k \in Keys : l[k] # 0 => k[2] \in defined,
           NEW b, b = [ledger |-> l, defined |-> defined,
                       events |-> old.events, minted |-> minted]
    PROVE  GoodBlock(b) /\ Follows(old, b)
<1>1. /\ b \in Block /\ b.ledger = l /\ b.defined = defined
      /\ b.events = old.events /\ b.minted = minted
  BY BlockType DEF Block, Keys
<1>2. /\ Total(old.ledger) \in Nat /\ RetiredIn(old.events) \in Nat
      /\ Total(old.minted) \in Nat
      /\ Total(old.ledger) + RetiredIn(old.events) = Total(old.minted)
  BY BlockType DEF GoodBlock
<1>3. Total(l) + RetiredIn(old.events) = Total(minted)
  BY <1>2
<1>4. Total(old.minted) <= Total(minted)
  BY <1>2
<1>5. GoodBlock(b)
  BY <1>1, <1>3 DEF GoodBlock
<1>6. Follows(old, b)
  BY <1>1, <1>2, <1>4 DEF Follows
<1>. QED BY <1>5, <1>6

(* A change of one balance by d. *)
LEMMA BalanceChanged ==
    ASSUME NEW l, l \in [Keys -> Nat], NEW k \in Keys, NEW d \in Int, l[k] + d >= 0,
           NEW m, m = [l EXCEPT ![k] = l[k] + d]
    PROVE  /\ m \in [Keys -> Nat] /\ Total(m) = Total(l) + d
           /\ \A j \in Keys : m[j] # 0 => j = k \/ l[j] # 0
<1>1. l[k] + d \in Nat /\ l[k] \in Nat
  BY DEF Keys
<1>2. m \in [Keys -> Nat] /\ \A j \in Keys : m[j] # 0 => j = k \/ l[j] # 0
  BY <1>1
<1>3. Total(m) = Total(l) - l[k] + (l[k] + d)
  <2>1. l \in [Keys -> Int] /\ l[k] + d \in Int
    BY <1>1
  <2>. QED BY <2>1, KeysFinite, TotalUpdate
<1>4. Total(l) \in Nat
  BY KeysFinite, TotalType
<1>. QED BY <1>1, <1>2, <1>3, <1>4

LEMMA BlockWith ==
    ASSUME NEW b, GoodBlock(b), NEW l, NEW d, NEW v, NEW m
    PROVE  /\ [b EXCEPT !.defined = d] =
                 [ledger |-> b.ledger, defined |-> d, events |-> b.events,
                  minted |-> b.minted]
           /\ [b EXCEPT !.ledger = l] =
                 [ledger |-> l, defined |-> b.defined, events |-> b.events,
                  minted |-> b.minted]
           /\ [b EXCEPT !.ledger = l, !.minted = m] =
                 [ledger |-> l, defined |-> b.defined, events |-> b.events,
                  minted |-> m]
           /\ [b EXCEPT !.ledger = l, !.events = v] =
                 [ledger |-> l, defined |-> b.defined, events |-> v,
                  minted |-> b.minted]
<1>. DEFINE B == b.ledger
            C == b.defined
            D == b.events
            E == b.minted
<1>1. b = [ledger |-> B, defined |-> C, events |-> D, minted |-> E]
  BY BlockType
<1>. HIDE DEF B, C, D, E
<1>2. [b EXCEPT !.defined = d] = [ledger |-> B, defined |-> d, events |-> D, minted |-> E]
  BY <1>1
<1>3. [b EXCEPT !.ledger = l] = [ledger |-> l, defined |-> C, events |-> D, minted |-> E]
  BY <1>1
<1>4. /\ [b EXCEPT !.ledger = l, !.minted = m] = [[b EXCEPT !.ledger = l] EXCEPT !.minted = m]
      /\ [b EXCEPT !.ledger = l, !.events = v] = [[b EXCEPT !.ledger = l] EXCEPT !.events = v]
  OBVIOUS
<1>. DEFINE c == [b EXCEPT !.ledger = l]
<1>. HIDE DEF c
<1>5. [b EXCEPT !.ledger = l, !.minted = m] =
         [ledger |-> l, defined |-> C, events |-> D, minted |-> m]
  <2>1. [b EXCEPT !.ledger = l, !.minted = m] = [c EXCEPT !.minted = m]
    BY <1>4 DEF c
  <2>2. c = [ledger |-> l, defined |-> C, events |-> D, minted |-> E]
    BY <1>3 DEF c
  <2>3. [c EXCEPT !.minted = m] = [ledger |-> l, defined |-> C, events |-> D, minted |-> m]
    BY <2>2
  <2>. QED BY <2>1, <2>3, Zenon
<1>6. [b EXCEPT !.ledger = l, !.events = v] =
         [ledger |-> l, defined |-> C, events |-> v, minted |-> E]
  <2>1. [b EXCEPT !.ledger = l, !.events = v] = [c EXCEPT !.events = v]
    BY <1>4 DEF c
  <2>2. c = [ledger |-> l, defined |-> C, events |-> D, minted |-> E]
    BY <1>3 DEF c
  <2>3. [c EXCEPT !.events = v] = [ledger |-> l, defined |-> C, events |-> v, minted |-> E]
    BY <2>2
  <2>. QED BY <2>1, <2>3, Zenon
<1>. QED BY <1>2, <1>3, <1>5, <1>6, Zenon DEF B, C, D, E

LEMMA AddTokenIdArrives ==
    ASSUME GoodBlock(Now), NEW i \in TokenIds, AddTokenId(i)
    PROVE  \E b : Arrives(b)
<1>. DEFINE b == [ledger |-> Now.ledger, defined |-> Now.defined \cup {i},
                  events |-> Now.events, minted |-> Now.minted]
<1>1. [Now EXCEPT !.defined = @ \cup {i}] = [Now EXCEPT !.defined = Now.defined \cup {i}]
  OBVIOUS
<1>2. NewBlock(b)
  BY <1>1, BlockWith DEF AddTokenId
<1>3. /\ Now.ledger \in [Keys -> Nat] /\ Now.minted \in [TokenIds -> Nat]
      /\ Now.defined \cup {i} \in SUBSET TokenIds
      /\ 0 \in Nat /\ Total(Now.ledger) = Total(Now.ledger) + 0
      /\ Total(Now.minted) = Total(Now.minted) + 0
  BY BlockType
<1>4. \A k \in Keys : Now.ledger[k] # 0 => k[2] \in Now.defined \cup {i}
  BY DEF GoodBlock
<1>5. GoodBlock(b) /\ Follows(Now, b)
  <2>. DEFINE defined == Now.defined \cup {i}
              l == Now.ledger
              minted == Now.minted
  <2>1. Now.defined \subseteq defined
    OBVIOUS
  <2>. HIDE DEF defined, l, minted
  <2>. QED BY <1>3, <1>4, <2>1, SameEvents DEF defined, l, minted
<1>. HIDE DEF b
<1>. QED BY <1>2, <1>5 DEF Arrives

LEMMA MintArrives ==
    ASSUME GoodBlock(Now), NEW o \in Owners, NEW i \in TokenIds, NEW n \in Amounts,
           Mint(o, i, n)
    PROVE  \E b : Arrives(b)
<1>. DEFINE k == <<o, i>>
            l == [Now.ledger EXCEPT ![k] = Now.ledger[k] + n]
            m == [Now.minted EXCEPT ![i] = Now.minted[i] + n]
            b == [ledger |-> l, defined |-> Now.defined, events |-> Now.events,
                  minted |-> m]
<1>1. /\ Now.ledger \in [Keys -> Nat] /\ Now.minted \in [TokenIds -> Nat]
      /\ Now.defined \in SUBSET TokenIds /\ i \in Now.defined /\ n \in Nat
  BY BlockType, FA2ViewAssumption DEF Mint
<1>2. k \in Keys /\ k[2] = i
  BY DEF Keys
<1>3. NewBlock(b)
  <2>1. NewBlock([Now EXCEPT !.ledger = l, !.minted = m])
    BY Zenon DEF Mint
  <2>. HIDE DEF l, m
  <2>. QED BY <2>1, BlockWith, Zenon
<1>. HIDE DEF k
<1>4. /\ l \in [Keys -> Nat] /\ Total(l) = Total(Now.ledger) + n
      /\ \A j \in Keys : l[j] # 0 => j = k \/ Now.ledger[j] # 0
  <2>1. n \in Int /\ Now.ledger[k] + n >= 0
    BY <1>1, <1>2
  <2>. QED BY <1>1, <1>2, <2>1, BalanceChanged
<1>5. m \in [TokenIds -> Nat] /\ Total(m) = Total(Now.minted) + n
  <2>1. Now.minted[i] \in Nat /\ Now.minted[i] + n \in Nat
    BY <1>1
  <2>2. m \in [TokenIds -> Nat]
    BY <1>1, <2>1
  <2>3. Total(m) = Total(Now.minted) - Now.minted[i] + (Now.minted[i] + n)
    <3>1. Now.minted \in [TokenIds -> Int] /\ Now.minted[i] + n \in Int
      BY <1>1, <2>1
    <3>. QED BY <3>1, FA2ViewAssumption, TotalUpdate
  <2>4. Total(Now.minted) \in Nat
    BY BlockType
  <2>. QED BY <1>1, <2>1, <2>2, <2>3, <2>4
<1>. HIDE DEF l, m
<1>6. \A j \in Keys : l[j] # 0 => j[2] \in Now.defined
  BY <1>1, <1>2, <1>4 DEF GoodBlock
<1>7. GoodBlock(b) /\ Follows(Now, b)
  BY <1>1, <1>4, <1>5, <1>6, SameEvents
<1>. HIDE DEF b
<1>. QED BY <1>3, <1>7 DEF Arrives

LEMMA TransferArrives ==
    ASSUME GoodBlock(Now), NEW o \in Owners, NEW p \in Owners, NEW i \in TokenIds,
           NEW n \in Amounts, Transfer(o, p, i, n)
    PROVE  \E b : Arrives(b)
<1>. DEFINE j == <<o, i>>
            k == <<p, i>>
            l == [Now.ledger EXCEPT ![j] = Now.ledger[j] - n]
            m == [l EXCEPT ![k] = l[k] + n]
            b == [ledger |-> m, defined |-> Now.defined, events |-> Now.events,
                  minted |-> Now.minted]
<1>1. /\ Now.ledger \in [Keys -> Nat] /\ Now.minted \in [TokenIds -> Nat]
      /\ Now.defined \in SUBSET TokenIds /\ n \in Nat /\ n # 0
      /\ Total(Now.ledger) \in Nat /\ Total(Now.minted) \in Nat
  BY BlockType, FA2ViewAssumption
<1>2. /\ j \in Keys /\ k \in Keys /\ j[2] = i /\ k[2] = i /\ n <= Now.ledger[j]
  BY DEF Keys, Transfer
<1>3. NewBlock(b)
  <2>1. Moved(Now.ledger, o, p, i, n) = m
    BY DEF Moved
  <2>2. [Now EXCEPT !.ledger = Moved(@, o, p, i, n)] =
           [Now EXCEPT !.ledger = Moved(Now.ledger, o, p, i, n)]
    OBVIOUS
  <2>. HIDE DEF l, m
  <2>3. NewBlock([Now EXCEPT !.ledger = m])
    BY <2>1, <2>2, Zenon DEF Transfer
  <2>. QED BY <2>3, BlockWith, Zenon
<1>. HIDE DEF j, k
<1>4. /\ l \in [Keys -> Nat] /\ Total(l) = Total(Now.ledger) + -n
      /\ \A x \in Keys : l[x] # 0 => x = j \/ Now.ledger[x] # 0
  <2>1. /\ -n \in Int /\ Now.ledger[j] + -n >= 0
        /\ l = [Now.ledger EXCEPT ![j] = Now.ledger[j] + -n]
    BY <1>1, <1>2
  <2>. DEFINE d == -n
  <2>. HIDE DEF l
  <2>2. l \in [Keys -> Nat] /\ Total(l) = Total(Now.ledger) + d
        /\ \A x \in Keys : l[x] # 0 => x = j \/ Now.ledger[x] # 0
    <3>1. /\ d \in Int /\ Now.ledger[j] + d >= 0
          /\ l = [Now.ledger EXCEPT ![j] = Now.ledger[j] + d]
      BY <2>1
    <3>. HIDE DEF d
    <3>. QED BY <1>1, <1>2, <3>1, BalanceChanged
  <2>. QED BY <2>2
<1>. HIDE DEF l
<1>5. /\ m \in [Keys -> Nat] /\ Total(m) = Total(l) + n
      /\ \A x \in Keys : m[x] # 0 => x = k \/ l[x] # 0
  <2>1. n \in Int /\ l[k] + n >= 0
    BY <1>1, <1>2, <1>4
  <2>. QED BY <1>2, <1>4, <2>1, BalanceChanged
<1>. HIDE DEF m
<1>6. Now.ledger[j] # 0
  BY <1>1, <1>2
<1>7. \A x \in Keys : m[x] # 0 => x[2] \in Now.defined
  BY <1>2, <1>4, <1>5, <1>6 DEF GoodBlock
<1>8. Total(m) = Total(Now.ledger) + 0 /\ Total(Now.minted) = Total(Now.minted) + 0
  BY <1>1, <1>4, <1>5
<1>9. GoodBlock(b) /\ Follows(Now, b)
  <2>1. 0 \in Nat
    OBVIOUS
  <2>. QED BY <1>1, <1>5, <1>7, <1>8, <2>1, SameEvents
<1>. HIDE DEF b
<1>. QED BY <1>3, <1>9 DEF Arrives

LEMMA AmountsWith ==
    ASSUME NEW events, IsFiniteSet(events), NEW x, x \notin events,
           AmountsOf(events \cup {x}) \in [events \cup {x} -> Int],
           AmountsOf(events) \in [events -> Int]
    PROVE  RetiredIn(events \cup {x}) = x.amount + RetiredIn(events)
<1>1. \A e \in events : AmountsOf(events)[e] = AmountsOf(events \cup {x})[e]
  BY DEF AmountsOf
<1>2. Total(AmountsOf(events \cup {x})) =
         AmountsOf(events \cup {x})[x] + Total(AmountsOf(events))
  BY <1>1, TotalWith
<1>3. AmountsOf(events \cup {x})[x] = x.amount
  BY DEF AmountsOf
<1>. QED BY <1>2, <1>3, RetiredIsTotal

(* One retirement more. *)
LEMMA RetiredWith ==
    ASSUME NEW events \in SUBSET Event, IsFiniteSet(events),
           \A e \in events : e.id <= Cardinality(events),
           \A d, e \in events : d.id = e.id => d = e,
           NEW x \in Event, x.id = Cardinality(events) + 1,
           NEW more, more = events \cup {x}
    PROVE  /\ more \in SUBSET Event /\ IsFiniteSet(more)
           /\ \A e \in more : e.id <= Cardinality(more)
           /\ \A d, e \in more : d.id = e.id => d = e
           /\ RetiredIn(more) = x.amount + RetiredIn(events)
<1>1. Cardinality(events) \in Nat /\ \A e \in events : e.id \in Nat
  BY FS_CardinalityType DEF Event
<1>2. x \notin events
  BY <1>1
<1>3. IsFiniteSet(more) /\ Cardinality(more) = Cardinality(events) + 1
  BY <1>2, FS_AddElement
<1>4. \A e \in more : e.id <= Cardinality(more)
  BY <1>1, <1>3
<1>5. \A e \in events : e.id # x.id
  BY <1>1
<1>6. \A d, e \in more : d.id = e.id => d = e
  BY <1>5
<1>7. RetiredIn(more) = x.amount + RetiredIn(events)
  <2>1. more \subseteq Event
    OBVIOUS
  <2>2. AmountsOf(more) \in [more -> Int]
    BY <2>1, AmountsType
  <2>3. AmountsOf(events) \in [events -> Int]
    BY AmountsType
  <2>. QED BY <1>2, <2>2, <2>3, AmountsWith
<1>. QED BY <1>3, <1>4, <1>6, <1>7

LEMMA RetireArrives ==
    ASSUME GoodBlock(Now), NEW o \in Owners, NEW i \in TokenIds, NEW n \in Amounts,
           NEW legible \in BOOLEAN, RetireTokens(o, i, n, legible)
    PROVE  \E b : Arrives(b)
<1>. DEFINE k == <<o, i>>
            x == Retirement(o, i, n, legible)
            l == [Now.ledger EXCEPT ![k] = Now.ledger[k] - n]
            more == Now.events \cup {x}
            b == [ledger |-> l, defined |-> Now.defined, events |-> more,
                  minted |-> Now.minted]
<1>1. /\ Now.ledger \in [Keys -> Nat] /\ Now.minted \in [TokenIds -> Nat]
      /\ Now.defined \in SUBSET TokenIds /\ Now.events \in SUBSET Event
      /\ n \in Nat /\ n # 0
      /\ Total(Now.ledger) \in Nat /\ Total(Now.minted) \in Nat
      /\ RetiredIn(Now.events) \in Nat
      /\ IsFiniteSet(Now.events) /\ Cardinality(Now.events) \in Nat
  BY BlockType, FA2ViewAssumption, FS_CardinalityType DEF GoodBlock
<1>2. k \in Keys /\ k[2] = i /\ n <= Now.ledger[k]
  BY DEF Keys, RetireTokens
<1>3. x \in Event /\ x.id = Cardinality(Now.events) + 1 /\ x.amount = n
  BY <1>1 DEF Retirement, Event
<1>4. NewBlock(b)
  <2>1. NewBlock([Now EXCEPT !.ledger = l, !.events = more])
    BY Zenon DEF RetireTokens
  <2>. HIDE DEF l, more
  <2>. QED BY <2>1, BlockWith, Zenon
<1>. HIDE DEF k, x
<1>5. /\ l \in [Keys -> Nat] /\ Total(l) = Total(Now.ledger) - n
      /\ \A j \in Keys : l[j] # 0 => j = k \/ Now.ledger[j] # 0
  <2>. DEFINE d == -n
  <2>1. /\ d \in Int /\ Now.ledger[k] + d >= 0
        /\ l = [Now.ledger EXCEPT ![k] = Now.ledger[k] + d]
    BY <1>1, <1>2
  <2>. HIDE DEF l
  <2>2. l \in [Keys -> Nat] /\ Total(l) = Total(Now.ledger) + d
        /\ \A j \in Keys : l[j] # 0 => j = k \/ Now.ledger[j] # 0
    <3>. HIDE DEF d
    <3>. QED BY <1>1, <1>2, <2>1, BalanceChanged
  <2>. QED BY <1>1, <2>2
<1>6. /\ more \in SUBSET Event /\ IsFiniteSet(more)
      /\ \A e \in more : e.id <= Cardinality(more)
      /\ \A d, e \in more : d.id = e.id => d = e
      /\ RetiredIn(more) = x.amount + RetiredIn(Now.events)
  <2>. DEFINE events == Now.events
  <2>1. /\ events \in SUBSET Event /\ IsFiniteSet(events)
        /\ \A e \in events : e.id <= Cardinality(events)
        /\ \A d, e \in events : d.id = e.id => d = e
        /\ x.id = Cardinality(events) + 1 /\ more = events \cup {x}
    BY <1>1, <1>3 DEF GoodBlock
  <2>. HIDE DEF events, more
  <2>. QED BY <1>3, <2>1, RetiredWith DEF events
<1>. HIDE DEF l, more
<1>7. \A j \in Keys : l[j] # 0 => j[2] \in Now.defined
  <2>1. Now.ledger[k] # 0
    BY <1>1, <1>2
  <2>. QED BY <1>2, <1>5, <2>1 DEF GoodBlock
<1>8. /\ b \in Block /\ b.ledger = l /\ b.defined = Now.defined
      /\ b.events = more /\ b.minted = Now.minted
  BY <1>1, <1>5, <1>6 DEF Block, Keys
<1>9. Total(l) + RetiredIn(more) = Total(Now.minted)
  <2>1. Total(Now.ledger) + RetiredIn(Now.events) = Total(Now.minted)
    BY DEF GoodBlock
  <2>. QED BY <1>1, <1>3, <1>5, <1>6, <2>1
<1>. HIDE DEF b
<1>10. GoodBlock(b)
  BY <1>6, <1>7, <1>8, <1>9 DEF GoodBlock
<1>11. Follows(Now, b)
  <2>1. RetiredIn(Now.events) <= RetiredIn(more) /\ Total(Now.minted) <= Total(Now.minted)
    BY <1>1, <1>3, <1>6
  <2>. QED BY <1>8, <2>1 DEF Follows
<1>. QED BY <1>4, <1>10, <1>11 DEF Arrives

LEMMA CallArrives == GoodBlock(Now) /\ FA2Call => \E b : Arrives(b)
<1>. SUFFICES ASSUME GoodBlock(Now), FA2Call PROVE \E b : Arrives(b)
  OBVIOUS
<1>1. PICK i \in TokenIds :
         \/ AddTokenId(i)
         \/ \E o \in Owners, n \in Amounts :
               \/ Mint(o, i, n)
               \/ \E p \in Owners : Transfer(o, p, i, n)
               \/ \E legible \in BOOLEAN : RetireTokens(o, i, n, legible)
  BY DEF FA2Call
<1>. QED BY <1>1, AddTokenIdArrives, MintArrives, TransferArrives, RetireArrives

-----------------------------------------------------------------------------
(* The inductive invariant.  left requests are still to be made; a command  *)
(* that has the ledger has that of a block n since it began, and what it   *)
(* gets from then on is of n or later.                                     *)

Snapshots == [ledger : Maps(Keys, 1..MaxInt64), defined : SUBSET TokenIds,
              events : SUBSET Event]

LedgerShown(b, s) ==
    \A k \in Keys : /\ AmountOf(s.ledger, k) = b.ledger[k]
                    /\ k \in DOMAIN s.ledger <=> b.ledger[k] # 0

RetirementsShown(b, s) ==
    RetiredIn(s.events) \in Nat /\ RetiredIn(b.events) <= RetiredIn(s.events)

InfoTold(b, s, left) ==
    /\ LedgerShown(b, s)
    /\ left <= 1 => b.defined \subseteq s.defined
    /\ left <= 0 => RetirementsShown(b, s)

Told(bs, first, s, left) ==
    left <= 3 => \E n \in first..Len(bs) : InfoTold(bs[n], s, left)

RequestNames == {"storage", "ledger", "metadata", "token_metadata", "retire"}

(* list is how Info ends. *)
EndOfInfo(list) ==
    /\ list \in Seq(RequestNames) /\ Len(list) <= 5
    /\ \A i \in 1..Len(list) : list[i] = Info[5 - Len(list) + i]

CommandInv ==
    /\ outcome \in Outcomes /\ start \in 1..Level
    /\ outcome = "running" => todo # <<>>
    /\ outcome = "shown" => todo = <<>>
    /\ outcome # "idle" => seen \in Snapshots
    /\ outcome \in {"running", "shown"} =>
          EndOfInfo(todo) /\ Told(blocks, start, seen, Len(todo))

ViewInv == Chain(blocks) /\ CommandInv

LEMMA ViewInitInv == ViewInit => ViewInv
<1>. SUFFICES ASSUME ViewInit PROVE ViewInv
  OBVIOUS
<1>1. blocks = <<EmptyBlock>> /\ start = 1 /\ outcome = "idle"
  BY DEF ViewInit, IndexerInit
<1>2. Chain(blocks)
  BY <1>1, ChainBegins
<1>3. Level = 1
  BY <1>1 DEF Level
<1>4. CommandInv
  BY <1>1, <1>3 DEF CommandInv, Outcomes
<1>. QED BY <1>2, <1>4 DEF ViewInv

LEMMA BlocksRead ==
    ASSUME ViewInv
    PROVE  /\ Level \in Nat \ {0} /\ start \in 1..Level /\ Level = Len(blocks)
           /\ Now = blocks[Level] /\ GoodBlock(Now) /\ Chain(blocks)
           /\ \A n \in 1..Level : GoodBlock(blocks[n]) /\ Follows(blocks[n], Now)
           /\ [n \in 1..Level |-> blocks[n].ledger] \in Histories(Level, Keys)
<1>1. /\ Level \in Nat \ {0} /\ start \in 1..Level /\ Level = Len(blocks)
      /\ Now = blocks[Level] /\ Chain(blocks)
  BY IndexerAssumption DEF ViewInv, CommandInv, Chain, Level, Now
<1>2. \A n \in 1..Level : GoodBlock(blocks[n])
  BY <1>1 DEF Chain
<1>3. \A n \in 1..Level : blocks[n].ledger \in [Keys -> Nat]
  BY <1>2, BlockType
<1>4. \A n \in 1..Level : Follows(blocks[n], Now)
  <2>1. \A n \in 1..Level : n \in 1..Len(blocks) /\ n <= Level
    BY <1>1
  <2>2. Level \in 1..Len(blocks)
    BY <1>1
  <2>. QED BY <1>1, <2>1, <2>2, Zenon DEF Chain
<1>5. GoodBlock(Now)
  BY <1>1, <1>2
<1>. QED BY <1>1, <1>2, <1>3, <1>4, <1>5 DEF Histories

LEMMA CallInv == ViewInv /\ FA2Call => ViewInv'
<1>. SUFFICES ASSUME ViewInv, FA2Call PROVE ViewInv'
  OBVIOUS
<1>1. /\ Chain(blocks) /\ blocks \in Seq(Block)
      /\ Level = Len(blocks) /\ Level \in Nat \ {0} /\ Now = blocks[Level]
      /\ start \in 1..Level
  BY IndexerAssumption DEF ViewInv, CommandInv, Chain, Level, Now
<1>2. PICK b : Arrives(b)
  BY BlocksRead, CallArrives
<1>3. /\ Level < MaxBlocks /\ blocks' = Append(blocks, b)
      /\ UNCHANGED <<todo, start, seen, outcome>>
      /\ b \in Block
  BY <1>2 DEF Arrives, NewBlock, GoodBlock
<1>4. Chain(blocks')
  BY <1>1, <1>2, <1>3, ChainGrows DEF Arrives
<1>5. Level' = Level + 1
  BY <1>1, <1>3 DEF Level
<1>6. Told(blocks, start, seen, Len(todo)) => Told(blocks', start, seen, Len(todo))
  <2>1. \A n \in start..Len(blocks) : n \in start..Len(blocks') /\ blocks'[n] = blocks[n]
    BY <1>1, <1>3
  <2>. QED BY <2>1 DEF Told
<1>7. CommandInv'
  BY <1>1, <1>3, <1>5, <1>6 DEF ViewInv, CommandInv
<1>. QED BY <1>4, <1>7 DEF ViewInv

LEMMA InfoIs ==
    /\ Info \in Seq(RequestNames) /\ Len(Info) = 5
    /\ Info[1] = "storage" /\ Info[2] = "ledger" /\ Info[3] = "metadata"
    /\ Info[4] = "token_metadata" /\ Info[5] = "retire"
BY DEF Info, RequestNames

(* A command begins with all its requests to make. *)
LEMMA BeginInv == ViewInv /\ BeginInfo => ViewInv'
<1>. SUFFICES ASSUME ViewInv, BeginInfo PROVE ViewInv'
  OBVIOUS
<1>1. /\ todo' = Info /\ start' = Level /\ seen' = Nothing
      /\ outcome' = "running" /\ blocks' = blocks
  BY DEF BeginInfo, Begin
<1>2. Level \in 1..Level /\ Level' = Level
  BY <1>1, BlocksRead DEF Level
<1>3. Nothing \in Snapshots
  <2>1. \A values : <<>> \in [{} -> values]
    OBVIOUS
  <2>2. \A keys, values : <<>> \in Maps(keys, values)
    BY <2>1, Zenon DEF Maps
  <2>. QED BY <2>2 DEF Nothing, Snapshots
<1>4. EndOfInfo(Info) /\ Info # <<>>
  <2>1. \A i \in 1..5 : 5 - 5 + i = i
    OBVIOUS
  <2>2. EndOfInfo(Info)
    BY <2>1, InfoIs DEF EndOfInfo
  <2>3. Len(Info) # Len(<<>>)
    BY InfoIs
  <2>. QED BY <2>2, <2>3
<1>5. Told(blocks, Level, Nothing, Len(Info))
  BY InfoIs DEF Told
<1>6. CommandInv'
  <2>1. outcome' \in Outcomes
    BY <1>1 DEF Outcomes
  <2>. QED BY <1>1, <1>2, <1>3, <1>4, <1>5, <2>1 DEF CommandInv
<1>. QED BY <1>1, <1>6 DEF ViewInv

LEMMA EndInv ==
    ASSUME ViewInv, NEW why \in {"unanswered", "not understood"}, GiveUp(why)
    PROVE  ViewInv'
<1>1. /\ outcome = "running" /\ outcome' = why /\ todo' = <<>>
      /\ UNCHANGED <<blocks, start, seen>>
  BY DEF GiveUp
<1>2. CommandInv' /\ Chain(blocks')
  BY <1>1 DEF ViewInv, CommandInv, Outcomes, Level
<1>. QED BY <1>2 DEF ViewInv

LEMMA FinishInv == ViewInv /\ InfoEnds => ViewInv'
<1>. SUFFICES ASSUME ViewInv, InfoEnds PROVE ViewInv'
  OBVIOUS
<1>1. outcome' = "idle" /\ start' = 1 /\ UNCHANGED <<blocks, todo>>
  BY DEF InfoEnds, Finish
<1>2. 1 \in 1..Level
  BY BlocksRead
<1>3. CommandInv' /\ Chain(blocks')
  BY <1>1, <1>2 DEF ViewInv, CommandInv, Outcomes, Level
<1>. QED BY <1>3 DEF ViewInv

(* Which request it is tells how many are left. *)
LEMMA LeftOf ==
    ASSUME ViewInv, NEW request, Asked(request)
    PROVE  /\ seen \in Snapshots /\ Len(todo) \in 1..5
           /\ request = "storage" => Len(todo) = 5
           /\ request = "ledger" => Len(todo) = 4
           /\ request = "metadata" => Len(todo) = 3
           /\ request = "token_metadata" => Len(todo) = 2
           /\ request = "retire" => Len(todo) = 1
<1>1. /\ outcome = "running" /\ request = Head(todo) /\ todo # <<>>
      /\ seen \in Snapshots /\ EndOfInfo(todo)
  BY DEF Asked, ViewInv, CommandInv
<1>2. /\ Len(todo) \in Nat /\ Len(todo) >= 1 /\ Len(todo) <= 5
      /\ request = todo[1] /\ 1 \in 1..Len(todo)
  BY <1>1 DEF EndOfInfo
<1>3. request = Info[5 - Len(todo) + 1]
  BY <1>1, <1>2, Zenon DEF EndOfInfo
<1>4. \/ Len(todo) = 1 /\ 5 - Len(todo) + 1 = 5
      \/ Len(todo) = 2 /\ 5 - Len(todo) + 1 = 4
      \/ Len(todo) = 3 /\ 5 - Len(todo) + 1 = 3
      \/ Len(todo) = 4 /\ 5 - Len(todo) + 1 = 2
      \/ Len(todo) = 5 /\ 5 - Len(todo) + 1 = 1
  <2>1. \A n \in Nat : n >= 1 /\ n <= 5 => \/ n = 1 /\ 5 - n + 1 = 5
                                           \/ n = 2 /\ 5 - n + 1 = 4
                                           \/ n = 3 /\ 5 - n + 1 = 3
                                           \/ n = 4 /\ 5 - n + 1 = 2
                                           \/ n = 5 /\ 5 - n + 1 = 1
    OBVIOUS
  <2>. QED BY <1>2, <2>1, Zenon
<1>5. \/ Len(todo) = 1 /\ request = "retire"
      \/ Len(todo) = 2 /\ request = "token_metadata"
      \/ Len(todo) = 3 /\ request = "metadata"
      \/ Len(todo) = 4 /\ request = "ledger"
      \/ Len(todo) = 5 /\ request = "storage"
  BY <1>3, <1>4, InfoIs, Zenon
<1>6. Len(todo) \in 1..5
  <2>1. \A n \in Nat : n >= 1 /\ n <= 5 => n \in 1..5
    OBVIOUS
  <2>. QED BY <1>2, <2>1, Zenon
<1>7. /\ request = "storage" => Len(todo) = 5
      /\ request = "ledger" => Len(todo) = 4
      /\ request = "metadata" => Len(todo) = 3
      /\ request = "token_metadata" => Len(todo) = 2
      /\ request = "retire" => Len(todo) = 1
  <2>. DEFINE left == Len(todo)
  <2>1. \/ left = 1 /\ request = "retire"
        \/ left = 2 /\ request = "token_metadata"
        \/ left = 3 /\ request = "metadata"
        \/ left = 4 /\ request = "ledger"
        \/ left = 5 /\ request = "storage"
    BY <1>5, Zenon
  <2>. HIDE DEF left
  <2>2. /\ request = "storage" => left = 5
        /\ request = "ledger" => left = 4
        /\ request = "metadata" => left = 3
        /\ request = "token_metadata" => left = 2
        /\ request = "retire" => left = 1
    BY <2>1
  <2>. QED BY <2>2, Zenon DEF left
<1>. QED BY <1>1, <1>6, <1>7, Zenon

LEMMA TailIsEnd ==
    ASSUME NEW list, EndOfInfo(list), list # <<>>
    PROVE  EndOfInfo(Tail(list)) /\ Len(Tail(list)) = Len(list) - 1
<1>1. /\ list \in Seq(RequestNames) /\ Len(list) <= 5
      /\ Len(list) \in Nat /\ Len(list) >= 1
      /\ \A i \in 1..Len(list) : list[i] = Info[5 - Len(list) + i]
  BY DEF EndOfInfo
<1>. DEFINE rest == Tail(list)
<1>2. /\ rest \in Seq(RequestNames) /\ Len(rest) = Len(list) - 1
      /\ \A i \in 1..Len(rest) : rest[i] = list[i + 1]
  BY <1>1
<1>. HIDE DEF rest
<1>3. ASSUME NEW i \in 1..Len(rest)
      PROVE  rest[i] = Info[5 - Len(rest) + i]
  <2>1. /\ i + 1 \in 1..Len(list)
        /\ 5 - Len(list) + (i + 1) = 5 - Len(rest) + i
    BY <1>1, <1>2
  <2>2. list[i + 1] = Info[5 - Len(list) + (i + 1)]
    BY <1>1, <2>1
  <2>3. rest[i] = list[i + 1]
    BY <1>2
  <2>. QED BY <2>1, <2>2, <2>3
<1>4. Len(rest) <= 5
  BY <1>1, <1>2
<1>. QED BY <1>2, <1>3, <1>4 DEF EndOfInfo, rest

(* What the command makes of an answer. *)
LEMMA ReadInv ==
    ASSUME ViewInv, NEW request, NEW result \in Snapshots, Read(request, result),
           Told(blocks, start, result, Len(todo) - 1)
    PROVE  ViewInv'
<1>1. /\ Asked(request) /\ outcome = "running" /\ todo # <<>>
      /\ todo' = Tail(todo) /\ seen' = result
      /\ outcome' = IF Len(todo) = 1 THEN "shown" ELSE "running"
      /\ UNCHANGED <<blocks, start>>
      /\ EndOfInfo(todo) /\ Chain(blocks) /\ start \in 1..Level
  BY DEF Read, Asked, ViewInv, CommandInv
<1>2. EndOfInfo(todo') /\ Len(todo') = Len(todo) - 1
  BY <1>1, TailIsEnd
<1>3. todo' \in Seq(RequestNames) /\ todo \in Seq(RequestNames)
  BY <1>1, <1>2 DEF EndOfInfo
<1>4. outcome' = "shown" => todo' = <<>>
  BY <1>1, <1>2, <1>3
<1>5. outcome' = "running" => todo' # <<>>
  <2>1. outcome' = "running" => Len(todo') # 0
    BY <1>1, <1>2, <1>3
  <2>2. Len(<<>>) = 0
    OBVIOUS
  <2>. QED BY <2>1, <2>2
<1>6. Told(blocks', start', seen', Len(todo'))
  BY <1>1, <1>2, Zenon
<1>7. start' \in 1..Level' /\ outcome' \in {"shown", "running"}
  BY <1>1 DEF Level
<1>8. CommandInv'
  <2>1. outcome' \in Outcomes /\ seen' \in Snapshots
    BY <1>1, <1>7 DEF Outcomes
  <2>. QED BY <1>2, <1>4, <1>5, <1>6, <1>7, <2>1 DEF CommandInv
<1>. QED BY <1>1, <1>8 DEF ViewInv

-----------------------------------------------------------------------------
(* The requests, one after the other. *)

LEMMA StorageInv == ViewInv /\ GetContractStorage => ViewInv'
<1>. SUFFICES ASSUME ViewInv, GetContractStorage PROVE ViewInv'
  OBVIOUS
<1>1. Read("storage", seen) /\ Asked("storage")
  BY DEF GetContractStorage, Read
<1>2. seen \in Snapshots /\ Len(todo) = 5
  BY <1>1, LeftOf
<1>3. Told(blocks, start, seen, Len(todo) - 1)
  BY <1>2 DEF Told
<1>. QED BY <1>1, <1>2, <1>3, ReadInv

LEMMA SnapshotWith ==
    ASSUME NEW s \in Snapshots, NEW ledger \in Maps(Keys, 1..MaxInt64),
           NEW defined \in SUBSET TokenIds, NEW events \in SUBSET Event
    PROVE  /\ [s EXCEPT !.ledger = ledger] =
                 [ledger |-> ledger, defined |-> s.defined, events |-> s.events]
           /\ [s EXCEPT !.defined = defined] =
                 [ledger |-> s.ledger, defined |-> defined, events |-> s.events]
           /\ [s EXCEPT !.events = events] =
                 [ledger |-> s.ledger, defined |-> s.defined, events |-> events]
           /\ [s EXCEPT !.ledger = ledger] \in Snapshots
           /\ [s EXCEPT !.defined = defined] \in Snapshots
           /\ [s EXCEPT !.events = events] \in Snapshots
<1>. DEFINE L == Maps(Keys, 1..MaxInt64)
            E == SUBSET TokenIds
            V == SUBSET Event
<1>1. Snapshots = [ledger : L, defined : E, events : V]
  BY DEF Snapshots
<1>2. ledger \in L /\ defined \in E /\ events \in V
  OBVIOUS
<1>. HIDE DEF L, E, V
<1>. QED BY <1>1, <1>2

(* What the ledger's answer is decoded to. *)
LEMMA LedgerAnswer ==
    ASSUME ViewInv, NEW items, items = ActiveItems(LedgerItems), Fits(items)
    PROVE  /\ AsMap(items) \in Maps(Keys, 1..MaxInt64)
           /\ \A k \in Keys : /\ AmountOf(AsMap(items), k) = Now.ledger[k]
                              /\ k \in DOMAIN AsMap(items) <=> Now.ledger[k] # 0
<1>. DEFINE amounts == [n \in 1..Level |-> blocks[n].ledger]
            map == AsMap(items)
<1>1. /\ Level \in Nat \ {0} /\ amounts \in Histories(Level, Keys)
      /\ amounts[Level] = Now.ledger
  BY BlocksRead
<1>2. /\ items = ActiveItems(BigMapItems(amounts, Keys)) /\ map = AsMap(items)
      /\ MaxInt64 \in Nat /\ \A i \in items : i.value <= MaxInt64
  BY IndexerAssumption DEF LedgerItems, Fits, Keys
<1>. HIDE DEF amounts, map
<1>3. map \in Maps(Keys, 1..MaxInt64)
  BY <1>1, <1>2, ActiveMap
<1>4. ASSUME NEW k \in Keys
      PROVE  /\ AmountOf(map, k) = amounts[Level][k]
             /\ k \in DOMAIN map <=> amounts[Level][k] # 0
  BY <1>1, <1>2, ActiveMap
<1>. QED BY <1>1, <1>3, <1>4 DEF map

LEMMA LedgerInv == ViewInv /\ GetLedger => ViewInv'
<1>. SUFFICES ASSUME ViewInv, GetLedger PROVE ViewInv'
  OBVIOUS
<1>. DEFINE items == ActiveItems(LedgerItems)
            map == AsMap(items)
            result == [seen EXCEPT !.ledger = map]
<1>1. CASE NotUnderstood("ledger")
  BY <1>1, EndInv DEF NotUnderstood
<1>2. CASE Fits(items) /\ Read("ledger", result)
  <2>1. Asked("ledger")
    BY <1>2 DEF Read
  <2>2. /\ map \in Maps(Keys, 1..MaxInt64)
        /\ \A k \in Keys : /\ AmountOf(map, k) = Now.ledger[k]
                           /\ k \in DOMAIN map <=> Now.ledger[k] # 0
    BY <1>2, LedgerAnswer
  <2>3. seen \in Snapshots /\ Len(todo) = 4
    BY <2>1, LeftOf
  <2>. HIDE DEF map
  <2>4. result \in Snapshots /\ result.ledger = map
    <3>1. {} \in SUBSET Event /\ {} \in SUBSET TokenIds
      OBVIOUS
    <3>2. /\ result = [ledger |-> map, defined |-> seen.defined,
                       events |-> seen.events]
          /\ result \in Snapshots
      BY <2>2, <2>3, <3>1, SnapshotWith
    <3>. HIDE DEF result
    <3>. QED BY <3>2
  <2>. HIDE DEF result
  <2>5. Now = blocks[Level] /\ Level \in start..Len(blocks)
    BY BlocksRead
  <2>6. LedgerShown(blocks[Level], result)
    BY <2>2, <2>4, <2>5, Zenon DEF LedgerShown
  <2>7. Len(todo) - 1 = 3
    BY <2>3
  <2>8. InfoTold(blocks[Level], result, 3)
    BY <2>6 DEF InfoTold
  <2>9. Told(blocks, start, result, Len(todo) - 1)
    BY <2>5, <2>7, <2>8, Zenon DEF Told
  <2>. QED BY <1>2, <2>4, <2>9, ReadInv
<1>. QED BY <1>1, <1>2 DEF GetLedger

(* info has been told of the ledger of some block since it began. *)
LEMMA InfoSoFar ==
    ASSUME ViewInv, NEW request, Asked(request), Len(todo) <= 3
    PROVE  \E n \in start..Len(blocks) : InfoTold(blocks[n], seen, Len(todo))
BY DEF ViewInv, CommandInv, Asked, Told

LEMMA MetadataInv == ViewInv /\ GetFA2Metadata => ViewInv'
<1>. SUFFICES ASSUME ViewInv, GetFA2Metadata PROVE ViewInv'
  OBVIOUS
<1>1. Read("metadata", seen) /\ Asked("metadata")
  BY DEF GetFA2Metadata, Read
<1>2. seen \in Snapshots /\ Len(todo) = 3
  BY <1>1, LeftOf
<1>3. PICK n \in start..Len(blocks) : InfoTold(blocks[n], seen, 3)
  BY <1>1, <1>2, InfoSoFar
<1>4. InfoTold(blocks[n], seen, 2) /\ Len(todo) - 1 = 2
  BY <1>2, <1>3 DEF InfoTold
<1>5. Told(blocks, start, seen, Len(todo) - 1)
  BY <1>4, Zenon DEF Told
<1>. QED BY <1>1, <1>2, <1>5, ReadInv

(* A block since the command began is followed by the latest one. *)
LEMMA Since ==
    ASSUME ViewInv, NEW n \in start..Len(blocks)
    PROVE  n \in 1..Level /\ GoodBlock(blocks[n]) /\ Follows(blocks[n], Now)
<1>1. n \in 1..Level
  BY BlocksRead
<1>. QED BY <1>1, BlocksRead

LEMMA TokenMetadataInv == ViewInv /\ GetTokenMetadata => ViewInv'
<1>. SUFFICES ASSUME ViewInv, GetTokenMetadata PROVE ViewInv'
  OBVIOUS
<1>. DEFINE defined == Now.defined
            result == [seen EXCEPT !.defined = defined]
<1>1. Read("token_metadata", result) /\ Asked("token_metadata")
  BY DEF GetTokenMetadata, Read
<1>2. seen \in Snapshots /\ Len(todo) = 2
  BY <1>1, LeftOf
<1>3. PICK n \in start..Len(blocks) : InfoTold(blocks[n], seen, 2)
  BY <1>1, <1>2, InfoSoFar
<1>4. blocks[n].defined \subseteq defined
  BY Since DEF Follows
<1>5. defined \in SUBSET TokenIds
  BY BlocksRead, BlockType
<1>. HIDE DEF defined
<1>6. /\ result \in Snapshots /\ result.ledger = seen.ledger
      /\ result.defined = defined
  <2>1. {} \in SUBSET Event /\ seen.ledger \in Maps(Keys, 1..MaxInt64)
    BY <1>2 DEF Snapshots
  <2>2. /\ result = [ledger |-> seen.ledger, defined |-> defined,
                     events |-> seen.events]
        /\ result \in Snapshots
    BY <1>2, <1>5, <2>1, SnapshotWith
  <2>. HIDE DEF result
  <2>. QED BY <2>2
<1>. HIDE DEF result
<1>7. LedgerShown(blocks[n], result)
  BY <1>3, <1>6 DEF InfoTold, LedgerShown
<1>8. InfoTold(blocks[n], result, 1) /\ Len(todo) - 1 = 1
  BY <1>2, <1>4, <1>6, <1>7 DEF InfoTold
<1>9. Told(blocks, start, result, Len(todo) - 1)
  BY <1>8, Zenon DEF Told
<1>. QED BY <1>1, <1>6, <1>9, ReadInv

(* The decoder of the retirements loses their token ids, not their amounts. *)
LEMMA DecodedEvent ==
    ASSUME NEW e \in Event
    PROVE  /\ DecodedRetirement(e) \in Event
           /\ DecodedRetirement(e).id = e.id
           /\ DecodedRetirement(e).amount = e.amount
BY FA2ViewAssumption DEF Event, DecodedRetirement

LEMMA DecodedAmounts ==
    ASSUME NEW b, GoodBlock(b), NEW decoded,
           decoded = {DecodedRetirement(e) : e \in b.events}
    PROVE  decoded \in SUBSET Event /\ RetiredIn(decoded) = RetiredIn(b.events)
<1>. DEFINE events == b.events
            h == [e \in events |-> DecodedRetirement(e)]
            f == AmountsOf(events)
            g == AmountsOf(decoded)
<1>1. events \subseteq Event /\ IsFiniteSet(events)
  BY BlockType DEF GoodBlock
<1>2. Images(h, events) = decoded
  BY DEF Images
<1>3. decoded \subseteq Event
  BY <1>1, DecodedEvent
<1>4. \A d, e \in events : d.id = e.id => d = e
  BY DEF GoodBlock
<1>5. \A e \in events : h[e] \in decoded /\ h[e].id = e.id /\ h[e].amount = e.amount
  BY <1>1, DecodedEvent
<1>. HIDE DEF events, h
<1>6. \A d, e \in events : h[d] = h[e] => d = e
  BY <1>4, <1>5
<1>7. f \in [events -> Int]
  BY <1>1, AmountsType
<1>8. \A e \in events : g[h[e]] = f[e]
  BY <1>5 DEF AmountsOf
<1>9. Total(g) = Total(f)
  <2>1. g \in [decoded -> Int]
    BY <1>3, AmountsType
  <2>. HIDE DEF f, g
  <2>2. g \in [Images(h, events) -> Int]
    BY <2>1, <1>2, Zenon
  <2>3. IsFiniteSet(events)
    BY <1>1
  <2>4. Renames(h, f, g, events)
    BY <1>6, <1>8 DEF Renames
  <2>. QED BY <1>7, <2>2, <2>3, <2>4, TotalImage
<1>. HIDE DEF f, g
<1>. QED BY <1>3, <1>9, RetiredIsTotal DEF f, g, events

LEMMA RetireEventsInv == ViewInv /\ GetFA2RetireEvents => ViewInv'
<1>. SUFFICES ASSUME ViewInv, GetFA2RetireEvents PROVE ViewInv'
  OBVIOUS
<1>. DEFINE decoded == {DecodedRetirement(e) : e \in Now.events}
            result == [seen EXCEPT !.events = decoded]
<1>1. CASE NotUnderstood("retire")
  BY <1>1, EndInv DEF NotUnderstood
<1>2. CASE Read("retire", result)
  <2>1. Asked("retire")
    BY <1>2 DEF Read
  <2>2. seen \in Snapshots /\ Len(todo) = 1
    BY <2>1, LeftOf
  <2>3. PICK n \in start..Len(blocks) : InfoTold(blocks[n], seen, 1)
    BY <2>1, <2>2, InfoSoFar
  <2>4. decoded \in SUBSET Event /\ RetiredIn(decoded) = RetiredIn(Now.events)
    BY BlocksRead, DecodedAmounts
  <2>5. /\ RetiredIn(Now.events) \in Nat
        /\ RetiredIn(blocks[n].events) <= RetiredIn(Now.events)
    BY BlocksRead, BlockType, Since DEF Follows
  <2>. HIDE DEF decoded
  <2>6. /\ result \in Snapshots /\ result.ledger = seen.ledger
        /\ result.defined = seen.defined /\ result.events = decoded
    <3>1. {} \in SUBSET TokenIds /\ seen.ledger \in Maps(Keys, 1..MaxInt64)
      BY <2>2 DEF Snapshots
    <3>2. /\ result = [ledger |-> seen.ledger, defined |-> seen.defined,
                       events |-> decoded]
          /\ result \in Snapshots
      BY <2>2, <2>4, <3>1, SnapshotWith
    <3>. HIDE DEF result
    <3>. QED BY <3>2
  <2>. HIDE DEF result
  <2>7. LedgerShown(blocks[n], result)
    BY <2>3, <2>6 DEF InfoTold, LedgerShown
  <2>8. RetirementsShown(blocks[n], result)
    BY <2>4, <2>5, <2>6 DEF RetirementsShown
  <2>9. InfoTold(blocks[n], result, 0) /\ Len(todo) - 1 = 0
    BY <2>2, <2>3, <2>6, <2>7, <2>8 DEF InfoTold
  <2>10. Told(blocks, start, result, Len(todo) - 1)
    BY <2>9, Zenon DEF Told
  <2>. QED BY <1>2, <2>6, <2>10, ReadInv
<1>. QED BY <1>1, <1>2 DEF GetFA2RetireEvents

LEMMA ViewNextInv == ViewInv /\ [ViewNext]_vars => ViewInv'
<1>. SUFFICES ASSUME ViewInv, [ViewNext]_vars PROVE ViewInv'
  OBVIOUS
<1>1. CASE RequestFails
  BY <1>1, EndInv DEF RequestFails
<1>2. CASE UNCHANGED vars
  BY <1>2 DEF vars, ViewInv, CommandInv, Level
<1>. QED BY <1>1, <1>2, CallInv, BeginInv, FinishInv, StorageInv, LedgerInv,
            MetadataInv, TokenMetadataInv, RetireEventsInv DEF ViewNext

LEMMA ViewAlways == ViewSpec => []ViewInv
BY ViewInitInv, ViewNextInv, PTL DEF ViewSpec

-----------------------------------------------------------------------------
(* The indexer's blocks and what a command has read keep their types, the   *)
(* amounts it has decoded among them, however often it is called.          *)
THEOREM ViewTypeCorrect == ViewSpec => []ViewTypeOK
<1>1. ViewInv => ViewTypeOK
  <2>. SUFFICES ASSUME ViewInv PROVE ViewTypeOK
    OBVIOUS
  <2>1. /\ blocks \in Seq(Block) /\ Level \in 1..MaxBlocks /\ start \in 1..Level
        /\ outcome \in Outcomes
        /\ outcome = "running" => todo # <<>>
    BY DEF ViewInv, CommandInv, Chain, Level
  <2>2. ASSUME outcome # "idle"
        PROVE  /\ seen.ledger \in Maps(Keys, 1..MaxInt64)
               /\ seen.defined \subseteq TokenIds
               /\ seen.events \subseteq Event
    BY <2>2 DEF ViewInv, CommandInv, Snapshots
  <2>3. ASSUME outcome # "idle"
        PROVE  /\ DOMAIN seen.ledger \subseteq Owners \X TokenIds
               /\ \A k \in DOMAIN seen.ledger : seen.ledger[k] \in 1..MaxInt64
    BY <2>2, <2>3 DEF Maps, Keys
  <2>. QED BY <2>1, <2>2, <2>3, Zenon DEF ViewTypeOK
<1>. QED BY <1>1, ViewAlways, PTL

(* What info has been told in the end. *)
LEMMA InfoInTheEnd ==
    ASSUME ViewInv, Shown
    PROVE  \E n \in start..Len(blocks) :
              /\ LedgerShown(blocks[n], seen)
              /\ blocks[n].defined \subseteq seen.defined
              /\ RetirementsShown(blocks[n], seen)
<1>1. todo = <<>> /\ Told(blocks, start, seen, Len(todo))
  BY DEF Shown, ViewInv, CommandInv
<1>2. Len(todo) = 0
  BY <1>1
<1>3. PICK n \in start..Len(blocks) : InfoTold(blocks[n], seen, 0)
  BY <1>1, <1>2 DEF Told
<1>. QED BY <1>3 DEF InfoTold

(* The balances and the retirements that `fa2 info` shows add up to all the *)
(* credits there were when it began, at least: it fetches the retirements  *)
(* after the ledger, so that what is retired meanwhile is not missed.      *)
THEOREM NothingIsMissed == ViewSpec => []NothingVanishes
<1>1. ViewInv => NothingVanishes
  <2>. SUFFICES ASSUME ViewInv, Shown
                PROVE  HeldShown + RetiredIn(seen.events) >=
                          SumFunction(blocks[start].minted)
    BY DEF NothingVanishes
  <2>1. PICK n \in start..Len(blocks) :
           LedgerShown(blocks[n], seen) /\ RetirementsShown(blocks[n], seen)
    BY InfoInTheEnd
  <2>. DEFINE b == blocks[n]
              first == blocks[start]
  <2>2. GoodBlock(b) /\ GoodBlock(first) /\ Follows(first, b)
    <3>1. start \in 1..Len(blocks) /\ n \in 1..Len(blocks) /\ start <= n
      BY BlocksRead
    <3>2. Chain(blocks)
      BY BlocksRead
    <3>. QED BY <3>1, <3>2 DEF Chain
  <2>3. HeldShown = Total(b.ledger)
    <3>. DEFINE f == [k \in Keys |-> AmountOf(seen.ledger, k)]
    <3>1. b.ledger \in [Keys -> Nat]
      BY <2>2, BlockType
    <3>2. \A k \in Keys : f[k] = b.ledger[k]
      BY <2>1 DEF LedgerShown
    <3>3. f = b.ledger
      BY <3>1, <3>2
    <3>4. HeldShown = Total(f)
      BY Zenon DEF HeldShown, Total, Keys
    <3>. QED BY <3>3, <3>4, Zenon
  <2>4. /\ Total(b.ledger) \in Nat /\ RetiredIn(b.events) \in Nat
        /\ Total(b.minted) \in Nat /\ Total(first.minted) \in Nat
    BY <2>2, BlockType
  <2>5. /\ Total(b.ledger) + RetiredIn(b.events) = Total(b.minted)
        /\ Total(first.minted) <= Total(b.minted)
    BY <2>2 DEF GoodBlock, Follows
  <2>6. RetiredIn(seen.events) \in Nat /\ RetiredIn(b.events) <= RetiredIn(seen.events)
    BY <2>1 DEF RetirementsShown
  <2>7. SumFunction(first.minted) = Total(first.minted)
    BY DEF Total
  <2>. HIDE DEF b, first
  <2>8. Total(b.ledger) + RetiredIn(seen.events) >= Total(first.minted)
    BY <2>4, <2>5, <2>6
  <2>. QED BY <2>3, <2>7, <2>8, Zenon DEF first
<1>. QED BY <1>1, ViewAlways, PTL

(* Each token id in the ledger that `fa2 info` shows is among the token     *)
(* metadata it shows: it fetches the metadata later.                       *)
THEOREM TokensShownDefined == ViewSpec => []ShownTokensDefined
<1>1. ViewInv => ShownTokensDefined
  <2>. SUFFICES ASSUME ViewInv, Shown, NEW k \in DOMAIN seen.ledger
                PROVE  k[2] \in seen.defined
    BY DEF ShownTokensDefined
  <2>1. PICK n \in start..Len(blocks) :
           LedgerShown(blocks[n], seen) /\ blocks[n].defined \subseteq seen.defined
    BY InfoInTheEnd
  <2>2. k \in Keys
    <3>1. seen.ledger \in Maps(Keys, 1..MaxInt64)
      BY DEF Shown, ViewInv, CommandInv, Snapshots
    <3>. QED BY <3>1 DEF Maps
  <2>3. blocks[n].ledger[k] # 0
    BY <2>1, <2>2 DEF LedgerShown
  <2>4. k[2] \in blocks[n].defined
    BY <2>2, <2>3, Since DEF GoodBlock
  <2>. QED BY <2>1, <2>4
<1>. QED BY <1>1, ViewAlways, PTL
=============================================================================
