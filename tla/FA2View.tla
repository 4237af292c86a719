------------------------------ MODULE FA2View ------------------------------
(***************************************************************************)
(* What `x4cli fa2 info` (cmd/x4cli/fa2_info.go) makes of an FA2 contract  *)
(* that is called while it reads it.  The calls are those of fa2.mligo     *)
(* that move credits or define tokens, with a single entry, one per block. *)
(***************************************************************************)
EXTENDS Indexer, Functions

CONSTANTS Owners, TokenIds, Amounts

ASSUME FA2ViewAssumption ==
    /\ IsFiniteSet(Owners) /\ IsFiniteSet(TokenIds)
    /\ TokenIds \subseteq Nat /\ 0 \in TokenIds
    /\ Amounts \subseteq Nat \ {0}

(* A %retire event; legible says whether MichelsonToString understands the *)
(* reason.                                                                 *)
Event == [id : Nat, owner : Owners, token_id : TokenIds, amount : Amounts,
          legible : BOOLEAN]

(* minted is a history of the oracle's mints. *)
Block == [ledger : [Owners \X TokenIds -> Nat], defined : SUBSET TokenIds,
          events : SUBSET Event, minted : [TokenIds -> Nat]]

EmptyBlock == [ledger  |-> [k \in Owners \X TokenIds |-> 0],
               defined |-> {},
               events  |-> {},
               minted  |-> [i \in TokenIds |-> 0]]

-----------------------------------------------------------------------------
(* Calls of the FA2 contract; a transfer to oneself changes nothing. *)

AddTokenId(i) ==
    /\ i \notin Now.defined
    /\ NewBlock([Now EXCEPT !.defined = @ \cup {i}])

Mint(o, i, n) ==
    /\ i \in Now.defined
    /\ NewBlock([Now EXCEPT !.ledger[<<o, i>>] = @ + n, !.minted[i] = @ + n])

Moved(ledger, o, p, i, n) ==
    [ledger EXCEPT ![<<o, i>>] = @ - n, ![<<p, i>>] = @ + n]

Transfer(o, p, i, n) ==
    /\ o # p /\ n <= Now.ledger[o, i]
    /\ NewBlock([Now EXCEPT !.ledger = Moved(@, o, p, i, n)])

Retirement(o, i, n, legible) ==
    [id |-> Cardinality(Now.events) + 1, owner |-> o, token_id |-> i,
     amount |-> n, legible |-> legible]

RetireTokens(o, i, n, legible) ==
    /\ n <= Now.ledger[o, i]
    /\ NewBlock([Now EXCEPT !.ledger[<<o, i>>] = @ - n,
                            !.events = @ \cup {Retirement(o, i, n, legible)}])

FA2Call ==
    \E i \in TokenIds :
        \/ AddTokenId(i)
        \/ \E o \in Owners, n \in Amounts :
              \/ Mint(o, i, n)
              \/ \E p \in Owners : Transfer(o, p, i, n)
              \/ \E legible \in BOOLEAN : RetireTokens(o, i, n, legible)

-----------------------------------------------------------------------------
(* The command *)

(* Mutant: the retirements are fetched before the ledger. *)
InfoEventsFirst == <<"storage", "retire", "ledger", "metadata", "token_metadata">>

(* Mutant: the ledger is fetched last. *)
InfoLedgerLast == <<"storage", "metadata", "token_metadata", "ledger", "retire">>

Info == <<"storage", "ledger", "metadata", "token_metadata", "retire">>

Nothing == [ledger |-> <<>>, defined |-> {}, events |-> {}]

LedgerItems ==
    BigMapItems([n \in 1..Level |-> blocks[n].ledger], Owners \X TokenIds)

BeginInfo == Begin(Info, Nothing)

(* The oracle and the numbers of the big maps; what metadata says is left  *)
(* out.                                                                    *)
GetContractStorage == Read("storage", seen)
GetFA2Metadata == Read("metadata", seen)

GetLedger ==
    LET items == ActiveItems(LedgerItems)
    IN  \/ Fits(items) /\ Read("ledger", [seen EXCEPT !.ledger = AsMap(items)])
        \/ ~Fits(items) /\ NotUnderstood("ledger")

GetTokenMetadata == Read("token_metadata", [seen EXCEPT !.defined = Now.defined])

(* The field is called token_id in the event and tokenId in its decoder:   *)
(* what is decoded is the zero it starts with.                             *)
DecodedRetirement(e) == [e EXCEPT !.token_id = 0]

GetFA2RetireEvents ==
    \/ /\ \A e \in Now.events : e.legible
       /\ Read("retire", [seen EXCEPT !.events =
                             {DecodedRetirement(e) : e \in Now.events}])
    \/ (\E e \in Now.events : ~e.legible) /\ NotUnderstood("retire")

(* The snapshot is displayed, as a text or as JSON. *)
InfoEnds == Finish

ViewInit == IndexerInit(EmptyBlock)

ViewNext ==
    \/ FA2Call
    \/ BeginInfo
    \/ GetContractStorage \/ GetLedger \/ GetFA2Metadata \/ GetTokenMetadata
    \/ GetFA2RetireEvents
    \/ RequestFails \/ InfoEnds

ViewSpec == ViewInit /\ [][ViewNext]_vars

-----------------------------------------------------------------------------
ViewTypeOK ==
    /\ blocks \in Seq(Block) /\ Level \in 1..MaxBlocks
    /\ start \in 1..Level
    /\ outcome \in Outcomes
    /\ outcome = "running" => todo # <<>>
    /\ outcome # "idle" =>
          /\ DOMAIN seen.ledger \subseteq Owners \X TokenIds
          /\ \A k \in DOMAIN seen.ledger : seen.ledger[k] \in 1..MaxInt64
          /\ seen.defined \subseteq TokenIds
          /\ seen.events \subseteq Event

Shown == outcome = "shown"

HeldShown ==
    SumFunction([k \in Owners \X TokenIds |-> AmountOf(seen.ledger, k)])

RetiredIn(events) == SumFunction([e \in events |-> e.amount])

(* Whoever adds up the balances and the retirements that info shows misses *)
(* no credits that existed when the command began, whatever is transferred *)
(* and retired while it reads: over all token ids, as DecodedRetirement    *)
(* loses those of the retirements.                                         *)
NothingVanishes ==
    Shown => HeldShown + RetiredIn(seen.events) >= SumFunction(blocks[start].minted)

(* Each token id in the ledger that info shows is among the token metadata *)
(* it shows, also an id that was defined and minted while it read.         *)
ShownTokensDefined ==
    Shown => \A k \in DOMAIN seen.ledger : k[2] \in seen.defined
=============================================================================
