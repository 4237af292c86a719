--------------------------- MODULE CustodianView ---------------------------
(***************************************************************************)
(* What GET /credit/sources (cmd/server/credit_sources.go) and `x4cli      *)
(* custodian info` (cmd/x4cli/custodian_info.go) make of a custodian       *)
(* contract that is called while they read it.  The calls are those of     *)
(* custodian.mligo with a single entry, one per block.                     *)
(***************************************************************************)
EXTENDS Indexer

CONSTANTS
    Parties, Self, Tokens,
    Outside,        \* where credits come from and go to
    Amounts

ASSUME CustodianViewAssumption ==
    /\ Self \in Parties /\ Outside \notin Parties
    /\ IsFiniteSet(Parties) /\ IsFiniteSet(Tokens)
    /\ Amounts \subseteq Nat \ {0}

Tags == {"internal_mint", "internal_transfer", "retire"}

(* One event: credits have moved.  legible says whether its texts are what *)
(* MichelsonToString understands.                                          *)
Event == [id : Nat, tag : Tags, from : Parties \cup {Outside},
          to : Parties \cup {Outside}, token : Tokens, amount : Amounts,
          legible : BOOLEAN]

Block == [ledger : [Parties \X Tokens -> Nat], external : [Tokens -> Nat],
          events : SUBSET Event]

EmptyBlock == [ledger   |-> [k \in Parties \X Tokens |-> 0],
               external |-> [t \in Tokens |-> 0],
               events   |-> {}]

-----------------------------------------------------------------------------
(* Calls of the custodian contract, for some credits.  A party can give     *)
(* itself more than it has: the receiver is credited first.                *)

Emitted(tag, p, q, t, n, legible) ==
    Now.events \cup {[id |-> Cardinality(Now.events) + 1, tag |-> tag,
                      from |-> p, to |-> q, token |-> t, amount |-> n,
                      legible |-> legible]}

InternalMint(t, n) ==
    NewBlock([ledger   |-> [Now.ledger EXCEPT ![<<Self, t>>] = @ + n],
              external |-> [Now.external EXCEPT ![t] = @ + n],
              events   |-> Emitted("internal_mint", Outside, Self, t, n, TRUE)])

Moved(ledger, p, q, t, n) ==
    [[ledger EXCEPT ![<<p, t>>] = @ - n] EXCEPT ![<<q, t>>] = @ + n]

InternalTransfer(p, q, t, n) ==
    /\ n <= Now.ledger[p, t] \/ p = q
    /\ NewBlock([Now EXCEPT
          !.ledger = Moved(@, p, q, t, n),
          !.events = Emitted("internal_transfer", p, q, t, n, TRUE)])

(* Both ledgers are lowered; external_transfer emits no event.             *)
Debited(p, t, n) ==
    [Now EXCEPT !.ledger[<<p, t>>] = @ - n, !.external[t] = @ - n]

ExternalTransfer(p, t, n) ==
    /\ n <= Now.ledger[p, t]
    /\ NewBlock(Debited(p, t, n))

Retire(p, t, n, legible) ==
    /\ n <= Now.ledger[p, t]
    /\ NewBlock([Debited(p, t, n) EXCEPT
                    !.events = Emitted("retire", p, Outside, t, n, legible)])

CustodianCall ==
    \E p \in Parties, t \in Tokens, n \in Amounts :
        \/ InternalMint(t, n)
        \/ \E q \in Parties : InternalTransfer(p, q, t, n)
        \/ ExternalTransfer(p, t, n)
        \/ \E legible \in BOOLEAN : Retire(p, t, n, legible)

-----------------------------------------------------------------------------
(* The commands *)

Sources == <<"storage", "ledger">>

(* Mutant: the events are fetched first. *)
InfoEventsFirst == <<"storage", "internal_mint", "internal_transfer", "retire",
                     "ledger", "external_ledger", "metadata">>

(* Mutant: the external ledger is fetched first. *)
InfoExternalFirst == <<"storage", "external_ledger", "ledger", "metadata",
                       "internal_mint", "internal_transfer", "retire">>

Info == <<"storage", "ledger", "external_ledger", "metadata",
          "internal_mint", "internal_transfer", "retire">>

Nothing(command) ==
    [command |-> command, ledger |-> <<>>, external |-> <<>>, events |-> {}]

LedgerItems ==
    BigMapItems([n \in 1..Level |-> blocks[n].ledger], Parties \X Tokens)

ExternalItems == BigMapItems([n \in 1..Level |-> blocks[n].external], Tokens)

EventsTagged(tag) == {e \in Now.events : e.tag = tag}

BeginSources == Begin(Sources, Nothing("sources"))
BeginInfo == Begin(Info, Nothing("info"))

(* The numbers of the big maps, which no call changes, and metadata, which *)
(* the contract never changes.                                             *)
GetContractStorage == Read("storage", seen)
GetCustodianMetadata == Read("metadata", seen)

GetLedger ==
    LET items == ActiveItems(LedgerItems)
    IN  \/ Fits(items) /\ Read("ledger", [seen EXCEPT !.ledger = AsMap(items)])
        \/ ~Fits(items) /\ NotUnderstood("ledger")

(* No look at what is active here. *)
GetExternalLedger ==
    \/ /\ Fits(ExternalItems)
       /\ Read("external_ledger", [seen EXCEPT !.external = AsMap(ExternalItems)])
    \/ ~Fits(ExternalItems) /\ NotUnderstood("external_ledger")

Show(tag, events) == Read(tag, [seen EXCEPT !.events = @ \cup events])

GetInternalMintEvents == Show("internal_mint", EventsTagged("internal_mint"))

(* RawTo is decoded from "source" and RawFrom from "destination". *)
DecodedTransfer(e) == [e EXCEPT !.from = e.to, !.to = e.from]

GetInternalTransferEvents ==
    Show("internal_transfer",
         {DecodedTransfer(e) : e \in EventsTagged("internal_transfer")})

(* One event that is not understood, and none is shown. *)
GetCustodianRetireEvents ==
    LET events == EventsTagged("retire")
    IN  \/ (\A e \in events : e.legible) /\ Show("retire", events)
        \/ (\E e \in events : ~e.legible) /\ NotUnderstood("retire")

(* The response is written, or the snapshot as a text or as JSON.          *)
CreditSourcesEnds == Finish /\ seen.command = "sources"
InfoEnds == Finish /\ seen.command = "info"

ViewInit == IndexerInit(EmptyBlock)

ViewNext ==
    \/ CustodianCall
    \/ BeginSources \/ BeginInfo
    \/ GetContractStorage \/ GetLedger \/ GetExternalLedger
    \/ GetCustodianMetadata
    \/ GetInternalMintEvents \/ GetInternalTransferEvents
    \/ GetCustodianRetireEvents
    \/ RequestFails \/ CreditSourcesEnds \/ InfoEnds

ViewSpec == ViewInit /\ [][ViewNext]_vars

-----------------------------------------------------------------------------
ViewTypeOK ==
    /\ blocks \in Seq(Block) /\ Level \in 1..MaxBlocks
    /\ start \in 1..Level
    /\ outcome \in Outcomes
    /\ outcome = "running" => todo # <<>>
    /\ outcome # "idle" =>
          /\ seen.command \in {"sources", "info"}
          /\ DOMAIN seen.ledger \subseteq Parties \X Tokens
          /\ DOMAIN seen.external \subseteq Tokens
          /\ \A k \in DOMAIN seen.ledger : seen.ledger[k] \in 1..MaxInt64
          /\ \A t \in DOMAIN seen.external : seen.external[t] \in 1..MaxInt64
          /\ seen.events \subseteq Event

(* What a command has shown may be from any block that was the latest      *)
(* while it ran.                                                           *)
Shown(command) == outcome = "shown" /\ seen.command = command
During == start..Level

IsLedgerOf(n) ==
    \A p \in Parties, t \in Tokens :
        /\ AmountOf(seen.ledger, <<p, t>>) = blocks[n].ledger[p, t]
        /\ <<p, t>> \in DOMAIN seen.ledger <=> blocks[n].ledger[p, t] # 0

Ids(events) == {e.id : e \in events}

(* The credits that GET /credit/sources shows are those of the contract    *)
(* after one block: no credits twice that moved between its two requests,  *)
(* and none that were gone when it began.                                  *)
SourcesOfOneBlock == Shown("sources") => \E n \in During : IsLedgerOf(n)

(* Every credit in the ledger that info shows can be followed through the  *)
(* events it shows: they hold all there were when the ledger was such.     *)
EventsReachLedger ==
    Shown("info") => \E n \in During : /\ IsLedgerOf(n)
                                       /\ Ids(blocks[n].events) \subseteq Ids(seen.events)

(* Of the tokens that are held, info shows an external ledger that is at   *)
(* least as new as the ledger, with every credit the contract had of them. *)
ExternalNotOlder ==
    Shown("info") =>
        \E n, m \in During :
            /\ n <= m /\ IsLedgerOf(n)
            /\ \A t \in Tokens :
                  blocks[m].external[t] # 0
                     => AmountOf(seen.external, t) = blocks[m].external[t]

=============================================================================
