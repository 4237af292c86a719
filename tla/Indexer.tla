------------------------------ MODULE Indexer ------------------------------
(***************************************************************************)
(* Commands that read a contract through an indexer: pkg/tzkt, and the     *)
(* calls of pkg/tzclient and cmd/ that lead to it.                         *)
(*                                                                         *)
(* A command makes one request after the other.  Each is answered from the *)
(* latest block the indexer has, and blocks arrive between them.  What the *)
(* contract and the command are is up to the modules that extend this one. *)
(***************************************************************************)
EXTENDS FiniteSets, BigMaps

CONSTANTS
    MaxBlocks,      \* bound: blocks the indexer sees
    MaxInt64        \* the largest amount a decoder takes

ASSUME IndexerAssumption == MaxBlocks \in Nat \ {0} /\ MaxInt64 \in Nat

VARIABLES
    blocks,         \* the contract after each block the indexer has
    todo,           \* the requests the command has still to make
    start,          \* the indexer's level when the command began
    seen,           \* what the command has read
    outcome         \* how the command has ended

vars == <<blocks, todo, start, seen, outcome>>

Outcomes == {"idle", "running", "shown", "unanswered", "not understood"}

Level == Len(blocks)
Now == blocks[Level]

-----------------------------------------------------------------------------
(* Mutant: an amount of any size is taken. *)
FitsAnyway(items) == TRUE

(* Int64() of json.Number. *)
Fits(items) == \A i \in items : i.value <= MaxInt64

-----------------------------------------------------------------------------
IndexerInit(block) ==
    /\ blocks = <<block>>
    /\ todo = <<>>
    /\ start = 1
    /\ seen = <<>>
    /\ outcome = "idle"

NewBlock(block) ==
    /\ Level < MaxBlocks
    /\ blocks' = Append(blocks, block)
    /\ UNCHANGED <<todo, start, seen, outcome>>

Begin(requests, nothing) ==
    /\ outcome = "idle"
    /\ todo' = requests
    /\ start' = Level
    /\ seen' = nothing
    /\ outcome' = "running"
    /\ UNCHANGED blocks

Asked(request) == outcome = "running" /\ Head(todo) = request

(* The request is answered and understood: the next one, or the result.    *)
Read(request, result) ==
    /\ Asked(request)
    /\ todo' = Tail(todo)
    /\ seen' = result
    /\ outcome' = IF Len(todo) = 1 THEN "shown" ELSE "running"
    /\ UNCHANGED <<blocks, start>>

(* A request that fails ends the command, and so does an answer that its   *)
(* decoder does not understand.                                            *)
GiveUp(why) ==
    /\ outcome = "running"
    /\ outcome' = why
    /\ todo' = <<>>
    /\ UNCHANGED <<blocks, start, seen>>

RequestFails == GiveUp("unanswered")

NotUnderstood(request) == Asked(request) /\ GiveUp("not understood")

(* The next command. *)
Finish ==
    /\ outcome \notin {"idle", "running"}
    /\ outcome' = "idle"
    /\ start' = 1
    /\ seen' = <<>>
    /\ UNCHANGED <<blocks, todo>>
=============================================================================
