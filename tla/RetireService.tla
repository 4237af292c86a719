--------------------------- MODULE RetireService ---------------------------
(***************************************************************************)
(* src/backend/cmd/server/retire.go and CallContract of                    *)
(* src/backend/pkg/tzclient/tzclient.go: POSTs that retire a party's       *)
(* credits, each handled by a goroutine of its own, all signed by the      *)
(* operator's wallet and sent to one Tezos node.                           *)
(*                                                                         *)
(* rpc.Client.Send of tzgo asks the node for the counter of the account,   *)
(* unless the operation has one already, simulates the operation, injects  *)
(* it, waits until a block holds it and fetches its receipt.               *)
(***************************************************************************)
EXTENDS Integers, FiniteSets

CONSTANTS
    Requests,       \* the POSTs
    AmountsAsked,   \* what the bodies ask to retire
    MaxCredits,     \* bound: the party's credits
    MaxCounter,     \* bound: calls signed by the operator's wallet elsewhere
    MaxRetries      \* maxRetries

ASSUME RetireAssumption ==
    /\ AmountsAsked \subseteq Int
    /\ MaxCredits \in Nat
    /\ MaxCounter \in Nat
    /\ MaxRetries \in Nat

VARIABLES
    phase,          \* per request: where its handler is
    amount,         \* per request: request.Amount
    tries,          \* per request: tries of CallContract
    opCounter,      \* per request: the counter in op, 0 before the first Send
    answer,         \* per request: what the handler has answered
    gone,           \* requests whose client has closed the connection
    counter,        \* node: the last counter used by the operator's account
    credits,        \* node: the party's credits in the custodian's ledger
    mempool,        \* node: operations that wait for a block
    chain,          \* node: operations in blocks, applied or failed
    lost,           \* history: requests that lost track of their operation
    executions      \* history: how often each request was executed

handlerVars == <<phase, amount, tries, opCounter, answer>>
nodeVars == <<counter, credits, mempool, chain, executions>>
vars == <<handlerVars, gone, nodeVars, lost>>

Phases == {"idle", "complete", "simulate", "inject", "wait", "receipt", "done"}
Answers == {"none", "ok", "bad request", "error"}
Operation == [req : Requests, counter : Nat]
Block == [op : Operation, applied : BOOLEAN]

RetireTypeOK ==
    /\ phase \in [Requests -> Phases]
    /\ amount \in [Requests -> AmountsAsked \cup {0}]
    /\ tries \in [Requests -> 0..MaxRetries]
    /\ opCounter \in [Requests -> Nat]
    /\ answer \in [Requests -> Answers]
    /\ gone \subseteq Requests
    /\ counter \in Nat
    /\ credits \in 0..MaxCredits
    /\ mempool \subseteq Operation
    /\ chain \subseteq Block
    /\ lost \subseteq Requests
    /\ executions \in [Requests -> Nat]

RetireInit ==
    /\ phase = [r \in Requests |-> "idle"]
    /\ amount = [r \in Requests |-> 0]
    /\ tries = [r \in Requests |-> 0]
    /\ opCounter = [r \in Requests |-> 0]
    /\ answer = [r \in Requests |-> "none"]
    /\ gone = {}
    /\ counter = 0
    /\ credits \in 0..MaxCredits
    /\ mempool = {}
    /\ chain = {}
    /\ lost = {}
    /\ executions = [r \in Requests |-> 0]

(* op of CallContract, once it has a counter. *)
Op(r) == [req |-> r, counter |-> opCounter[r]]

InBlock(op) == \E b \in chain : b.op = op

(* What the node injects: the next operation of an account that has none   *)
(* pending, or one it knows already.                                       *)
Injectable(op) == op.counter = counter + 1 /\ mempool \subseteq {op}

-----------------------------------------------------------------------------
(* The handler answers. *)
Reply(r, a) ==
    /\ phase' = [phase EXCEPT ![r] = "done"]
    /\ answer' = [answer EXCEPT ![r] = a]

Proceed(r, next) ==
    /\ phase' = [phase EXCEPT ![r] = next]
    /\ UNCHANGED answer

(* A body that is not understood, or asks for no credits, is refused.      *)
Post(r) ==
    /\ phase[r] = "idle"
    /\ \E n \in AmountsAsked, wellFormed \in BOOLEAN :
          /\ amount' = [amount EXCEPT ![r] = n]
          /\ IF wellFormed /\ n > 0 THEN Proceed(r, "complete")
                                    ELSE Reply(r, "bad request")
    /\ UNCHANGED <<tries, opCounter, gone, nodeVars, lost>>

(* Send gives op a counter; a second Send finds it there.                  *)
Complete(r) ==
    /\ phase[r] = "complete" /\ r \notin gone
    /\ opCounter' = IF opCounter[r] = 0
                    THEN [opCounter EXCEPT ![r] = counter + 1]
                    ELSE opCounter
    /\ Proceed(r, "simulate")
    /\ UNCHANGED <<amount, tries, gone, nodeVars, lost>>

Simulate(r) ==
    /\ phase[r] = "simulate" /\ r \notin gone
    /\ IF opCounter[r] = counter + 1 /\ amount[r] <= credits
       THEN Proceed(r, "inject")
       ELSE Reply(r, "error")
    /\ UNCHANGED <<amount, tries, opCounter, gone, nodeVars, lost>>

(* An operation that is pending already may be taken for a duplicate.      *)
Inject(r) ==
    /\ phase[r] = "inject" /\ r \notin gone
    /\ \/ /\ Injectable(Op(r))
          /\ mempool' = mempool \cup {Op(r)}
          /\ Proceed(r, "wait")
       \/ /\ Op(r) \in mempool \/ ~Injectable(Op(r))
          /\ Reply(r, "error")
          /\ UNCHANGED mempool
    /\ UNCHANGED <<amount, tries, opCounter, gone, counter, credits, chain,
                   executions, lost>>

Await(r) ==
    /\ phase[r] = "wait" /\ r \notin gone
    /\ InBlock(Op(r))
    /\ Proceed(r, "receipt")
    /\ UNCHANGED <<amount, tries, opCounter, gone, nodeVars, lost>>

(* Too many blocks have come without the operation. *)
Expire(r) ==
    /\ phase[r] = "wait" /\ r \notin gone
    /\ Op(r) \notin mempool /\ ~InBlock(Op(r))
    /\ Reply(r, "error")
    /\ UNCHANGED <<amount, tries, opCounter, gone, nodeVars, lost>>

(* Mutant: the check of the receipt is the wrong way round. *)
ReceiptInverted(r) ==
    /\ phase[r] = "receipt" /\ r \notin gone
    /\ \/ Reply(r, "error") /\ UNCHANGED lost
       \/ Reply(r, "ok") /\ lost' = lost \cup {r}
    /\ UNCHANGED <<amount, tries, opCounter, gone, nodeVars>>

(* The receipt is not looked into: its operation may have failed.  If it   *)
(* is malformed the handler does not know what has become of op.           *)
Receipt(r) ==
    /\ phase[r] = "receipt" /\ r \notin gone
    /\ \/ Reply(r, "ok") /\ UNCHANGED lost
       \/ Reply(r, "error") /\ lost' = lost \cup {r}
    /\ UNCHANGED <<amount, tries, opCounter, gone, nodeVars>>

(* Mutant: the operation is built inside the loop. *)
RetryAfresh(r) ==
    \/ /\ tries[r] < MaxRetries
       /\ tries' = [tries EXCEPT ![r] = @ + 1]
       /\ opCounter' = [opCounter EXCEPT ![r] = 0]
       /\ Proceed(r, "complete")
    \/ /\ tries[r] >= MaxRetries
       /\ Reply(r, "error")
       /\ UNCHANGED <<tries, opCounter>>

(* Mutant: the bound is off by one. *)
RetryOnceMore(r) ==
    /\ UNCHANGED opCounter
    /\ \/ /\ tries[r] <= MaxRetries
          /\ tries' = [tries EXCEPT ![r] = @ + 1]
          /\ Proceed(r, "complete")
       \/ /\ tries[r] > MaxRetries
          /\ Reply(r, "error")
          /\ UNCHANGED tries

(* Mutant: transport errors are retried for ever. *)
RetryForever(r) == Proceed(r, "complete") /\ UNCHANGED <<tries, opCounter>>

(* Mutant: the loop is left without an error. *)
RetryUnreported(r) ==
    /\ UNCHANGED opCounter
    /\ \/ /\ tries[r] < MaxRetries
          /\ tries' = [tries EXCEPT ![r] = @ + 1]
          /\ Proceed(r, "complete")
       \/ /\ tries[r] >= MaxRetries
          /\ Reply(r, "ok")
          /\ UNCHANGED tries

(* CallContract's loop: Send once more with the same op, or give up.       *)
Retry(r) ==
    /\ UNCHANGED opCounter
    /\ \/ /\ tries[r] < MaxRetries
          /\ tries' = [tries EXCEPT ![r] = @ + 1]
          /\ Proceed(r, "complete")
       \/ /\ tries[r] >= MaxRetries
          /\ Reply(r, "error")
          /\ UNCHANGED tries

(* An url.Error: the connection fails, before the node has the request or   *)
(* after, or the client is gone and its context with it.                   *)
TransportError(r) ==
    /\ phase[r] \in {"complete", "simulate", "inject", "receipt"}
    /\ \/ phase[r] # "receipt" /\ UNCHANGED <<mempool, lost>>
       \/ /\ phase[r] = "inject" /\ Injectable(Op(r))
          /\ mempool' = mempool \cup {Op(r)}
          /\ lost' = lost \cup {r}
       \/ /\ phase[r] = "receipt"
          /\ lost' = lost \cup {r}
          /\ UNCHANGED mempool
    /\ Retry(r)
    /\ UNCHANGED <<amount, gone, counter, credits, chain, executions>>

(* The client closes its connection, which cancels r.Context().            *)
Disconnect(r) ==
    /\ phase[r] \notin {"idle", "done"} /\ r \notin gone
    /\ gone' = gone \cup {r}
    /\ UNCHANGED <<handlerVars, nodeVars, lost>>

(* Waiting ends with the context, and not in an url.Error. *)
Cancel(r) ==
    /\ phase[r] = "wait" /\ r \in gone
    /\ Reply(r, "error")
    /\ lost' = lost \cup {r}
    /\ UNCHANGED <<amount, tries, opCounter, gone, nodeVars>>

-----------------------------------------------------------------------------
(* What is pending when the account's counter is n. *)
StillPending(n) == {op \in mempool : op.counter > n}

(* A block holds op: the contract applies it if the party has the credits  *)
(* now.  A failed operation uses its counter too.                          *)
Include(op) ==
    LET applied == amount[op.req] <= credits
    IN  /\ op \in mempool /\ op.counter = counter + 1
        /\ counter' = op.counter
        /\ mempool' = StillPending(op.counter)
        /\ chain' = chain \cup {[op |-> op, applied |-> applied]}
        /\ credits' = IF applied THEN credits - amount[op.req] ELSE credits
        /\ executions' = IF applied
                         THEN [executions EXCEPT ![op.req] = @ + 1]
                         ELSE executions
        /\ UNCHANGED <<handlerVars, gone, lost>>

(* No block takes op before its branch is too old. *)
Drop(op) ==
    /\ op \in mempool
    /\ mempool' = mempool \ {op}
    /\ UNCHANGED <<handlerVars, gone, counter, credits, chain, executions, lost>>

(* The party's credits change by other calls, of the operator's wallet or  *)
(* of others.                                                              *)
OtherCall ==
    /\ credits' \in 0..MaxCredits
    /\ \/ counter' = counter
       \/ counter < MaxCounter /\ counter' = counter + 1
    /\ mempool' = StillPending(counter')
    /\ UNCHANGED <<handlerVars, gone, chain, executions, lost>>

HandlerStep(r) ==
    \/ Complete(r) \/ Simulate(r) \/ Inject(r) \/ Await(r) \/ Expire(r)
    \/ Receipt(r) \/ TransportError(r) \/ Cancel(r)

NodeStep == \E op \in mempool : Include(op) \/ Drop(op)

RetireNext ==
    \/ \E r \in Requests : Post(r) \/ HandlerStep(r) \/ Disconnect(r)
    \/ NodeStep
    \/ OtherCall

(* Goroutines run, remote calls return or fail, and what is pending is     *)
(* taken into a block or expires; nobody has to post or to stay.           *)
RetireFairness ==
    /\ \A r \in Requests : WF_vars(HandlerStep(r))
    /\ WF_vars(NodeStep)

RetireSpec == RetireInit /\ [][RetireNext]_vars /\ RetireFairness

-----------------------------------------------------------------------------
(* However often CallContract sends, and whatever answers are lost between *)
(* it and the node, a POST retires its credits once at most.               *)
AtMostOnce == \A r \in Requests : executions[r] <= 1

(* The hash in a successful answer is that of an operation in a block.     *)
SuccessIsInBlock ==
    \A r \in Requests : answer[r] = "ok" => InBlock(Op(r))

(***************************************************************************)
(* An error answer leaves nothing behind that could still retire credits:  *)
(* unless an answer of the node was lost or the client went away while the *)
(* operation was out, none is in a block or pending.                       *)
(***************************************************************************)
ErrorLeavesNothing ==
    \A r \in Requests \ lost :
        answer[r] \in {"error", "bad request"}
           => Op(r) \notin mempool /\ ~InBlock(Op(r)) /\ executions[r] = 0

(* Every POST is answered, also when the node cannot be reached, when its  *)
(* operation never gets into a block and when two requests exclude each    *)
(* other: retire returns.                                                  *)
EveryPostAnswered ==
    \A r \in Requests : phase[r] # "idle" ~> phase[r] = "done"

(* "Successfully retired credits" (retire.go:99): the credits are retired. *)
SuccessIsRetired ==
    \A r \in Requests : answer[r] = "ok" => executions[r] = 1
=============================================================================
