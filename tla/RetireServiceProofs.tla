------------------------ MODULE RetireServiceProofs ------------------------
(***************************************************************************)
(* A POST retires its credits at most once, and an error answer leaves     *)
(* nothing behind, for any number of requests, retries and other calls.    *)
(***************************************************************************)
EXTENDS RetireService, TLAPS

(* An operation of the server is the one its request has built, and is the  *)
(* next of the account as long as it is pending.                           *)
PendingIsNext ==
    \A op \in mempool : op = Op(op.req) /\ op.counter = counter + 1

(* The counters of blocks are used up; a block's operation is the only one *)
(* its request has built.                                                  *)
BlocksAreBehind ==
    \A b \in chain : b.op = Op(b.op.req) /\ b.op.counter <= counter

(* What was executed is in a block, and was executed once. *)
ExecutedInBlock ==
    \A r \in Requests : /\ executions[r] \in {0, 1}
                        /\ executions[r] = 1 => InBlock(Op(r))

(* A request that has no counter yet has sent nothing. *)
SentHasCounter ==
    /\ \A op \in mempool : opCounter[op.req] # 0
    /\ \A b \in chain : opCounter[b.op.req] # 0

(* A handler that is not waiting, or is done without success, has nothing  *)
(* out, unless it has lost track of it.                                    *)
Settled(r) == phase[r] \in {"wait", "receipt"} \/ answer[r] = "ok" \/ r \in lost

NothingOut ==
    \A r \in Requests : ~Settled(r) => Op(r) \notin mempool /\ ~InBlock(Op(r))

(* A handler that has seen the block, or reports success, has one. *)
SeenIsInBlock ==
    \A r \in Requests :
        /\ phase[r] = "receipt" \/ answer[r] = "ok" => InBlock(Op(r))
        /\ phase[r] # "done" => answer[r] = "none"

(* What asks for no credits, or has not been read, has built no operation. *)
OnlyPositive ==
    \A r \in Requests :
        amount[r] <= 0 \/ phase[r] = "idle" => opCounter[r] = 0 /\ phase[r] \in {"idle", "done"}

RetireInv ==
    /\ RetireTypeOK
    /\ OnlyPositive
    /\ PendingIsNext
    /\ BlocksAreBehind
    /\ ExecutedInBlock
    /\ SentHasCounter
    /\ NothingOut
    /\ SeenIsInBlock

-----------------------------------------------------------------------------
LEMMA RetireInitInv == RetireInit => RetireInv
<1>. SUFFICES ASSUME RetireInit PROVE RetireInv
  OBVIOUS
<1>1. RetireTypeOK
  BY RetireAssumption DEF RetireInit, RetireTypeOK, Phases, Answers
<1>2. /\ PendingIsNext /\ BlocksAreBehind /\ ExecutedInBlock /\ SentHasCounter
      /\ NothingOut /\ SeenIsInBlock /\ OnlyPositive
  BY DEF RetireInit, OnlyPositive, PendingIsNext, BlocksAreBehind, ExecutedInBlock,
         SentHasCounter, NothingOut, SeenIsInBlock, InBlock
<1>. QED BY <1>1, <1>2 DEF RetireInv

(* What a step that leaves the node and the operations alone preserves. *)
NodeInv == PendingIsNext /\ BlocksAreBehind /\ ExecutedInBlock /\ SentHasCounter

LEMMA NodeAlone ==
    ASSUME RetireInv, UNCHANGED <<opCounter, nodeVars>>
    PROVE  /\ NodeInv'
           /\ \A r \in Requests : /\ Op(r)' = Op(r)
                                  /\ InBlock(Op(r))' <=> InBlock(Op(r))
<1>1. /\ UNCHANGED <<counter, mempool, chain, executions>>
      /\ \A r : Op(r)' = Op(r)
  BY DEF nodeVars, Op
<1>2. \A r : InBlock(Op(r))' <=> InBlock(Op(r))
  BY <1>1 DEF InBlock, Op
<1>3. PendingIsNext' /\ BlocksAreBehind' /\ SentHasCounter'
  BY <1>1 DEF RetireInv, PendingIsNext, BlocksAreBehind, SentHasCounter, Op
<1>4. ExecutedInBlock'
  BY <1>1, <1>2 DEF RetireInv, ExecutedInBlock
<1>. QED BY <1>1, <1>2, <1>3, <1>4 DEF NodeInv

(* A handler that moves on, or answers, with the node left alone: the other *)
(* handlers are where they were.                                           *)
LEMMA HandlerMoves ==
    ASSUME RetireInv, NEW r \in Requests, phase[r] # "done",
           NEW next \in Phases, NEW a \in Answers,
           phase' = [phase EXCEPT ![r] = next],
           answer' = [answer EXCEPT ![r] = a],
           next # "done" => a = "none",
           lost \subseteq lost',
           UNCHANGED <<opCounter, nodeVars>>,
           (next = "receipt" \/ a = "ok") => InBlock(Op(r)),
           \/ next \in {"wait", "receipt"} \/ a = "ok" \/ r \in lost'
           \/ ~Settled(r)
           \/ Op(r) \notin mempool /\ ~InBlock(Op(r))
    PROVE  NodeInv' /\ NothingOut' /\ SeenIsInBlock'
<1>1. /\ NodeInv'
      /\ \A s \in Requests : /\ Op(s)' = Op(s)
                             /\ InBlock(Op(s))' <=> InBlock(Op(s))
  BY NodeAlone
<1>2. mempool' = mempool
  BY DEF nodeVars
<1>3. phase \in [Requests -> Phases] /\ answer \in [Requests -> Answers]
  BY DEF RetireInv, RetireTypeOK
<1>4. SeenIsInBlock'
  <2>. SUFFICES ASSUME NEW s \in Requests
                PROVE  /\ phase'[s] = "receipt" \/ answer'[s] = "ok" => InBlock(Op(s))'
                       /\ phase'[s] # "done" => answer'[s] = "none"
    BY DEF SeenIsInBlock
  <2>1. CASE s = r
    BY <1>1, <1>3, <2>1
  <2>2. CASE s # r
    <3>1. phase'[s] = phase[s] /\ answer'[s] = answer[s]
      BY <1>3, <2>2
    <3>. QED BY <1>1, <3>1 DEF RetireInv, SeenIsInBlock
  <2>. QED BY <2>1, <2>2
<1>5. NothingOut'
  <2>. SUFFICES ASSUME NEW s \in Requests, ~Settled(s)'
                PROVE  Op(s)' \notin mempool' /\ ~InBlock(Op(s))'
    BY DEF NothingOut
  <2>1. CASE s = r
    <3>1. phase'[r] = next /\ answer'[r] = a
      BY <1>3
    <3>2. next \notin {"wait", "receipt"} /\ a # "ok" /\ r \notin lost'
      BY <2>1, <3>1 DEF Settled
    <3>3. Op(r) \notin mempool /\ ~InBlock(Op(r))
      BY <3>2 DEF RetireInv, NothingOut
    <3>. QED BY <1>1, <1>2, <2>1, <3>3
  <2>2. CASE s # r
    <3>1. phase'[s] = phase[s] /\ answer'[s] = answer[s]
      BY <1>3, <2>2
    <3>2. ~Settled(s)
      BY <3>1 DEF Settled
    <3>3. Op(s) \notin mempool /\ ~InBlock(Op(s))
      BY <3>2 DEF RetireInv, NothingOut
    <3>. QED BY <1>1, <1>2, <3>3
  <2>. QED BY <2>1, <2>2
<1>. QED BY <1>1, <1>4, <1>5

-----------------------------------------------------------------------------
(* The steps that leave the node and op alone, one by one. *)

LEMMA PostInv ==
    ASSUME RetireInv, NEW r \in Requests, Post(r)
    PROVE  RetireInv'
<1>1. PICK n \in AmountsAsked, next \in Phases, a \in Answers :
         /\ phase' = [phase EXCEPT ![r] = next]
         /\ answer' = [answer EXCEPT ![r] = a]
         /\ amount' = [amount EXCEPT ![r] = n]
         /\ \/ /\ next = "complete" /\ a = "none"
               /\ n > 0
            \/ next = "done" /\ a = "bad request"
  <2>1. answer = [answer EXCEPT ![r] = "none"]
    BY DEF Post, RetireInv, RetireTypeOK, SeenIsInBlock
  <2>. QED BY <2>1 DEF Post, Proceed, Reply, Phases, Answers
<1>2. phase[r] = "idle" /\ UNCHANGED <<tries, opCounter, gone, nodeVars, lost>>
  BY DEF Post
<1>3. Settled(r) => r \in lost
  BY <1>2 DEF Settled, RetireInv, SeenIsInBlock
<1>4. NodeInv' /\ NothingOut' /\ SeenIsInBlock'
  BY <1>1, <1>2, <1>3, HandlerMoves
<1>5. RetireTypeOK'
  BY <1>1, <1>2 DEF RetireInv, RetireTypeOK, nodeVars
<1>6. opCounter[r] = 0
  BY <1>2 DEF RetireInv, OnlyPositive
<1>7. OnlyPositive'
  <2>. SUFFICES ASSUME NEW s \in Requests, amount'[s] <= 0 \/ phase'[s] = "idle"
                PROVE  opCounter'[s] = 0 /\ phase'[s] \in {"idle", "done"}
    BY DEF OnlyPositive
  <2>1. CASE s = r
    <3>1. phase'[r] = next /\ amount'[r] = n
      BY <1>1 DEF RetireInv, RetireTypeOK
    <3>2. n \in Int
      BY RetireAssumption
    <3>3. next = "done" \/ (next = "complete" /\ n > 0)
      BY <1>1
    <3>4. next = "done"
      BY <2>1, <3>1, <3>2, <3>3
    <3>5. opCounter' = opCounter
      BY <1>2
    <3>. QED BY <1>6, <2>1, <3>1, <3>4, <3>5
  <2>2. CASE s # r
    <3>1. phase'[s] = phase[s] /\ amount'[s] = amount[s]
      BY <1>1, <2>2 DEF RetireInv, RetireTypeOK
    <3>. QED BY <1>2, <3>1 DEF RetireInv, OnlyPositive
  <2>. QED BY <2>1, <2>2
<1>. QED BY <1>4, <1>5, <1>7 DEF RetireInv, NodeInv

(* What the other moves of a handler have in common: amounts, clients and  *)
(* everything but the handler's own place stay.                            *)
LEMMA MoveInv ==
    ASSUME RetireInv, NEW r \in Requests, phase[r] \notin {"idle", "done"},
           NEW next \in Phases \ {"idle"}, NEW a \in Answers,
           phase' = [phase EXCEPT ![r] = next],
           answer' = [answer EXCEPT ![r] = a],
           next # "done" => a = "none",
           tries' \in [Requests -> 0..MaxRetries],
           lost \subseteq lost', lost' \subseteq Requests,
           UNCHANGED <<amount, opCounter, gone, nodeVars>>,
           (next = "receipt" \/ a = "ok") => InBlock(Op(r)),
           \/ next \in {"wait", "receipt"} \/ a = "ok" \/ r \in lost'
           \/ ~Settled(r)
           \/ Op(r) \notin mempool /\ ~InBlock(Op(r))
    PROVE  RetireInv'
<1>1. NodeInv' /\ NothingOut' /\ SeenIsInBlock'
  BY HandlerMoves
<1>2. RetireTypeOK'
  BY DEF RetireInv, RetireTypeOK, nodeVars
<1>3. OnlyPositive'
  BY DEF RetireInv, RetireTypeOK, OnlyPositive
<1>. QED BY <1>1, <1>2, <1>3 DEF RetireInv, NodeInv

(* A handler on its way has no answer yet, and its answer entry can be     *)
(* written as one of its own.                                              *)
LEMMA OnTheWay ==
    ASSUME RetireInv, NEW r \in Requests, phase[r] # "done"
    PROVE  /\ answer = [answer EXCEPT ![r] = "none"]
           /\ phase[r] \notin {"wait", "receipt"} /\ Settled(r) => r \in lost
<1>1. answer[r] = "none"
  BY DEF RetireInv, SeenIsInBlock
<1>2. answer = [answer EXCEPT ![r] = "none"]
  BY <1>1 DEF RetireInv, RetireTypeOK
<1>3. phase[r] \notin {"wait", "receipt"} /\ Settled(r) => r \in lost
  BY <1>1 DEF Settled
<1>. QED BY <1>2, <1>3

LEMMA SimulateInv ==
    ASSUME RetireInv, NEW r \in Requests, Simulate(r)
    PROVE  RetireInv'
<1>1. PICK next \in {"inject", "done"}, a \in {"none", "error"} :
         /\ phase' = [phase EXCEPT ![r] = next]
         /\ answer' = [answer EXCEPT ![r] = a]
         /\ next # "done" => a = "none"
  BY OnTheWay DEF Simulate, Proceed, Reply
<1>2. /\ phase[r] = "simulate"
      /\ UNCHANGED <<amount, tries, opCounter, gone, nodeVars, lost>>
  BY DEF Simulate
<1>3. ~Settled(r) \/ r \in lost'
  BY <1>2, OnTheWay
<1>4. /\ next \in Phases \ {"idle"} /\ a \in Answers
      /\ tries' \in [Requests -> 0..MaxRetries] /\ lost' \subseteq Requests
  BY <1>2 DEF Phases, Answers, RetireInv, RetireTypeOK
<1>. QED BY <1>1, <1>2, <1>3, <1>4, MoveInv

LEMMA AwaitInv ==
    ASSUME RetireInv, NEW r \in Requests, Await(r)
    PROVE  RetireInv'
<1>1. /\ phase[r] = "wait" /\ InBlock(Op(r))
      /\ phase' = [phase EXCEPT ![r] = "receipt"]
      /\ answer' = [answer EXCEPT ![r] = "none"]
      /\ UNCHANGED <<amount, tries, opCounter, gone, nodeVars, lost>>
  BY OnTheWay DEF Await, Proceed
<1>2. /\ "receipt" \in Phases \ {"idle"} /\ "none" \in Answers
      /\ tries' \in [Requests -> 0..MaxRetries] /\ lost' \subseteq Requests
  BY <1>1 DEF Phases, Answers, RetireInv, RetireTypeOK
<1>. QED BY <1>1, <1>2, MoveInv

(* The answers of handlers that wait, in the way Expire, Receipt and Cancel *)
(* have them.                                                              *)
LEMMA AnswerInv ==
    ASSUME RetireInv, NEW r \in Requests, phase[r] \notin {"idle", "done"},
           NEW a \in {"ok", "error"}, Reply(r, a),
           lost' \in {lost, lost \cup {r}},
           UNCHANGED <<amount, tries, opCounter, gone, nodeVars>>,
           a = "ok" => InBlock(Op(r)),
           \/ a = "ok" \/ r \in lost' \/ ~Settled(r)
           \/ Op(r) \notin mempool /\ ~InBlock(Op(r))
    PROVE  RetireInv'
<1>1. /\ phase' = [phase EXCEPT ![r] = "done"]
      /\ answer' = [answer EXCEPT ![r] = a]
  BY DEF Reply
<1>2. /\ "done" \in Phases \ {"idle"} /\ a \in Answers
      /\ tries' \in [Requests -> 0..MaxRetries]
      /\ lost \subseteq lost' /\ lost' \subseteq Requests
  BY DEF Phases, Answers, RetireInv, RetireTypeOK
<1>. QED BY <1>1, <1>2, MoveInv

LEMMA WaitingInv ==
    ASSUME RetireInv, NEW r \in Requests, Expire(r) \/ Receipt(r) \/ Cancel(r)
    PROVE  RetireInv'
<1>1. CASE Expire(r)
  BY <1>1, AnswerInv DEF Expire
<1>2. CASE Receipt(r)
  <2>1. InBlock(Op(r))
    BY <1>2 DEF Receipt, RetireInv, SeenIsInBlock
  <2>2. PICK a \in {"ok", "error"} :
           /\ Reply(r, a)
           /\ lost' \in {lost, lost \cup {r}}
           /\ a = "ok" \/ r \in lost'
    BY <1>2 DEF Receipt
  <2>3. /\ phase[r] \notin {"idle", "done"}
        /\ UNCHANGED <<amount, tries, opCounter, gone, nodeVars>>
    BY <1>2 DEF Receipt
  <2>. QED BY <2>1, <2>2, <2>3, AnswerInv
<1>3. CASE Cancel(r)
  BY <1>3, AnswerInv DEF Cancel
<1>. QED BY <1>1, <1>2, <1>3

-----------------------------------------------------------------------------
(* Steps that give op its counter or put it into the mempool. *)

LEMMA CompleteInv ==
    ASSUME RetireInv, NEW r \in Requests, Complete(r)
    PROVE  RetireInv'
<1>1. /\ phase[r] = "complete"
      /\ phase' = [phase EXCEPT ![r] = "simulate"]
      /\ answer' = [answer EXCEPT ![r] = "none"]
      /\ answer' = answer
      /\ UNCHANGED <<amount, tries, gone, nodeVars, lost>>
  BY OnTheWay DEF Complete, Proceed
<1>2. CASE opCounter[r] # 0
  <2>1. UNCHANGED opCounter
    BY <1>2 DEF Complete
  <2>2. /\ "simulate" \in Phases \ {"idle"} /\ "none" \in Answers
        /\ tries' \in [Requests -> 0..MaxRetries] /\ lost' \subseteq Requests
    BY <1>1 DEF Phases, Answers, RetireInv, RetireTypeOK
  <2>3. ~Settled(r) \/ r \in lost'
    BY <1>1, OnTheWay
  <2>. QED BY <1>1, <2>1, <2>2, <2>3, MoveInv
<1>3. CASE opCounter[r] = 0
  <2>1. /\ opCounter' = [opCounter EXCEPT ![r] = counter + 1]
        /\ UNCHANGED <<counter, credits, mempool, chain, executions>>
    BY <1>1, <1>3 DEF Complete, nodeVars
  <2>2. /\ \A op \in mempool : op.req \in Requests /\ op.req # r
        /\ \A b \in chain : b.op.req \in Requests /\ b.op.req # r
    BY <1>3 DEF RetireInv, RetireTypeOK, SentHasCounter, Operation, Block
  <2>3. \A s \in Requests : s # r => Op(s)' = Op(s) /\ opCounter'[s] = opCounter[s]
    BY <2>1 DEF Op, RetireInv, RetireTypeOK
  <2>4. /\ Op(r).req = r /\ Op(r)'.req = r
        /\ \A s \in Requests : InBlock(Op(s))' <=> \E b \in chain : b.op = Op(s)'
    BY <2>1 DEF Op, InBlock
  <2>5. Op(r)' \notin mempool' /\ ~InBlock(Op(r))' /\ ~InBlock(Op(r))
    BY <2>1, <2>2, <2>4 DEF InBlock
  <2>6. \A s \in Requests : s # r => (InBlock(Op(s))' <=> InBlock(Op(s)))
    BY <2>3, <2>4 DEF InBlock
  <2>7. RetireTypeOK'
    BY <1>1, <2>1 DEF RetireInv, RetireTypeOK, Phases
  <2>8. OnlyPositive'
    BY <1>1, <2>1 DEF RetireInv, RetireTypeOK, OnlyPositive
  <2>9. PendingIsNext' /\ BlocksAreBehind'
    BY <2>1, <2>2, <2>3 DEF RetireInv, PendingIsNext, BlocksAreBehind
  <2>10. ExecutedInBlock'
    <3>1. executions[r] = 0
      BY <2>5 DEF RetireInv, ExecutedInBlock
    <3>. QED BY <2>1, <2>6, <3>1 DEF RetireInv, ExecutedInBlock
  <2>11. SentHasCounter'
    BY <2>1, <2>2, <2>3 DEF RetireInv, SentHasCounter
  <2>12. NothingOut'
    <3>. SUFFICES ASSUME NEW s \in Requests, ~Settled(s)'
                  PROVE  Op(s)' \notin mempool' /\ ~InBlock(Op(s))'
      BY DEF NothingOut
    <3>1. CASE s = r
      BY <2>5, <3>1
    <3>2. CASE s # r
      <4>1. phase'[s] = phase[s]
        BY <1>1, <3>2 DEF RetireInv, RetireTypeOK
      <4>2. ~Settled(s)
        BY <1>1, <4>1 DEF Settled
      <4>. QED BY <2>1, <2>3, <2>6, <3>2, <4>2 DEF RetireInv, NothingOut
    <3>. QED BY <3>1, <3>2
  <2>13. SeenIsInBlock'
    <3>. SUFFICES ASSUME NEW s \in Requests
                  PROVE  /\ phase'[s] = "receipt" \/ answer'[s] = "ok" => InBlock(Op(s))'
                         /\ phase'[s] # "done" => answer'[s] = "none"
      BY DEF SeenIsInBlock
    <3>1. CASE s = r
      BY <1>1, <3>1 DEF RetireInv, RetireTypeOK
    <3>2. CASE s # r
      <4>1. phase'[s] = phase[s] /\ answer'[s] = answer[s]
        BY <1>1, <3>2 DEF RetireInv, RetireTypeOK
      <4>. QED BY <2>6, <3>2, <4>1 DEF RetireInv, SeenIsInBlock
    <3>. QED BY <3>1, <3>2
  <2>. QED BY <2>7, <2>8, <2>9, <2>10, <2>11, <2>12, <2>13 DEF RetireInv
<1>. QED BY <1>2, <1>3

(* The node takes the operation; the handler waits for it or lost track.   *)
LEMMA InjectedInv ==
    ASSUME RetireInv, NEW r \in Requests, phase[r] = "inject",
           Injectable(Op(r)), mempool' = mempool \cup {Op(r)},
           NEW next \in Phases \ {"idle", "receipt"}, NEW a \in {"none", "error"},
           phase' = [phase EXCEPT ![r] = next],
           answer' = [answer EXCEPT ![r] = a],
           next # "done" => a = "none",
           next = "wait" \/ r \in lost',
           tries' \in [Requests -> 0..MaxRetries],
           lost' \in {lost, lost \cup {r}},
           UNCHANGED <<amount, opCounter, gone, counter, credits, chain, executions>>
    PROVE  RetireInv'
<1>1. \A s \in Requests : /\ Op(s)' = Op(s) /\ Op(s).req = s
                          /\ Op(s).counter = opCounter[s]
                          /\ InBlock(Op(s))' <=> InBlock(Op(s))
  BY DEF Op, InBlock
<1>2. opCounter[r] = counter + 1 /\ counter \in Nat /\ Op(r) \in Operation
  BY <1>1 DEF Injectable, RetireInv, RetireTypeOK, Op, Operation
<1>3. \A s \in Requests : s # r => phase'[s] = phase[s] /\ answer'[s] = answer[s]
  BY DEF RetireInv, RetireTypeOK
<1>4. phase'[r] = next /\ answer'[r] = a
  BY DEF RetireInv, RetireTypeOK
<1>5. RetireTypeOK'
  BY <1>2 DEF RetireInv, RetireTypeOK, Answers
<1>6. OnlyPositive'
  BY <1>3, <1>4 DEF RetireInv, OnlyPositive
<1>7. PendingIsNext'
  BY <1>1, <1>2 DEF RetireInv, PendingIsNext, Op
<1>8. BlocksAreBehind' /\ ExecutedInBlock'
  BY <1>1 DEF RetireInv, RetireTypeOK, BlocksAreBehind, ExecutedInBlock, Op
<1>9. SentHasCounter'
  BY <1>1, <1>2 DEF RetireInv, SentHasCounter
<1>10. NothingOut'
  <2>. SUFFICES ASSUME NEW s \in Requests, ~Settled(s)'
                PROVE  Op(s)' \notin mempool' /\ ~InBlock(Op(s))'
    BY DEF NothingOut
  <2>1. s # r
    BY <1>4 DEF Settled
  <2>2. ~Settled(s)
    BY <1>3, <2>1 DEF Settled
  <2>3. Op(s) # Op(r)
    BY <1>1, <2>1
  <2>. QED BY <1>1, <2>2, <2>3 DEF RetireInv, NothingOut
<1>11. SeenIsInBlock'
  BY <1>1, <1>3, <1>4 DEF RetireInv, SeenIsInBlock
<1>. QED BY <1>5, <1>6, <1>7, <1>8, <1>9, <1>10, <1>11 DEF RetireInv

LEMMA InjectInv ==
    ASSUME RetireInv, NEW r \in Requests, Inject(r)
    PROVE  RetireInv'
<1>1. /\ phase[r] = "inject"
      /\ UNCHANGED <<amount, tries, opCounter, gone, counter, credits, chain,
                     executions, lost>>
  BY DEF Inject
<1>2. CASE Injectable(Op(r)) /\ mempool' = mempool \cup {Op(r)} /\ Proceed(r, "wait")
  <2>1. /\ phase' = [phase EXCEPT ![r] = "wait"]
        /\ answer' = [answer EXCEPT ![r] = "none"]
    BY <1>1, <1>2, OnTheWay DEF Proceed
  <2>2. /\ "wait" \in Phases \ {"idle", "receipt"}
        /\ tries' \in [Requests -> 0..MaxRetries]
    BY <1>1 DEF Phases, RetireInv, RetireTypeOK
  <2>. QED BY <1>1, <1>2, <2>1, <2>2, InjectedInv
<1>3. CASE Reply(r, "error") /\ UNCHANGED mempool
  <2>1. ~Settled(r) \/ r \in lost'
    BY <1>1, OnTheWay
  <2>. QED BY <1>1, <1>3, <2>1, AnswerInv DEF nodeVars
<1>. QED BY <1>2, <1>3 DEF Inject

LEMMA TransportErrorInv ==
    ASSUME RetireInv, NEW r \in Requests, TransportError(r)
    PROVE  RetireInv'
<1>1. /\ phase[r] \in {"complete", "simulate", "inject", "receipt"}
      /\ UNCHANGED <<amount, opCounter, gone, counter, credits, chain, executions>>
  BY DEF TransportError, Retry
<1>2. PICK next \in {"complete", "done"}, a \in {"none", "error"} :
         /\ phase' = [phase EXCEPT ![r] = next]
         /\ answer' = [answer EXCEPT ![r] = a]
         /\ next # "done" => a = "none"
  BY <1>1, OnTheWay DEF TransportError, Retry, Proceed, Reply
<1>3. tries' \in [Requests -> 0..MaxRetries]
  BY RetireAssumption DEF TransportError, Retry, RetireInv, RetireTypeOK
<1>4. /\ next \in Phases \ {"idle", "receipt"} /\ a \in Answers
      /\ lost \subseteq Requests
  BY DEF Phases, Answers, RetireInv, RetireTypeOK
<1>5. CASE phase[r] # "receipt" /\ UNCHANGED <<mempool, lost>>
  <2>1. ~Settled(r) \/ r \in lost'
    BY <1>1, <1>5, OnTheWay
  <2>2. UNCHANGED nodeVars
    BY <1>1, <1>5 DEF nodeVars
  <2>. QED BY <1>1, <1>2, <1>3, <1>4, <1>5, <2>1, <2>2, MoveInv
<1>6. CASE /\ phase[r] = "inject" /\ Injectable(Op(r))
           /\ mempool' = mempool \cup {Op(r)}
           /\ lost' = lost \cup {r}
  BY <1>1, <1>2, <1>3, <1>4, <1>6, InjectedInv
<1>7. CASE phase[r] = "receipt" /\ lost' = lost \cup {r} /\ UNCHANGED mempool
  <2>1. UNCHANGED nodeVars
    BY <1>1, <1>7 DEF nodeVars
  <2>. QED BY <1>1, <1>2, <1>3, <1>4, <1>7, <2>1, MoveInv
<1>. QED BY <1>5, <1>6, <1>7 DEF TransportError

-----------------------------------------------------------------------------
(* Steps of the node and of the client. *)

LEMMA AmountsAreInts ==
    ASSUME RetireInv, NEW s \in Requests
    PROVE  amount[s] \in Int
<1>1. PICK n \in AmountsAsked \cup {0} : amount[s] = n
  BY DEF RetireInv, RetireTypeOK
<1>2. n \in Int
  <2>1. CASE n = 0
    BY <2>1
  <2>2. CASE n \in AmountsAsked
    BY <2>2, RetireAssumption
  <2>. QED BY <2>1, <2>2
<1>. QED BY <1>1, <1>2

LEMMA IncludeInv ==
    ASSUME RetireInv, NEW op \in mempool, Include(op)
    PROVE  RetireInv'
<1>. DEFINE r == op.req
            applied == amount[r] <= credits
<1>1. /\ op.counter = counter + 1
      /\ counter' = op.counter
      /\ mempool' = {o \in mempool : o.counter > op.counter}
      /\ chain' = chain \cup {[op |-> op, applied |-> applied]}
      /\ credits' = IF applied THEN credits - amount[r] ELSE credits
      /\ executions' = IF applied THEN [executions EXCEPT ![r] = @ + 1]
                                  ELSE executions
      /\ UNCHANGED <<phase, amount, tries, opCounter, answer, gone, lost>>
  BY DEF Include, StillPending, handlerVars
<1>2. /\ op = Op(r) /\ r \in Requests /\ counter \in Nat /\ op \in Operation
      /\ opCounter[r] # 0 /\ op.counter = opCounter[r]
  BY DEF RetireInv, RetireTypeOK, Operation, PendingIsNext, SentHasCounter, Op
<1>3. amount[r] \in Int /\ amount[r] > 0 /\ credits \in 0..MaxCredits /\ MaxCredits \in Nat
  <2>1. amount[r] \in Int
    BY <1>2, AmountsAreInts
  <2>. QED BY <1>2, <2>1, RetireAssumption DEF RetireInv, RetireTypeOK, OnlyPositive
<1>4. mempool' = {}
  <2>1. \A o \in mempool : o.counter = counter + 1
    BY DEF RetireInv, PendingIsNext
  <2>. QED BY <1>1, <1>2, <2>1
<1>5. /\ \A s \in Requests : Op(s)' = Op(s)
      /\ \A s \in Requests : InBlock(Op(s)) => InBlock(Op(s))'
      /\ InBlock(Op(r))'
      /\ \A s \in Requests : InBlock(Op(s))' => InBlock(Op(s)) \/ Op(s) = op
  <2>1. \A s \in Requests : Op(s)' = Op(s)
    BY <1>1 DEF Op
  <2>2. \E b \in chain' : b.op = op
    <3>1. [op |-> op, applied |-> applied] \in chain'
      BY <1>1
    <3>. HIDE DEF applied
    <3>. QED BY <3>1
  <2>3. \A b \in chain' : b \in chain \/ b.op = op
    BY <1>1
  <2>4. chain \subseteq chain'
    BY <1>1
  <2>5. \A s \in Requests : InBlock(Op(s))' <=> \E b \in chain' : b.op = Op(s)
    BY <2>1 DEF InBlock
  <2>6. InBlock(Op(r))'
    BY <1>2, <2>2, <2>5
  <2>. QED BY <2>1, <2>3, <2>4, <2>5, <2>6 DEF InBlock
<1>. HIDE DEF r
<1>6. executions[r] = 0
  <2>1. ~InBlock(Op(r))
    <3>. SUFFICES ASSUME NEW b \in chain, b.op = Op(r) PROVE FALSE
      BY DEF InBlock
    <3>1. b.op.counter <= counter
      BY DEF RetireInv, BlocksAreBehind
    <3>. QED BY <1>1, <1>2, <3>1
  <2>. QED BY <1>2, <2>1 DEF RetireInv, ExecutedInBlock
<1>7. RetireTypeOK'
  <2>1. credits' \in 0..MaxCredits
    BY <1>1, <1>3
  <2>2. chain' \subseteq Block
    <3>1. applied \in BOOLEAN
      OBVIOUS
    <3>. HIDE DEF applied
    <3>2. [op |-> op, applied |-> applied] \in Block
      BY <1>2, <3>1 DEF Block
    <3>. QED BY <1>1, <3>2 DEF RetireInv, RetireTypeOK
  <2>3. executions' \in [Requests -> Nat]
    BY <1>1, <1>2 DEF RetireInv, RetireTypeOK
  <2>4. counter' \in Nat /\ mempool' \subseteq Operation
    BY <1>1, <1>2, <1>4
  <2>. HIDE DEF applied
  <2>. QED BY <1>1, <2>1, <2>2, <2>3, <2>4 DEF RetireInv, RetireTypeOK
<1>8. OnlyPositive' /\ PendingIsNext'
  BY <1>1, <1>4 DEF RetireInv, OnlyPositive, PendingIsNext
<1>9. BlocksAreBehind'
  <2>. SUFFICES ASSUME NEW b \in chain'
                PROVE  b.op = Op(b.op.req)' /\ b.op.counter <= counter'
    BY DEF BlocksAreBehind
  <2>1. CASE b \in chain
    <3>1. b.op = Op(b.op.req) /\ b.op.counter <= counter
      BY <2>1 DEF RetireInv, BlocksAreBehind
    <3>2. b.op.counter \in Nat /\ b.op.req \in Requests
      BY <2>1 DEF RetireInv, RetireTypeOK, Block, Operation
    <3>. QED BY <1>1, <1>2, <1>5, <3>1, <3>2
  <2>2. CASE b.op = op
    BY <1>1, <1>2, <1>5, <2>2 DEF r
  <2>. QED BY <1>1, <2>1, <2>2
<1>10. ExecutedInBlock'
  <2>. SUFFICES ASSUME NEW s \in Requests
                PROVE  /\ executions'[s] \in {0, 1}
                       /\ executions'[s] = 1 => InBlock(Op(s))'
    BY DEF ExecutedInBlock
  <2>1. CASE s = r
    <3>1. executions'[s] \in {0, 1}
      BY <1>1, <1>2, <1>6, <2>1 DEF RetireInv, RetireTypeOK
    <3>2. InBlock(Op(s))'
      BY <1>2, <1>5, <2>1
    <3>. QED BY <3>1, <3>2
  <2>2. CASE s # r
    <3>1. executions'[s] = executions[s]
      BY <1>1, <2>2 DEF RetireInv, RetireTypeOK
    <3>. QED BY <1>5, <3>1 DEF RetireInv, ExecutedInBlock
  <2>. QED BY <2>1, <2>2
<1>11. SentHasCounter'
  BY <1>1, <1>2, <1>4 DEF RetireInv, SentHasCounter, r
<1>12. NothingOut'
  <2>. SUFFICES ASSUME NEW s \in Requests, ~Settled(s)'
                PROVE  Op(s)' \notin mempool' /\ ~InBlock(Op(s))'
    BY DEF NothingOut
  <2>1. ~Settled(s)
    BY <1>1 DEF Settled
  <2>. QED BY <1>4, <1>5, <2>1 DEF RetireInv, NothingOut
<1>13. SeenIsInBlock'
  BY <1>1, <1>5 DEF RetireInv, SeenIsInBlock
<1>. QED BY <1>7, <1>8, <1>9, <1>10, <1>11, <1>12, <1>13 DEF RetireInv

(* Operations leave the mempool and blocks stay: the case of Drop, of calls *)
(* from elsewhere and of a client that hangs up.                           *)
LEMMA LeaveInv ==
    ASSUME RetireInv, UNCHANGED <<handlerVars, chain, executions, lost>>,
           gone' \subseteq Requests, credits' \in 0..MaxCredits,
           counter' \in {counter, counter + 1}, mempool' \subseteq mempool,
           counter' # counter => mempool' = {}
    PROVE  RetireInv'
<1>1. UNCHANGED <<phase, amount, tries, opCounter, answer, chain, executions, lost>>
  BY DEF handlerVars
<1>2. \A s : Op(s)' = Op(s) /\ (InBlock(Op(s))' <=> InBlock(Op(s)))
  BY <1>1 DEF Op, InBlock
<1>3. counter \in Nat /\ \A b \in chain : b.op.counter \in Nat
  BY DEF RetireInv, RetireTypeOK, Block, Operation
<1>4. RetireTypeOK'
  BY <1>1, <1>3 DEF RetireInv, RetireTypeOK
<1>5. OnlyPositive' /\ ExecutedInBlock' /\ SentHasCounter'
  BY <1>1, <1>2 DEF RetireInv, OnlyPositive, ExecutedInBlock, SentHasCounter
<1>6. PendingIsNext'
  BY <1>2 DEF RetireInv, PendingIsNext
<1>7. BlocksAreBehind'
  BY <1>1, <1>2, <1>3 DEF RetireInv, BlocksAreBehind
<1>8. NothingOut' /\ SeenIsInBlock'
  BY <1>1, <1>2 DEF RetireInv, NothingOut, SeenIsInBlock, Settled
<1>. QED BY <1>4, <1>5, <1>6, <1>7, <1>8 DEF RetireInv

LEMMA NodeStepInv ==
    ASSUME RetireInv, NodeStep \/ OtherCall \/ \E r \in Requests : Disconnect(r)
    PROVE  RetireInv'
<1>1. ASSUME NEW op \in mempool, Drop(op) PROVE RetireInv'
  BY <1>1, LeaveInv DEF Drop, RetireInv, RetireTypeOK
<1>2. CASE OtherCall
  <2>1. \A o \in mempool : o.counter = counter + 1
    BY DEF RetireInv, PendingIsNext
  <2>2. counter' # counter => mempool' = {}
    BY <1>2, <2>1 DEF OtherCall, StillPending, RetireInv, RetireTypeOK
  <2>3. mempool' \subseteq mempool /\ gone' \subseteq Requests
    BY <1>2 DEF OtherCall, StillPending, RetireInv, RetireTypeOK
  <2>. QED BY <1>2, <2>2, <2>3, LeaveInv DEF OtherCall
<1>3. ASSUME NEW r \in Requests, Disconnect(r) PROVE RetireInv'
  BY <1>3, LeaveInv DEF Disconnect, nodeVars, RetireInv, RetireTypeOK
<1>. QED BY <1>1, <1>2, <1>3, IncludeInv DEF NodeStep

LEMMA RetireInductive == RetireInv /\ [RetireNext]_vars => RetireInv'
<1>. SUFFICES ASSUME RetireInv, [RetireNext]_vars PROVE RetireInv'
  OBVIOUS
<1>1. CASE UNCHANGED vars
  BY <1>1, LeaveInv DEF vars, nodeVars, RetireInv, RetireTypeOK
<1>2. ASSUME NEW r \in Requests, HandlerStep(r) PROVE RetireInv'
  BY <1>2, CompleteInv, SimulateInv, InjectInv, AwaitInv, WaitingInv,
     TransportErrorInv DEF HandlerStep
<1>. QED BY <1>1, <1>2, PostInv, NodeStepInv DEF RetireNext

LEMMA RetireAlways == RetireSpec => []RetireInv
BY RetireInitInv, RetireInductive, PTL DEF RetireSpec

(* Handlers, node and histories keep their types; in particular no handler *)
(* sends an operation more than MaxRetries times again.                    *)
THEOREM RetireTypeCorrect == RetireSpec => []RetireTypeOK
<1>1. RetireInv => RetireTypeOK
  BY DEF RetireInv
<1>. QED BY <1>1, RetireAlways, PTL

(***************************************************************************)
(* A POST retires its credits once at most, for any number of requests and *)
(* retries: op of CallContract keeps the counter of its first Send, a      *)
(* block uses that counter up, and so no second copy is ever executed.     *)
(***************************************************************************)
THEOREM NeverTwice == RetireSpec => []AtMostOnce
<1>1. RetireInv => AtMostOnce
  BY DEF RetireInv, ExecutedInBlock, AtMostOnce
<1>. QED BY <1>1, RetireAlways, PTL

(* The hash that retire answers with names an operation in a block. *)
THEOREM SuccessInBlock == RetireSpec => []SuccessIsInBlock
<1>1. RetireInv => SuccessIsInBlock
  BY DEF RetireInv, SeenIsInBlock, SuccessIsInBlock
<1>. QED BY <1>1, RetireAlways, PTL

(* An error answer to a client that has stayed, when no answer of the node *)
(* was lost, means that nothing was retired nor will be.                   *)
THEOREM ErrorIsFinal == RetireSpec => []ErrorLeavesNothing
<1>1. ASSUME RetireInv PROVE ErrorLeavesNothing
  <2>. SUFFICES ASSUME NEW r \in Requests \ lost,
                       answer[r] \in {"error", "bad request"}
                PROVE  Op(r) \notin mempool /\ ~InBlock(Op(r)) /\ executions[r] = 0
    BY DEF ErrorLeavesNothing
  <2>1. phase[r] = "done"
    BY <1>1 DEF RetireInv, SeenIsInBlock
  <2>2. ~Settled(r)
    BY <2>1 DEF Settled
  <2>3. Op(r) \notin mempool /\ ~InBlock(Op(r))
    BY <1>1, <2>2 DEF RetireInv, NothingOut
  <2>4. executions[r] \in {0, 1} /\ executions[r] # 1
    BY <1>1, <2>3 DEF RetireInv, ExecutedInBlock
  <2>5. executions[r] = 0
    BY <2>4
  <2>. QED BY <2>3, <2>5
<1>. QED BY <1>1, RetireAlways, PTL
=============================================================================
