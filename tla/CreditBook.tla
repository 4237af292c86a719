----------------------------- MODULE CreditBook -----------------------------
(***************************************************************************)
(* What the two contracts promise together, without contracts, batches,    *)
(* syncs or operations: one book of who owns how many credits of each kind.*)
(* Credits come into it only by being issued, change hands, and leave it   *)
(* only by being retired, once.                                            *)
(***************************************************************************)
EXTENDS Integers, Functions

CONSTANTS
    Holder,     \* whoever can own credits
    Credit      \* the kinds of credits

VARIABLES
    book,       \* what every holder owns
    issued,     \* what has been issued of each kind
    retired     \* what has been retired of each kind

Book == [Holder \X Credit -> Nat]

Owned(b, t) == SumFunction([h \in Holder |-> b[h, t]])

BookInit ==
    /\ book = [ht \in Holder \X Credit |-> 0]
    /\ issued = [t \in Credit |-> 0]
    /\ retired = [t \in Credit |-> 0]

(* The issuer hands out new credits: nobody's balance falls. *)
Issue ==
    /\ book' \in Book
    /\ \A ht \in Holder \X Credit : book'[ht] >= book[ht]
    /\ issued' = [t \in Credit |-> issued[t] + Owned(book', t) - Owned(book, t)]
    /\ UNCHANGED retired

(* Credits change hands: there are as many of each kind as before. *)
Move ==
    /\ book' \in Book
    /\ \A t \in Credit : Owned(book', t) = Owned(book, t)
    /\ UNCHANGED <<issued, retired>>

(* Holders give credits up, which are counted as retired. *)
RetireCredits ==
    /\ book' \in Book
    /\ \A ht \in Holder \X Credit : book'[ht] <= book[ht]
    /\ retired' = [t \in Credit |-> retired[t] + Owned(book, t) - Owned(book', t)]
    /\ UNCHANGED issued

BookNext == Issue \/ Move \/ RetireCredits

BookSpec == BookInit /\ [][BookNext]_<<book, issued, retired>>
=============================================================================
