------------------------------- MODULE InOrder --------------------------------
(***************************************************************************)
(* What a Raft server promises its service: the commands of the log, each  *)
(* in its turn and none before it is committed.  After a crash the server  *)
(* starts over from a snapshot of what the service had applied.  A server  *)
(* that was sent a snapshot promises nothing more until it restarts; then  *)
(* it promises as much again as at first.                                  *)
(***************************************************************************)
EXTENDS Integers

VARIABLES
    committed,   \* index up to which the log is known to be committed
    delivered,   \* index up to which the service has the commands
    disturbed    \* a snapshot was installed since the server started

vars == <<committed, delivered, disturbed>>

Init == committed = 0 /\ delivered = 0 /\ ~disturbed

Commit ==
    /\ ~disturbed
    /\ committed' \in Nat /\ committed' > committed
    /\ UNCHANGED <<delivered, disturbed>>

Deliver ==
    /\ ~disturbed /\ delivered < committed
    /\ delivered' = delivered + 1
    /\ UNCHANGED <<committed, disturbed>>

Install ==
    /\ committed' \in Nat /\ delivered' \in Nat
    /\ disturbed'

Crash ==
    /\ delivered' \in Nat /\ (~disturbed => delivered' <= delivered)
    /\ committed' = delivered'
    /\ ~disturbed'

Next == Commit \/ Deliver \/ Install \/ Crash

Spec == Init /\ [][Next]_vars
===============================================================================
