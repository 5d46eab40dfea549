------------------------------- MODULE Applier --------------------------------
(***************************************************************************)
(* How one server hands committed entries to its service: the handlers     *)
(* that move commitIndex and wake the CommitChecker, the CommitChecker     *)
(* itself, the goroutine that delivers an installed snapshot, and a        *)
(* service that applies what it receives and calls Snapshot from the same  *)
(* loop (applierSnap of the raft tests, ApplyHandler of kvraft).  commitCh *)
(* and applyCh are unbuffered.  Which entry is committed at an index is    *)
(* module Raft; here an entry is its index.                                *)
(***************************************************************************)
EXTENDS Integers, FiniteSetsExt

CONSTANTS
    MaxIndex,     \* bound: no log index beyond this one
    MaxInstalls,  \* bound: InstallSnapshot calls that reach one instance
    MaxBoots      \* bound: restarts

ASSUME ApplierAssumption ==
    MaxIndex \in Nat /\ MaxInstalls \in Nat /\ MaxBoots \in Nat

VARIABLES
    commitIndex, lastApplied, lastIncludedIndex,
    lastIndex,      \* virtual index of the last entry of rf.log
    pc,             \* where the CommitChecker is
    next, upTo,     \* what is left of msgBuf: the indexes next..upTo
    installing,     \* the number of goroutines about to deliver each snapshot
    service,        \* index up to which the service has applied the log
    snapshotting,   \* the service is in its call of Snapshot(service)
    installs,       \* the InstallSnapshot calls that this instance served,
    stale,          \* and whether one was behind the server's own snapshot
    boots           \* which instance is running

raftVars == <<commitIndex, lastApplied, lastIncludedIndex, lastIndex>>
checkerVars == <<pc, next, upTo>>
serviceVars == <<service, snapshotting>>
instanceVars == <<installs, stale, boots>>
vars == <<raftVars, checkerVars, installing, serviceVars, instanceVars>>

Init ==
    /\ commitIndex = 0 /\ lastApplied = 0
    /\ lastIncludedIndex = 0 /\ lastIndex = 0
    /\ pc = "top" /\ next = 0 /\ upTo = 0
    /\ installing = [i \in 1..MaxIndex |-> 0]
    /\ service = 0 /\ snapshotting = FALSE
    /\ installs = 0 /\ stale = FALSE /\ boots = 0

-----------------------------------------------------------------------------
(* The handlers                                                            *)

(* select { case rf.commitCh <- true: default: }: only a CommitChecker that
   already waits at the channel is woken. *)
Wake == pc' = IF pc = "parked" THEN "scan" ELSE pc

(* An accepted AppendEntries leaves the log with its last entry at last; it
   removes no committed entry (StateMachineSafety of module Raft). *)
AppendEntries(last, leaderCommit) ==
    /\ last >= Min({lastIndex, commitIndex})
    /\ last >= lastIncludedIndex
    /\ lastIndex' = last
    /\ IF leaderCommit > commitIndex
       THEN commitIndex' = Min({leaderCommit, last}) /\ Wake
       ELSE UNCHANGED <<commitIndex, pc>>
    /\ UNCHANGED <<lastApplied, lastIncludedIndex, next, upTo, installing,
                   serviceVars, instanceVars>>

(* Start appends to the log of a leader ... *)
Start ==
    /\ lastIndex < MaxIndex
    /\ lastIndex' = lastIndex + 1
    /\ UNCHANGED <<commitIndex, lastApplied, lastIncludedIndex, checkerVars,
                   installing, serviceVars, instanceVars>>

(* ... and sendAppendEntries commits when a majority has n. *)
Commit(n) ==
    /\ n \in commitIndex + 1 .. lastIndex
    /\ commitIndex' = n
    /\ Wake
    /\ UNCHANGED <<lastApplied, lastIncludedIndex, lastIndex, next, upTo,
                   installing, serviceVars, instanceVars>>

(* An InstallSnapshot of the server's term, up to index i.  The entries after
   i stay if the log has the one the snapshot ends with: it does if that entry
   is committed and not yet in a snapshot, it may if it is not committed. *)
InstallSnapshot(i, hasEntry) ==
    /\ installs < MaxInstalls
    /\ hasEntry => i \in lastIncludedIndex..lastIndex
    /\ i \in lastIncludedIndex..Min({commitIndex, lastIndex}) => hasEntry
    /\ lastIndex' = IF hasEntry THEN lastIndex ELSE i
    /\ lastIncludedIndex' = i
    /\ commitIndex' = Max({commitIndex, i})
    /\ lastApplied' = i
    /\ installing' = [installing EXCEPT ![i] = @ + 1]
    /\ installs' = installs + 1
    /\ stale' = (stale \/ i < lastIncludedIndex)
    /\ UNCHANGED <<checkerVars, serviceVars, boots>>

SnapshotUnchecked ==
    /\ snapshotting
    /\ snapshotting' = FALSE
    /\ lastIncludedIndex' = service
    /\ lastApplied' = Max({lastApplied, service})
    /\ UNCHANGED <<commitIndex, lastIndex, checkerVars, installing, service,
                   instanceVars>>

(* Snapshot(service), ignored when it is behind the last snapshot or ahead of
   the commitIndex or of the log.  At lastIndex + 1, which takes a log that an
   installed snapshot cut, the code indexes the log past its end and panics:
   the call does not return, and the server waits to be restarted. *)
Snapshot ==
    LET index == service
    IN /\ snapshotting
       /\ ~(index \in lastIncludedIndex + 1 .. commitIndex /\ index = lastIndex + 1)
       /\ snapshotting' = FALSE
       /\ IF index \in lastIncludedIndex + 1 .. commitIndex /\ index <= lastIndex
          THEN /\ lastIncludedIndex' = index
               /\ lastApplied' = Max({lastApplied, index})
          ELSE UNCHANGED <<lastIncludedIndex, lastApplied>>
       /\ UNCHANGED <<commitIndex, lastIndex, checkerVars, installing, service,
                      instanceVars>>

-----------------------------------------------------------------------------
(* The CommitChecker                                                       *)

Park ==
    /\ pc = "top"
    /\ pc' = "parked"
    /\ UNCHANGED <<raftVars, next, upTo, installing, serviceVars, instanceVars>>

FirstAfterSnapshot == lastIncludedIndex + 1

(* The entries to send: behind both lastApplied and the snapshot, as far as
   the commitIndex and the log go. *)
First == Max({lastApplied, lastIncludedIndex}) + 1

LastButOne == Min({commitIndex, lastIndex}) - 1

Last == Min({commitIndex, lastIndex})

(* With the lock held, the messages are collected in msgBuf. *)
Scan ==
    /\ pc = "scan"
    /\ pc' = IF First <= Last THEN "send" ELSE "top"
    /\ next' = First
    /\ upTo' = Last
    /\ UNCHANGED <<raftVars, installing, serviceVars, instanceVars>>

(* Without the lock, each is sent to the service, which may decide to take a
   snapshot before it receives anything else ... *)
Send ==
    /\ pc = "send" /\ ~snapshotting
    /\ service' = next
    /\ snapshotting' \in BOOLEAN
    /\ pc' = "advance"
    /\ UNCHANGED <<raftVars, next, upTo, installing, instanceVars>>

(* ... and then counted, unless a snapshot has changed lastApplied. *)
Advance ==
    /\ pc = "advance"
    /\ lastApplied' = IF next = lastApplied + 1 THEN next ELSE lastApplied
    /\ next' = next + 1
    /\ pc' = IF next < upTo THEN "send" ELSE "top"
    /\ UNCHANGED <<commitIndex, lastIncludedIndex, lastIndex, upTo, installing,
                   serviceVars, instanceVars>>

(* go func() { rf.applyCh <- *msg }() of InstallSnapshot; ingestSnap takes
   the snapshot whatever its index. *)
SendSnapshot(i) ==
    /\ installing[i] > 0 /\ ~snapshotting
    /\ installing' = [installing EXCEPT ![i] = @ - 1]
    /\ service' = i
    /\ UNCHANGED <<raftVars, checkerVars, snapshotting, instanceVars>>

(* crash1 and start1: Make reads back the log and the snapshot, and the new
   service starts from that snapshot. *)
Restart ==
    /\ boots < MaxBoots
    /\ boots' = boots + 1
    /\ commitIndex' = lastIncludedIndex /\ lastApplied' = lastIncludedIndex
    /\ pc' = "top" /\ next' = 0 /\ upTo' = 0
    /\ installing' = [i \in 1..MaxIndex |-> 0]
    /\ service' = lastIncludedIndex /\ snapshotting' = FALSE
    /\ installs' = 0 /\ stale' = FALSE
    /\ UNCHANGED <<lastIncludedIndex, lastIndex>>

Next ==
    \/ \E last \in 0..MaxIndex, leaderCommit \in 0..MaxIndex :
          AppendEntries(last, leaderCommit)
    \/ Start
    \/ \E n \in 1..MaxIndex : Commit(n)
    \/ \E i \in 1..MaxIndex, hasEntry \in BOOLEAN : InstallSnapshot(i, hasEntry)
    \/ Snapshot
    \/ Park \/ Scan \/ Send \/ Advance
    \/ \E i \in 1..MaxIndex : SendSnapshot(i)
    \/ Restart

(* Every goroutine that can run does so in the end, and the service keeps
   receiving; nothing more need be committed or installed. *)
Fairness ==
    /\ WF_vars(Park) /\ WF_vars(Scan) /\ WF_vars(Send) /\ WF_vars(Advance)
    /\ WF_vars(Snapshot)
    /\ \A i \in 1..MaxIndex : WF_vars(SendSnapshot(i))

Spec == Init /\ [][Next]_vars /\ Fairness

-----------------------------------------------------------------------------
(* The indexes are indexes of the log or 0, and the CommitChecker is at one of
   its five points. *)
TypeOK ==
    /\ commitIndex \in 0..MaxIndex /\ lastApplied \in 0..MaxIndex
    /\ lastIncludedIndex \in 0..MaxIndex /\ lastIndex \in 0..MaxIndex
    /\ pc \in {"top", "parked", "scan", "send", "advance"}
    /\ next \in 0 .. MaxIndex + 1 /\ upTo \in 0..MaxIndex
    /\ installing \in [1..MaxIndex -> Nat]
    /\ service \in 0..MaxIndex /\ snapshotting \in BOOLEAN
    /\ installs \in Nat /\ stale \in BOOLEAN /\ boots \in Nat

(* Until an InstallSnapshot reaches the instance, each command the service
   receives is the one after the last it applied, although commits, snapshots
   of the service and the CommitChecker's unlocked sends interleave, and
   although a restart starts over (applierSnap ends the test otherwise). *)
AppliesInOrder == installs = 0 => (pc = "send" => next = service + 1)

(* The four indexes, which five goroutines move, stay in order as long as no
   installed snapshot is behind the server's own.  So CommitChecker's
   make([]*ApplyMsg, 0, commitIndex - lastApplied) has a capacity that is not
   negative, and it finds every entry up to commitIndex in the log. *)
IndexesInOrder ==
    ~stale => /\ lastIncludedIndex <= lastApplied
              /\ lastApplied <= commitIndex
              /\ commitIndex <= lastIndex

(* The inductive invariant of the proofs: what msgBuf holds is committed, and
   while the instance has installed nothing, the service is where lastApplied
   is, or one ahead of it between a send and its count. *)
ApplierInv ==
    /\ TypeOK /\ IndexesInOrder /\ AppliesInOrder
    /\ lastIncludedIndex <= lastIndex
    /\ pc \in {"send", "advance"} =>
          next >= 1 /\ next <= upTo /\ (~stale => upTo <= commitIndex)
    /\ installs = 0 =>
          /\ ~stale
          /\ installing = [i \in 1..MaxIndex |-> 0]
          /\ lastIncludedIndex <= service
          /\ pc = "advance" => next = service /\ lastApplied \in {service - 1, service}
          /\ pc # "advance" => service = lastApplied

(* A commit that does wake the CommitChecker is applied, unless an
   InstallSnapshot reaches the instance or it ends. *)
WokenApplies ==
    \A i \in 1..MaxIndex, b \in 0..MaxBoots :
        (pc = "scan" /\ commitIndex >= i /\ boots = b)
        ~> (service >= i \/ installs > 0 \/ boots # b)

(* The goroutines together do what InOrder promises: in order and nothing
   uncommitted, from each start of the server to the first snapshot that is
   installed, and again from the next start on. *)
Promise == INSTANCE InOrder WITH
    committed <- commitIndex, delivered <- service, disturbed <- installs > 0

DeliversInOrder == Promise!Spec
===============================================================================
