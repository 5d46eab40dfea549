----------------------------- MODULE ApplierProofs ----------------------------
(***************************************************************************)
(* The theorems about module Applier, for any bounds.                      *)
(***************************************************************************)
EXTENDS Applier, TLAPS

(* Max and Min of two integers. *)
LEMMA MaxMinPair ==
    ASSUME NEW x \in Int, NEW y \in Int
    PROVE  /\ Max({x, y}) = IF x >= y THEN x ELSE y
           /\ Min({x, y}) = IF x <= y THEN x ELSE y
BY DEF Max, Min

(* The indexes are integers. *)
LEMMA IndexTypes ==
    ASSUME ApplierInv
    PROVE  /\ commitIndex \in Int /\ lastApplied \in Int /\ service \in Int
           /\ lastIncludedIndex \in Int /\ lastIndex \in Int
BY ApplierAssumption DEF ApplierInv, TypeOK

(* The handlers keep the invariant: they move the indexes of the log, and the
   CommitChecker only from its wait to its scan. *)
LEMMA HandlerStep ==
    ASSUME ApplierInv,
           \/ \E last \in 0..MaxIndex, leaderCommit \in 0..MaxIndex :
                 AppendEntries(last, leaderCommit)
           \/ Start
           \/ \E n \in 1..MaxIndex : Commit(n)
    PROVE  ApplierInv'
<1> USE ApplierAssumption DEF ApplierInv, TypeOK, IndexesInOrder, AppliesInOrder
<1>1. ASSUME NEW last \in 0..MaxIndex, NEW leaderCommit \in 0..MaxIndex,
             AppendEntries(last, leaderCommit)
      PROVE  ApplierInv'
  <2>1. /\ Min({lastIndex, commitIndex}) =
              IF lastIndex <= commitIndex THEN lastIndex ELSE commitIndex
        /\ Min({leaderCommit, last}) =
              IF leaderCommit <= last THEN leaderCommit ELSE last
    <3> HIDE DEF ApplierInv
    <3>1. /\ commitIndex \in Int /\ lastApplied \in Int /\ service \in Int
          /\ lastIncludedIndex \in Int /\ lastIndex \in Int
      BY IndexTypes
    <3>2. last \in Int /\ leaderCommit \in Int
      OBVIOUS
    <3> QED BY <3>1, <3>2, MaxMinPair
  <2>2. CASE leaderCommit > commitIndex
    BY <1>1, <2>1, <2>2 DEF AppendEntries, Wake, serviceVars, instanceVars
  <2>3. CASE ~(leaderCommit > commitIndex)
    BY <1>1, <2>1, <2>3 DEF AppendEntries, serviceVars, instanceVars
  <2> QED BY <2>2, <2>3
<1>2. CASE Start
  BY <1>2 DEF Start, checkerVars, serviceVars, instanceVars
<1>3. ASSUME NEW n \in 1..MaxIndex, Commit(n)
      PROVE  ApplierInv'
  BY <1>3 DEF Commit, Wake, serviceVars, instanceVars
<1> QED BY <1>1, <1>2, <1>3

(* Installing, taking and delivering a snapshot keep the invariant. *)
LEMMA SnapshotStep ==
    ASSUME ApplierInv,
           \/ \E i \in 1..MaxIndex, hasEntry \in BOOLEAN : InstallSnapshot(i, hasEntry)
           \/ Snapshot
           \/ \E i \in 1..MaxIndex : SendSnapshot(i)
    PROVE  ApplierInv'
<1> USE ApplierAssumption DEF ApplierInv, TypeOK, IndexesInOrder, AppliesInOrder
<1>1. ASSUME NEW i \in 1..MaxIndex, NEW hasEntry \in BOOLEAN,
             InstallSnapshot(i, hasEntry)
      PROVE  ApplierInv'
  <2>1. /\ Min({commitIndex, lastIndex}) =
              IF commitIndex <= lastIndex THEN commitIndex ELSE lastIndex
        /\ Max({commitIndex, i}) = IF commitIndex >= i THEN commitIndex ELSE i
    <3> HIDE DEF ApplierInv
    <3>1. /\ commitIndex \in Int /\ lastApplied \in Int /\ service \in Int
          /\ lastIncludedIndex \in Int /\ lastIndex \in Int
      BY IndexTypes
    <3> QED BY <3>1, MaxMinPair
  <2>2. installing' \in [1..MaxIndex -> Nat] /\ installs' \in Nat /\ installs' # 0
    BY <1>1 DEF InstallSnapshot
  <2>3. /\ commitIndex' = (IF commitIndex >= i THEN commitIndex ELSE i)
        /\ lastApplied' = i /\ lastIncludedIndex' = i
        /\ lastIndex' = IF hasEntry THEN lastIndex ELSE i
        /\ hasEntry => i >= lastIncludedIndex /\ i <= lastIndex
        /\ i >= lastIncludedIndex /\ i <= commitIndex /\ i <= lastIndex => hasEntry
        /\ UNCHANGED <<pc, next, upTo, service, snapshotting, boots>>
    BY <1>1, <2>1 DEF InstallSnapshot, checkerVars, serviceVars
  <2>4. stale' \in BOOLEAN /\ (~stale' => ~stale /\ ~(i < lastIncludedIndex))
    BY <1>1, Zenon DEF InstallSnapshot
  <2>5. TypeOK'
    BY <2>2, <2>3, <2>4
  <2>6. ASSUME ~stale'
        PROVE  /\ lastIncludedIndex' <= lastApplied'
               /\ lastApplied' <= commitIndex'
               /\ commitIndex' <= lastIndex'
               /\ pc \in {"send", "advance"} => upTo' <= commitIndex'
    <3>1. ~stale /\ i >= lastIncludedIndex
      BY <2>4, <2>6
    <3>2. CASE hasEntry
      BY <2>3, <3>1, <3>2
    <3>3. CASE ~hasEntry
      BY <2>3, <3>1, <3>3
    <3> QED BY <3>2, <3>3
  <2> QED BY <2>2, <2>3, <2>5, <2>6
<1>2. CASE Snapshot
  <2>1. Max({lastApplied, service}) =
           IF lastApplied >= service THEN lastApplied ELSE service
    <3> HIDE DEF ApplierInv
    <3>1. /\ commitIndex \in Int /\ lastApplied \in Int /\ service \in Int
          /\ lastIncludedIndex \in Int /\ lastIndex \in Int
      BY IndexTypes
    <3> QED BY <3>1, MaxMinPair
  <2>2. CASE service \in lastIncludedIndex + 1 .. commitIndex /\ service <= lastIndex
    <3>1. /\ lastIncludedIndex' = service /\ snapshotting' = FALSE
          /\ lastApplied' = (IF lastApplied >= service THEN lastApplied ELSE service)
          /\ UNCHANGED <<commitIndex, lastIndex, pc, next, upTo, installing, service,
                         installs, stale, boots>>
      BY <1>2, <2>1, <2>2 DEF Snapshot, checkerVars, instanceVars
    <3>2. TypeOK'
      BY <2>2, <3>1
    <3>3. CASE stale
      BY <2>2, <3>1, <3>2, <3>3
    <3>4. CASE ~stale
      BY <2>2, <3>1, <3>2, <3>4
    <3> QED BY <3>3, <3>4
  <2>3. CASE ~(service \in lastIncludedIndex + 1 .. commitIndex /\ service <= lastIndex)
    BY <1>2, <2>3 DEF Snapshot, checkerVars, instanceVars
  <2> QED BY <2>2, <2>3
<1>3. ASSUME NEW i \in 1..MaxIndex, SendSnapshot(i)
      PROVE  ApplierInv'
  <2>1. installs # 0 /\ installing' \in [1..MaxIndex -> Nat]
    BY <1>3 DEF SendSnapshot
  <2> QED BY <1>3, <2>1 DEF SendSnapshot, raftVars, checkerVars, instanceVars
<1> QED BY <1>1, <1>2, <1>3

(* The CommitChecker and a restart keep the invariant. *)
LEMMA CheckerStep ==
    ASSUME ApplierInv, Park \/ Scan \/ Send \/ Advance \/ Restart
    PROVE  ApplierInv'
<1> USE ApplierAssumption DEF ApplierInv, TypeOK, IndexesInOrder, AppliesInOrder
<1>1. CASE Park
  BY <1>1 DEF Park, raftVars, serviceVars, instanceVars
<1>2. CASE Scan
  <2>1. /\ First = (IF lastApplied >= lastIncludedIndex
                    THEN lastApplied ELSE lastIncludedIndex) + 1
        /\ Last = IF commitIndex <= lastIndex THEN commitIndex ELSE lastIndex
    <3> HIDE DEF ApplierInv
    <3> QED BY IndexTypes, MaxMinPair DEF First, Last
  <2> QED BY <1>2, <2>1 DEF Scan, raftVars, serviceVars, instanceVars
<1>3. CASE Send
  BY <1>3 DEF Send, raftVars, instanceVars
<1>4. CASE Advance
  BY <1>4 DEF Advance, serviceVars, instanceVars
<1>5. CASE Restart
  <2>1. [i \in 1..MaxIndex |-> 0] \in [1..MaxIndex -> Nat]
    OBVIOUS
  <2>2. stale' \in BOOLEAN /\ snapshotting' \in BOOLEAN /\ ~stale'
    BY <1>5, Zenon DEF Restart
  <2>3. /\ commitIndex' = lastIncludedIndex /\ lastApplied' = lastIncludedIndex
        /\ service' = lastIncludedIndex /\ lastIncludedIndex' = lastIncludedIndex
        /\ lastIndex' = lastIndex /\ pc' = "top" /\ next' = 0 /\ upTo' = 0
        /\ boots' = boots + 1 /\ installs' = 0
        /\ installing' = [i \in 1..MaxIndex |-> 0]
    BY <1>5, Zenon DEF Restart
  <2>4. TypeOK'
    BY <2>1, <2>2, <2>3
  <2> QED BY <2>2, <2>3, <2>4
<1> QED BY <1>1, <1>2, <1>3, <1>4, <1>5

(* The invariant holds in every state. *)
THEOREM ApplierInvariance == Spec => []ApplierInv
<1>1. Init => ApplierInv
  <2>1. [i \in 1..MaxIndex |-> 0] \in [1..MaxIndex -> Nat]
    OBVIOUS
  <2>2. Init => TypeOK
    <3>1. Init => stale \in BOOLEAN /\ snapshotting \in BOOLEAN
      BY Zenon DEF Init
    <3> QED BY <2>1, <3>1, ApplierAssumption DEF Init, TypeOK
  <2> QED BY <2>2 DEF Init, ApplierInv, IndexesInOrder, AppliesInOrder
<1>2. ApplierInv /\ [Next]_vars => ApplierInv'
  <2> SUFFICES ASSUME ApplierInv, [Next]_vars
               PROVE  ApplierInv'
    OBVIOUS
  <2>1. CASE Next
    BY <2>1, HandlerStep, SnapshotStep, CheckerStep DEF Next
  <2>2. CASE UNCHANGED vars
    BY <2>2 DEF vars, raftVars, checkerVars, serviceVars, instanceVars,
                ApplierInv, TypeOK, IndexesInOrder, AppliesInOrder
  <2> QED BY <2>1, <2>2
<1> QED BY <1>1, <1>2, PTL DEF Spec

(* Until an instance serves an InstallSnapshot, CommitChecker sends the
   service each command in its turn. *)
THEOREM CommandsInOrder == Spec => []AppliesInOrder
<1>1. ApplierInv => AppliesInOrder
  BY DEF ApplierInv
<1> QED BY <1>1, ApplierInvariance, PTL

(* Until an instance installs a snapshot behind its own, lastApplied never
   passes commitIndex nor commitIndex the end of the log. *)
THEOREM IndexesStayInOrder == Spec => []IndexesInOrder
<1>1. ApplierInv => IndexesInOrder
  BY DEF ApplierInv
<1> QED BY <1>1, ApplierInvariance, PTL

(* From each start to the first installed snapshot a server delivers the log
   in order: every step of its goroutines is a commit, a delivery, an install,
   a crash or no step of InOrder. *)
THEOREM Refinement == Spec => DeliversInOrder
<1> DEFINE Goal == [Promise!Next]_(Promise!vars)
<1>1. Init => Promise!Init
  BY DEF Init, Promise!Init
<1>2. ApplierInv /\ ApplierInv' /\ [Next]_vars => Goal
  <2> SUFFICES ASSUME ApplierInv, ApplierInv', [Next]_vars
               PROVE  Goal
    OBVIOUS
  <2> USE DEF Promise!vars, Promise!Next, Promise!Commit, Promise!Deliver, Promise!Install,
              Promise!Crash
  <2>0. /\ commitIndex \in Nat /\ lastApplied \in Nat /\ service \in Nat /\ lastIndex \in Nat
        /\ lastIncludedIndex \in Nat /\ next \in Int /\ upTo \in Int /\ installs \in Nat
        /\ commitIndex' \in Nat /\ service' \in Nat /\ installs' \in Nat
    BY ApplierAssumption DEF ApplierInv, TypeOK
  <2>1. CASE installs' > 0
    BY <2>0, <2>1
  <2>2. CASE Restart
    <3>1. /\ commitIndex' = lastIncludedIndex /\ service' = lastIncludedIndex /\ installs' = 0
      BY <2>2 DEF Restart
    <3>2. installs = 0 => lastIncludedIndex <= service
      BY DEF ApplierInv
    <3> QED BY <2>0, <3>1, <3>2
  <2>3. CASE ~Restart /\ installs' = 0
    <3>1. installs = 0
      <4>1. CASE UNCHANGED installs
        BY <2>3, <4>1
      <4>2. ASSUME NEW i \in 1..MaxIndex, NEW hasEntry \in BOOLEAN,
                   InstallSnapshot(i, hasEntry)
            PROVE  FALSE
        <5>1. installs' = installs + 1
          BY <4>2, Zenon DEF InstallSnapshot
        <5> QED BY <2>0, <2>3, <5>1
      <4>3. CASE UNCHANGED vars
        BY <4>1, <4>3 DEF vars, instanceVars
      <4>4. CASE Next
        BY <2>3, <4>1, <4>2, <4>4, Zenon
           DEF Next, instanceVars, AppendEntries, Start, Commit, Snapshot, Park, Scan, Send,
               Advance, SendSnapshot
      <4> QED BY <4>3, <4>4
    <3>2. /\ lastIncludedIndex <= service /\ commitIndex <= lastIndex
          /\ pc = "send" => next = service + 1 /\ next <= upTo /\ upTo <= commitIndex
          /\ installing = [i \in 1..MaxIndex |-> 0]
      BY <3>1 DEF ApplierInv, IndexesInOrder, AppliesInOrder
    <3>3. ASSUME NEW last \in 0..MaxIndex, NEW leaderCommit \in 0..MaxIndex,
                 AppendEntries(last, leaderCommit)
          PROVE  Goal
      <4>1. Min({lastIndex, commitIndex}) =
               IF lastIndex <= commitIndex THEN lastIndex ELSE commitIndex
        <5>1. lastIndex \in Int /\ commitIndex \in Int
          BY <2>0
        <5> QED BY <5>1, MaxMinPair
      <4>2. Min({leaderCommit, last}) = IF leaderCommit <= last THEN leaderCommit ELSE last
        BY MaxMinPair
      <4>3. Min({lastIndex, commitIndex}) = commitIndex
        BY <2>0, <3>2, <4>1
      <4> QED BY <2>0, <3>1, <3>2, <3>3, <4>2, <4>3, ApplierAssumption
              DEF AppendEntries, serviceVars, instanceVars
    <3>4. ASSUME NEW n \in 1..MaxIndex, Commit(n)
          PROVE  Goal
      BY <2>0, <3>1, <3>4 DEF Commit, serviceVars, instanceVars
    <3>5. CASE Start \/ Snapshot \/ Park \/ Scan \/ Advance
      BY <3>5 DEF Start, Snapshot, Park, Scan, Advance, raftVars, serviceVars, instanceVars
    <3>6. CASE Send
      BY <2>0, <3>1, <3>2, <3>6 DEF Send, raftVars, instanceVars
    <3>7. ASSUME NEW i \in 1..MaxIndex,
                 SendSnapshot(i) \/ \E hasEntry \in BOOLEAN : InstallSnapshot(i, hasEntry)
          PROVE  FALSE
      BY <2>0, <2>3, <3>1, <3>2, <3>7 DEF SendSnapshot, InstallSnapshot
    <3>8. CASE UNCHANGED vars
      BY <3>8 DEF vars, raftVars, serviceVars, instanceVars
    <3> QED BY <2>3, <3>3, <3>4, <3>5, <3>6, <3>7, <3>8 DEF Next
  <2> QED BY <2>0, <2>1, <2>2, <2>3
<1> QED BY <1>1, <1>2, ApplierInvariance, PTL DEF Spec, DeliversInOrder, Promise!Spec
===============================================================================
