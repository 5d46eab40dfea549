------------------------------ MODULE RaftSafety ------------------------------
(****************************************************************************)
(* Without snapshots, every step of Raft is a step of LogReplication or     *)
(* none, and keeps what ties messages and indexes to the leaders' logs.     *)
(****************************************************************************)
EXTENDS RaftRefinement, RaftLemmas

-----------------------------------------------------------------------------
(* Quorums and logs                                                        *)

(* Majorities of the servers are quorums. *)
LEMMA MajorityRules ==
    ASSUME Counting
    PROVE  R!QuorumRules
<1>1. ASSUME NEW P \in Majorities, NEW Q \in SUBSET Servers, P \subseteq Q
      PROVE  Q \in Majorities
  <2>1. /\ Cardinality(P) \in Nat /\ Cardinality(Q) \in Nat /\ Cardinality(Servers) \in Nat
        /\ Cardinality(P) <= Cardinality(Q)
    BY Zenon, <1>1 DEF Counting, Majorities
  <2> QED BY <2>1 DEF Majorities, Majority
<1>2. \A P, Q \in Majorities : P \cap Q # {}
  BY Zenon DEF Counting, Majorities
<1> QED BY Zenon, <1>1, <1>2 DEF R!QuorumRules

(* The elements of a sequence put together from two, and of a tail. *)
LEMMA Elements ==
    ASSUME NEW S, NEW q \in Seq(S), NEW r \in Seq(S)
    PROVE  /\ q \o r \in Seq(S) /\ Len(q \o r) = Len(q) + Len(r)
           /\ \A i \in 1..Len(q) : (q \o r)[i] = q[i]
           /\ \A i \in Len(q) + 1 .. Len(q) + Len(r) : (q \o r)[i] = r[i - Len(q)]
           /\ q # <<>> => /\ Tail(q) \in Seq(S) /\ Len(Tail(q)) = Len(q) - 1
                         /\ \A i \in 1..Len(q) - 1 : Tail(q)[i] = q[i + 1]
OBVIOUS

(* The elements of a part of a sequence. *)
LEMMA Slice ==
    ASSUME NEW S, NEW q \in Seq(S), NEW b \in Nat, NEW n \in Nat, 1 <= b, b + n <= Len(q) + 1
    PROVE  /\ SubSeq(q, b, b + n - 1) \in Seq(S) /\ Len(SubSeq(q, b, b + n - 1)) = n
           /\ \A i \in 1..n : SubSeq(q, b, b + n - 1)[i] = q[b + i - 1]
OBVIOUS

(* Without snapshots the slice is the placeholder and then the log. *)
LEMMA LogView ==
    ASSUME TypeOK, NoSnapshots, NEW s \in Servers
    PROVE  /\ LogOf[s] = Tail(log[s]) /\ LogOf[s] \in Seq(Entry) /\ Len(LogOf[s]) \in Nat
           /\ Len(log[s]) = Len(LogOf[s]) + 1
           /\ \A i \in 1..Len(LogOf[s]) : LogOf[s][i] = log[s][i + 1]
           /\ lastIncludedIndex[s] = 0 /\ LastIndex(s) = Len(LogOf[s])
           /\ VirtualLogIdx(s, Len(log[s])) = Len(LogOf[s]) + 1
           /\ \A i \in 0..Len(LogOf[s]) : TermAt(s, i) = TermIn(LogOf[s], i)
           /\ getLastLog(s).Term = R!LastTerm(LogOf[s])
<1>1. log[s] \in Seq(Entry) /\ log[s] # <<>> /\ log[s][1].Term = -1
  BY Zenon DEF TypeOK, NoSnapshots
<1>2. /\ Tail(log[s]) \in Seq(Entry) /\ Len(Tail(log[s])) = Len(log[s]) - 1
      /\ \A i \in 1..Len(Tail(log[s])) : Tail(log[s])[i] = log[s][i + 1]
  BY <1>1
<1>3. LogOf[s] = Tail(log[s])
  <2>1. snapShot[s] = <<>>
    BY Zenon DEF NoSnapshots
  <2>2. <<>> \o Tail(log[s]) = Tail(log[s])
    BY <1>2
  <2> QED BY Zenon, <2>1, <2>2 DEF LogOf, WholeLog
<1>4. Len(log[s]) \in Nat /\ Len(log[s]) >= 1
  BY <1>1
<1>5. /\ lastIncludedIndex[s] = 0 /\ LastIndex(s) = Len(LogOf[s])
      /\ VirtualLogIdx(s, Len(log[s])) = Len(LogOf[s]) + 1
  BY <1>2, <1>3, <1>4 DEF NoSnapshots, LastIndex, VirtualLogIdx
<1>6. \A i \in 0..Len(LogOf[s]) : TermAt(s, i) = TermIn(LogOf[s], i)
  BY <1>1, <1>2, <1>3, <1>4, <1>5 DEF TermAt, RealLogIdx, TermIn
<1>7. getLastLog(s).Term = R!LastTerm(LogOf[s])
  <2>1. CASE Len(LogOf[s]) = 0
    BY <1>1, <1>2, <1>3, <1>4, <2>1 DEF getLastLog, R!LastTerm
  <2>2. CASE Len(LogOf[s]) > 0
    <3>1. LogOf[s][Len(LogOf[s])] = log[s][Len(log[s])]
      BY <1>2, <1>3, <1>4, <2>2
    <3> QED BY <2>2, <3>1 DEF getLastLog, R!LastTerm
  <2>3. Len(LogOf[s]) \in Nat
    BY <1>2, <1>3, <1>4
  <2> QED BY <2>1, <2>2, <2>3
<1> QED BY <1>2, <1>3, <1>4, <1>5, <1>6, <1>7

(* A log whose slice is not touched. *)
LEMMA SameLogs ==
    ASSUME UNCHANGED <<log, snapShot>>
    PROVE  LogOf' = LogOf
BY Zenon DEF LogOf, WholeLog

-----------------------------------------------------------------------------
(* What a step of LogReplication leaves standing in Raft                   *)

(* What a step has to show beside its step of LogReplication: what is new in
   its messages and indexes is true, the rest it leaves or resets. *)
OutcomeFaithful ==
    /\ NoSnapshots'
    /\ \A m \in net' \ net :
          /\ m.rpc = "AppendEntries" => CallFaithful(m)'
          /\ m.rpc = "AppendEntriesReply" /\ m.Success => <<m.to, m.Term, m.Match>> \in acks'
          /\ m.rpc = "RequestVote" => CandidateFaithful(m)'
    /\ \A s \in Servers :
          /\ state'[s] = Leader =>
                /\ currentTerm'[s] = currentTerm[s]
                /\ state[s] = Leader \/ currentTerm[s] \in DOMAIN leaderLog'
          /\ \/ commitIndex'[s] = commitIndex[s]
             \/ commitIndex'[s] = 0 /\ boots'[s] # boots[s]
             \/ /\ commitIndex'[s] > commitIndex[s]
                /\ R!Learned(LogOf[s], commitIndex[s], currentTerm[s])'
          /\ \A p \in Servers : R!Leads(s)' /\ matchIndex'[s][p] > 0 =>
                <<p, currentTerm'[s], matchIndex'[s][p]>> \in acks'

(* Where a call that ends at or before c begins, and what it carries. *)
LEMMA Within ==
    ASSUME NEW a \in Nat, NEW b \in Nat, NEW c \in Nat, a + b <= c
    PROVE  /\ a \in 0..c /\ (a = 0 \/ a \in 1..c)
           /\ \A i \in 1..b : a + i \in 1..c
OBVIOUS

(* A call made before the step is still part of its leader's log. *)
LEMMA CallStays ==
    ASSUME R!QuorumRules, TypeOK, R!Inv, [R!Next]_(R!vars),
           NEW m \in net, m.rpc = "AppendEntries", CallFaithful(m)
    PROVE  CallFaithful(m)'
<1> DEFINE t == m.Term
           n == m.PrevLogIndex + Len(m.Entries)
<1>1. /\ m.PrevLogIndex \in Nat /\ Len(m.Entries) \in Nat /\ m.LeaderCommit \in Nat
  BY MessageKinds DEF AppendEntriesMsg, Index
<1>2. /\ t \in R!Elected /\ n <= Len(leaderLog[t])
      /\ m.PrevLogTerm = TermIn(leaderLog[t], m.PrevLogIndex)
      /\ \A i \in 1..Len(m.Entries) : m.Entries[i] = leaderLog[t][m.PrevLogIndex + i]
      /\ m.LeaderCommit <= n /\ R!Learned(leaderLog[t], m.LeaderCommit, t)
  BY Zenon DEF CallFaithful, R!Elected
<1>3. R!Inv' /\ R!GrowStep
  BY Zenon, R!StepGrows
<1>4. Len(leaderLog[t]) \in Nat /\ t \in R!Elected' /\ Len(leaderLog'[t]) \in Nat
  BY <1>2, <1>3, R!LogTypes DEF R!Inv, R!GrowStep
<1>5. /\ Len(leaderLog[t]) <= Len(leaderLog'[t])
      /\ \A i \in 1..Len(leaderLog[t]) : leaderLog'[t][i] = leaderLog[t][i]
  BY Zenon, <1>2, <1>3 DEF R!GrowStep, R!Agree
<1>6. R!Learned(leaderLog[t], m.LeaderCommit, t)'
  BY Zenon, <1>1, <1>2, R!LeaderLearnedStays
<1>7. /\ m.PrevLogIndex = 0 \/ m.PrevLogIndex \in 1..Len(leaderLog[t])
      /\ \A i \in 1..Len(m.Entries) : m.PrevLogIndex + i \in 1..Len(leaderLog[t])
      /\ n <= Len(leaderLog'[t])
  <2>1. n <= Len(leaderLog[t]) /\ Len(leaderLog[t]) <= Len(leaderLog'[t])
    BY Zenon, <1>2, <1>5
  <2>2. n <= Len(leaderLog'[t])
    BY <1>1, <1>4, <2>1
  <2>3. m.PrevLogIndex + Len(m.Entries) <= Len(leaderLog[t])
    BY Zenon, <2>1
  <2> HIDE DEF n, t
  <2>4. /\ m.PrevLogIndex = 0 \/ m.PrevLogIndex \in 1..Len(leaderLog[t])
        /\ \A i \in 1..Len(m.Entries) : m.PrevLogIndex + i \in 1..Len(leaderLog[t])
    BY Zenon, <1>1, <1>4, <2>3, Within
  <2> QED BY Zenon, <2>2, <2>4
<1> HIDE DEF t
<1>8. m.PrevLogTerm = TermIn(leaderLog'[t], m.PrevLogIndex)
  BY Zenon, <1>2, <1>5, <1>7 DEF TermIn
<1>9. \A i \in 1..Len(m.Entries) : m.Entries[i] = leaderLog'[t][m.PrevLogIndex + i]
  BY Zenon, <1>2, <1>5, <1>7
<1> QED BY Zenon, <1>2, <1>4, <1>6, <1>7, <1>8, <1>9 DEF CallFaithful, R!Elected, t

(* A candidate that has not moved on keeps its log until its term has a
   leader. *)
LEMMA CandidateStays ==
    ASSUME R!QuorumRules, TypeOK, VoteMessagesSound, R!Inv, [R!Next]_(R!vars),
           NEW m \in net, m.rpc = "RequestVote", CandidateFaithful(m)
    PROVE  CandidateFaithful(m)'
<1> SUFFICES ASSUME m.Term = currentTerm'[m.from], m.Term \notin DOMAIN leaderLog'
             PROVE  /\ m.LastLogTerm = R!LastTerm(LogOf'[m.from])
                    /\ m.LastLogIndex = Len(LogOf'[m.from]) + 1
  BY Zenon DEF CandidateFaithful
<1>1. m.from \in Servers /\ m.Term \in Nat /\ m.Term <= currentTerm[m.from]
  BY Zenon, MessageKinds DEF RequestVoteMsg, Term, VoteMessagesSound
<1>2. R!Inv' /\ R!GrowStep
  BY Zenon, R!StepGrows
<1>3. currentTerm[m.from] \in Nat /\ currentTerm'[m.from] >= currentTerm[m.from]
  BY Zenon, <1>1, <1>2, R!LogTypes DEF R!Inv, R!GrowStep
<1>4. m.Term = currentTerm[m.from] /\ m.Term \notin DOMAIN leaderLog
  BY <1>1, <1>2, <1>3 DEF R!GrowStep, R!Elected
<1>5. LogOf'[m.from] = LogOf[m.from]
  BY Zenon, <1>1, R!CandidateKeeps DEF R!Elected
<1> QED BY Zenon, <1>4, <1>5 DEF CandidateFaithful

(* A step that is one of LogReplication and whose outcome is faithful keeps
   the invariant. *)
LEMMA StepKeeps ==
    ASSUME R!QuorumRules, TypeOK, VoteMessagesSound, ReplicationInv,
           [R!Next]_(R!vars), OutcomeFaithful
    PROVE  ReplicationInv'
<1>1. R!Inv /\ R!Inv' /\ R!GrowStep
  BY Zenon, R!StepGrows DEF ReplicationInv
<1>2. CallsFaithful'
  BY Zenon, <1>1, CallStays DEF ReplicationInv, CallsFaithful, OutcomeFaithful
<1>3. CandidatesFaithful'
  BY Zenon, <1>1, CandidateStays DEF ReplicationInv, CandidatesFaithful, OutcomeFaithful
<1>4. AnswersFaithful'
  BY Zenon, <1>1 DEF ReplicationInv, AnswersFaithful, OutcomeFaithful, R!GrowStep
<1>5. LeadersRecorded'
  BY Zenon, <1>1 DEF ReplicationInv, LeadersRecorded, OutcomeFaithful, R!GrowStep, R!Elected
<1>6. CommitsLearned'
  <2> SUFFICES ASSUME NEW s \in Servers
               PROVE  R!Learned(LogOf[s], commitIndex[s], currentTerm[s])'
    BY Zenon DEF CommitsLearned
  <2>1. CASE R!Learned(LogOf[s], commitIndex[s], currentTerm[s])'
    BY Zenon, <2>1
  <2>2. CASE commitIndex'[s] = 0
    BY Zenon, <2>2 DEF R!Learned
  <2>3. CASE commitIndex'[s] = commitIndex[s]
    <3>1. PICK n \in Nat : n = commitIndex[s]
      BY Zenon DEF TypeOK, Index
    <3>2. R!Learned(LogOf[s], n, currentTerm[s])'
      BY Zenon, <1>1, <3>1, R!LearnedStays DEF ReplicationInv, CommitsLearned
    <3> QED BY Zenon, <2>3, <3>1, <3>2
  <2> QED BY Zenon, <2>1, <2>2, <2>3 DEF OutcomeFaithful
<1> QED BY Zenon, <1>1, <1>2, <1>3, <1>4, <1>5, <1>6 DEF ReplicationInv, OutcomeFaithful

(* What leaders remember of their peers stays true if there is no new leader
   and nothing is added to it. *)
LEMMA MatchKept ==
    ASSUME R!QuorumRules, TypeOK, ReplicationInv, [R!Next]_(R!vars),
           DOMAIN leaderLog' = DOMAIN leaderLog,
           NEW s \in Servers, NEW p \in Servers, R!Leads(s)', matchIndex'[s][p] > 0,
           matchIndex'[s] = matchIndex[s] \/ matchIndex'[s][p] = 0
    PROVE  <<p, currentTerm'[s], matchIndex'[s][p]>> \in acks'
<1>1. R!Leads(s) /\ currentTerm'[s] = currentTerm[s]
  BY Zenon, R!LeadsStays DEF ReplicationInv, R!Elected
<1>2. matchIndex'[s][p] = matchIndex[s][p]
  OBVIOUS
<1>3. acks \subseteq acks'
  BY Zenon, R!StepGrows DEF ReplicationInv, R!GrowStep
<1> QED BY Zenon, <1>1, <1>2, <1>3 DEF ReplicationInv, AnswersFaithful

(* There are no snapshots after a step that takes and sends none. *)
LEMMA NoSnapshotsKept ==
    ASSUME NoSnapshots, UNCHANGED <<snapShot, lastIncludedIndex>>,
           \A s \in Servers : log'[s][1] = log[s][1],
           \A m \in net' \ net : m.rpc \in {"RequestVote", "RequestVoteReply",
                                            "AppendEntries", "AppendEntriesReply"}
    PROVE  NoSnapshots'
BY Zenon DEF NoSnapshots

-----------------------------------------------------------------------------
(* Steps that touch no log                                                 *)

(* No log, vote or commit changes; at most one server learns of a later term,
   volatile indexes stay or are reset, and of the new messages only a leader's
   calls say anything about logs. *)
CalmStep ==
    /\ UNCHANGED <<log, snapShot, lastIncludedIndex, historyVars>>
    /\ \/ currentTerm' = currentTerm
       \/ \E v \in Servers, t \in Nat :
             t > currentTerm[v] /\ currentTerm' = [currentTerm EXCEPT ![v] = t]
    /\ \A s \in Servers :
          /\ state'[s] = Leader => state[s] = Leader /\ currentTerm'[s] = currentTerm[s]
          /\ \/ commitIndex'[s] = commitIndex[s]
             \/ commitIndex'[s] = 0 /\ boots'[s] # boots[s]
          /\ matchIndex'[s] = matchIndex[s] \/ \A p \in Servers : matchIndex'[s][p] = 0
    /\ \A m \in net' \ net :
          \/ m.rpc = "RequestVoteReply"
          \/ m.rpc = "AppendEntriesReply" /\ ~m.Success
          \/ m.rpc = "AppendEntries" /\ CallFaithful(m)

(* Learning of a term is all that LogReplication sees of such a step. *)
LEMMA CalmKeeps ==
    ASSUME R!QuorumRules, TypeOK, VoteMessagesSound, ReplicationInv, CalmStep
    PROVE  [R!Next]_(R!vars) /\ OutcomeFaithful
<1>1. LogOf' = LogOf /\ UNCHANGED <<ballots, committed, leaderLog, acks>>
  BY Zenon, SameLogs DEF CalmStep, historyVars
<1>2. [R!Next]_(R!vars)
  <2>1. CASE currentTerm' = currentTerm
    BY Zenon, <1>1, <2>1 DEF R!vars
  <2>2. CASE currentTerm' # currentTerm
    <3>1. PICK v \in Servers, t \in Nat :
             t > currentTerm[v] /\ currentTerm' = [currentTerm EXCEPT ![v] = t]
      BY Zenon, <2>2 DEF CalmStep
    <3>2. currentTerm'[v] = t
      BY Zenon, <3>1 DEF TypeOK
    <3>3. R!LearnTerm(v)
      BY Zenon, <1>1, <3>1, <3>2 DEF R!LearnTerm
    <3> QED BY Zenon, <3>3 DEF R!Next
  <2> QED BY Zenon, <2>1, <2>2
<1>3. NoSnapshots'
  BY Zenon, NoSnapshotsKept DEF ReplicationInv, CalmStep
<1>4. \A m : CallFaithful(m)' <=> CallFaithful(m)
  BY Zenon, <1>1 DEF CallFaithful, R!Learned
<1>5. \A s, p \in Servers : R!Leads(s)' /\ matchIndex'[s][p] > 0 =>
         <<p, currentTerm'[s], matchIndex'[s][p]>> \in acks'
  BY Zenon, <1>1, <1>2, MatchKept DEF CalmStep
<1>6. OutcomeFaithful
  BY Zenon, <1>3, <1>4, <1>5 DEF OutcomeFaithful, CalmStep
<1> QED BY Zenon, <1>2, <1>6

(* Whoever leads has the log of its term, and knows its commits. *)
LEMMA LeaderView ==
    ASSUME TypeOK, LeadersElected, ReplicationInv, NEW s \in Servers, state[s] = Leader
    PROVE  /\ currentTerm[s] \in DOMAIN leaderLog /\ R!Leads(s)
           /\ LogOf[s] = leaderLog[currentTerm[s]]
<1>1. currentTerm[s] \in DOMAIN leaderLog
  BY Zenon DEF ReplicationInv, LeadersRecorded
<1>2. R!Voters(s, currentTerm[s]) = VotersOf(s, currentTerm[s])
  BY Zenon DEF R!Voters, VotersOf
<1>3. VotersOf(s, currentTerm[s]) \in Majorities
  BY Zenon DEF LeadersElected, VotersOf, Majorities
<1>4. R!Leads(s)
  BY Zenon, <1>1, <1>2, <1>3 DEF R!Leads, R!Elected
<1> QED BY Zenon, <1>1, <1>4 DEF ReplicationInv, R!Inv, R!LeadersOwnTheirTerm

(* commitIndex points into the log. *)
LEMMA CommitInLog ==
    ASSUME TypeOK, ReplicationInv, NEW s \in Servers
    PROVE  commitIndex[s] \in Nat /\ commitIndex[s] <= Len(LogOf[s])
<1>1. commitIndex[s] \in Nat /\ Len(LogOf[s]) \in Nat
  BY Zenon, LogView DEF ReplicationInv, TypeOK, Index
<1>2. R!Learned(LogOf[s], commitIndex[s], currentTerm[s])
  BY Zenon DEF ReplicationInv, CommitsLearned
<1> QED BY <1>1, <1>2 DEF R!Learned, R!Agree

(* A heartbeat carries the end of the leader's log. *)
LEMMA HeartbeatFaithful ==
    ASSUME ElectionInv, ReplicationInv, NEW s \in Servers, NEW p \in Servers,
           state[s] = Leader
    PROVE  HeartbeatTo(s, p).rpc = "AppendEntries" /\ CallFaithful(HeartbeatTo(s, p))
<1> DEFINE l == LogOf[s]
           n == Max({nextIndex[s][p] - 1, 0})
           e == SubSeq(log[s], n + 2, Len(log[s]))
<1>1. TypeOK /\ NoSnapshots
  BY Zenon DEF ElectionInv, ReplicationInv
<1>2. /\ log[s] \in Seq(Entry) /\ Len(l) \in Nat /\ Len(log[s]) = Len(l) + 1
      /\ \A i \in 1..Len(l) : l[i] = log[s][i + 1]
      /\ lastIncludedIndex[s] = 0
      /\ \A i \in 0..Len(l) : TermAt(s, i) = TermIn(l, i)
  BY Zenon, <1>1, LogView DEF TypeOK
<1>3. n \in Nat /\ n <= Len(l)
  <2>1. nextIndex[s][p] \in Nat
    BY Zenon, <1>1 DEF TypeOK, Index
  <2>2. nextIndex[s][p] <= Len(log[s]) + lastIncludedIndex[s]
    BY Zenon DEF ElectionInv, NextIndexInLog, VirtualLogIdx
  <2>3. nextIndex[s][p] - 1 \in Int /\ nextIndex[s][p] - 1 <= Len(l)
    BY <1>2, <2>1, <2>2
  <2>4. n = IF nextIndex[s][p] - 1 >= 0 THEN nextIndex[s][p] - 1 ELSE 0
    BY <2>3, MaxMinPair
  <2> QED BY <1>2, <2>3, <2>4
<1>4. /\ currentTerm[s] \in DOMAIN leaderLog /\ l = leaderLog[currentTerm[s]]
  BY Zenon, <1>1, LeaderView DEF ElectionInv
<1>5. commitIndex[s] \in Nat /\ commitIndex[s] <= Len(l)
      /\ R!Learned(l, commitIndex[s], currentTerm[s])
  BY Zenon, <1>1, CommitInLog DEF ReplicationInv, CommitsLearned
<1> HIDE DEF n, l
<1>6. /\ Len(e) = Len(l) - n
      /\ \A i \in 1..Len(l) - n : e[i] = log[s][n + 1 + i]
  BY <1>2, <1>3
<1>7. \A i \in 1..Len(l) - n : e[i] = l[n + i]
  BY <1>2, <1>3, <1>6
<1> DEFINE h == [rpc |-> "AppendEntries", from |-> s, to |-> p, boot |-> boots[s],
                 Term |-> currentTerm[s], PrevLogIndex |-> n, PrevLogTerm |-> TermIn(l, n),
                 Entries |-> e, LeaderCommit |-> commitIndex[s]]
<1>8. HeartbeatTo(s, p) = h
  <2>1. ~(n < lastIncludedIndex[s]) /\ TermAt(s, n) = TermIn(l, n)
    BY <1>2, <1>3
  <2>2. RealLogIdx(s, n) + 2 = n + 2
    BY <1>2, <1>3 DEF RealLogIdx
  <2> QED BY Zenon, <2>1, <2>2 DEF HeartbeatTo, n
<1>9. n + Len(e) = Len(l)
  BY <1>2, <1>3, <1>6
<1> HIDE DEF e
<1>10. CallFaithful(h)
  BY <1>4, <1>5, <1>6, <1>7, <1>9 DEF CallFaithful
<1> QED BY <1>8, <1>10

(* One server joins the term t, or stays in it: what a calm step may do to
   the terms. *)
LEMMA OneJoins ==
    ASSUME TypeOK, NEW v \in Servers, NEW t \in Nat, t >= currentTerm[v],
           currentTerm' = [currentTerm EXCEPT ![v] = t]
    PROVE  /\ \/ currentTerm' = currentTerm
              \/ \E w \in Servers, u \in Nat :
                    u > currentTerm[w] /\ currentTerm' = [currentTerm EXCEPT ![w] = u]
           /\ currentTerm'[v] = t /\ \A s \in Servers \ {v} : currentTerm'[s] = currentTerm[s]
<1>1. currentTerm[v] \in Nat
  BY Zenon DEF TypeOK, Term
<1>2. CASE t = currentTerm[v]
  BY Zenon, <1>2 DEF TypeOK
<1>3. CASE t > currentTerm[v]
  BY Zenon, <1>3 DEF TypeOK
<1>4. t = currentTerm[v] \/ t > currentTerm[v]
  BY <1>1
<1> QED BY Zenon, <1>2, <1>3, <1>4

(* A restart is calm: what was persisted is current. *)
LEMMA CalmReboot ==
    ASSUME TypeOK, NoSnapshots, NEW s \in Servers, NEW t \in Nat, NEW v, t >= currentTerm[s],
           Reboot(s, Image(s, t, v)), net' \subseteq net
    PROVE  CalmStep
<1>1. UNCHANGED <<log, snapShot, lastIncludedIndex, historyVars>>
  BY Zenon DEF Reboot, Image, TypeOK
<1>2. currentTerm' = [currentTerm EXCEPT ![s] = t] /\ lastIncludedIndex[s] = 0
  BY Zenon DEF Reboot, Image, NoSnapshots
<1>3. \A r \in Servers : /\ state'[r] = IF r = s THEN Follower ELSE state[r]
                         /\ commitIndex'[r] = IF r = s THEN 0 ELSE commitIndex[r]
  BY Zenon, <1>2 DEF Reboot, Image, TypeOK
<1>8. boots'[s] # boots[s]
  BY DEF Reboot, TypeOK
<1>4. \A r \in Servers : matchIndex'[r] = IF r = s THEN [p \in Servers |-> 0] ELSE matchIndex[r]
  BY Zenon, <1>2 DEF Reboot, Image, TypeOK
<1>5. \A r \in Servers : state'[r] = Leader => r # s
  BY <1>3 DEF Leader, Follower
<1>6. /\ \/ currentTerm' = currentTerm
         \/ \E w \in Servers, u \in Nat :
               u > currentTerm[w] /\ currentTerm' = [currentTerm EXCEPT ![w] = u]
      /\ \A r \in Servers \ {s} : currentTerm'[r] = currentTerm[r]
  BY Zenon, <1>2, OneJoins
<1>7. \A r \in Servers :
         /\ state'[r] = Leader => state[r] = Leader /\ currentTerm'[r] = currentTerm[r]
         /\ commitIndex'[r] = commitIndex[r] \/ (commitIndex'[r] = 0 /\ boots'[r] # boots[r])
         /\ matchIndex'[r] = matchIndex[r] \/ \A p \in Servers : matchIndex'[r][p] = 0
  BY <1>3, <1>4, <1>5, <1>6, <1>8
<1> QED BY Zenon, <1>1, <1>6, <1>7 DEF CalmStep

(* The ticker's timeouts other than the start of an election, and restarts. *)
LEMMA CalmTicker ==
    ASSUME ElectionInv, ReplicationInv, NEW s \in Servers,
           \/ StartPreVote(s) \/ sendPreVote(s)
           \/ \E P \in SUBSET (Servers \ {s}) : doLeader(s, P)
           \/ Restart(s)
    PROVE  CalmStep
<1>1. TypeOK /\ NoSnapshots
  BY Zenon DEF ElectionInv, ReplicationInv
<1>2. CASE StartPreVote(s) \/ sendPreVote(s)
  <2>1. UNCHANGED <<persistentVars, commitIndex, leaderVars, net, historyVars>>
    BY Zenon, <1>2 DEF StartPreVote, sendPreVote
  <2>2. \A r \in Servers : state'[r] = Leader => state[r] = Leader
    BY <1>1, <1>2 DEF StartPreVote, sendPreVote, TypeOK, Leader, PreCandidate, Candidate
  <2> QED BY Zenon, <2>1, <2>2 DEF CalmStep, persistentVars, leaderVars
<1>3. ASSUME NEW P \in SUBSET (Servers \ {s}), doLeader(s, P)
      PROVE  CalmStep
  <2>1. /\ state[s] = Leader /\ net' = net \cup {HeartbeatTo(s, p) : p \in P}
        /\ UNCHANGED <<persistentVars, state, commitIndex, leaderVars, historyVars>>
    BY Zenon, <1>3 DEF doLeader, Send
  <2>2. \A p \in P : HeartbeatTo(s, p).rpc = "AppendEntries" /\ CallFaithful(HeartbeatTo(s, p))
    BY Zenon, <2>1, HeartbeatFaithful
  <2> QED BY Zenon, <2>1, <2>2 DEF CalmStep, persistentVars, leaderVars
<1>4. CASE Restart(s)
  <2>1. Reboot(s, Image(s, currentTerm[s], votedFor[s])) /\ net' = net
    BY Zenon, <1>4, RebootImage
  <2>2. currentTerm[s] \in Nat
    BY Zenon, <1>1 DEF TypeOK, Term
  <2> QED BY <1>1, <2>1, <2>2, CalmReboot
<1> QED BY Zenon, <1>2, <1>3, <1>4

(* A handler that leaves logs and indexes alone is calm if its server stops
   leading when it joins a later term. *)
LEMMA CalmJoin ==
    ASSUME TypeOK, NEW v \in Servers, NEW t \in Nat, t >= currentTerm[v],
           currentTerm' = [currentTerm EXCEPT ![v] = t],
           UNCHANGED <<log, snapShot, lastIncludedIndex, commitIndex, matchIndex, historyVars>>,
           \A s \in Servers : state'[s] = Leader => state[s] = Leader,
           state'[v] = Leader => t = currentTerm[v],
           \A m \in net' \ net : \/ m.rpc = "RequestVoteReply"
                                 \/ m.rpc = "AppendEntriesReply" /\ ~m.Success
    PROVE  CalmStep
<1>1. /\ \/ currentTerm' = currentTerm
         \/ \E w \in Servers, u \in Nat :
               u > currentTerm[w] /\ currentTerm' = [currentTerm EXCEPT ![w] = u]
      /\ currentTerm'[v] = t /\ \A s \in Servers \ {v} : currentTerm'[s] = currentTerm[s]
  BY Zenon, OneJoins
<1>2. \A s \in Servers : state'[s] = Leader => currentTerm'[s] = currentTerm[s]
  BY Zenon, <1>1
<1> QED BY Zenon, <1>1, <1>2 DEF CalmStep

(* The same without a new term. *)
LEMMA CalmStay ==
    ASSUME currentTerm' = currentTerm,
           UNCHANGED <<log, snapShot, lastIncludedIndex, commitIndex, matchIndex, historyVars>>,
           \A s \in Servers : state'[s] = Leader => state[s] = Leader,
           \A m \in net' \ net : \/ m.rpc = "RequestVoteReply"
                                 \/ m.rpc = "AppendEntriesReply" /\ ~m.Success
    PROVE  CalmStep
BY Zenon DEF CalmStep

(* A vote that is refused, ... *)
LEMMA CalmRefusal ==
    ASSUME TypeOK, NEW m \in net, RequestVote(m), ~Grants(m.to, m)
    PROVE  CalmStep
<1> DEFINE r == m.to
<1>1. m \in RequestVoteMsg /\ r \in Servers /\ m.Term \in Nat /\ currentTerm[r] \in Nat
  BY Zenon, MessageKinds DEF RequestVote, RequestVoteMsg, Term, TypeOK
<1>2. \A n \in net' \ net : n.rpc = "RequestVoteReply"
  BY DEF RequestVote, Reply, VoteReply
<1>3. UNCHANGED <<commitIndex, matchIndex, committed, leaderLog, acks>>
  BY Zenon DEF RequestVote, leaderVars
<1>4. CASE m.Term < currentTerm[r]
  <2>1. UNCHANGED <<persistentVars, state, ballots>>
    BY Zenon, <1>4 DEF RequestVote
  <2> QED BY Zenon, <1>2, <1>3, <2>1, CalmStay DEF persistentVars, historyVars
<1>5. CASE m.Term >= currentTerm[r]
  <2>1. /\ currentTerm' = [currentTerm EXCEPT ![r] = m.Term]
        /\ state' = [state EXCEPT ![r] = IF m.Term > currentTerm[r] THEN Follower ELSE @]
        /\ ballots' = ballots \cup {}
        /\ UNCHANGED <<log, snapShot, lastIncludedIndex>>
    <3>1. ~(m.Term < currentTerm[r])
      BY <1>1, <1>5
    <3>2. /\ currentTerm' = [currentTerm EXCEPT ![r] = m.Term]
          /\ state' = [state EXCEPT ![r] =
                IF Grants(r, m) \/ m.Term > currentTerm[r] THEN Follower ELSE @]
          /\ ballots' = ballots \cup (IF Grants(r, m) THEN {<<r, m.Term, m.from>>} ELSE {})
          /\ UNCHANGED <<log, snapShot, lastIncludedIndex>>
      BY Zenon, <3>1 DEF RequestVote
    <3> QED BY Zenon, <3>2
  <2>2. /\ \A s \in Servers : state'[s] = Leader => state[s] = Leader
        /\ state'[r] = Leader => m.Term = currentTerm[r]
    BY <1>1, <1>5, <2>1 DEF TypeOK, Leader, Follower
  <2>3. UNCHANGED <<log, snapShot, lastIncludedIndex, commitIndex, matchIndex, historyVars>>
    BY Zenon, <1>3, <2>1 DEF historyVars
  <2> QED BY Zenon, <1>1, <1>2, <1>5, <2>1, <2>2, <2>3, CalmJoin
<1> QED BY <1>1, <1>4, <1>5

(* ... entries that are refused, ... *)
LEMMA CalmReject ==
    ASSUME TypeOK, NEW m \in net, RejectAppendEntries(m)
    PROVE  CalmStep
<1> DEFINE r == m.to
<1>1. m \in AppendEntriesMsg /\ r \in Servers /\ m.Term \in Nat /\ currentTerm[r] \in Nat
  BY Zenon, MessageKinds DEF RejectAppendEntries, AppendEntriesMsg, Term, TypeOK
<1>2. \A n \in net' \ net : n.rpc = "AppendEntriesReply" /\ ~n.Success
  BY DEF RejectAppendEntries, Reply, AppendReply
<1>3. UNCHANGED <<commitIndex, matchIndex, historyVars>>
  BY Zenon DEF RejectAppendEntries, leaderVars
<1>4. CASE m.Term < currentTerm[r]
  <2>1. UNCHANGED <<persistentVars, state>>
    BY Zenon, <1>4 DEF RejectAppendEntries
  <2> QED BY Zenon, <1>2, <1>3, <2>1, CalmStay DEF persistentVars
<1>5. CASE m.Term >= currentTerm[r]
  <2>1. LearnTerm(r, m.Term) /\ UNCHANGED <<log, snapShot, lastIncludedIndex>>
    BY <1>1, <1>5 DEF RejectAppendEntries
  <2>2. /\ \A s \in Servers : state'[s] = Leader => state[s] = Leader
        /\ state'[r] = Leader => m.Term = currentTerm[r]
        /\ currentTerm' = [currentTerm EXCEPT ![r] = m.Term]
    BY <1>1, <1>5, <2>1 DEF TypeOK, Leader, Follower, LearnTerm
  <2> QED BY Zenon, <1>1, <1>2, <1>3, <1>5, <2>1, <2>2, CalmJoin
<1> QED BY <1>1, <1>4, <1>5

(* ... its answer, ... *)
LEMMA CalmRefused ==
    ASSUME TypeOK, NEW m \in net, AppendRefused(m)
    PROVE  CalmStep
<1> DEFINE s == m.from
<1>1. m \in AppendEntriesReplyMsg /\ s \in Servers /\ m.ReplyTerm \in Nat /\ currentTerm[s] \in Nat
  BY Zenon, MessageKinds DEF AppendRefused, AppendEntriesReplyMsg, Term, TypeOK
<1>2. /\ net' = net \ {m} /\ UNCHANGED <<commitIndex, matchIndex, historyVars>>
  BY Zenon DEF AppendRefused
<1>3. CASE m.boot = boots[s] /\ m.Term = currentTerm[s] /\ m.ReplyTerm > currentTerm[s]
  <2>1. LearnTerm(s, m.ReplyTerm) /\ UNCHANGED <<log, snapShot, lastIncludedIndex>>
    BY Zenon, <1>3 DEF AppendRefused
  <2>2. /\ \A r \in Servers : state'[r] = Leader => state[r] = Leader
        /\ state'[s] = Leader => m.ReplyTerm = currentTerm[s]
        /\ currentTerm' = [currentTerm EXCEPT ![s] = m.ReplyTerm]
    BY <1>1, <1>3, <2>1 DEF TypeOK, Leader, Follower, LearnTerm
  <2>3. m.ReplyTerm >= currentTerm[s]
    BY <1>1, <1>3
  <2> QED BY Zenon, <1>1, <1>2, <2>1, <2>2, <2>3, CalmJoin
<1>4. CASE ~(m.boot = boots[s] /\ m.Term = currentTerm[s] /\ m.ReplyTerm > currentTerm[s])
  <2>1. UNCHANGED <<persistentVars, state>>
    BY Zenon, <1>4 DEF AppendRefused
  <2> QED BY Zenon, <1>2, <2>1, CalmStay DEF persistentVars
<1> QED BY Zenon, <1>3, <1>4

(* A reply that makes its candidate the leader. *)
Wins(m) ==
    /\ m.boot = boots[m.from] /\ m.Term = currentTerm[m.from]
    /\ m.VoteGranted /\ state[m.from] >= Candidate /\ ~Majority(voteCount[m.from])
    /\ Majority(voteCount[m.from] + 1)

(* ... a reply to a candidate that does not make it the leader, ... *)
LEMMA CalmCount ==
    ASSUME TypeOK, NEW m \in net, sendRequestVote(m), ~Wins(m)
    PROVE  CalmStep
<1> DEFINE s == m.from
<1>1. /\ net' = net \ {m} /\ UNCHANGED <<persistentVars, commitIndex, ballots, committed>>
  BY Zenon DEF sendRequestVote
<1>2. UNCHANGED <<leaderVars, leaderLog, acks>>
  BY Zenon DEF sendRequestVote, Wins
<1>3. state' = [state EXCEPT ![s] =
         IF (m.boot = boots[s] /\ m.Term = currentTerm[s]) /\ ~m.VoteGranted THEN Follower ELSE @]
  BY Zenon DEF sendRequestVote, Wins
<1>4. \A r \in Servers : state'[r] = Leader => state[r] = Leader
  BY <1>3 DEF TypeOK, Leader, Follower
<1> QED BY Zenon, <1>1, <1>2, <1>4, CalmStay DEF persistentVars, leaderVars, historyVars

(* ... and a crash inside a handler. *)
LEMMA CalmHandler ==
    ASSUME ElectionInv, ReplicationInv, NEW m \in net,
           \/ RequestVote(m) /\ ~Grants(m.to, m)
           \/ sendRequestVote(m) /\ ~Wins(m)
           \/ RejectAppendEntries(m) \/ AppendRefused(m) \/ CrashBetweenPersists(m)
    PROVE  CalmStep
<1>1. TypeOK /\ NoSnapshots
  BY Zenon DEF ElectionInv, ReplicationInv
<1>2. CASE CrashBetweenPersists(m)
  <2>1. /\ m.to \in Servers /\ m.Term \in Term /\ m.Term > currentTerm[m.to]
        /\ Reboot(m.to, Image(m.to, m.Term, Nil)) /\ net' = net \ {m}
    BY Zenon, <1>2, RebootImage
  <2>2. m.Term \in Nat /\ m.Term >= currentTerm[m.to]
    BY <1>1, <2>1 DEF Term, TypeOK
  <2> QED BY Zenon, <1>1, <2>1, <2>2, CalmReboot
<1> QED BY Zenon, <1>1, <1>2, CalmRefusal, CalmReject, CalmRefused, CalmCount

(* Every step is calm, or starts an election, grants a vote, makes a leader,
   appends a command, takes entries, or hears that a peer took them. *)
LEMMA StepCases ==
    ASSUME MaxSnapshot = 0, ElectionInv, ReplicationInv, Next
    PROVE  \/ CalmStep
           \/ \E s \in Servers : \/ \E P \in SUBSET (Servers \ {s}) : StartElection(s, P)
                                 \/ \E c \in Commands : Start(s, c)
           \/ \E m \in net : \/ RequestVote(m) /\ Grants(m.to, m)
                             \/ sendRequestVote(m) /\ Wins(m)
                             \/ AcceptAppendEntries(m) \/ AppendSucceeded(m)
<1>1. ASSUME NEW m \in net
      PROVE  ~handleInstallSnapshot(m) /\ ~InstallSnapshot(m) /\ ~SnapshotAnswered(m)
  BY Zenon DEF ReplicationInv, NoSnapshots, handleInstallSnapshot, InstallSnapshot, SnapshotAnswered
<1>2. 1..MaxSnapshot = {}
  OBVIOUS
<1>3. ASSUME NEW s \in Servers,
             \/ StartPreVote(s) \/ sendPreVote(s)
             \/ \E P \in SUBSET (Servers \ {s}) : doLeader(s, P)
             \/ Restart(s)
      PROVE  CalmStep
  BY Zenon, <1>3, CalmTicker
<1>4. ASSUME NEW m \in net, Handle(m)
      PROVE  \/ CalmStep
             \/ RequestVote(m) /\ Grants(m.to, m)
             \/ sendRequestVote(m) /\ Wins(m)
             \/ AcceptAppendEntries(m) \/ AppendSucceeded(m)
  <2>1. CASE RequestVote(m)
    BY Zenon, <2>1, CalmHandler
  <2>2. CASE sendRequestVote(m)
    BY Zenon, <2>2, CalmHandler
  <2>3. CASE RejectAppendEntries(m) \/ AppendRefused(m) \/ CrashBetweenPersists(m)
    BY Zenon, <2>3, CalmHandler
  <2> QED BY Zenon, <1>1, <1>4, <2>1, <2>2, <2>3 DEF Handle
<1> QED BY Zenon, <1>2, <1>3, <1>4 DEF Next

-----------------------------------------------------------------------------
(* Elections                                                               *)

(* A server that starts an election votes for itself. *)
LEMMA ElectionKeeps ==
    ASSUME R!QuorumRules, ElectionInv, ReplicationInv, NEW s \in Servers,
           NEW P \in SUBSET (Servers \ {s}), StartElection(s, P)
    PROVE  [R!Next]_(R!vars) /\ OutcomeFaithful
<1> DEFINE t == currentTerm[s] + 1
<1>1. TypeOK /\ NoSnapshots /\ VoteMessagesSound /\ R!Inv /\ currentTerm[s] \in Nat
  BY Zenon DEF ElectionInv, ReplicationInv, TypeOK, Term
<1>2. /\ currentTerm' = [currentTerm EXCEPT ![s] = t]
      /\ ballots' = ballots \cup {<<s, t, s>>}
      /\ net' = net \cup {RequestVoteCall(s, p) : p \in P}
      /\ UNCHANGED <<log, snapShot, lastIncludedIndex, state, commitIndex, matchIndex,
                     committed, leaderLog, acks>>
  BY Zenon DEF StartElection, Send, leaderVars
<1>3. currentTerm'[s] = t /\ \A r \in Servers \ {s} : currentTerm'[r] = currentTerm[r]
  BY Zenon, <1>1, <1>2 DEF TypeOK
<1>4. LogOf' = LogOf
  BY Zenon, <1>2, SameLogs
<1>5. R!Vote(s, s, t)
  <2>1. \A b \in ballots : b[1] = s /\ b[2] = t => b[3] = s
    <3>1. \A b \in ballots : b[2] \in Nat /\ b[2] <= currentTerm[b[1]]
      BY Zenon, <1>1 DEF R!Inv, R!BallotsBind, R!TypeOK
    <3> QED BY <1>1, <3>1
  <2>2. R!UpToDate(LogOf[s], LogOf[s])
    BY <1>1, LogView DEF R!UpToDate
  <2>3. t \in Nat /\ t >= currentTerm[s]
    BY <1>1
  <2> HIDE DEF t
  <2> QED BY <1>2, <1>3, <1>4, <2>1, <2>2, <2>3 DEF R!Vote
<1>6. [R!Next]_(R!vars)
  BY Zenon, <1>3, <1>5 DEF R!Next
<1>7. ASSUME NEW m \in net', m \notin net
      PROVE  m.rpc = "RequestVote" /\ CandidateFaithful(m)'
  <2>1. getLastLog(s).Term = R!LastTerm(LogOf[s]) /\ VirtualLogIdx(s, Len(log[s])) = Len(LogOf[s]) + 1
    BY Zenon, <1>1, LogView
  <2>2. /\ m.rpc = "RequestVote" /\ m.from = s
        /\ m.LastLogTerm = R!LastTerm(LogOf[s]) /\ m.LastLogIndex = Len(LogOf[s]) + 1
    BY <1>2, <1>7, <2>1 DEF RequestVoteCall
  <2> QED BY Zenon, <1>4, <2>2 DEF CandidateFaithful
<1>8. NoSnapshots'
  BY Zenon, <1>1, <1>2, <1>7, NoSnapshotsKept
<1>9. \A r, p \in Servers : R!Leads(r)' /\ matchIndex'[r][p] > 0 =>
         <<p, currentTerm'[r], matchIndex'[r][p]>> \in acks'
  BY Zenon, <1>1, <1>2, <1>6, MatchKept
<1>10. \A r \in Servers : state'[r] = Leader =>
          state[r] = Leader /\ currentTerm'[r] = currentTerm[r]
  BY <1>2, <1>3 DEF StartElection, Leader, Candidate
<1>11. OutcomeFaithful
  BY Zenon, <1>2, <1>7, <1>8, <1>9, <1>10 DEF OutcomeFaithful
<1> QED BY Zenon, <1>6, <1>11

(* A granted vote is cast for a candidate whose log is up to date. *)
LEMMA GrantKeeps ==
    ASSUME R!QuorumRules, ElectionInv, ReplicationInv, NEW m \in net,
           RequestVote(m), Grants(m.to, m)
    PROVE  [R!Next]_(R!vars) /\ OutcomeFaithful
<1> DEFINE r == m.to
           c == m.from
           t == m.Term
<1>1. TypeOK /\ NoSnapshots /\ VoteMessagesSound /\ R!Inv
  BY Zenon DEF ElectionInv, ReplicationInv
<1>2. /\ r \in Servers /\ c \in Servers /\ t \in Nat /\ m.rpc = "RequestVote"
      /\ m.LastLogTerm \in Int /\ m.LastLogIndex \in Nat
      /\ currentTerm[r] \in Nat /\ currentTerm[c] \in Nat
  <2>1. m \in RequestVoteMsg /\ m.rpc = "RequestVote"
    BY Zenon, <1>1, MessageKinds DEF RequestVote
  <2>2. currentTerm \in [Servers -> Nat]
    BY Zenon, <1>1 DEF TypeOK, Term
  <2> QED BY <2>1, <2>2 DEF RequestVoteMsg, Term, EntryTerm, Index
<1>3. c # r /\ t <= currentTerm[c] /\ t >= currentTerm[r]
  BY Zenon, <1>1, <1>2 DEF VoteMessagesSound, Grants
<1>4. /\ currentTerm' = [currentTerm EXCEPT ![r] = t]
      /\ ballots' = ballots \cup {<<r, t, c>>}
      /\ state' = [state EXCEPT ![r] = Follower]
      /\ UNCHANGED <<log, snapShot, lastIncludedIndex, commitIndex, matchIndex,
                     committed, leaderLog, acks>>
  <2>1. ~(t < currentTerm[r])
    BY <1>2, <1>3
  <2> QED BY Zenon, <2>1 DEF RequestVote, leaderVars
<1>5. \A n \in net' \ net : n.rpc = "RequestVoteReply"
  BY DEF RequestVote, Reply, VoteReply
<1>6. currentTerm'[r] = t /\ \A s \in Servers \ {r} : currentTerm'[s] = currentTerm[s]
  BY Zenon, <1>1, <1>2, <1>4 DEF TypeOK
<1>7. LogOf' = LogOf
  BY Zenon, <1>4, SameLogs
<1>8. R!Vote(r, c, t)
  <2>1. ASSUME NEW b \in ballots, b[1] = r, b[2] = t
        PROVE  b[3] = c
    <3>1. b[2] <= currentTerm[r] /\ (b[2] = currentTerm[r] => votedFor[r] = b[3]) /\ b[3] \in Servers
      BY Zenon, <1>1, <2>1 DEF ElectionInv, BallotsBind, TypeOK
    <3>2. t = currentTerm[r]
      BY <1>2, <1>3, <2>1, <3>1
    <3>3. votedFor[r] \in {Nil, c}
      BY <1>2, <3>2 DEF Grants
    <3> QED BY Zenon, <2>1, <3>1, <3>2, <3>3, NilAssumption
  <2>2. ASSUME t \notin R!Elected, t = currentTerm'[c]
        PROVE  R!UpToDate(LogOf[c], LogOf[r])
    <3>1. /\ m.LastLogTerm = R!LastTerm(LogOf[c])
          /\ m.LastLogIndex = Len(LogOf[c]) + 1
      BY Zenon, <1>2, <1>3, <1>6, <2>2 DEF ReplicationInv, CandidatesFaithful, CandidateFaithful, R!Elected
    <3>2. /\ getLastLog(r).Term = R!LastTerm(LogOf[r])
          /\ VirtualLogIdx(r, Len(log[r])) = Len(LogOf[r]) + 1
          /\ Len(LogOf[r]) \in Nat /\ Len(LogOf[c]) \in Nat
      BY Zenon, <1>1, <1>2, LogView
    <3>3. \/ m.LastLogTerm > getLastLog(r).Term
          \/ /\ m.LastLogTerm = getLastLog(r).Term
             /\ m.LastLogIndex >= VirtualLogIdx(r, Len(log[r]))
      BY Zenon DEF Grants, UpToDate
    <3> QED BY <3>1, <3>2, <3>3 DEF R!UpToDate
  <2>3. t <= currentTerm'[c]
    BY Zenon, <1>2, <1>3, <1>6
  <2> QED BY Zenon, <1>2, <1>3, <1>4, <1>6, <1>7, <2>1, <2>2, <2>3 DEF R!Vote
<1>9. [R!Next]_(R!vars)
  BY Zenon, <1>2, <1>6, <1>8 DEF R!Next
<1>10. NoSnapshots'
  BY Zenon, <1>1, <1>4, <1>5, NoSnapshotsKept
<1>11. \A s, p \in Servers : R!Leads(s)' /\ matchIndex'[s][p] > 0 =>
          <<p, currentTerm'[s], matchIndex'[s][p]>> \in acks'
  BY Zenon, <1>1, <1>4, <1>9, MatchKept
<1>12. \A s \in Servers : state'[s] = Leader =>
          state[s] = Leader /\ currentTerm'[s] = currentTerm[s]
  BY <1>1, <1>4, <1>6 DEF TypeOK, Leader, Follower
<1>13. OutcomeFaithful
  BY Zenon, <1>4, <1>5, <1>10, <1>11, <1>12 DEF OutcomeFaithful
<1> QED BY Zenon, <1>9, <1>13

(* A candidate with a majority of the votes becomes the leader of its term;
   the log it has then is the log of that term. *)
LEMMA WinKeeps ==
    ASSUME R!QuorumRules, ElectionInv, LeadersElected', ReplicationInv, NEW m \in net,
           sendRequestVote(m), Wins(m)
    PROVE  [R!Next]_(R!vars) /\ OutcomeFaithful
<1> DEFINE s == m.from
           t == currentTerm[s]
<1>1. TypeOK /\ NoSnapshots /\ VoteMessagesSound /\ R!Inv /\ s \in Servers
  BY Zenon, MessageKinds DEF ElectionInv, ReplicationInv
<1>2. /\ net' = net \ {m} /\ state' = [state EXCEPT ![s] = Leader]
      /\ matchIndex' = [matchIndex EXCEPT ![s] = [p \in Servers |-> 0]]
      /\ LeaderHas(s, WholeLog(s))
      /\ UNCHANGED <<persistentVars, commitIndex, ballots, committed>>
  BY Zenon DEF sendRequestVote, Wins
<1>3. LogOf' = LogOf /\ currentTerm' = currentTerm /\ WholeLog(s) = LogOf[s]
      /\ UNCHANGED <<log, snapShot, lastIncludedIndex>>
  BY Zenon, <1>1, <1>2, SameLogs DEF persistentVars, LogOf
<1>4. /\ leaderLog' = [u \in DOMAIN leaderLog \cup {t} |->
                          IF u = t THEN LogOf[s] ELSE leaderLog[u]]
      /\ acks' = acks \cup {<<s, t, Len(LogOf[s])>>}
  BY Zenon, <1>2, <1>3 DEF LeaderHas
<1>5. R!Voters(s, t) \in Majorities
  <2>1. state'[s] = Leader
    BY Zenon, <1>1, <1>2 DEF TypeOK
  <2>2. Majority(Cardinality(VotersOf(s, t)))
    BY Zenon, <1>1, <1>2, <1>3, <2>1 DEF LeadersElected, VotersOf, Majority
  <2>3. VotersOf(s, t) = R!Voters(s, t) /\ VotersOf(s, t) \in SUBSET Servers
    BY Zenon DEF VotersOf, R!Voters
  <2> QED BY Zenon, <2>2, <2>3 DEF Majorities
<1>6. [R!Next]_(R!vars)
  <2>1. CASE t \notin R!Elected
    <3>1. R!Win(s)
      BY Zenon, <1>2, <1>3, <1>4, <1>5, <2>1 DEF R!Win, R!Record, R!Elected
    <3> QED BY Zenon, <1>1, <3>1 DEF R!Next
  <2>2. CASE t \in R!Elected
    <3>1. R!Leads(s)
      BY Zenon, <1>5, <2>2 DEF R!Leads
    <3>2. LogOf[s] = leaderLog[t] /\ <<s, t, Len(LogOf[s])>> \in acks
      BY Zenon, <1>1, <3>1 DEF R!Inv, R!LeadersOwnTheirTerm
    <3>3. acks' = acks
      BY Zenon, <1>4, <3>2
    <3>4. leaderLog' = leaderLog
      <4>1. leaderLog = [u \in DOMAIN leaderLog |-> leaderLog[u]]
        BY Zenon, <1>1 DEF R!Inv, R!TypeOK, R!Elected
      <4>2. DOMAIN leaderLog \cup {t} = DOMAIN leaderLog
        BY Zenon, <2>2 DEF R!Elected
      <4> HIDE DEF t
      <4> QED BY Zenon, <1>4, <3>2, <4>1, <4>2
    <3> QED BY Zenon, <1>2, <1>3, <3>3, <3>4 DEF R!vars
  <2> QED BY Zenon, <2>1, <2>2
<1>7. ASSUME NEW r \in Servers, NEW p \in Servers, R!Leads(r)', matchIndex'[r][p] > 0
      PROVE  <<p, currentTerm'[r], matchIndex'[r][p]>> \in acks'
  <2>1. r # s /\ matchIndex'[r] = matchIndex[r]
    BY <1>1, <1>2, <1>7 DEF TypeOK
  <2>2. R!Leads(r)
    <3>1. R!Inv' /\ R!GrowStep
      BY Zenon, <1>1, <1>6, R!StepGrows
    <3>2. R!Leads(r) \/ currentTerm'[r] \notin R!Elected
      BY Zenon, <1>1, <1>7, <3>1, R!LeadsBefore DEF R!Inv
    <3>3. R!Voters(r, currentTerm[r]) \in Majorities /\ currentTerm[r] \in DOMAIN leaderLog \cup {t}
      BY Zenon, <1>2, <1>3, <1>4, <1>7 DEF R!Leads, R!Voters, R!Elected, Majorities, Majority
    <3>4. currentTerm[r] # t
      BY Zenon, <1>1, <1>5, <2>1, <3>3, R!OneLeader DEF R!Inv
    <3> QED BY Zenon, <1>3, <3>2, <3>3, <3>4 DEF R!Elected
  <2> QED BY Zenon, <1>3, <1>4, <1>7, <2>1, <2>2 DEF ReplicationInv, AnswersFaithful
<1>8. NoSnapshots'
  BY Zenon, <1>1, <1>2, <1>3, NoSnapshotsKept
<1>9. \A r \in Servers : state'[r] = Leader =>
         state[r] = Leader \/ currentTerm[r] \in DOMAIN leaderLog'
  BY Zenon, <1>1, <1>2, <1>3, <1>4 DEF TypeOK
<1>10. OutcomeFaithful
  BY Zenon, <1>2, <1>3, <1>7, <1>8, <1>9 DEF OutcomeFaithful
<1> QED BY Zenon, <1>6, <1>10

-----------------------------------------------------------------------------
(* Replication                                                             *)

(* Start appends to the log of the leader's term. *)
LEMMA StartKeeps ==
    ASSUME R!QuorumRules, ElectionInv, ReplicationInv, NEW s \in Servers,
           NEW c \in Commands, Start(s, c)
    PROVE  [R!Next]_(R!vars) /\ OutcomeFaithful
<1> DEFINE t == currentTerm[s]
           e == [Term |-> t, Command |-> c]
           l == Append(LogOf[s], e)
<1>1. TypeOK /\ NoSnapshots /\ VoteMessagesSound /\ R!Inv
  BY Zenon DEF ElectionInv, ReplicationInv
<1>2. /\ state[s] = Leader /\ log' = [log EXCEPT ![s] = Append(@, e)]
      /\ LeaderHas(s, WholeLog(s)')
      /\ UNCHANGED <<currentTerm, snapShot, lastIncludedIndex, state, commitIndex,
                     matchIndex, net, ballots, committed>>
  BY Zenon DEF Start
<1>3. t \in DOMAIN leaderLog /\ R!Leads(s) /\ LogOf[s] = leaderLog[t]
  BY Zenon, <1>1, <1>2, LeaderView DEF ElectionInv
<1>4. /\ LogOf[s] = Tail(log[s]) /\ LogOf[s] \in Seq(Entry) /\ log[s] \in Seq(Entry)
      /\ Len(log[s]) \in Nat /\ Len(log[s]) >= 1 /\ e \in Entry /\ snapShot[s] = <<>>
  <2>1. t \in Term
    BY Zenon, <1>1 DEF TypeOK
  <2>2. log[s] \in Seq(Entry) /\ log[s] # <<>>
    BY Zenon, <1>1 DEF TypeOK
  <2> QED BY <1>1, <2>1, <2>2, LogView DEF Entry, EntryTerm, NoSnapshots
<1>5. log'[s] = Append(log[s], e) /\ \A r \in Servers \ {s} : log'[r] = log[r]
  BY Zenon, <1>1, <1>2 DEF TypeOK
<1> HIDE DEF e
<1>6. WholeLog(s)' = l /\ Len(l) = Len(LogOf[s]) + 1
  <2>1. Tail(Append(log[s], e)) = Append(Tail(log[s]), e)
    BY <1>4
  <2>2. <<>> \o l = l /\ Len(l) = Len(LogOf[s]) + 1
    BY <1>4
  <2> QED BY Zenon, <1>2, <1>4, <1>5, <2>1, <2>2 DEF WholeLog
<1> HIDE DEF l
<1>7. LogOf' = [LogOf EXCEPT ![s] = l]
  <2>1. \A r \in Servers \ {s} : WholeLog(r)' = WholeLog(r)
    BY Zenon, <1>2, <1>5 DEF WholeLog
  <2> QED BY Zenon, <1>6, <2>1 DEF LogOf
<1>8. /\ leaderLog' = [u \in DOMAIN leaderLog \cup {t} |-> IF u = t THEN l ELSE leaderLog[u]]
      /\ acks' = acks \cup {<<s, t, Len(LogOf[s]) + 1>>}
  BY Zenon, <1>2, <1>6 DEF LeaderHas
<1>9. R!Extend(s, c)
  BY Zenon, <1>2, <1>3, <1>7, <1>8 DEF R!Extend, R!Record, R!Elected, l, e
<1>10. [R!Next]_(R!vars)
  BY Zenon, <1>9 DEF R!Next
<1>11. NoSnapshots'
  <2>1. \A r \in Servers : log'[r][1] = log[r][1]
    BY <1>4, <1>5
  <2> QED BY Zenon, <1>1, <1>2, <2>1, NoSnapshotsKept
<1>12. \A r, p \in Servers : R!Leads(r)' /\ matchIndex'[r][p] > 0 =>
          <<p, currentTerm'[r], matchIndex'[r][p]>> \in acks'
  <2>1. DOMAIN leaderLog' = DOMAIN leaderLog
    BY Zenon, <1>3, <1>8
  <2> QED BY Zenon, <1>1, <1>2, <1>10, <2>1, MatchKept
<1>13. OutcomeFaithful
  BY Zenon, <1>2, <1>11, <1>12 DEF OutcomeFaithful
<1> QED BY Zenon, <1>10, <1>13

(* r agrees with the leader's log up to any entry of the same term. *)
LEMMA SameTermAgree ==
    ASSUME R!Inv, NEW r \in Servers, NEW t \in R!Elected, NEW i \in 0..Len(LogOf[r]),
           i <= Len(leaderLog[t]), TermIn(LogOf[r], i) = TermIn(leaderLog[t], i)
    PROVE  R!Agree(LogOf[r], leaderLog[t], i)
<1>1. /\ LogOf[r] \in Seq(R!Entry) /\ leaderLog[t] \in Seq(R!Entry)
      /\ Len(LogOf[r]) \in Nat /\ Len(leaderLog[t]) \in Nat
  BY Zenon, R!LogTypes DEF R!Inv
<1>2. CASE i = 0
  BY <1>1, <1>2 DEF R!Agree
<1>3. CASE i > 0
  <2>1. i \in 1..Len(LogOf[r]) /\ i \in 1..Len(leaderLog[t])
    BY <1>1, <1>3
  <2>2. LogOf[r][i].Term = leaderLog[t][i].Term
    BY <2>1 DEF TermIn
  <2>3. /\ R!FromLeaders(LogOf[r], currentTerm[r], leaderLog)
        /\ R!FromLeaders(leaderLog[t], t, leaderLog)
    BY Zenon DEF R!Inv, R!LogsFromLeaders
  <2> QED BY Zenon, <1>1, <2>1, <2>2, <2>3, R!Matching
<1> QED BY <1>2, <1>3

(* What an accepting server makes of its slice: it has the leader's log up to
   the end of the call, or it misses or contradicts a part and takes it all. *)
LEMMA MergeTakes ==
    ASSUME Counting, TypeOK, ReplicationInv, NEW m \in net, m.rpc = "AppendEntries",
           PrevMatches(m.to, m)
    PROVE  LET r == m.to
               l == leaderLog[m.Term]
               n == m.PrevLogIndex + Len(m.Entries)
           IN /\ m.Term \in R!Elected /\ n \in 0..Len(l)
              /\ \/ R!Agree(LogOf[r], l, n) /\ MergedLog(r, m) = log[r]
                 \/ /\ \/ n > Len(LogOf[r])
                       \/ \E i \in 1..n : i <= Len(LogOf[r]) /\ LogOf[r][i].Term # l[i].Term
                    /\ Tail(MergedLog(r, m)) = SubSeq(l, 1, n)
                    /\ MergedLog(r, m) # <<>> /\ MergedLog(r, m)[1] = log[r][1]
<1> DEFINE r == m.to
           l == leaderLog[m.Term]
           a == LogOf[r]
           v == m.PrevLogIndex
           k == Len(m.Entries)
           new == {i \in 1..k : \/ v + 1 + i > Len(log[r])
                                \/ log[r][v + 1 + i].Term # m.Entries[i].Term}
<1>1. NoSnapshots /\ R!Inv /\ CallFaithful(m)
  BY Zenon DEF ReplicationInv, CallsFaithful
<1>2. r \in Servers /\ v \in Nat /\ m.Entries \in Seq(Entry) /\ k \in Nat
  BY MessageKinds DEF AppendEntriesMsg, Index
<1>3. /\ m.Term \in R!Elected /\ v + k <= Len(l)
      /\ m.PrevLogTerm = TermIn(l, v)
      /\ \A i \in 1..k : m.Entries[i] = l[v + i]
  BY Zenon, <1>1 DEF CallFaithful, R!Elected
<1>4. /\ a \in Seq(R!Entry) /\ l \in Seq(R!Entry) /\ Len(a) \in Nat /\ Len(l) \in Nat
  BY Zenon, <1>1, <1>2, <1>3, R!LogTypes DEF R!Inv
<1>5. /\ log[r] \in Seq(Entry) /\ Len(log[r]) = Len(a) + 1 /\ lastIncludedIndex[r] = 0
      /\ \A i \in 1..Len(a) : a[i] = log[r][i + 1]
      /\ \A i \in 0..Len(a) : TermAt(r, i) = TermIn(a, i)
  BY Zenon, <1>1, <1>2, LogView DEF TypeOK
<1>6. v <= Len(a) /\ TermIn(a, v) = TermIn(l, v)
  <2>1. v < Len(log[r]) + lastIncludedIndex[r] /\ TermAt(r, v) = m.PrevLogTerm
    BY Zenon DEF PrevMatches, VirtualLogIdx
  <2>2. v \in 0..Len(a)
    BY <1>2, <1>4, <1>5, <2>1
  <2> QED BY <1>3, <1>5, <2>1, <2>2
<1>7. MergedLog(r, m) = IF new = {} THEN log[r]
                        ELSE SubSeq(log[r], 1, v + 1 + Min(new) - 1)
                             \o SubSeq(m.Entries, Min(new), k)
  <2>1. RealLogIdx(r, v) + 1 = v + 1
    BY <1>2, <1>5 DEF RealLogIdx
  <2> QED BY Zenon, <2>1 DEF MergedLog
<1> HIDE DEF r, l, a, v, k
<1>8. \A i \in 1..k : i \notin new => v + i <= Len(a) /\ a[v + i].Term = l[v + i].Term
  <2> SUFFICES ASSUME NEW i \in 1..k, i \notin new
               PROVE  v + i <= Len(a) /\ a[v + i].Term = l[v + i].Term
    BY Zenon
  <2>1. ~(v + 1 + i > Len(log[r])) /\ log[r][v + 1 + i].Term = m.Entries[i].Term
    BY Zenon
  <2>2. v + i \in 1..Len(a) /\ v + i + 1 = v + 1 + i
    BY <1>2, <1>4, <1>5, <2>1
  <2>3. a[v + i] = log[r][v + 1 + i]
    BY Zenon, <1>5, <2>2
  <2> QED BY <1>3, <2>1, <2>2, <2>3
<1>9. \A i \in new : /\ i \in 1..k /\ v + i \in 1..Len(l)
                     /\ v + i > Len(a) \/ a[v + i].Term # l[v + i].Term
  <2> SUFFICES ASSUME NEW i \in new
               PROVE  /\ i \in 1..k /\ v + i \in 1..Len(l)
                      /\ v + i > Len(a) \/ a[v + i].Term # l[v + i].Term
    BY Zenon
  <2>1. i \in 1..k /\ (v + 1 + i > Len(log[r]) \/ log[r][v + 1 + i].Term # m.Entries[i].Term)
    BY Zenon
  <2>2. v + i \in 1..Len(l)
    BY <1>2, <1>3, <1>4, <2>1
  <2>3. ASSUME v + i <= Len(a)
        PROVE  a[v + i].Term # l[v + i].Term
    <3>1. v + i \in 1..Len(a) /\ v + i + 1 = v + 1 + i /\ ~(v + 1 + i > Len(log[r]))
      BY <1>2, <1>4, <1>5, <2>1, <2>3
    <3> QED BY Zenon, <1>3, <1>5, <2>1, <3>1
  <2>4. v + i > Len(a) \/ v + i <= Len(a)
    BY <1>2, <1>4, <2>1
  <2> QED BY Zenon, <2>1, <2>2, <2>3, <2>4
<1> HIDE DEF new
<1>10. CASE new = {}
  <2>1. v + k <= Len(a) /\ TermIn(a, v + k) = TermIn(l, v + k)
    <3>1. CASE k = 0
      BY <1>2, <1>6, <3>1
    <3>2. CASE k > 0
      <4>1. k \in 1..k /\ v + k # 0
        BY <1>2, <3>2
      <4> QED BY Zenon, <1>8, <1>10, <4>1 DEF TermIn
    <3> QED BY <1>2, <3>1, <3>2
  <2>2. v + k \in 0..Len(a)
    BY <1>2, <1>4, <2>1
  <2>3. R!Agree(a, l, v + k)
    BY Zenon, <1>1, <1>2, <1>3, <2>1, <2>2, SameTermAgree DEF a, l
  <2>4. v + k \in 0..Len(l)
    BY <1>2, <1>3, <1>4
  <2> QED BY Zenon, <1>3, <1>7, <1>10, <2>3, <2>4 DEF a, l, r, v, k
<1>11. CASE new # {}
  <2>1. PICK j \in new : j = Min(new) /\ \A i \in new : j <= i
    <3>1. new \in SUBSET Nat
      BY <1>2 DEF new
    <3> QED BY Zenon, <1>11, <3>1, MinNat
  <2>2. j \in 1..k /\ v + j \in 1..Len(l) /\ (v + j > Len(a) \/ a[v + j].Term # l[v + j].Term)
    BY Zenon, <1>9
  <2>3. v + j - 1 \in 0..Len(a) /\ v + j - 1 <= Len(l) /\ TermIn(a, v + j - 1) = TermIn(l, v + j - 1)
    <3>1. CASE j = 1
      BY <1>2, <1>3, <1>4, <1>6, <3>1
    <3>2. CASE j > 1
      <4>1. j - 1 \in 1..k /\ j - 1 \notin new /\ v + (j - 1) = v + j - 1 /\ v + j - 1 # 0
        BY <1>2, <2>1, <2>2, <3>2
      <4>2. v + j - 1 <= Len(a) /\ a[v + j - 1].Term = l[v + j - 1].Term
        BY Zenon, <1>8, <4>1
      <4> QED BY <1>2, <1>4, <2>2, <4>1, <4>2 DEF TermIn
    <3> QED BY <1>2, <2>2, <3>1, <3>2
  <2>4. R!Agree(a, l, v + j - 1)
    BY Zenon, <1>1, <1>2, <1>3, <2>3, SameTermAgree DEF a, l
  <2> DEFINE x == SubSeq(log[r], 1, v + j)
             y == SubSeq(m.Entries, j, k)
  <2>5. /\ x \in Seq(Entry) /\ Len(x) = v + j /\ \A i \in 1..v + j : x[i] = log[r][i]
    <3>1. /\ v + j \in Nat /\ 1 + (v + j) <= Len(log[r]) + 1 /\ 1 + (v + j) - 1 = v + j
          /\ \A i \in 1..v + j : 1 + i - 1 = i
      BY <1>2, <1>4, <1>5, <2>2, <2>3
    <3>2. /\ SubSeq(log[r], 1, 1 + (v + j) - 1) \in Seq(Entry)
          /\ Len(SubSeq(log[r], 1, 1 + (v + j) - 1)) = v + j
          /\ \A i \in 1..v + j : SubSeq(log[r], 1, 1 + (v + j) - 1)[i] = log[r][1 + i - 1]
      BY <1>5, <3>1, Slice
    <3> QED BY Zenon, <3>1, <3>2
  <2>6. /\ y \in Seq(Entry) /\ Len(y) = k - j + 1 /\ \A i \in 1..k - j + 1 : y[i] = m.Entries[j + i - 1]
    <3>1. /\ j \in Nat /\ k - j + 1 \in Nat /\ 1 <= j /\ j + (k - j + 1) - 1 = k
          /\ j + (k - j + 1) <= Len(m.Entries) + 1
      <4>1. k = Len(m.Entries)
        BY DEF k
      <4> QED BY <1>2, <2>2, <4>1
    <3> HIDE DEF y
    <3>2. /\ SubSeq(m.Entries, j, j + (k - j + 1) - 1) \in Seq(Entry)
          /\ Len(SubSeq(m.Entries, j, j + (k - j + 1) - 1)) = k - j + 1
          /\ \A i \in 1..k - j + 1 :
                SubSeq(m.Entries, j, j + (k - j + 1) - 1)[i] = m.Entries[j + i - 1]
      BY <1>2, <3>1, Slice
    <3> QED BY Zenon, <3>1, <3>2 DEF y
  <2>7. MergedLog(r, m) = x \o y
    <3>1. v + 1 + j - 1 = v + j
      BY <1>2, <2>2
    <3> QED BY Zenon, <1>7, <1>11, <2>1, <3>1
  <2> HIDE DEF x, y
  <2> DEFINE z == x \o y
  <2> HIDE DEF z
  <2>8. /\ z \in Seq(Entry) /\ Len(z) = v + k + 1 /\ z # <<>>
        /\ \A i \in 1..v + j : z[i] = log[r][i]
        /\ \A i \in v + j + 1 .. v + k + 1 : z[i] = m.Entries[i - v - 1]
    <3>1. /\ z \in Seq(Entry) /\ Len(z) = Len(x) + Len(y)
          /\ \A i \in 1..Len(x) : z[i] = x[i]
          /\ \A i \in Len(x) + 1 .. Len(x) + Len(y) : z[i] = y[i - Len(x)]
      <4>1. x \in Seq(Entry) /\ y \in Seq(Entry)
        BY Zenon, <2>5, <2>6
      <4> QED BY <4>1, Elements DEF z
    <3>2. Len(x) + Len(y) = v + k + 1 /\ Len(x) = v + j /\ v + k + 1 > 0
      <4>1. Len(x) = v + j /\ Len(y) = k - j + 1 /\ v \in Nat /\ k \in Nat /\ j \in Nat
        BY <1>2, <2>2, <2>5, <2>6
      <4> QED BY <4>1
    <3>3. ASSUME NEW i \in v + j + 1 .. v + k + 1
          PROVE  z[i] = m.Entries[i - v - 1]
      <4>1. i - (v + j) \in 1..k - j + 1 /\ j + (i - (v + j)) - 1 = i - v - 1
        BY <1>2, <2>2
      <4>2. y[i - (v + j)] = m.Entries[i - v - 1]
        BY Zenon, <2>6, <4>1
      <4> QED BY Zenon, <3>1, <3>2, <4>2
    <3>4. \A i \in 1..v + j : z[i] = log[r][i]
      BY Zenon, <2>5, <3>1, <3>2
    <3>5. z # <<>>
      BY <3>1, <3>2
    <3> QED BY Zenon, <3>1, <3>2, <3>3, <3>4, <3>5
  <2>9. /\ Len(SubSeq(l, 1, v + k)) = v + k /\ SubSeq(l, 1, v + k) \in Seq(R!Entry)
        /\ \A i \in 1..v + k : SubSeq(l, 1, v + k)[i] = l[i]
    BY <1>2, <1>3, <1>4
  <2>10. ASSUME NEW i \in 1..v + k
         PROVE  z[i + 1] = l[i]
    <3>1. CASE i < v + j
      <4>1. i \in 1..v + j - 1 /\ i \in 1..Len(a) /\ i + 1 \in 1..v + j
        BY <1>2, <1>4, <2>2, <2>3, <3>1
      <4> QED BY Zenon, <1>5, <2>4, <2>8, <4>1 DEF R!Agree
    <3>2. CASE i >= v + j
      <4>1. /\ i + 1 \in v + j + 1 .. v + k + 1 /\ i + 1 - v - 1 = i - v
            /\ i - v \in 1..k /\ v + (i - v) = i
        BY <1>2, <2>2, <3>2
      <4>2. z[i + 1] = m.Entries[i - v]
        <5>1. PICK w \in v + j + 1 .. v + k + 1 : w = i + 1 /\ w - v - 1 = i - v
          BY <1>2, <2>2, <4>1
        <5>2. z[w] = m.Entries[w - v - 1]
          BY Zenon, <2>8
        <5> QED BY Zenon, <5>1, <5>2
      <4>3. m.Entries[i - v] = l[v + (i - v)]
        BY Zenon, <1>3, <4>1
      <4> QED BY Zenon, <4>1, <4>2, <4>3
    <3>3. i \in Nat /\ v + j \in Nat
      BY <1>2, <2>2
    <3> QED BY <3>1, <3>2, <3>3
  <2>11. Tail(z) = SubSeq(l, 1, v + k)
    <3>1. /\ Tail(z) \in Seq(Entry) /\ Len(Tail(z)) = v + k
          /\ \A i \in 1..v + k : Tail(z)[i] = z[i + 1]
      <4>1. /\ z \in Seq(Entry) /\ z # <<>> /\ Len(z) - 1 = v + k
        BY <1>2, <2>8
      <4>2. /\ Tail(z) \in Seq(Entry) /\ Len(Tail(z)) = Len(z) - 1
            /\ \A i \in 1..Len(z) - 1 : Tail(z)[i] = z[i + 1]
        BY Zenon, <4>1, Elements
      <4> QED BY Zenon, <4>1, <4>2
    <3> QED BY <2>9, <2>10, <3>1
  <2>12. z[1] = log[r][1]
    BY <1>2, <2>2, <2>8
  <2>13. v + k \in 0..Len(l) /\ v + j \in 1..v + k
    BY <1>2, <1>3, <1>4, <2>2
  <2>14. \/ v + k > Len(a)
         \/ \E i \in 1..v + k : i <= Len(a) /\ a[i].Term # l[i].Term
    BY <1>2, <1>4, <2>2, <2>13
  <2> QED BY Zenon, <1>3, <2>7, <2>8, <2>11, <2>12, <2>13, <2>14 DEF a, l, r, v, k, z
<1> QED BY Zenon, <1>10, <1>11

(* A server that accepts entries has then the leader's log up to their end,
   and what the leader told it is committed is in there. *)
LEMMA AcceptKeeps ==
    ASSUME R!QuorumRules, Counting, ElectionInv, TypeOK', ReplicationInv, NEW m \in net,
           AcceptAppendEntries(m)
    PROVE  [R!Next]_(R!vars) /\ OutcomeFaithful
<1> DEFINE r == m.to
           t == m.Term
           l == leaderLog[t]
           n == m.PrevLogIndex + Len(m.Entries)
<1>1. TypeOK /\ NoSnapshots /\ VoteMessagesSound /\ R!Inv
  BY Zenon DEF ElectionInv, ReplicationInv
<1>2. /\ m.rpc = "AppendEntries" /\ r \in Servers /\ t \in Nat /\ m.LeaderCommit \in Nat
      /\ currentTerm[r] \in Nat
  <2>1. m \in AppendEntriesMsg /\ m.rpc = "AppendEntries"
    BY Zenon, <1>1, MessageKinds DEF AcceptAppendEntries
  <2>2. currentTerm \in [Servers -> Nat]
    BY Zenon, <1>1 DEF TypeOK, Term
  <2> QED BY Zenon, <2>1, <2>2 DEF AppendEntriesMsg, Term, Index
<1>3. /\ t >= currentTerm[r] /\ PrevMatches(r, m) /\ LearnTerm(r, t)
      /\ log' = [log EXCEPT ![r] = MergedLog(r, m)]
      /\ acks' = acks \cup {<<r, t, n>>}
      /\ UNCHANGED <<snapShot, lastIncludedIndex, matchIndex, ballots, committed, leaderLog>>
  BY Zenon DEF AcceptAppendEntries, leaderVars
<1>4. /\ t \in R!Elected /\ n \in 0..Len(l)
      /\ \/ R!Agree(LogOf[r], l, n) /\ MergedLog(r, m) = log[r]
         \/ /\ \/ n > Len(LogOf[r])
               \/ \E i \in 1..n : i <= Len(LogOf[r]) /\ LogOf[r][i].Term # l[i].Term
            /\ Tail(MergedLog(r, m)) = SubSeq(l, 1, n)
            /\ MergedLog(r, m) # <<>> /\ MergedLog(r, m)[1] = log[r][1]
  BY Zenon, <1>1, <1>2, <1>3, MergeTakes
<1>5. l \in Seq(R!Entry) /\ Len(l) \in Nat /\ n \in Nat
  BY <1>1, <1>4, R!LogTypes DEF R!Inv
<1>6. /\ currentTerm' = [currentTerm EXCEPT ![r] = t]
      /\ currentTerm'[r] = t /\ \A s \in Servers \ {r} : currentTerm'[s] = currentTerm[s]
      /\ \A s \in Servers : state'[s] = Leader =>
            state[s] = Leader /\ currentTerm'[s] = currentTerm[s]
  <2>1. /\ currentTerm' = [currentTerm EXCEPT ![r] = t]
        /\ state' = [state EXCEPT ![r] = IF t > currentTerm[r] THEN Follower ELSE @]
    BY Zenon, <1>3 DEF LearnTerm
  <2>2. /\ currentTerm'[r] = t /\ \A s \in Servers \ {r} : currentTerm'[s] = currentTerm[s]
        /\ \A s \in Servers \ {r} : state'[s] = state[s]
        /\ state'[r] = IF t > currentTerm[r] THEN Follower ELSE state[r]
    BY <1>1, <1>2, <2>1 DEF TypeOK
  <2>3. state'[r] = Leader => state[r] = Leader /\ t = currentTerm[r]
    BY <1>2, <1>3, <2>2 DEF Leader, Follower
  <2> QED BY Zenon, <2>1, <2>2, <2>3
<1> HIDE DEF n, l
<1>7. R!Replicate(r, t, n)
  <2>1. CASE R!Agree(LogOf[r], l, n) /\ MergedLog(r, m) = log[r]
    <3>1. log' = log
      BY <1>1, <1>2, <1>3, <2>1 DEF TypeOK
    <3>2. LogOf' = LogOf
      BY Zenon, <1>3, <3>1, SameLogs
    <3> QED BY Zenon, <1>3, <1>4, <1>6, <2>1, <3>2 DEF R!Replicate, l
  <2>2. CASE ~(R!Agree(LogOf[r], l, n) /\ MergedLog(r, m) = log[r])
    <3>1. log'[r] = MergedLog(r, m) /\ \A s \in Servers \ {r} : log'[s] = log[s]
      BY Zenon, <1>1, <1>2, <1>3 DEF TypeOK
    <3>2. WholeLog(r)' = SubSeq(l, 1, n)
      <4>1. snapShot'[r] = <<>> /\ Tail(log'[r]) = SubSeq(l, 1, n)
        BY Zenon, <1>1, <1>2, <1>3, <1>4, <2>2, <3>1 DEF NoSnapshots
      <4>2. <<>> \o SubSeq(l, 1, n) = SubSeq(l, 1, n)
        BY <1>4, <1>5
      <4> QED BY Zenon, <4>1, <4>2 DEF WholeLog
    <3>3. \A s \in Servers \ {r} : WholeLog(s)' = WholeLog(s)
      BY Zenon, <1>3, <3>1 DEF WholeLog
    <3>4. LogOf' = [LogOf EXCEPT ![r] = SubSeq(l, 1, n)]
      BY Zenon, <3>2, <3>3 DEF LogOf
    <3> QED BY Zenon, <1>3, <1>4, <1>6, <2>2, <3>4 DEF R!Replicate, l
  <2> QED BY Zenon, <2>1, <2>2
<1>8. [R!Next]_(R!vars)
  BY Zenon, <1>2, <1>4, <1>7 DEF R!Next, l
<1>9. NoSnapshots'
  <2>1. \A s \in Servers : log'[s][1] = log[s][1]
    BY Zenon, <1>1, <1>2, <1>3, <1>4 DEF TypeOK
  <2>2. \A x \in net' \ net : x.rpc = "AppendEntriesReply"
    BY DEF AcceptAppendEntries, Reply, AppendReply
  <2> QED BY Zenon, <1>1, <1>3, <2>1, <2>2, NoSnapshotsKept
<1>10. ASSUME NEW x \in net', x \notin net
       PROVE  x.rpc = "AppendEntriesReply" /\ <<x.to, x.Term, x.Match>> \in acks'
  <2>1. x = AppendReply(m, TRUE, currentTerm[r])
    BY Zenon, <1>10 DEF AcceptAppendEntries, Reply
  <2> QED BY Zenon, <1>3, <2>1 DEF AppendReply, n
<1>11. \A s \in Servers :
          \/ commitIndex'[s] = commitIndex[s]
          \/ /\ commitIndex'[s] > commitIndex[s]
             /\ R!Learned(LogOf[s], commitIndex[s], currentTerm[s])'
  <2>1. CASE m.LeaderCommit > commitIndex[r]
    <3>1. m.LeaderCommit <= n /\ R!Learned(l, m.LeaderCommit, t)
      BY Zenon, <1>2 DEF ReplicationInv, CallsFaithful, CallFaithful, n, l
    <3>2. R!Learned(LogOf[r], m.LeaderCommit, currentTerm[r])' /\ n <= Len(LogOf'[r])
      BY Zenon, <1>1, <1>2, <1>4, <1>5, <1>7, <3>1, R!FollowerLearns DEF l
    <3>3. LastIndex(r)' = Len(LogOf'[r]) /\ Len(LogOf'[r]) \in Nat
      <4>1. /\ log'[r] \in Seq(Entry) /\ log'[r] # <<>>
            /\ snapShot'[r] = <<>> /\ lastIncludedIndex'[r] = 0
        BY Zenon, <1>2, <1>9 DEF TypeOK, NoSnapshots
      <4>2. /\ Len(Tail(log'[r])) = Len(log'[r]) - 1 /\ Len(log'[r]) \in Nat
            /\ Len(Tail(log'[r])) \in Nat /\ <<>> \o Tail(log'[r]) = Tail(log'[r])
        BY <4>1
      <4>3. LogOf'[r] = Tail(log'[r])
        BY Zenon, <1>2, <4>1, <4>2 DEF LogOf, WholeLog
      <4> QED BY <4>1, <4>2, <4>3 DEF LastIndex, VirtualLogIdx
    <3>4. Min({m.LeaderCommit, LastIndex(r)'}) = m.LeaderCommit
      <4>1. PICK z \in Int : z = LastIndex(r)' /\ m.LeaderCommit <= z
        BY <1>2, <1>5, <3>1, <3>2, <3>3
      <4>2. Min({m.LeaderCommit, z}) = m.LeaderCommit
        <5>1. m.LeaderCommit \in Int
          BY <1>2
        <5> QED BY Zenon, <4>1, <5>1, MaxMinPair
      <4> QED BY Zenon, <4>1, <4>2
    <3>5. commitIndex' = [commitIndex EXCEPT ![r] = m.LeaderCommit]
      BY Zenon, <2>1, <3>4 DEF AcceptAppendEntries
    <3>6. commitIndex'[r] = m.LeaderCommit /\ \A s \in Servers \ {r} : commitIndex'[s] = commitIndex[s]
      BY Zenon, <1>1, <1>2, <3>5 DEF TypeOK
    <3> QED BY Zenon, <2>1, <3>2, <3>6
  <2>2. CASE ~(m.LeaderCommit > commitIndex[r])
    BY Zenon, <1>1, <2>2 DEF AcceptAppendEntries, TypeOK
  <2> QED BY Zenon, <2>1, <2>2
<1>12. \A s, p \in Servers : R!Leads(s)' /\ matchIndex'[s][p] > 0 =>
          <<p, currentTerm'[s], matchIndex'[s][p]>> \in acks'
  BY Zenon, <1>1, <1>3, <1>8, MatchKept
<1>13. OutcomeFaithful
  BY Zenon, <1>6, <1>9, <1>10, <1>11, <1>12 DEF OutcomeFaithful
<1> QED BY Zenon, <1>8, <1>13
=============================================================================
