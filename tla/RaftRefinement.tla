---------------------------- MODULE RaftRefinement ----------------------------
(****************************************************************************)
(* How module Raft implements module LogReplication as long as nobody takes *)
(* snapshots (MaxSnapshot = 0, as in a service with maxraftstate -1), and   *)
(* the invariant that ties the messages and the volatile state of Raft to   *)
(* the logs of the leaders.                                                 *)
(****************************************************************************)
EXTENDS Raft

LogOf == [s \in Servers |-> WholeLog(s)]
Majorities == {Q \in SUBSET Servers : Majority(Cardinality(Q))}

R == INSTANCE LogReplicationProofs WITH
        term <- currentTerm, log <- LogOf, Quorums <- Majorities

(* The term of the entry at index i of the log l, or of the placeholder. *)
TermIn(l, i) == IF i = 0 THEN -1 ELSE l[i].Term

NoSnapshots ==
    /\ \A s \in Servers :
          lastIncludedIndex[s] = 0 /\ snapShot[s] = <<>> /\ log[s][1].Term = -1
    /\ \A m \in net : m.rpc \in {"RequestVote", "RequestVoteReply", "AppendEntries",
                                 "AppendEntriesReply"}

(* An AppendEntries call carries entries of its term's leader, and a commit
   index within them. *)
CallFaithful(m) ==
    LET l == leaderLog[m.Term]
        n == m.PrevLogIndex + Len(m.Entries)
    IN /\ m.Term \in DOMAIN leaderLog /\ n <= Len(l)
       /\ m.PrevLogTerm = TermIn(l, m.PrevLogIndex)
       /\ \A i \in 1..Len(m.Entries) : m.Entries[i] = l[m.PrevLogIndex + i]
       /\ m.LeaderCommit <= n /\ R!Learned(l, m.LeaderCommit, m.Term)

CallsFaithful == \A m \in net : m.rpc = "AppendEntries" => CallFaithful(m)

(* What a leader is told, and what it remembers, of a peer's log is true. *)
AnswersFaithful ==
    /\ \A m \in net : m.rpc = "AppendEntriesReply" /\ m.Success =>
          <<m.to, m.Term, m.Match>> \in acks
    /\ \A s, p \in Servers : R!Leads(s) /\ matchIndex[s][p] > 0 =>
          <<p, currentTerm[s], matchIndex[s][p]>> \in acks

(* Until its term has a leader, a candidate has the log it asks votes for. *)
CandidateFaithful(m) ==
    m.Term = currentTerm[m.from] /\ m.Term \notin DOMAIN leaderLog =>
        /\ m.LastLogTerm = R!LastTerm(LogOf[m.from])
        /\ m.LastLogIndex = Len(LogOf[m.from]) + 1

CandidatesFaithful == \A m \in net : m.rpc = "RequestVote" => CandidateFaithful(m)

LeadersRecorded ==
    \A s \in Servers : state[s] = Leader => currentTerm[s] \in DOMAIN leaderLog

(* Whatever a server counts as committed some leader committed. *)
CommitsLearned ==
    \A s \in Servers : R!Learned(LogOf[s], commitIndex[s], currentTerm[s])

(* The inductive invariant of the proofs about logs, together with
   ElectionInv. *)
ReplicationInv ==
    /\ R!Inv
    /\ NoSnapshots /\ CallsFaithful /\ AnswersFaithful /\ CandidatesFaithful
    /\ LeadersRecorded /\ CommitsLearned

(* Every behaviour of the servers is one of LogReplication. *)
ReplicatesLogs == R!Spec
=============================================================================
