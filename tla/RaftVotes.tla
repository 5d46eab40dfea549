------------------------------ MODULE RaftVotes -------------------------------
(****************************************************************************)
(* Every step of module Raft keeps ElectionInv: a voter is bound by its    *)
(* ballot, no vote is counted twice, a leader has the votes of a majority, *)
(* and with them the only log of its term, into which its calls point.     *)
(****************************************************************************)
EXTENDS RaftLemmas

-----------------------------------------------------------------------------
(* Steps without a vote                                                    *)

VoteRpcs == {"RequestVote", "RequestVoteReply"}

(* Terms only grow, and a vote lasts as long as its term. *)
StableStep ==
    \A s \in Servers :
        /\ currentTerm'[s] >= currentTerm[s]
        /\ currentTerm'[s] = currentTerm[s] /\ votedFor[s] # Nil
           => votedFor'[s] = votedFor[s]

(* A step in which nobody votes or counts a vote: at most a server learns of
   a later term, and calls of a leader, or replies to them, are sent. *)
QuietStep ==
    /\ ballots' = ballots
    /\ \A s \in Servers :
          /\ currentTerm'[s] >= currentTerm[s]
          /\ currentTerm'[s] = currentTerm[s] => votedFor'[s] = votedFor[s]
          /\ currentTerm'[s] > currentTerm[s] => votedFor'[s] = Nil /\ state'[s] # Leader
          /\ voteCount'[s] <= voteCount[s]
          /\ state'[s] = Leader => state[s] = Leader
    /\ \A m \in net' : m.rpc \in VoteRpcs => m \in net
    /\ \A m \in net' : m.rpc \in LeaderRpcs =>
          \/ m.from \in Servers /\ state[m.from] = Leader /\ m.Term = currentTerm[m.from]
          \/ \E n \in net : n.rpc \in LeaderRpcs /\ n.from = m.from /\ n.Term = m.Term

-----------------------------------------------------------------------------
(* Ballots                                                                 *)

(* Sets of servers can be counted, and a part of one has no more members. *)
LEMMA PartCount ==
    ASSUME Counting, NEW P \in SUBSET Servers
    PROVE  /\ Cardinality(P) \in Nat /\ Cardinality(Servers) \in Nat
           /\ \A Q \in SUBSET P : Cardinality(Q) \in Nat /\ Cardinality(Q) <= Cardinality(P)
BY Zenon DEF Counting

(* The three parts of a ballot. *)
LEMMA BallotTypes ==
    ASSUME TypeOK
    PROVE  \A b \in ballots : b[1] \in Servers /\ b[2] \in Nat /\ b[3] \in Servers
<1>1. ballots \subseteq Servers \X Term \X Servers
  BY Zenon DEF TypeOK
<1> QED BY Zenon, <1>1 DEF Term

(* Ballots are never withdrawn, so neither is a majority. *)
LEMMA VotersGrow ==
    ASSUME Counting, NEW s, NEW T, ballots \subseteq ballots',
           Majority(Cardinality(VotersOf(s, T)))
    PROVE  Majority(Cardinality({r \in Servers : <<r, T, s>> \in ballots'}))
<1> DEFINE A == VotersOf(s, T)
           B == {r \in Servers : <<r, T, s>> \in ballots'}
<1>1. A \subseteq B /\ B \subseteq Servers
  BY Zenon DEF VotersOf
<1>2. /\ Cardinality(A) <= Cardinality(B) /\ Cardinality(A) \in Nat /\ Cardinality(B) \in Nat
      /\ Cardinality(Servers) \in Nat
  BY <1>1, PartCount, Zenon
<1> HIDE DEF A, B
<1>3. Majority(Cardinality(A)) => Majority(Cardinality(B))
  BY <1>2 DEF Majority
<1> QED BY Zenon, <1>3 DEF A, B

(* Two majorities of a term share a voter, and its ballot names one
   candidate. *)
LEMMA OneLeader ==
    ASSUME Counting, TypeOK, BallotsBind, NEW s, NEW t, NEW T,
           Majority(Cardinality(VotersOf(s, T))), Majority(Cardinality(VotersOf(t, T)))
    PROVE  s = t
<1>1. VotersOf(s, T) \in SUBSET Servers /\ VotersOf(t, T) \in SUBSET Servers
  BY Zenon DEF VotersOf
<1>3. VotersOf(s, T) \cap VotersOf(t, T) # {}
  BY Zenon, <1>1 DEF Counting
<1>4. PICK r \in Servers : <<r, T, s>> \in ballots /\ <<r, T, t>> \in ballots
  BY Zenon, <1>3 DEF VotersOf
<1>5. \A a, b \in ballots : a[1] = b[1] /\ a[2] = b[2] => a[3] = b[3]
  BY Zenon DEF BallotsBind
<1> QED BY Zenon, <1>4, <1>5

(* A step without votes keeps what is known about votes. *)
LEMMA QuietPreserves ==
    ASSUME Counting, ElectionInv, TypeOK', QuietStep
    PROVE  BallotsBind' /\ VoteMessagesSound' /\ VotesCounted' /\ LeadersElected'
<1> USE DEF ElectionInv
<1>1. BallotsBind'
  <2>1. \A b \in ballots : b[1] \in Servers /\ b[2] \in Nat /\ b[3] \in Servers
    BY Zenon, BallotTypes
  <2>2. \A s \in Servers : currentTerm[s] \in Nat /\ currentTerm'[s] \in Nat
    BY Zenon DEF TypeOK, Term
  <2> QED BY <2>1, <2>2 DEF BallotsBind, QuietStep
<1>2. VoteMessagesSound'
  <2> SUFFICES ASSUME NEW m \in net', m.rpc \in VoteRpcs
               PROVE  /\ m.to # m.from
                      /\ m.Term <= currentTerm'[m.from]
                      /\ m.Term = currentTerm'[m.from] => votedFor'[m.from] = m.from
                      /\ m.rpc = "RequestVote" => <<m.to, m.Term, m.from>> \notin ballots'
                      /\ m.rpc = "RequestVoteReply" /\ m.VoteGranted
                            => <<m.to, m.Term, m.from>> \in ballots'
                      /\ \A n \in net' :
                            n.rpc \in VoteRpcs /\ n.from = m.from /\ n.to = m.to /\ n.Term = m.Term
                            => n = m
    BY Zenon DEF VoteMessagesSound, VoteRpcs
  <2>1. m \in net /\ \A n \in net' : n.rpc \in VoteRpcs => n \in net
    BY Zenon DEF QuietStep
  <2>2. m.from \in Servers /\ m.Term \in Nat
    BY Zenon, <2>1, MessageKinds DEF VoteRpcs, RequestVoteMsg, RequestVoteReplyMsg, Term
  <2>3. currentTerm[m.from] \in Nat /\ currentTerm'[m.from] \in Nat
    BY Zenon, <2>2 DEF TypeOK, Term
  <2> QED BY <2>1, <2>2, <2>3 DEF VoteMessagesSound, VoteRpcs, QuietStep
<1>3. VotesCounted'
  <2> SUFFICES ASSUME NEW s \in Servers, votedFor'[s] = s
               PROVE  voteCount'[s] <=
                        Cardinality(VotersOf(s, currentTerm[s])' \ Pending(s)')
    BY Zenon DEF VotesCounted
  <2>1. currentTerm[s] \in Nat /\ currentTerm'[s] \in Nat /\ s # Nil
    BY Zenon, NilAssumption DEF TypeOK, Term
  <2>2. currentTerm'[s] = currentTerm[s] /\ votedFor[s] = s
    BY <2>1 DEF QuietStep
  <2>3. VotersOf(s, currentTerm[s])' = VotersOf(s, currentTerm[s])
    BY Zenon, <2>2 DEF VotersOf, QuietStep
  <2>4. Pending(s)' \subseteq Pending(s)
    BY Zenon, <2>2 DEF Pending, QuietStep, VoteRpcs
  <2> DEFINE A == VotersOf(s, currentTerm[s]) \ Pending(s)
             B == VotersOf(s, currentTerm[s]) \ Pending(s)'
  <2>5. A \subseteq B /\ B \in SUBSET Servers
    BY Zenon, <2>4 DEF VotersOf
  <2>6. Cardinality(A) <= Cardinality(B) /\ Cardinality(A) \in Nat /\ Cardinality(B) \in Nat
    BY Zenon, <2>5, PartCount
  <2>7. voteCount[s] <= Cardinality(A) /\ voteCount'[s] <= voteCount[s]
    BY Zenon, <2>2 DEF VotesCounted, QuietStep
  <2>8. voteCount[s] \in Nat /\ voteCount'[s] \in Nat
    BY Zenon DEF TypeOK
  <2> QED BY <2>3, <2>6, <2>7, <2>8
<1>4. LeadersElected'
  <2>2. ASSUME NEW s \in Servers, state'[s] = Leader
        PROVE  Majority(Cardinality(VotersOf(s, currentTerm[s])))'
    <3>1. currentTerm'[s] = currentTerm[s] /\ state[s] = Leader
      BY <2>2 DEF QuietStep, TypeOK, Term
    <3> QED BY Zenon, <3>1 DEF LeadersElected, Majority, VotersOf, QuietStep
  <2>3. ASSUME NEW m \in net', m.rpc \in LeaderRpcs
        PROVE  Majority(Cardinality(VotersOf(m.from, m.Term)))'
    BY <2>3, Zenon DEF LeadersElected, Majority, VotersOf, QuietStep
  <2> QED BY Zenon, <2>2, <2>3 DEF LeadersElected
<1> QED BY Zenon, <1>1, <1>2, <1>3, <1>4

-----------------------------------------------------------------------------
(* Which steps those are                                                   *)

(* The ticker of a server that does not start an election, Start, and the
   service's Snapshot. *)
LEMMA LocalQuiet ==
    ASSUME ElectionInv, NEW s \in Servers,
           \/ StartPreVote(s) \/ sendPreVote(s)
           \/ \E P \in SUBSET (Servers \ {s}) : doLeader(s, P)
           \/ \E c \in Commands : Start(s, c)
           \/ \E i \in 1..MaxSnapshot : Snapshot(s, i)
    PROVE  QuietStep
<1>0. TypeOK
  BY Zenon DEF ElectionInv
<1>1. /\ ballots' = ballots /\ currentTerm' = currentTerm /\ votedFor' = votedFor
      /\ voteCount' = voteCount
  BY Zenon DEF StartPreVote, sendPreVote, doLeader, Start, Snapshot, persistentVars, countVars, historyVars
<1>2. \A t \in Servers : state'[t] = Leader => state[t] = Leader
  <2>1. \/ state' = state \/ state' = [state EXCEPT ![s] = PreCandidate]
        \/ state' = [state EXCEPT ![s] = IF Majority(preVoteCount[s] + 1) THEN Candidate ELSE @]
    BY Zenon DEF StartPreVote, sendPreVote, doLeader, Start, Snapshot
  <2>2. state \in [Servers -> {Follower, PreCandidate, Candidate, Leader}]
    BY Zenon, <1>0 DEF TypeOK
  <2> QED BY <2>1, <2>2 DEF PreCandidate, Candidate, Leader
<1>3. /\ \A t \in Servers : currentTerm[t] \in Nat /\ voteCount[t] \in Nat
      /\ \A m \in net : m.rpc \in LeaderRpcs => m.from \in Servers
  BY <1>0, MessageKinds, Zenon DEF TypeOK, Term
<1>4. CASE net' = net
  BY <1>1, <1>2, <1>3, <1>4 DEF QuietStep
<1>5. CASE net' # net
  <2>1. PICK P \in SUBSET (Servers \ {s}) : doLeader(s, P)
    BY <1>5, Zenon DEF StartPreVote, sendPreVote, Start, Snapshot
  <2>2. state[s] = Leader /\ net' = net \cup {HeartbeatTo(s, p) : p \in P}
    BY Zenon, <2>1 DEF doLeader, Send
  <2>3. \A p \in P : LET h == HeartbeatTo(s, p)
                     IN /\ h.from = s
                        /\ \/ h.rpc = "handleInstallSnapshot"
                           \/ h.rpc = "AppendEntries" /\ h.Term = currentTerm[s]
    BY <2>2, HeartbeatType
  <2>4. \A m \in net' : m \in net \/ \E p \in P : m = HeartbeatTo(s, p)
    BY Zenon, <2>2
  <2>5. \A m \in net' : m.rpc \in VoteRpcs => m \in net
    BY Zenon, <2>3, <2>4 DEF VoteRpcs
  <2>6. \A m \in net' : m.rpc \in LeaderRpcs =>
          \/ m.from \in Servers /\ state[m.from] = Leader /\ m.Term = currentTerm[m.from]
          \/ \E n \in net : n.rpc \in LeaderRpcs /\ n.from = m.from /\ n.Term = m.Term
    BY Zenon, <2>2, <2>3, <2>4 DEF LeaderRpcs
  <2> QED BY <1>1, <1>2, <1>3, <2>5, <2>6 DEF QuietStep
<1> QED BY Zenon, <1>4, <1>5

(* The steps of AppendEntries and InstallSnapshot, on either side. *)
LEMMA HandlerQuiet ==
    ASSUME ElectionInv, NEW m \in net,
           \/ RejectAppendEntries(m) \/ AcceptAppendEntries(m)
           \/ AppendRefused(m) \/ AppendSucceeded(m)
           \/ handleInstallSnapshot(m) \/ InstallSnapshot(m) \/ SnapshotAnswered(m)
    PROVE  QuietStep
<1>0. TypeOK /\ m.from \in Servers /\ m.to \in Servers
  BY Zenon, MessageKinds DEF ElectionInv
<1>1. /\ \A t \in Servers : currentTerm[t] \in Nat /\ voteCount[t] \in Nat
      /\ m.rpc = "AppendEntries" => m.Term \in Nat
      /\ m.rpc = "InstallSnapshot" => m.Term \in Nat
      /\ m.rpc = "AppendEntriesReply" => m.ReplyTerm \in Nat
      /\ m.rpc = "InstallSnapshotReply" => m.ReplyTerm \in Nat
  BY <1>0, MessageKinds, Zenon DEF TypeOK, Term, AppendEntriesMsg, InstallSnapshotMsg,
                            AppendEntriesReplyMsg, InstallSnapshotReplyMsg
<1>2. ballots' = ballots
  BY Zenon DEF RejectAppendEntries, AcceptAppendEntries, AppendRefused, AppendSucceeded,
         handleInstallSnapshot, InstallSnapshot, SnapshotAnswered, historyVars
<1>3. \/ UNCHANGED <<currentTerm, votedFor, state>>
      \/ \E t \in Servers, T \in Nat :
            /\ T >= currentTerm[t]
            /\ currentTerm' = [currentTerm EXCEPT ![t] = T]
            /\ votedFor' = [votedFor EXCEPT ![t] = IF T > currentTerm[t] THEN Nil ELSE @]
            /\ \/ state' = [state EXCEPT ![t] = IF T > currentTerm[t] THEN Follower ELSE @]
               \/ state' = [state EXCEPT ![t] = Follower]
  <2>1. CASE RejectAppendEntries(m)
    BY <1>0, <1>1, <2>1 DEF RejectAppendEntries, LearnTerm, persistentVars
  <2>2. CASE AcceptAppendEntries(m)
    BY <1>0, <1>1, <2>2, Zenon DEF AcceptAppendEntries, LearnTerm
  <2>3. CASE AppendRefused(m)
    BY <1>0, <1>1, <2>3 DEF AppendRefused, LearnTerm, persistentVars
  <2>4. CASE AppendSucceeded(m) \/ handleInstallSnapshot(m)
    BY Zenon, <2>4 DEF AppendSucceeded, handleInstallSnapshot, persistentVars
  <2>5. CASE InstallSnapshot(m)
    <3>1. m.rpc = "InstallSnapshot"
      BY Zenon, <2>5 DEF InstallSnapshot
    <3>2. CASE m.Term < currentTerm[m.to]
      BY Zenon, <2>5, <3>2 DEF InstallSnapshot, persistentVars
    <3>3. CASE ~(m.Term < currentTerm[m.to])
      <4>1. /\ currentTerm' = [currentTerm EXCEPT ![m.to] = m.Term]
            /\ votedFor' = [votedFor EXCEPT ![m.to] =
                    IF m.Term > currentTerm[m.to] THEN Nil ELSE @]
            /\ state' = [state EXCEPT ![m.to] = Follower]
        BY Zenon, <2>5, <3>3 DEF InstallSnapshot
      <4>2. m.to \in Servers /\ m.Term \in Nat /\ m.Term >= currentTerm[m.to]
        BY <1>0, <1>1, <3>1, <3>3
      <4> QED BY <4>1, <4>2, Zenon
    <3> QED BY Zenon, <3>2, <3>3
  <2>6. CASE SnapshotAnswered(m)
    BY <1>0, <1>1, <2>6 DEF SnapshotAnswered, LearnTerm, persistentVars
  <2> QED BY Zenon, <2>1, <2>2, <2>3, <2>4, <2>5, <2>6
<1>4. \A t \in Servers : voteCount'[t] <= voteCount[t]
  <2>1. voteCount' = voteCount \/ voteCount' = [voteCount EXCEPT ![m.from] = 0]
    BY Zenon DEF RejectAppendEntries, AcceptAppendEntries, AppendRefused, AppendSucceeded,
           handleInstallSnapshot, InstallSnapshot, SnapshotAnswered, countVars
  <2>2. voteCount \in [Servers -> Nat]
    BY Zenon, <1>0 DEF TypeOK
  <2> QED BY <1>0, <2>1, <2>2
<1>5. \A t \in Servers :
          /\ currentTerm'[t] >= currentTerm[t]
          /\ currentTerm'[t] = currentTerm[t] => votedFor'[t] = votedFor[t]
          /\ currentTerm'[t] > currentTerm[t] => votedFor'[t] = Nil /\ state'[t] # Leader
          /\ state'[t] = Leader => state[t] = Leader
  <2>1. CASE UNCHANGED <<currentTerm, votedFor, state>>
    BY <1>1, <2>1
  <2>2. CASE ~UNCHANGED <<currentTerm, votedFor, state>>
    <3>1. PICK t \in Servers, T \in Nat :
            /\ T >= currentTerm[t]
            /\ currentTerm' = [currentTerm EXCEPT ![t] = T]
            /\ votedFor' = [votedFor EXCEPT ![t] = IF T > currentTerm[t] THEN Nil ELSE @]
            /\ \/ state' = [state EXCEPT ![t] = IF T > currentTerm[t] THEN Follower ELSE @]
               \/ state' = [state EXCEPT ![t] = Follower]
      BY Zenon, <1>3, <2>2
    <3>2. /\ currentTerm \in [Servers -> Term] /\ votedFor \in [Servers -> Servers \cup {Nil}]
          /\ state \in [Servers -> {Follower, PreCandidate, Candidate, Leader}]
      BY Zenon, <1>0 DEF TypeOK
    <3> QED BY <1>1, <3>1, <3>2 DEF Follower, Leader
  <2> QED BY Zenon, <2>1, <2>2
<1>6. \A n \in net' : n \in net \/ n.rpc \notin VoteRpcs
  <2>1. CASE RejectAppendEntries(m) \/ AcceptAppendEntries(m)
    BY <2>1 DEF RejectAppendEntries, AcceptAppendEntries, Reply, AppendReply, VoteRpcs
  <2>2. CASE AppendRefused(m) \/ AppendSucceeded(m) \/ SnapshotAnswered(m)
    BY <2>2, Zenon DEF AppendRefused, AppendSucceeded, SnapshotAnswered
  <2>3. CASE handleInstallSnapshot(m)
    BY <2>3 DEF handleInstallSnapshot, VoteRpcs
  <2>4. CASE InstallSnapshot(m)
    BY <2>4 DEF InstallSnapshot, ReplyOrRetry, SnapshotReply, VoteRpcs
  <2> QED BY Zenon, <2>1, <2>2, <2>3, <2>4
<1>7. \A n \in net' : n.rpc \in LeaderRpcs =>
          \/ n.from \in Servers /\ state[n.from] = Leader /\ n.Term = currentTerm[n.from]
          \/ \E k \in net : k.rpc \in LeaderRpcs /\ k.from = n.from /\ k.Term = n.Term
  <2>1. CASE RejectAppendEntries(m) \/ AcceptAppendEntries(m)
    BY <2>1 DEF RejectAppendEntries, AcceptAppendEntries, Reply, AppendReply, LeaderRpcs
  <2>2. CASE AppendRefused(m) \/ AppendSucceeded(m) \/ SnapshotAnswered(m)
    BY <2>2, Zenon DEF AppendRefused, AppendSucceeded, SnapshotAnswered
  <2>3. CASE handleInstallSnapshot(m)
    BY <1>0, <2>3 DEF handleInstallSnapshot
  <2>4. CASE InstallSnapshot(m)
    BY <2>4 DEF InstallSnapshot, ReplyOrRetry, SnapshotReply, LeaderRpcs
  <2> QED BY Zenon, <2>1, <2>2, <2>3, <2>4
<1> QED BY Zenon, <1>2, <1>4, <1>5, <1>6, <1>7 DEF QuietStep

(* A restart: Make reads back the term and the vote, or, after a crash between
   two persists, a later term without one. *)
LEMMA RebootQuiet ==
    ASSUME ElectionInv, NEW s \in Servers, NEW T \in Term, NEW v \in Servers \cup {Nil},
           \/ T = currentTerm[s] /\ v = votedFor[s]
           \/ T > currentTerm[s] /\ v = Nil,
           Reboot(s, Image(s, T, v)), net' \subseteq net
    PROVE  QuietStep
<1>1. /\ ballots' = ballots
      /\ currentTerm' = [currentTerm EXCEPT ![s] = T]
      /\ votedFor' = [votedFor EXCEPT ![s] = v]
      /\ state' = [state EXCEPT ![s] = Follower]
      /\ voteCount' = [voteCount EXCEPT ![s] = 0]
  BY Zenon DEF Reboot, Image, historyVars
<1>2. /\ currentTerm \in [Servers -> Nat] /\ votedFor \in [Servers -> Servers \cup {Nil}]
      /\ state \in [Servers -> {Follower, PreCandidate, Candidate, Leader}]
      /\ voteCount \in [Servers -> Nat] /\ T \in Nat
  BY Zenon DEF ElectionInv, TypeOK, Term
<1>3. \A t \in Servers :
          /\ currentTerm'[t] >= currentTerm[t]
          /\ currentTerm'[t] = currentTerm[t] => votedFor'[t] = votedFor[t]
          /\ currentTerm'[t] > currentTerm[t] => votedFor'[t] = Nil /\ state'[t] # Leader
          /\ voteCount'[t] <= voteCount[t]
          /\ state'[t] = Leader => state[t] = Leader
  BY <1>1, <1>2 DEF Follower, Leader
<1> QED BY Zenon, <1>1, <1>3 DEF QuietStep

-----------------------------------------------------------------------------
(* The three steps of an election                                          *)

(* A candidate's ballot for itself is its only one in the new term, and the
   calls it sends are the first messages of that term. *)
LEMMA StartElectionVotes ==
    ASSUME Counting, ElectionInv, TypeOK', NEW s \in Servers, NEW P \in SUBSET (Servers \ {s}),
           StartElection(s, P)
    PROVE  BallotsBind' /\ VoteMessagesSound' /\ VotesCounted' /\ LeadersElected'
<1> DEFINE T == currentTerm[s] + 1
<1>0. /\ TypeOK /\ BallotsBind /\ VoteMessagesSound /\ VotesCounted /\ LeadersElected
  BY Zenon DEF ElectionInv
<1>1. /\ currentTerm \in [Servers -> Nat] /\ votedFor \in [Servers -> Servers \cup {Nil}]
      /\ voteCount \in [Servers -> Nat] /\ T \in Nat /\ T > currentTerm[s]
      /\ \A b \in ballots : b[1] \in Servers /\ b[2] \in Nat /\ b[3] \in Servers
  <2>1. currentTerm \in [Servers -> Nat] /\ votedFor \in [Servers -> Servers \cup {Nil}]
    BY Zenon, <1>0 DEF TypeOK, Term
  <2>2. \A b \in ballots : b[1] \in Servers /\ b[2] \in Nat /\ b[3] \in Servers
    BY Zenon, <1>0, BallotTypes
  <2>3. voteCount \in [Servers -> Nat]
    BY Zenon, <1>0 DEF TypeOK
  <2> QED BY <2>1, <2>2, <2>3
<1>2. /\ currentTerm' = [currentTerm EXCEPT ![s] = T]
      /\ votedFor' = [votedFor EXCEPT ![s] = s]
      /\ voteCount' = [voteCount EXCEPT ![s] = 1]
      /\ ballots' = ballots \cup {<<s, T, s>>}
      /\ state' = state /\ state[s] = Candidate
      /\ net' = net \cup {RequestVoteCall(s, p) : p \in P}
  BY Zenon DEF StartElection, Send
<1>3. \A n \in net' : \/ n \in net
                      \/ /\ n.rpc = "RequestVote" /\ n.from = s /\ n.Term = T
                         /\ n.to \in Servers \ {s} /\ n = RequestVoteCall(s, n.to)
  BY <1>2 DEF RequestVoteCall
<1>4. \A n \in net : n.rpc \in VoteRpcs => n.from \in Servers /\ n.Term \in Nat
  BY Zenon, <1>0, MessageKinds DEF VoteRpcs, RequestVoteMsg, RequestVoteReplyMsg, Term
<1>4a. \A n \in net : n.rpc \in VoteRpcs /\ n.from = s => n.Term # T
  <2> SUFFICES ASSUME NEW n \in net, n.rpc \in VoteRpcs, n.from = s PROVE n.Term # T
    BY Zenon
  <2>1. n.Term <= currentTerm[s] /\ n.Term \in Nat /\ currentTerm[s] \in Nat
    BY <1>0, <1>1, <1>4, Zenon DEF VoteMessagesSound, VoteRpcs
  <2> QED BY <1>1, <2>1
<1>5. \A r : <<r, T, s>> \notin ballots
  BY <1>0, <1>1 DEF BallotsBind
<1> HIDE DEF T
<1>6. BallotsBind'
  <2>1. ASSUME NEW b \in ballots'
        PROVE  /\ b[2] <= currentTerm'[b[1]]
               /\ b[2] = currentTerm'[b[1]] => votedFor'[b[1]] = b[3]
               /\ b[2] <= currentTerm'[b[3]]
    <3>1. CASE b = <<s, T, s>>
      BY <1>1, <1>2, <3>1
    <3>2. CASE b \in ballots
      <4>1. /\ b[1] \in Servers /\ b[2] \in Nat /\ b[3] \in Servers
            /\ b[2] <= currentTerm[b[1]] /\ b[2] <= currentTerm[b[3]]
            /\ b[2] = currentTerm[b[1]] => votedFor[b[1]] = b[3]
        BY Zenon, <1>0, <1>1, <3>2 DEF BallotsBind
      <4> QED BY <1>1, <1>2, <4>1 DEF T
    <3> QED BY Zenon, <1>2, <3>1, <3>2
  <2>2. ASSUME NEW a \in ballots', NEW b \in ballots', a[1] = b[1] /\ a[2] = b[2]
        PROVE  a[3] = b[3]
    <3>1. \A c \in ballots : c[1] = s => c[2] # T
      BY <1>0, <1>1 DEF BallotsBind, T
    <3>2. \A c \in ballots' : c \in ballots \/ (c[1] = s /\ c[2] = T /\ c[3] = s)
      BY <1>2
    <3> QED BY Zenon, <1>0, <2>2, <3>1, <3>2 DEF BallotsBind
  <2> QED BY Zenon, <2>1, <2>2 DEF BallotsBind
<1>7. VoteMessagesSound'
  <2>2. ASSUME NEW m \in net', m.rpc \in VoteRpcs
        PROVE  /\ m.to # m.from
               /\ m.Term <= currentTerm'[m.from]
               /\ m.Term = currentTerm'[m.from] => votedFor'[m.from] = m.from
               /\ m.rpc = "RequestVote" => <<m.to, m.Term, m.from>> \notin ballots'
               /\ m.rpc = "RequestVoteReply" /\ m.VoteGranted
                     => <<m.to, m.Term, m.from>> \in ballots'
               /\ \A n \in net' :
                     n.rpc \in VoteRpcs /\ n.from = m.from /\ n.to = m.to /\ n.Term = m.Term
                     => n = m
    <3>1. CASE m \in net
      <4>1. /\ m.to # m.from /\ m.Term <= currentTerm[m.from]
            /\ m.Term = currentTerm[m.from] => votedFor[m.from] = m.from
            /\ m.rpc = "RequestVote" => <<m.to, m.Term, m.from>> \notin ballots
            /\ m.rpc = "RequestVoteReply" /\ m.VoteGranted
                     => <<m.to, m.Term, m.from>> \in ballots
            /\ \A n \in net :
                  n.rpc \in VoteRpcs /\ n.from = m.from /\ n.to = m.to /\ n.Term = m.Term
                  => n = m
            /\ m.from \in Servers /\ m.Term \in Nat
        BY Zenon, <1>0, <1>4, <2>2, <3>1 DEF VoteMessagesSound, VoteRpcs
      <4>2. m.from = s => m.Term # T
        BY Zenon, <1>4a, <2>2, <3>1
      <4>3. m.Term <= currentTerm'[m.from]
        BY <1>1, <1>2, <4>1 DEF T
      <4>4. m.Term = currentTerm'[m.from] => votedFor'[m.from] = m.from
        BY Zenon, <1>1, <1>2, <4>1, <4>2
      <4>5. \A n \in net' :
               n.rpc \in VoteRpcs /\ n.from = m.from /\ n.to = m.to /\ n.Term = m.Term
               => n = m
        BY Zenon, <1>3, <4>1, <4>2
      <4> QED BY Zenon, <1>2, <4>1, <4>2, <4>3, <4>4, <4>5
    <3>2. CASE m \notin net
      <4>1. /\ m.rpc = "RequestVote" /\ m.from = s /\ m.Term = T
            /\ m.to \in Servers \ {s} /\ m = RequestVoteCall(s, m.to)
        BY Zenon, <1>3, <3>2
      <4>2. <<m.to, m.Term, m.from>> \notin ballots'
        BY Zenon, <1>2, <1>5, <4>1
      <4>3. \A n \in net' :
               n.rpc \in VoteRpcs /\ n.from = m.from /\ n.to = m.to /\ n.Term = m.Term
               => n = m
        BY Zenon, <1>3, <1>4a, <4>1
      <4>4. m.Term <= currentTerm'[m.from] /\ votedFor'[m.from] = m.from
        BY <1>1, <1>2, <4>1
      <4> QED BY Zenon, <4>1, <4>2, <4>3, <4>4
    <3> QED BY Zenon, <3>1, <3>2
  <2> QED BY Zenon, <2>2 DEF VoteMessagesSound, VoteRpcs
<1>8. VotesCounted'
  <2> SUFFICES ASSUME NEW t \in Servers, votedFor'[t] = t
               PROVE  voteCount'[t] <=
                        Cardinality(VotersOf(t, currentTerm[t])' \ Pending(t)')
    BY Zenon DEF VotesCounted
  <2>1. \A n \in net' : n.rpc = "RequestVoteReply" => n \in net
    BY Zenon, <1>3
  <2>2. CASE t = s
    <3>1. VotersOf(t, currentTerm[t])' = {s}
      BY Zenon, <1>1, <1>2, <1>5, <2>2 DEF VotersOf
    <3>3. Pending(t)' = {}
      BY Zenon, <1>1, <1>2, <1>4a, <2>1, <2>2 DEF Pending, VoteRpcs
    <3>4. voteCount'[t] = 1 /\ {s} \ {} = {s} /\ Cardinality({s}) = 1
      BY <1>1, <1>2, <2>2, Zenon DEF Counting
    <3> QED BY <3>1, <3>3, <3>4
  <2>3. CASE t # s
    <3>1. /\ currentTerm'[t] = currentTerm[t] /\ votedFor[t] = t
          /\ voteCount'[t] = voteCount[t]
      BY Zenon, <1>1, <1>2, <2>3
    <3>2. VotersOf(t, currentTerm[t])' = VotersOf(t, currentTerm[t])
      BY <1>2, <2>3, <3>1 DEF VotersOf
    <3>3. Pending(t)' = Pending(t)
      BY Zenon, <1>2, <2>1, <3>1 DEF Pending
    <3> QED BY Zenon, <1>0, <3>1, <3>2, <3>3 DEF VotesCounted
  <2> QED BY Zenon, <2>2, <2>3
<1>9. LeadersElected'
  <2>1. ballots \subseteq ballots'
    BY Zenon, <1>2
  <2>2. ASSUME NEW t \in Servers, state'[t] = Leader
        PROVE  Majority(Cardinality(VotersOf(t, currentTerm[t])))'
    <3>1. state[t] = Leader /\ t # s
      BY <1>2, <2>2 DEF Candidate, Leader
    <3>2. currentTerm'[t] = currentTerm[t] /\ Majority(Cardinality(VotersOf(t, currentTerm[t])))
      BY Zenon, <1>0, <1>1, <1>2, <3>1 DEF LeadersElected
    <3> QED BY <2>1, <3>2, VotersGrow, Zenon DEF VotersOf, Majority
  <2>3. ASSUME NEW m \in net', m.rpc \in LeaderRpcs
        PROVE  Majority(Cardinality(VotersOf(m.from, m.Term)))'
    <3>1. Majority(Cardinality(VotersOf(m.from, m.Term)))
      BY Zenon, <1>0, <1>3, <2>3 DEF LeadersElected, LeaderRpcs
    <3> QED BY <2>1, <3>1, VotersGrow, Zenon DEF VotersOf, Majority
  <2> QED BY Zenon, <2>2, <2>3 DEF LeadersElected
<1> QED BY Zenon, <1>6, <1>7, <1>8, <1>9

(* A handler that grants a vote adds the one ballot its call can lead to, and
   a reply that announces it; one that refuses adds neither. *)
LEMMA RequestVoteVotes ==
    ASSUME Counting, ElectionInv, TypeOK', NEW m \in net, RequestVote(m)
    PROVE  BallotsBind' /\ VoteMessagesSound' /\ VotesCounted' /\ LeadersElected'
<1> DEFINE r == m.to
           s == m.from
           T == m.Term
           granted == Grants(r, m)
           reply == VoteReply(m, granted)
<1>0. /\ TypeOK /\ BallotsBind /\ VoteMessagesSound /\ VotesCounted /\ LeadersElected
  BY Zenon DEF ElectionInv
<1>1. /\ currentTerm \in [Servers -> Nat] /\ votedFor \in [Servers -> Servers \cup {Nil}]
      /\ state \in [Servers -> {Follower, PreCandidate, Candidate, Leader}]
  BY Zenon, <1>0 DEF TypeOK, Term
<1>2. \A b \in ballots : b[1] \in Servers /\ b[2] \in Nat /\ b[3] \in Servers
  BY Zenon, <1>0, BallotTypes
<1>3. m.rpc = "RequestVote" /\ r \in Servers /\ s \in Servers /\ T \in Nat
  BY Zenon, <1>0, MessageKinds DEF RequestVote, RequestVoteMsg, Term
<1>4. /\ r # s /\ T <= currentTerm[s] /\ <<r, T, s>> \notin ballots
      /\ T = currentTerm[s] => votedFor[s] = s
      /\ \A n \in net : n.rpc \in VoteRpcs /\ n.from = s /\ n.to = r /\ n.Term = T => n = m
  BY Zenon, <1>0, <1>3 DEF VoteMessagesSound, VoteRpcs
<1>5. \A n \in net' : n \in net \ {m} \/ n = reply
  BY Zenon DEF RequestVote, Reply
<1>6. /\ reply.rpc = "RequestVoteReply" /\ reply.from = s /\ reply.to = r
      /\ reply.Term = T /\ reply.VoteGranted = granted
  BY Zenon DEF VoteReply
<1>7. granted => /\ T >= currentTerm[r]
                 /\ T > currentTerm[r] \/ votedFor[r] \in {Nil, s}
  BY Zenon DEF Grants
<1>8. \/ /\ T < currentTerm[r] /\ ballots' = ballots
         /\ UNCHANGED <<currentTerm, votedFor, state>>
      \/ /\ T >= currentTerm[r]
         /\ currentTerm' = [currentTerm EXCEPT ![r] = T]
         /\ votedFor' = [votedFor EXCEPT ![r] =
               IF granted THEN s ELSE IF T > currentTerm[r] THEN Nil ELSE @]
         /\ state' = [state EXCEPT ![r] =
               IF granted \/ T > currentTerm[r] THEN Follower ELSE @]
         /\ ballots' = ballots \cup (IF granted THEN {<<r, T, s>>} ELSE {})
  BY <1>1, <1>3 DEF RequestVote, persistentVars
<1>9. voteCount' = voteCount
  BY Zenon DEF RequestVote, countVars
<1> HIDE DEF r, s, T, granted, reply
<1>10. \A t \in Servers :
         /\ currentTerm'[t] \in Nat /\ currentTerm'[t] >= currentTerm[t]
         /\ t # r => currentTerm'[t] = currentTerm[t] /\ votedFor'[t] = votedFor[t]
         /\ ~granted /\ currentTerm'[t] = currentTerm[t] => votedFor'[t] = votedFor[t]
         /\ ~granted /\ currentTerm'[t] > currentTerm[t] => votedFor'[t] = Nil
         /\ state'[t] = Leader => state[t] = Leader /\ currentTerm'[t] = currentTerm[t]
  BY <1>1, <1>3, <1>7, <1>8 DEF Follower, Leader
<1>11. granted => currentTerm'[r] = T /\ votedFor'[r] = s
  BY <1>1, <1>3, <1>7, <1>8
<1>12. ballots' = ballots \cup (IF granted THEN {<<r, T, s>>} ELSE {})
  BY <1>1, <1>3, <1>7, <1>8
<1>13. Nil \notin Servers
  BY Zenon, NilAssumption
<1>14. BallotsBind'
  <2>1. ASSUME NEW b \in ballots'
        PROVE  /\ b[2] <= currentTerm'[b[1]]
               /\ b[2] = currentTerm'[b[1]] => votedFor'[b[1]] = b[3]
               /\ b[2] <= currentTerm'[b[3]]
    <3>1. CASE b \in ballots
      <4>1. /\ b[1] \in Servers /\ b[2] \in Nat /\ b[3] \in Servers
            /\ b[2] <= currentTerm[b[1]] /\ b[2] <= currentTerm[b[3]]
            /\ b[2] = currentTerm[b[1]] => votedFor[b[1]] = b[3]
        BY Zenon, <1>0, <1>2, <3>1 DEF BallotsBind
      <4>2. /\ currentTerm[b[1]] \in Nat /\ currentTerm[b[3]] \in Nat
            /\ currentTerm'[b[1]] \in Nat /\ currentTerm'[b[3]] \in Nat
            /\ currentTerm'[b[1]] >= currentTerm[b[1]] /\ currentTerm'[b[3]] >= currentTerm[b[3]]
        BY Zenon, <1>1, <1>10, <4>1
      <4>3. b[2] = currentTerm'[b[1]] =>
              currentTerm'[b[1]] = currentTerm[b[1]] /\ votedFor[b[1]] = b[3]
        BY <4>1, <4>2
      <4>4. b[2] = currentTerm'[b[1]] => votedFor'[b[1]] = b[3]
        <5>1. CASE b[1] # r \/ ~granted
          BY Zenon, <1>10, <4>1, <4>3, <5>1
        <5>2. CASE b[1] = r /\ granted
          BY <1>3, <1>7, <1>11, <1>13, <4>1, <4>2, <4>3, <5>2
        <5> QED BY Zenon, <5>1, <5>2
      <4> QED BY <4>1, <4>2, <4>4
    <3>2. CASE b \notin ballots
      <4>1. granted /\ b = <<r, T, s>>
        BY Zenon, <1>12, <3>2
      <4>2. currentTerm[s] \in Nat /\ currentTerm'[s] \in Nat /\ currentTerm'[s] >= currentTerm[s]
        BY Zenon, <1>1, <1>3, <1>10
      <4> QED BY <1>3, <1>4, <1>11, <4>1, <4>2
    <3> QED BY Zenon, <3>1, <3>2
  <2>2. ASSUME NEW a \in ballots', NEW b \in ballots', a[1] = b[1] /\ a[2] = b[2]
        PROVE  a[3] = b[3]
    <3>1. \A c \in ballots : granted /\ c[1] = r /\ c[2] = T => c[3] = s
      <4> SUFFICES ASSUME NEW c \in ballots, granted, c[1] = r, c[2] = T PROVE c[3] = s
        BY Zenon
      <4>1. T <= currentTerm[r] /\ (T = currentTerm[r] => votedFor[r] = c[3]) /\ c[3] # Nil
        BY Zenon, <1>0, <1>2, <1>13 DEF BallotsBind
      <4> QED BY <1>1, <1>3, <1>7, <4>1
    <3>2. \A c \in ballots' : c \in ballots \/ (granted /\ c[1] = r /\ c[2] = T /\ c[3] = s)
      BY <1>12
    <3> QED BY <1>0, <2>2, <3>1, <3>2 DEF BallotsBind
  <2> QED BY Zenon, <2>1, <2>2 DEF BallotsBind
<1>15. VoteMessagesSound'
  <2> DEFINE Sound(n) ==
               /\ n.to # n.from
               /\ n.Term <= currentTerm'[n.from]
               /\ n.Term = currentTerm'[n.from] => votedFor'[n.from] = n.from
               /\ n.rpc = "RequestVote" => <<n.to, n.Term, n.from>> \notin ballots'
               /\ n.rpc = "RequestVoteReply" /\ n.VoteGranted
                     => <<n.to, n.Term, n.from>> \in ballots'
  <2>1. ASSUME NEW n \in net \ {m}, n.rpc \in VoteRpcs
        PROVE  Sound(n) /\ ~(n.from = s /\ n.to = r /\ n.Term = T)
    <3>1. /\ n.to # n.from /\ n.Term <= currentTerm[n.from]
          /\ n.Term = currentTerm[n.from] => votedFor[n.from] = n.from
          /\ n.rpc = "RequestVote" => <<n.to, n.Term, n.from>> \notin ballots
          /\ n.rpc = "RequestVoteReply" /\ n.VoteGranted
                   => <<n.to, n.Term, n.from>> \in ballots
      BY Zenon, <1>0, <2>1 DEF VoteMessagesSound, VoteRpcs
    <3>2. n.from \in Servers /\ n.Term \in Nat
      BY Zenon, <1>0, <2>1, MessageKinds DEF VoteRpcs, RequestVoteMsg, RequestVoteReplyMsg, Term
    <3>3. ~(n.from = s /\ n.to = r /\ n.Term = T)
      BY Zenon, <1>4, <2>1
    <3>4. /\ currentTerm[n.from] \in Nat /\ currentTerm'[n.from] \in Nat
          /\ currentTerm'[n.from] >= currentTerm[n.from]
      BY Zenon, <1>1, <1>10, <3>2
    <3>5. n.Term = currentTerm'[n.from] =>
            currentTerm'[n.from] = currentTerm[n.from] /\ votedFor[n.from] = n.from
      BY <3>1, <3>2, <3>4
    <3>6. n.Term = currentTerm'[n.from] => votedFor'[n.from] = n.from
      <4>1. CASE n.from # r \/ ~granted
        BY Zenon, <1>10, <3>2, <3>5, <4>1
      <4>2. CASE n.from = r /\ granted
        BY <1>3, <1>4, <1>7, <1>11, <1>13, <3>2, <3>4, <3>5, <4>2
      <4> QED BY Zenon, <4>1, <4>2
    <3>7. n.rpc = "RequestVote" => <<n.to, n.Term, n.from>> \notin ballots'
      BY Zenon, <1>12, <3>1, <3>3
    <3>8. n.Term <= currentTerm'[n.from]
      BY <3>1, <3>2, <3>4
    <3> QED BY Zenon, <1>12, <3>1, <3>3, <3>6, <3>7, <3>8
  <2>2. Sound(reply)
    <3>1. currentTerm[s] \in Nat /\ currentTerm'[s] = currentTerm[s] /\ votedFor'[s] = votedFor[s]
      BY Zenon, <1>1, <1>3, <1>4, <1>10
    <3>2. T <= currentTerm'[s] /\ (T = currentTerm'[s] => votedFor'[s] = s)
      BY Zenon, <1>4, <3>1
    <3>3. granted => <<r, T, s>> \in ballots'
      BY Zenon, <1>12
    <3> QED BY Zenon, <1>4, <1>6, <3>2, <3>3
  <2>3. \A n \in net' : n.rpc \in VoteRpcs => Sound(n)
    BY Zenon, <1>5, <2>1, <2>2
  <2>4. ASSUME NEW n \in net', NEW k \in net', n.rpc \in VoteRpcs, k.rpc \in VoteRpcs,
               n.from = k.from, n.to = k.to, n.Term = k.Term
        PROVE  n = k
    <3>1. CASE n \in net \ {m} /\ k \in net \ {m}
      BY <1>0, <2>4, <3>1, Zenon DEF VoteMessagesSound, VoteRpcs
    <3>2. CASE n = reply \/ k = reply
      BY <1>5, <1>6, <2>1, <2>4, <3>2, Zenon
    <3> QED BY Zenon, <1>5, <3>1, <3>2
  <2> QED BY Zenon, <2>3, <2>4 DEF VoteMessagesSound, VoteRpcs
<1>16. VotesCounted'
  <2> SUFFICES ASSUME NEW t \in Servers, votedFor'[t] = t
               PROVE  voteCount'[t] <=
                        Cardinality(VotersOf(t, currentTerm[t])' \ Pending(t)')
    BY Zenon DEF VotesCounted
  <2>1. currentTerm'[t] = currentTerm[t] /\ votedFor[t] = t
    <3>1. CASE granted /\ t = r
      BY Zenon, <1>4, <1>11, <3>1
    <3>2. CASE ~(granted /\ t = r)
      BY <1>1, <1>10, <1>13, <3>2
    <3> QED BY Zenon, <3>1, <3>2
  <2> DEFINE A == VotersOf(t, currentTerm[t]) \ Pending(t)
             B == VotersOf(t, currentTerm[t])' \ Pending(t)'
  <2>2. A \subseteq B
    <3> SUFFICES ASSUME NEW x \in A PROVE x \in B
      BY Zenon
    <3>1. x \in Servers /\ <<x, currentTerm[t], t>> \in ballots /\ x \notin Pending(t)
      BY Zenon DEF VotersOf
    <3>2. x \in VotersOf(t, currentTerm[t])'
      BY Zenon, <1>12, <2>1, <3>1 DEF VotersOf
    <3>3. ASSUME x \in Pending(t)'
          PROVE  FALSE
      <4>1. PICK n \in net' : /\ n.rpc = "RequestVoteReply" /\ n.VoteGranted
                              /\ n.from = t /\ n.to = x /\ n.Term = currentTerm[t]
        BY Zenon, <2>1, <3>3 DEF Pending
      <4>2. n \notin net
        BY Zenon, <3>1, <4>1 DEF Pending
      <4>3. s = t /\ r = x /\ T = currentTerm[t]
        BY Zenon, <1>5, <1>6, <4>1, <4>2
      <4> QED BY Zenon, <1>4, <3>1, <4>3
    <3> QED BY Zenon, <3>2, <3>3
  <2>3. B \subseteq Servers
    BY Zenon DEF VotersOf
  <2>4. Cardinality(A) <= Cardinality(B) /\ Cardinality(A) \in Nat /\ Cardinality(B) \in Nat
    BY Zenon, <2>2, <2>3, PartCount
  <2>5. voteCount[t] <= Cardinality(A) /\ voteCount[t] \in Nat
    BY <1>0, <2>1, Zenon DEF VotesCounted, TypeOK
  <2> HIDE DEF A
  <2>6. voteCount'[t] <= Cardinality(B)
    <3> HIDE DEF B
    <3> QED BY <1>9, <2>4, <2>5
  <2> QED BY Zenon, <2>6
<1>17. LeadersElected'
  <2>1. ballots \subseteq ballots'
    BY Zenon, <1>12
  <2>2. ASSUME NEW t \in Servers, state'[t] = Leader
        PROVE  Majority(Cardinality(VotersOf(t, currentTerm[t])))'
    <3>1. currentTerm'[t] = currentTerm[t] /\ Majority(Cardinality(VotersOf(t, currentTerm[t])))
      BY Zenon, <1>0, <1>10, <2>2 DEF LeadersElected
    <3> QED BY <2>1, <3>1, VotersGrow, Zenon DEF VotersOf, Majority
  <2>3. ASSUME NEW n \in net', n.rpc \in LeaderRpcs
        PROVE  Majority(Cardinality(VotersOf(n.from, n.Term)))'
    <3>1. Majority(Cardinality(VotersOf(n.from, n.Term)))
      BY Zenon, <1>0, <1>5, <1>6, <2>3 DEF LeadersElected, LeaderRpcs
    <3> QED BY <2>1, <3>1, VotersGrow, Zenon DEF VotersOf, Majority
  <2> QED BY Zenon, <2>2, <2>3 DEF LeadersElected
<1> QED BY Zenon, <1>14, <1>15, <1>16, <1>17

(* A grant that is counted leaves the pending ones, so the count stays within
   the ballots cast; a majority of counted votes is one of ballots. *)
LEMMA CountVotes ==
    ASSUME Counting, ElectionInv, TypeOK', NEW m \in net, sendRequestVote(m)
    PROVE  BallotsBind' /\ VoteMessagesSound' /\ VotesCounted' /\ LeadersElected'
<1> DEFINE s == m.from
           r == m.to
           counted == /\ m.boot = boots[s] /\ m.Term = currentTerm[s]
                      /\ m.VoteGranted /\ state[s] >= Candidate /\ ~Majority(voteCount[s])
<1>0. /\ TypeOK /\ BallotsBind /\ VoteMessagesSound /\ VotesCounted /\ LeadersElected
  BY Zenon DEF ElectionInv
<1>1. /\ ballots' = ballots /\ currentTerm' = currentTerm /\ votedFor' = votedFor
      /\ net' = net \ {m}
  BY Zenon DEF sendRequestVote, persistentVars, historyVars
<1>2. m.rpc = "RequestVoteReply" /\ s \in Servers /\ r \in Servers
  BY <1>0, MessageKinds, Zenon DEF sendRequestVote
<1>3. voteCount \in [Servers -> Nat] /\ voteCount' \in [Servers -> Nat]
  BY Zenon, <1>0 DEF TypeOK
<1>4. voteCount' = [voteCount EXCEPT ![s] = IF counted THEN @ + 1 ELSE @]
  BY Zenon DEF sendRequestVote
<1>5. \A t \in Servers : state'[t] = Leader =>
         state[t] = Leader \/ (t = s /\ counted /\ Majority(voteCount[s] + 1))
  <2>1. state \in [Servers -> {Follower, PreCandidate, Candidate, Leader}]
    BY Zenon, <1>0 DEF TypeOK
  <2>2. state' = [state EXCEPT ![s] =
            IF counted /\ Majority(voteCount[s] + 1) THEN Leader
            ELSE IF m.boot = boots[s] /\ m.Term = currentTerm[s] /\ ~m.VoteGranted
                 THEN Follower ELSE @]
    BY Zenon DEF sendRequestVote
  <2> HIDE DEF counted
  <2> QED BY <1>2, <2>1, <2>2 DEF Follower, Leader
<1>6. counted => /\ <<r, currentTerm[s], s>> \in ballots /\ votedFor[s] = s
                 /\ \A n \in net : n.rpc = "RequestVoteReply" /\ n.from = s /\ n.to = r
                                   /\ n.Term = currentTerm[s] => n = m
                 /\ r \in Pending(s)
  BY Zenon, <1>0, <1>2 DEF VoteMessagesSound, Pending
<1> HIDE DEF s, r, counted
<1>7. BallotsBind' /\ VoteMessagesSound'
  BY Zenon, <1>0, <1>1 DEF BallotsBind, VoteMessagesSound
<1>8. ASSUME NEW t \in Servers, votedFor'[t] = t
      PROVE  voteCount'[t] <= Cardinality(VotersOf(t, currentTerm[t])' \ Pending(t)')
  <2> DEFINE V == VotersOf(t, currentTerm[t])
             A == V \ Pending(t)
             B == V \ Pending(t)'
  <2>1. VotersOf(t, currentTerm[t])' = V /\ V \subseteq Servers
    BY Zenon, <1>1 DEF VotersOf
  <2>2. Pending(t)' \subseteq Pending(t)
    BY Zenon, <1>1 DEF Pending
  <2>3. /\ A \in SUBSET Servers /\ B \in SUBSET Servers
        /\ Cardinality(A) \in Nat /\ Cardinality(B) \in Nat
    BY <2>1, PartCount, Zenon
  <2>4. A \subseteq B
    BY Zenon, <2>2
  <2>5. voteCount[t] <= Cardinality(A) /\ voteCount[t] \in Nat
    BY <1>0, <1>1, <1>3, <1>8, Zenon DEF VotesCounted
  <2>6. CASE ~(t = s /\ counted)
    <3>1. voteCount'[t] = voteCount[t]
      BY Zenon, <1>2, <1>3, <1>4, <2>6
    <3>2. Cardinality(A) <= Cardinality(B)
      BY Zenon, <2>3, <2>4, PartCount
    <3>3. voteCount'[t] <= Cardinality(B)
      <4> HIDE DEF A, B
      <4> QED BY <2>3, <2>5, <3>1, <3>2
    <3> QED BY Zenon, <2>1, <3>3
  <2>7. CASE t = s /\ counted
    <3>1. r \in V /\ r \in Pending(t)
      BY Zenon, <1>2, <1>6, <2>7 DEF VotersOf
    <3>2. r \notin Pending(t)'
      BY Zenon, <1>1, <1>6, <2>7 DEF Pending
    <3>3. A \cup {r} \subseteq B /\ r \notin A
      BY Zenon, <2>4, <3>1, <3>2
    <3> HIDE DEF A, B
    <3>4. Cardinality(A \cup {r}) = Cardinality(A) + 1
      <4>1. r \in Servers \ A
        BY Zenon, <1>2, <3>3
      <4> QED BY <2>3, <4>1, Zenon DEF Counting
    <3>5. Cardinality(A \cup {r}) <= Cardinality(B)
      BY Zenon, <2>3, <3>3, PartCount
    <3>6. voteCount'[t] = voteCount[t] + 1
      BY Zenon, <1>2, <1>3, <1>4, <2>7
    <3>7. voteCount'[t] <= Cardinality(B)
      BY <2>3, <2>5, <3>4, <3>5, <3>6
    <3> QED BY Zenon, <2>1, <3>7 DEF B
  <2> QED BY Zenon, <2>6, <2>7
<1>9. LeadersElected'
  <2>1. ASSUME NEW t \in Servers, state'[t] = Leader
        PROVE  Majority(Cardinality(VotersOf(t, currentTerm[t])))'
    <3>1. CASE state[t] = Leader
      BY Zenon, <1>0, <1>1, <3>1 DEF LeadersElected, Majority, VotersOf
    <3>2. CASE t = s /\ counted /\ Majority(voteCount[s] + 1)
      <4> DEFINE V == VotersOf(t, currentTerm[t])
                 B == V \ Pending(t)'
      <4>1. VotersOf(t, currentTerm[t])' = V /\ V \subseteq Servers /\ B \subseteq V
        BY Zenon, <1>1 DEF VotersOf
      <4>2. /\ Cardinality(B) <= Cardinality(V)
            /\ Cardinality(B) \in Nat /\ Cardinality(V) \in Nat /\ Cardinality(Servers) \in Nat
        BY <4>1, PartCount, Zenon
      <4>3. voteCount'[t] <= Cardinality(B)
        BY Zenon, <1>1, <1>6, <1>8, <3>2, <4>1
      <4>4. voteCount'[t] = voteCount[s] + 1 /\ voteCount'[t] \in Nat
        BY Zenon, <1>2, <1>3, <1>4, <3>2
      <4> HIDE DEF V, B
      <4>5. Majority(Cardinality(V))
        BY <3>2, <4>2, <4>3, <4>4 DEF Majority
      <4> QED BY Zenon, <4>1, <4>5 DEF Majority
    <3> QED BY Zenon, <1>5, <2>1, <3>1, <3>2
  <2>2. ASSUME NEW n \in net', n.rpc \in LeaderRpcs
        PROVE  Majority(Cardinality(VotersOf(n.from, n.Term)))'
    BY Zenon, <1>0, <1>1, <2>2 DEF LeadersElected, Majority, VotersOf
  <2> QED BY Zenon, <2>1, <2>2 DEF LeadersElected
<1>10. VotesCounted'
  BY Zenon, <1>8 DEF VotesCounted
<1> QED BY Zenon, <1>7, <1>9, <1>10

-----------------------------------------------------------------------------
(* Every step is without votes or one of the three of an election. *)
LEMMA StepKinds ==
    ASSUME ElectionInv, Next
    PROVE  \/ QuietStep
           \/ \E s \in Servers : \E P \in SUBSET (Servers \ {s}) : StartElection(s, P)
           \/ \E m \in net : RequestVote(m) \/ sendRequestVote(m)
<1>1. ASSUME NEW s \in Servers,
             \/ StartPreVote(s) \/ sendPreVote(s)
             \/ \E P \in SUBSET (Servers \ {s}) : doLeader(s, P)
             \/ \E c \in Commands : Start(s, c)
             \/ \E i \in 1..MaxSnapshot : Snapshot(s, i)
      PROVE  QuietStep
  BY Zenon, <1>1, LocalQuiet
<1>2. ASSUME NEW s \in Servers, Restart(s)
      PROVE  QuietStep
  <2>1. currentTerm[s] \in Term /\ votedFor[s] \in Servers \cup {Nil}
    BY Zenon DEF ElectionInv, TypeOK
  <2>2. Reboot(s, Image(s, currentTerm[s], votedFor[s])) /\ net' \subseteq net
    BY Zenon, <1>2, RebootImage
  <2> QED BY Zenon, <2>1, <2>2, RebootQuiet
<1>3. ASSUME NEW m \in net, CrashBetweenPersists(m)
      PROVE  QuietStep
  <2>1. /\ m.to \in Servers /\ m.Term \in Term /\ m.Term > currentTerm[m.to]
        /\ Reboot(m.to, Image(m.to, m.Term, Nil)) /\ net' \subseteq net
    BY Zenon, <1>3, RebootImage
  <2> QED BY Zenon, <2>1, RebootQuiet
<1>4. ASSUME NEW m \in net,
             \/ RejectAppendEntries(m) \/ AcceptAppendEntries(m)
             \/ AppendRefused(m) \/ AppendSucceeded(m)
             \/ handleInstallSnapshot(m) \/ InstallSnapshot(m) \/ SnapshotAnswered(m)
      PROVE  QuietStep
  BY Zenon, <1>4, HandlerQuiet
<1> QED BY Zenon, <1>1, <1>2, <1>3, <1>4 DEF Next, Handle

(* Every step keeps what is known about votes. *)
LEMMA VotesStep ==
    ASSUME Counting, ElectionInv, TypeOK', Next
    PROVE  BallotsBind' /\ VoteMessagesSound' /\ VotesCounted' /\ LeadersElected'
BY Zenon, StepKinds, QuietPreserves, StartElectionVotes, RequestVoteVotes, CountVotes

(* No step takes back a term or, within its term, a vote; and a server that
   leads after a step has just counted its last vote, or led before it in the
   same term. *)
LEMMA StableNext ==
    ASSUME ElectionInv, TypeOK', Next
    PROVE  /\ StableStep
           /\ \A s \in Servers : state'[s] = Leader =>
                 \/ state[s] = Leader /\ currentTerm'[s] = currentTerm[s]
                 \/ \E m \in net : sendRequestVote(m) /\ m.from = s
<1>0. TypeOK /\ TypeOK'
  BY Zenon DEF ElectionInv
<1>1. /\ currentTerm \in [Servers -> Nat] /\ votedFor \in [Servers -> Servers \cup {Nil}]
      /\ state \in [Servers -> {Follower, PreCandidate, Candidate, Leader}]
      /\ \A s \in Servers : currentTerm'[s] \in Nat
  BY Zenon, <1>0 DEF TypeOK, Term
<1>2. CASE QuietStep
  <2>1. \A s \in Servers :
           /\ currentTerm'[s] >= currentTerm[s]
           /\ currentTerm'[s] = currentTerm[s] => votedFor'[s] = votedFor[s]
           /\ currentTerm'[s] > currentTerm[s] => state'[s] # Leader
           /\ state'[s] = Leader => state[s] = Leader
    BY <1>2, Zenon DEF QuietStep
  <2>2. StableStep
    BY <2>1, Zenon DEF StableStep
  <2>3. ASSUME NEW s \in Servers, state'[s] = Leader
        PROVE  state[s] = Leader /\ currentTerm'[s] = currentTerm[s]
    <3>1. currentTerm[s] \in Nat /\ currentTerm'[s] \in Nat
      BY Zenon, <1>1
    <3> QED BY <2>1, <2>3, <3>1
  <2> QED BY <2>2, <2>3, Zenon
<1>3. ASSUME NEW s \in Servers, NEW P \in SUBSET (Servers \ {s}), StartElection(s, P)
      PROVE  StableStep /\ \A t \in Servers : state'[t] = Leader =>
                              state[t] = Leader /\ currentTerm'[t] = currentTerm[t]
  <2>1. /\ currentTerm' = [currentTerm EXCEPT ![s] = @ + 1]
        /\ votedFor' = [votedFor EXCEPT ![s] = s] /\ state' = state /\ state[s] = Candidate
    BY Zenon, <1>3 DEF StartElection
  <2> QED BY <1>1, <2>1 DEF StableStep, Candidate, Leader
<1>4. ASSUME NEW m \in net, RequestVote(m)
      PROVE  StableStep /\ \A t \in Servers : state'[t] = Leader =>
                              state[t] = Leader /\ currentTerm'[t] = currentTerm[t]
  <2>1. m.to \in Servers /\ m.Term \in Nat
    BY Zenon, <1>0, <1>4, MessageKinds DEF RequestVote, RequestVoteMsg, Term
  <2>2. CASE m.Term < currentTerm[m.to]
    <3>1. UNCHANGED <<currentTerm, votedFor, state>>
      BY Zenon, <1>4, <2>2 DEF RequestVote, persistentVars
    <3> QED BY <1>1, <3>1 DEF StableStep
  <2>3. CASE ~(m.Term < currentTerm[m.to])
    <3> DEFINE granted == Grants(m.to, m)
    <3>1. /\ granted => m.Term > currentTerm[m.to] \/ votedFor[m.to] \in {Nil, m.from}
          /\ currentTerm' = [currentTerm EXCEPT ![m.to] = m.Term]
          /\ votedFor' = [votedFor EXCEPT ![m.to] = IF granted THEN m.from
                               ELSE IF m.Term > currentTerm[m.to] THEN Nil ELSE @]
          /\ state' = [state EXCEPT ![m.to] =
                               IF granted \/ m.Term > currentTerm[m.to] THEN Follower ELSE @]
      BY Zenon, <1>4, <2>3 DEF RequestVote, Grants
    <3> HIDE DEF granted
    <3> QED BY <1>1, <2>1, <2>3, <3>1 DEF StableStep, Follower, Leader
  <2> QED BY Zenon, <2>2, <2>3
<1>5. ASSUME NEW m \in net, sendRequestVote(m)
      PROVE  StableStep /\ \A t \in Servers : state'[t] = Leader =>
                              \/ state[t] = Leader /\ currentTerm'[t] = currentTerm[t]
                              \/ m.from = t
  <2>1. currentTerm' = currentTerm /\ votedFor' = votedFor
    BY <1>5, Zenon DEF sendRequestVote, persistentVars
  <2>2. \A t \in Servers \ {m.from} : state'[t] = state[t]
    BY <1>1, <1>5, Zenon DEF sendRequestVote
  <2> QED BY <1>1, <2>1, <2>2 DEF StableStep
<1> QED BY Zenon, <1>2, <1>3, <1>4, <1>5, StepKinds

-----------------------------------------------------------------------------
(* The initial state                                                       *)

(* The servers as Make leaves them satisfy the invariant. *)
LEMMA InitInv == Init => ElectionInv
<1> SUFFICES ASSUME Init PROVE ElectionInv
  BY Zenon
<1>1. TypeOK
  <2>1. Placeholder \in Entry /\ <<Placeholder>> \in Seq(Entry) \ {<<>>}
    BY DEF Placeholder, Entry, EntryTerm
  <2> QED BY <2>1 DEF Init, TypeOK, Term, Index, EntryTerm, Follower, PreCandidate, Candidate, Leader
<1>2. DiskIsCurrent
  BY Zenon DEF Init, DiskIsCurrent
<1>3. BallotsBind /\ VoteMessagesSound /\ SnapshotLength /\ CallsWithinLog
  BY Zenon DEF Init, BallotsBind, VoteMessagesSound, SnapshotLength, CallsWithinLog
<1>4. VotesCounted /\ LeadersElected /\ NextIndexInLog
  BY NilAssumption DEF Init, VotesCounted, LeadersElected, NextIndexInLog, Follower, Leader
<1> QED BY Zenon, <1>1, <1>2, <1>3, <1>4 DEF ElectionInv

-----------------------------------------------------------------------------
(* A leader's log does not shrink in its term                              *)

(* Nobody else leads in a leader's term, so nothing it is sent in that term
   replaces its log. *)
LEMMA LeaderLogGrows ==
    ASSUME Counting, ElectionInv, Next, NEW s \in Servers, currentTerm'[s] = currentTerm[s],
           Majority(Cardinality(VotersOf(s, currentTerm[s])))
    PROVE  LastIndex(s)' >= LastIndex(s)
<1>1. ASSUME NEW m \in net, m.rpc \in {"AppendEntries", "InstallSnapshot"},
             m.to = s, currentTerm'[s] = m.Term
      PROVE  FALSE
  <2>1. Majority(Cardinality(VotersOf(m.from, currentTerm[s])))
    BY Zenon, <1>1 DEF ElectionInv, LeadersElected, LeaderRpcs
  <2>2. m.from = s
    BY Zenon, <2>1, OneLeader DEF ElectionInv
  <2> QED BY Zenon, <1>1, <2>2 DEF ElectionInv, CallsWithinLog
<1> QED BY Zenon, <1>1, LogShape

(* Every step keeps a leader's calls within its log. *)
LEMMA CallsStep ==
    ASSUME Counting, ElectionInv, Next
    PROVE  CallsWithinLog'
<1>0. TypeOK /\ TypeOK' /\ CallsWithinLog /\ LeadersElected /\ StableStep
  BY Zenon, TypeStep, StableNext DEF ElectionInv
<1> SUFFICES ASSUME NEW n \in net',
                    n.rpc \in {"AppendEntries", "AppendEntriesReply", "InstallSnapshot",
                               "handleInstallSnapshot"}
             PROVE  /\ n.to # n.from
                    /\ n.rpc \in {"AppendEntries", "AppendEntriesReply"} =>
                         n.Term <= currentTerm'[n.from]
                    /\ n.rpc = "AppendEntries" /\ n.Term = currentTerm'[n.from] =>
                         n.PrevLogIndex + Len(n.Entries) <= LastIndex(n.from)'
                    /\ n.rpc = "AppendEntriesReply" /\ n.Term = currentTerm'[n.from] =>
                         n.Match <= LastIndex(n.from)'
  BY Zenon DEF CallsWithinLog
<1>1. /\ n.to # n.from /\ n.from \in Servers
      /\ n.rpc \in {"AppendEntries", "AppendEntriesReply"} =>
            /\ n.Term \in Nat /\ n.Term <= currentTerm[n.from]
            /\ n.Term = currentTerm[n.from] =>
                 Majority(Cardinality(VotersOf(n.from, currentTerm[n.from])))
      /\ n.rpc = "AppendEntries" /\ n.Term = currentTerm[n.from] =>
           n.PrevLogIndex + Len(n.Entries) <= LastIndex(n.from)
      /\ n.rpc = "AppendEntriesReply" /\ n.Term = currentTerm[n.from] =>
           n.Match <= LastIndex(n.from)
  <2>1. CASE n \in net
    <3>1. /\ n.from \in Servers
          /\ n.rpc \in {"AppendEntries", "AppendEntriesReply"} => n.Term \in Nat
      BY Zenon, <1>0, <2>1, MessageKinds DEF AppendEntriesMsg, AppendEntriesReplyMsg, Term
    <3> QED BY Zenon, <1>0, <2>1, <3>1 DEF CallsWithinLog, LeadersElected, LeaderRpcs
  <2>2. CASE n \notin net
    BY Zenon, <2>2, NewCalls
  <2> QED BY Zenon, <2>1, <2>2
<1>2. /\ currentTerm[n.from] \in Nat /\ currentTerm'[n.from] \in Nat
      /\ currentTerm'[n.from] >= currentTerm[n.from]
  BY Zenon, <1>0, <1>1 DEF TypeOK, Term, StableStep
<1>3. /\ LastIndex(n.from) \in Nat /\ LastIndex(n.from)' \in Int
      /\ n.rpc = "AppendEntries" => n.PrevLogIndex + Len(n.Entries) \in Nat
      /\ n.rpc = "AppendEntriesReply" => n.Match \in Nat
  <2>1. LastIndex(n.from) \in Nat
    BY <1>0, <1>1, LogTypes, Zenon
  <2>2. LastIndex(n.from)' \in Int
    <3>1. Len(log'[n.from]) \in Nat /\ lastIncludedIndex'[n.from] \in Nat
      <4>1. log' \in [Servers -> Seq(Entry) \ {<<>>}] /\ lastIncludedIndex' \in [Servers -> Index]
        BY Zenon, <1>0 DEF TypeOK
      <4> QED BY <1>1, <4>1 DEF Index
    <3> QED BY <3>1 DEF LastIndex, VirtualLogIdx
  <2>3. n \in Message
    BY Zenon, <1>0 DEF TypeOK
  <2>4. /\ n.rpc = "AppendEntries" => n.PrevLogIndex \in Nat /\ Len(n.Entries) \in Nat
        /\ n.rpc = "AppendEntriesReply" => n.Match \in Nat
    BY <2>3 DEF Message, RequestVoteMsg, RequestVoteReplyMsg, AppendEntriesMsg,
                AppendEntriesReplyMsg, SnapshotTask, InstallSnapshotMsg,
                InstallSnapshotReplyMsg, Index
  <2> QED BY <2>1, <2>2, <2>4
<1>4. ASSUME n.rpc \in {"AppendEntries", "AppendEntriesReply"}, n.Term = currentTerm'[n.from]
      PROVE  /\ n.Term = currentTerm[n.from]
             /\ LastIndex(n.from)' >= LastIndex(n.from)
  <2>1. n.Term = currentTerm[n.from]
    BY <1>1, <1>2, <1>4
  <2>2. /\ n.from \in Servers /\ currentTerm'[n.from] = currentTerm[n.from]
        /\ Majority(Cardinality(VotersOf(n.from, currentTerm[n.from])))
    BY Zenon, <1>1, <1>4, <2>1
  <2> QED BY Zenon, <2>1, <2>2, LeaderLogGrows
<1> QED BY <1>1, <1>2, <1>3, <1>4

(* The entry an AppendEntries starts from is in its leader's log. *)
LEMMA NextIndexStep ==
    ASSUME Counting, ElectionInv, Next
    PROVE  NextIndexInLog'
<1>0. TypeOK /\ TypeOK' /\ NextIndexInLog /\ CallsWithinLog /\ LeadersElected
  BY Zenon, TypeStep DEF ElectionInv
<1> SUFFICES ASSUME NEW s \in Servers, NEW p \in Servers, state'[s] = Leader
             PROVE  nextIndex'[s][p] <= VirtualLogIdx(s, Len(log[s]))'
  BY Zenon DEF NextIndexInLog
<1>1. /\ LastIndex(s) \in Nat /\ LastIndex(s) = lastIncludedIndex[s] + Len(log[s]) - 1
      /\ Len(log[s]) \in Nat /\ Len(log[s]) >= 1 /\ lastIncludedIndex[s] \in Nat
  BY Zenon, <1>0, LogTypes
<1>2. /\ Len(log'[s]) \in Nat /\ lastIncludedIndex'[s] \in Nat
      /\ LastIndex(s)' = Len(log'[s]) - 1 + lastIncludedIndex'[s]
      /\ VirtualLogIdx(s, Len(log[s]))' = LastIndex(s)' + 1
  <2>1. log' \in [Servers -> Seq(Entry) \ {<<>>}]
    BY Zenon, <1>0 DEF TypeOK
  <2>2. lastIncludedIndex' \in [Servers -> Index]
    BY Zenon, <1>0 DEF TypeOK
  <2>3. Len(log'[s]) \in Nat /\ lastIncludedIndex'[s] \in Nat
    BY <2>1, <2>2 DEF Index
  <2> QED BY <2>3 DEF LastIndex, VirtualLogIdx
<1>3. nextIndex \in [Servers -> [Servers -> Nat]] /\ nextIndex'[s][p] \in Nat
  <2>1. nextIndex \in [Servers -> [Servers -> Index]]
    BY Zenon, <1>0 DEF TypeOK
  <2>2. nextIndex' \in [Servers -> [Servers -> Index]]
    BY Zenon, <1>0 DEF TypeOK
  <2> QED BY Zenon, <2>1, <2>2 DEF Index
<1>4. CASE state[s] = Leader /\ currentTerm'[s] = currentTerm[s]
  <2>1. Majority(Cardinality(VotersOf(s, currentTerm[s])))
    BY Zenon, <1>0, <1>4 DEF LeadersElected
  <2>2. LastIndex(s)' >= LastIndex(s)
    BY Zenon, <1>4, <2>1, LeaderLogGrows
  <2>3. nextIndex[s][p] <= LastIndex(s) + 1 /\ nextIndex[s][p] \in Nat
    BY <1>0, <1>1, <1>3, <1>4 DEF NextIndexInLog, VirtualLogIdx
  <2>4. ASSUME nextIndex'[s][p] # nextIndex[s][p]
        PROVE  \/ nextIndex'[s][p] <= LastIndex(s) + 1
               \/ nextIndex'[s][p] <= LastIndex(s)' + 1
    <3>1. ASSUME NEW t \in Servers, NEW c \in Commands, Start(t, c)
          PROVE  nextIndex'[s][p] <= LastIndex(s)' + 1
      <4>1. /\ nextIndex' = [nextIndex EXCEPT ![t][t] = VirtualLogIdx(t, Len(log[t]) + 1)]
            /\ log' = [log EXCEPT ![t] = Append(@, [Term |-> currentTerm[t], Command |-> c])]
            /\ lastIncludedIndex' = lastIncludedIndex
        BY Zenon, <3>1 DEF Start
      <4>2. s = t /\ nextIndex'[s][p] = VirtualLogIdx(s, Len(log[s]) + 1)
        BY Zenon, <1>3, <2>4, <4>1
      <4>3. log[s] \in Seq(Entry) /\ [Term |-> currentTerm[s], Command |-> c] \in Entry
        <5>1. currentTerm[s] \in Term
          BY Zenon, <1>0 DEF TypeOK
        <5>2. log[s] \in Seq(Entry)
          BY Zenon, <1>0, LogTypes
        <5> QED BY Zenon, <5>1, <5>2 DEF Entry, EntryTerm
      <4>4. log'[s] = Append(log[s], [Term |-> currentTerm[s], Command |-> c])
        BY Zenon, <1>0, <4>1, <4>2 DEF TypeOK
      <4>5. Len(log'[s]) = Len(log[s]) + 1
        BY <4>3, <4>4, AppendType
      <4> QED BY <1>1, <1>2, <4>1, <4>2, <4>5 DEF VirtualLogIdx
    <3>2. ASSUME NEW m \in net, AppendRefused(m)
          PROVE  nextIndex'[s][p] <= LastIndex(s) + 1
      <4> DEFINE behind == /\ m.boot = boots[m.from] /\ m.Term = currentTerm[m.from]
                           /\ m.ReplyTerm = currentTerm[m.from] /\ state[m.from] = Leader
      <4>1. nextIndex' = [nextIndex EXCEPT ![m.from][m.to] =
                            IF behind THEN Backoff(m.from, m.to) ELSE @]
        BY <3>2, Zenon DEF AppendRefused
      <4> HIDE DEF behind
      <4>2. m.from \in Servers /\ m.to \in Servers
        BY Zenon, <1>0, MessageKinds
      <4>3. nextIndex'[s][p] = Backoff(s, p)
        BY <1>3, <2>4, <4>1, <4>2, Zenon
      <4> QED BY Zenon, <1>0, <2>3, <4>3, BackoffBound
    <3>3. ASSUME NEW m \in net, AppendSucceeded(m)
          PROVE  nextIndex'[s][p] <= LastIndex(s) + 1
      <4>1. m.from \in Servers /\ m.to \in Servers /\ m.Match \in Nat
        BY Zenon, <1>0, <3>3, MessageKinds DEF AppendSucceeded, AppendEntriesReplyMsg, Index
      <4>2. /\ m.rpc = "AppendEntriesReply" /\ m.Term = currentTerm[m.from]
            /\ nextIndex' = [nextIndex EXCEPT ![m.from][m.to] = m.Match + 1]
        BY Zenon, <2>4, <3>3 DEF AppendSucceeded, leaderVars
      <4>3. m.from = s /\ nextIndex'[s][p] = m.Match + 1
        BY Zenon, <1>3, <2>4, <4>1, <4>2
      <4>4. m.Match <= LastIndex(s)
        BY Zenon, <1>0, <4>2, <4>3 DEF CallsWithinLog
      <4> QED BY <1>1, <4>1, <4>3, <4>4
    <3>4. ASSUME NEW m \in net, SnapshotAnswered(m)
          PROVE  nextIndex'[s][p] <= LastIndex(s) + 1
      <4> DEFINE kept == ~(m.boot = boots[m.from] /\ m.ReplyTerm > currentTerm[m.from])
      <4>1. nextIndex' = [nextIndex EXCEPT ![m.from][m.to] =
                 IF m.boot = boots[m.from] /\ kept THEN VirtualLogIdx(m.from, 1) ELSE @]
        BY <3>4, Zenon DEF SnapshotAnswered
      <4> HIDE DEF kept
      <4>2. m.from \in Servers /\ m.to \in Servers
        BY Zenon, <1>0, MessageKinds
      <4>3. nextIndex'[s][p] = VirtualLogIdx(s, 1)
        BY Zenon, <1>3, <2>4, <4>1, <4>2
      <4> QED BY <1>1, <4>3 DEF VirtualLogIdx
    <3>5. ASSUME NEW m \in net, sendRequestVote(m)
          PROVE  nextIndex'[s][p] <= LastIndex(s) + 1
      <4>1. nextIndex' = [nextIndex EXCEPT ![m.from] =
                            [q \in Servers |-> VirtualLogIdx(m.from, Len(log[m.from]))]]
        BY <2>4, <3>5, Zenon DEF sendRequestVote, leaderVars
      <4>2. m.from \in Servers
        BY Zenon, <1>0, MessageKinds
      <4>3. nextIndex'[s][p] = VirtualLogIdx(s, Len(log[s]))
        BY Zenon, <1>3, <2>4, <4>1, <4>2
      <4> QED BY <1>1, <4>3 DEF VirtualLogIdx
    <3>6. ASSUME NEW t \in Servers, NEW T, NEW v, Reboot(t, Image(t, T, v))
          PROVE  FALSE
      <4> DEFINE next == [q \in Servers |->
                            Len(Image(t, T, v).log) + Image(t, T, v).lastIncludedIndex]
      <4>1. nextIndex' = [nextIndex EXCEPT ![t] = next]
        BY <3>6, Zenon DEF Reboot
      <4> HIDE DEF next
      <4>2. state' = [state EXCEPT ![t] = Follower]
        BY <3>6, Zenon DEF Reboot
      <4>3. s # t
        BY <1>0, <4>2 DEF TypeOK, Follower, Leader
      <4> QED BY Zenon, <1>3, <2>4, <4>1, <4>3
    <3>7. ASSUME NEW t \in Servers,
                 \/ StartPreVote(t) \/ sendPreVote(t)
                 \/ \E P \in SUBSET (Servers \ {t}) : StartElection(t, P) \/ doLeader(t, P)
                 \/ \E i \in 1..MaxSnapshot : Snapshot(t, i)
          PROVE  FALSE
      <4>1. nextIndex' = nextIndex
        <5>1. CASE StartPreVote(t) \/ sendPreVote(t)
          BY Zenon, <5>1 DEF StartPreVote, sendPreVote, leaderVars
        <5>2. CASE \E P \in SUBSET (Servers \ {t}) : StartElection(t, P)
          BY Zenon, <5>2 DEF StartElection, leaderVars
        <5>3. CASE \E P \in SUBSET (Servers \ {t}) : doLeader(t, P)
          BY Zenon, <5>3 DEF doLeader, leaderVars
        <5>4. CASE \E i \in 1..MaxSnapshot : Snapshot(t, i)
          BY Zenon, <5>4 DEF Snapshot, leaderVars
        <5> QED BY Zenon, <3>7, <5>1, <5>2, <5>3, <5>4
      <4> QED BY Zenon, <2>4, <4>1
    <3>8. ASSUME NEW m \in net,
                 \/ RequestVote(m) \/ RejectAppendEntries(m) \/ AcceptAppendEntries(m)
                 \/ handleInstallSnapshot(m) \/ InstallSnapshot(m)
          PROVE  FALSE
      <4>1. nextIndex' = nextIndex
        BY <3>8, Zenon DEF RequestVote, RejectAppendEntries, AcceptAppendEntries,
                    handleInstallSnapshot, InstallSnapshot, leaderVars
      <4> QED BY Zenon, <2>4, <4>1
    <3>9. ASSUME \/ \E t \in Servers : Restart(t)
                 \/ \E m \in net : CrashBetweenPersists(m)
          PROVE  FALSE
      BY Zenon, <3>6, <3>9, RebootImage
    <3> QED BY <3>1, <3>2, <3>3, <3>4, <3>5, <3>7, <3>8, <3>9, Zenon DEF Next, Handle
  <2>5. LastIndex(s)' \in Int
    BY <1>2
  <2>6. CASE nextIndex'[s][p] = nextIndex[s][p]
    BY <1>1, <1>2, <2>2, <2>3, <2>5, <2>6
  <2>7. CASE nextIndex'[s][p] # nextIndex[s][p]
    <3>1. CASE nextIndex'[s][p] <= LastIndex(s) + 1
      <4>1. LastIndex(s) + 1 <= LastIndex(s)' + 1
        BY <1>1, <2>2, <2>5
      <4>2. LastIndex(s) + 1 \in Int /\ LastIndex(s)' + 1 \in Int /\ nextIndex'[s][p] \in Int
        BY <1>1, <1>3, <2>5
      <4>3. nextIndex'[s][p] <= LastIndex(s)' + 1
        BY <3>1, <4>1, <4>2
      <4> QED BY Zenon, <1>2, <4>3
    <3>2. CASE nextIndex'[s][p] <= LastIndex(s)' + 1
      BY Zenon, <1>2, <3>2
    <3> QED BY Zenon, <2>4, <2>7, <3>1, <3>2
  <2> QED BY Zenon, <2>6, <2>7
<1>5. CASE state[s] # Leader /\ \E m \in net : sendRequestVote(m) /\ m.from = s
  <2>1. PICK m \in net : sendRequestVote(m) /\ m.from = s
    BY Zenon, <1>5
  <2>2. state \in [Servers -> {Follower, PreCandidate, Candidate, Leader}]
    BY Zenon, <1>0 DEF TypeOK
  <2>3. /\ nextIndex' = [nextIndex EXCEPT ![s] = [q \in Servers |-> VirtualLogIdx(s, Len(log[s]))]]
        /\ UNCHANGED <<log, lastIncludedIndex>>
    <3>1. Follower # Leader
      BY DEF Follower, Leader
    <3>2. UNCHANGED <<log, lastIncludedIndex>>
      BY Zenon, <2>1 DEF sendRequestVote, persistentVars
    <3>3. \/ nextIndex' = [nextIndex EXCEPT ![s] = [q \in Servers |-> VirtualLogIdx(s, Len(log[s]))]]
          \/ state'[s] = Follower \/ state'[s] = state[s]
      BY Zenon, <2>1, <2>2 DEF sendRequestVote
    <3> QED BY Zenon, <1>5, <3>1, <3>2, <3>3
  <2>4. nextIndex'[s][p] = VirtualLogIdx(s, Len(log[s]))
    BY Zenon, <1>3, <2>3
  <2> QED BY <1>1, <1>2, <2>3, <2>4 DEF VirtualLogIdx
<1>6. CASE state[s] = Leader /\ \E m \in net : sendRequestVote(m) /\ m.from = s
  BY <1>4, <1>6, Zenon DEF sendRequestVote, persistentVars
<1>7. \/ state[s] = Leader /\ currentTerm'[s] = currentTerm[s]
      \/ \E m \in net : sendRequestVote(m) /\ m.from = s
  BY <1>0, StableNext, Zenon
<1> QED BY <1>4, <1>5, <1>6, <1>7, Zenon

-----------------------------------------------------------------------------
(* The invariant                                                           *)

(* A step in which nothing changes. *)
LEMMA Stutter ==
    ASSUME ElectionInv, UNCHANGED vars
    PROVE  ElectionInv'
<1> USE DEF ElectionInv, vars, persistentVars, leaderVars, countVars, historyVars
<1>1. TypeOK'
  BY Zenon DEF TypeOK
<1>2. DiskIsCurrent'
  BY Zenon DEF DiskIsCurrent, encodeState
<1>3. BallotsBind' /\ VoteMessagesSound'
  BY Zenon DEF BallotsBind, VoteMessagesSound
<1>4. VotesCounted' /\ LeadersElected'
  BY Zenon DEF VotesCounted, LeadersElected, VotersOf, Pending
<1>5. SnapshotLength' /\ CallsWithinLog' /\ NextIndexInLog'
  BY Zenon DEF SnapshotLength, CallsWithinLog, NextIndexInLog, LastIndex, VirtualLogIdx
<1> QED BY Zenon, <1>1, <1>2, <1>3, <1>4, <1>5

(* Every step, or none, keeps the invariant. *)
LEMMA ElectionStep ==
    ASSUME Counting, ElectionInv, [Next]_vars
    PROVE  ElectionInv'
<1>1. CASE Next
  BY Zenon, <1>1, TypeStep, VotesStep, DiskStep, SnapshotStep, CallsStep, NextIndexStep
     DEF ElectionInv
<1>2. CASE UNCHANGED vars
  BY Zenon, <1>2, Stutter
<1> QED BY Zenon, <1>1, <1>2

(* The voters of a majority have cast one vote each. *)
LEMMA OneLeaderPerTerm ==
    ASSUME Counting, ElectionInv
    PROVE  ElectionSafety
<1>1. TypeOK /\ BallotsBind /\ LeadersElected
  BY Zenon DEF ElectionInv
<1>2. ASSUME NEW s \in Servers, NEW t \in Servers, state[s] = Leader, state[t] = Leader,
             currentTerm[s] = currentTerm[t]
      PROVE  s = t
  <2>1. /\ Majority(Cardinality(VotersOf(s, currentTerm[s])))
        /\ Majority(Cardinality(VotersOf(t, currentTerm[s])))
    BY Zenon, <1>1, <1>2 DEF LeadersElected
  <2> QED BY Zenon, <1>1, <2>1, OneLeader
<1>3. ASSUME NEW m \in net, NEW n \in net, m.rpc \in {"AppendEntries", "InstallSnapshot"},
             n.rpc \in {"AppendEntries", "InstallSnapshot"}, m.Term = n.Term
      PROVE  m.from = n.from
  <2>1. /\ Majority(Cardinality(VotersOf(m.from, m.Term)))
        /\ Majority(Cardinality(VotersOf(n.from, m.Term)))
    BY Zenon, <1>1, <1>3 DEF LeadersElected, LeaderRpcs
  <2> QED BY Zenon, <1>1, <2>1, OneLeader
<1> QED BY Zenon, <1>2, <1>3 DEF ElectionSafety
===============================================================================
