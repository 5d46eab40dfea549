------------------------------ MODULE RaftProofs ------------------------------
(****************************************************************************)
(* The theorems about module Raft, for any finite set of servers and any   *)
(* bounds: elections with snapshots and crashes, and the logs as long as   *)
(* nobody takes a snapshot.                                                 *)
(****************************************************************************)
EXTENDS RaftVotes, RaftSafety

-----------------------------------------------------------------------------
(* A leader that hears of success                                          *)

(* With two servers, one is no majority. *)
LEMMA TwoServers ==
    ASSUME Counting, NEW s \in Servers, NEW r \in Servers, r # s
    PROVE  Cardinality({}) = 0 /\ 2 <= Cardinality(Servers) /\ Cardinality(Servers) \in Nat
<1>1. Cardinality({} \cup {s}) = Cardinality({}) + 1 /\ Cardinality({}) \in Nat
  BY Zenon DEF Counting
<1>2. {} \cup {s} = {s} /\ Cardinality({s}) = 1
  BY Zenon DEF Counting
<1>3. Cardinality({s} \cup {r}) = Cardinality({s}) + 1
  BY Zenon DEF Counting
<1>4. /\ Cardinality({s} \cup {r}) <= Cardinality(Servers) /\ Cardinality(Servers) \in Nat
      /\ Cardinality({s} \cup {r}) \in Nat
  <2>1. {s} \cup {r} \in SUBSET Servers
    BY Zenon
  <2> QED BY Zenon, <2>1 DEF Counting
<1>5. 1 = Cardinality({}) + 1 /\ Cardinality({s} \cup {r}) = 1 + 1
  BY Zenon, <1>1, <1>2, <1>3
<1>6. \A x, y, z \in Nat : 1 = x + 1 /\ y = 1 + 1 /\ y <= z => x = 0 /\ 2 <= z
  OBVIOUS
<1> QED BY Zenon, <1>1, <1>4, <1>5, <1>6

(* A leader that hears that a peer took its entries: what it then commits, a
   majority has taken in its own term. *)
LEMMA SuccessKeeps ==
    ASSUME R!QuorumRules, Counting, ElectionInv, ReplicationInv, NEW m \in net,
           AppendSucceeded(m)
    PROVE  [R!Next]_(R!vars) /\ OutcomeFaithful
<1> DEFINE s == m.from
           t == currentTerm[s]
           match == [matchIndex[s] EXCEPT ![m.to] = m.Match]
           new == Committable(s, match)
<1>1. TypeOK /\ NoSnapshots /\ VoteMessagesSound /\ R!Inv
  BY Zenon DEF ElectionInv, ReplicationInv
<1>2. /\ m.rpc = "AppendEntriesReply" /\ m.Success /\ net' = net \ {m}
      /\ UNCHANGED <<persistentVars, state, ballots, leaderLog, acks>>
  BY Zenon DEF AppendSucceeded
<1>3. /\ s \in Servers /\ m.to \in Servers /\ m.to # s /\ m.Match \in Nat
      /\ <<m.to, m.Term, m.Match>> \in acks
  <2>1. m \in AppendEntriesReplyMsg
    BY Zenon, <1>1, <1>2, MessageKinds
  <2> QED BY Zenon, <1>2, <2>1 DEF AppendEntriesReplyMsg, Index, ElectionInv, CallsWithinLog,
                ReplicationInv, AnswersFaithful
<1>4. LogOf' = LogOf /\ UNCHANGED <<currentTerm, log, snapShot, lastIncludedIndex>>
  BY Zenon, <1>2, SameLogs DEF persistentVars
<1>5. NoSnapshots'
  BY Zenon, <1>1, <1>2, <1>4, NoSnapshotsKept
<1>6. CASE ~(m.boot = boots[s] /\ m.Term = t)
  <2>1. UNCHANGED <<leaderVars, commitIndex, committed>>
    BY Zenon, <1>6 DEF AppendSucceeded
  <2>2. CalmStep
    BY Zenon, <1>2, <1>4, <2>1, CalmStay DEF leaderVars, historyVars
  <2> QED BY Zenon, <1>1, <2>2, CalmKeeps
<1>7. CASE m.boot = boots[s] /\ m.Term = t
  <2>1. /\ matchIndex' = [matchIndex EXCEPT ![s] = match]
        /\ IF new # {}
           THEN /\ commitIndex' = [commitIndex EXCEPT ![s] = Max(new)]
                /\ committed' = committed \cup {SubSeq(WholeLog(s), 1, Max(new))}
           ELSE UNCHANGED <<commitIndex, committed>>
    BY Zenon, <1>7 DEF AppendSucceeded
  <2>2. /\ t \in R!Elected /\ R!Leads(s)
    <3>1. t \in R!Elected
      BY Zenon, <1>1, <1>3, <1>7 DEF R!Inv, R!AcksSound
    <3>2. VotersOf(s, t) \in Majorities
      BY Zenon, <1>2, <1>7 DEF ElectionInv, LeadersElected, LeaderRpcs, VotersOf, Majorities
    <3>3. VotersOf(s, t) = R!Voters(s, t)
      BY Zenon DEF VotersOf, R!Voters
    <3> QED BY Zenon, <3>1, <3>2, <3>3 DEF R!Leads
  <2>3. ASSUME NEW p \in Servers
        PROVE  match[p] \in Nat /\ (match[p] > 0 => <<p, t, match[p]>> \in acks)
    <3>1. matchIndex[s] \in [Servers -> Nat]
      BY Zenon, <1>1, <1>3 DEF TypeOK, Index
    <3>2. match[p] = IF p = m.to THEN m.Match ELSE matchIndex[s][p]
      BY Zenon, <3>1
    <3> QED BY Zenon, <1>3, <1>7, <2>2, <3>1, <3>2 DEF ReplicationInv, AnswersFaithful
  <2> HIDE DEF match
  <2>4. ASSUME new # {}
        PROVE  R!Commit(s, Max(new))
    <3>1. PICK n \in new : n = Max(new)
      <4>1. new \in SUBSET (commitIndex[s] + 1 .. LastIndex(s))
        BY Zenon DEF Committable
      <4>2. commitIndex[s] + 1 \in Int /\ LastIndex(s) \in Int
        <5>1. commitIndex[s] \in Nat
          BY Zenon, <1>1, <1>3 DEF TypeOK, Index
        <5>2. LastIndex(s) \in Nat
          BY Zenon, <1>1, <1>3, LogTypes
        <5> QED BY <5>1, <5>2
      <4> HIDE DEF new
      <4> QED BY Zenon, <2>4, <4>1, <4>2, MaxInterval
    <3> DEFINE P == {p \in Servers \ {s} : match[p] >= n}
    <3>2. /\ n \in commitIndex[s] + 1 .. LastIndex(s)
          /\ Majority(1 + Cardinality({p \in P : TermAt(s, n) = t}))
      <4>1. {p \in P : TermAt(s, n) = t} = {p \in Servers \ {s} : match[p] >= n /\ TermAt(s, n) = t}
        BY Zenon
      <4> QED BY Zenon, <4>1 DEF Committable
    <3>3. n \in 1..Len(LogOf[s])
      <4>1. LastIndex(s) = Len(LogOf[s]) /\ Len(LogOf[s]) \in Nat /\ commitIndex[s] \in Nat
        BY Zenon, <1>1, <1>3, LogView DEF TypeOK, Index
      <4> QED BY <3>2, <4>1
    <3>4. TermAt(s, n) = t
      <4> SUFFICES ASSUME TermAt(s, n) # t
                   PROVE  FALSE
        BY Zenon
      <4>1. {p \in P : TermAt(s, n) = t} = {}
        BY Zenon
      <4>2. Cardinality({}) = 0 /\ 2 <= Cardinality(Servers) /\ Cardinality(Servers) \in Nat
        BY Zenon, <1>3, TwoServers
      <4>3. PICK c \in Nat : c = Cardinality(Servers) /\ c \div 2 >= 1
        BY <4>2
      <4>4. 1 + 0 > c \div 2
        BY Zenon, <3>2, <4>1, <4>2, <4>3 DEF Majority
      <4> QED BY <4>3, <4>4
    <3>5. P \cup {s} \in Majorities
      <4>1. {p \in P : TermAt(s, n) = t} = P /\ P \in SUBSET Servers /\ s \in Servers \ P
        BY Zenon, <1>3, <3>4
      <4> HIDE DEF P
      <4>2. Cardinality(P \cup {s}) = Cardinality(P) + 1 /\ Cardinality(P) \in Nat
        BY Zenon, <4>1 DEF Counting
      <4>3. P \cup {s} \in SUBSET Servers
        BY Zenon, <4>1
      <4> QED BY <3>2, <4>1, <4>2, <4>3 DEF Majorities, Majority
    <3>6. P \cup {s} \subseteq R!Holders(t, n)
      <4>1. ASSUME NEW p \in P
            PROVE  R!Acked(p, t, n)
        <5>1. match[p] \in Nat /\ match[p] >= n /\ n \in Nat /\ n > 0 /\ <<p, t, match[p]>> \in acks
          BY <2>3, <3>3
        <5> QED BY Zenon, <5>1 DEF R!Acked
      <4>2. R!Acked(s, t, n)
        <5>1. <<s, t, Len(LogOf[s])>> \in acks /\ Len(LogOf[s]) >= n
          BY <1>1, <1>3, <2>2, <3>3 DEF R!Inv, R!LeadersOwnTheirTerm
        <5> QED BY Zenon, <5>1 DEF R!Acked
      <4> QED BY Zenon, <1>3, <4>1, <4>2 DEF R!Holders
    <3>7. R!Holders(t, n) \in Majorities
      <4>1. R!Holders(t, n) \in SUBSET Servers
        BY Zenon DEF R!Holders
      <4> QED BY Zenon, <3>5, <3>6, <4>1 DEF R!QuorumRules
    <3>8. LogOf[s][n].Term = t
      BY <1>1, <1>3, <3>3, <3>4, LogView DEF TermIn
    <3>9. committed' = committed \cup {SubSeq(LogOf[s], 1, n)}
      BY Zenon, <1>3, <2>1, <2>4, <3>1 DEF LogOf
    <3> HIDE DEF new, P
    <3> QED BY Zenon, <1>2, <1>4, <2>2, <3>1, <3>3, <3>7, <3>8, <3>9 DEF R!Commit
  <2> HIDE DEF new
  <2>5. [R!Next]_(R!vars)
    <3>1. CASE new # {}
      BY Zenon, <1>3, <2>4, <3>1 DEF R!Next, R!Commit
    <3>2. CASE new = {}
      BY Zenon, <1>2, <1>4, <2>1, <3>2 DEF R!vars
    <3> QED BY Zenon, <3>1, <3>2
  <2>6. ASSUME NEW r \in Servers, NEW p \in Servers, R!Leads(r)', matchIndex'[r][p] > 0
        PROVE  <<p, currentTerm'[r], matchIndex'[r][p]>> \in acks'
    <3>1. R!Leads(r)
      BY Zenon, <1>1, <1>2, <2>5, <2>6, R!LeadsStays DEF R!Elected
    <3>2. matchIndex'[r] = IF r = s THEN match ELSE matchIndex[r]
      BY Zenon, <1>1, <1>3, <2>1 DEF TypeOK
    <3> QED BY Zenon, <1>2, <1>4, <2>3, <2>6, <3>1, <3>2 DEF ReplicationInv, AnswersFaithful
  <2>7. \A r \in Servers :
           \/ commitIndex'[r] = commitIndex[r]
           \/ /\ commitIndex'[r] > commitIndex[r]
              /\ R!Learned(LogOf[r], commitIndex[r], currentTerm[r])'
    <3>1. CASE new # {}
      <4>1. PICK n : n = Max(new) /\ R!Commit(s, n)
        BY Zenon, <2>4, <3>1
      <4>2. R!Learned(LogOf[s], n, currentTerm[s])'
        BY Zenon, <1>1, <1>3, <4>1, R!CommitterLearns
      <4>3. commitIndex'[s] = n /\ \A r \in Servers \ {s} : commitIndex'[r] = commitIndex[r]
        BY Zenon, <1>1, <1>3, <2>1, <3>1, <4>1 DEF TypeOK
      <4>4. n > commitIndex[s]
        BY Zenon, <1>1, <1>3, <3>1, <4>1, CommittableBound DEF new
      <4> QED BY Zenon, <4>2, <4>3, <4>4
    <3>2. CASE new = {}
      BY Zenon, <2>1, <3>2
    <3> QED BY Zenon, <3>1, <3>2
  <2>8. OutcomeFaithful
    BY Zenon, <1>2, <1>4, <1>5, <2>6, <2>7 DEF OutcomeFaithful
  <2> QED BY Zenon, <2>5, <2>8
<1> QED BY Zenon, <1>6, <1>7

-----------------------------------------------------------------------------
(* Every step, and what follows                                            *)

(* Every step of Raft is one of LogReplication, or none, and faithful. *)
LEMMA FaithfulStep ==
    ASSUME Counting, MaxSnapshot = 0, ElectionInv, LeadersElected', TypeOK',
           ReplicationInv, Next
    PROVE  [R!Next]_(R!vars) /\ OutcomeFaithful
<1>1. R!QuorumRules /\ TypeOK /\ VoteMessagesSound
  BY Zenon, MajorityRules DEF ElectionInv
<1>2. CASE CalmStep
  BY Zenon, <1>1, <1>2, CalmKeeps
<1>3. CASE \E s \in Servers : \/ \E P \in SUBSET (Servers \ {s}) : StartElection(s, P)
                              \/ \E c \in Commands : Start(s, c)
  BY Zenon, <1>1, <1>3, ElectionKeeps, StartKeeps
<1>4. CASE \E m \in net : \/ RequestVote(m) /\ Grants(m.to, m)
                          \/ sendRequestVote(m) /\ Wins(m)
  BY Zenon, <1>1, <1>4, GrantKeeps, WinKeeps
<1>5. CASE \E m \in net : AcceptAppendEntries(m) \/ AppendSucceeded(m)
  BY Zenon, <1>1, <1>5, AcceptKeeps, SuccessKeeps
<1> QED BY Zenon, <1>2, <1>3, <1>4, <1>5, StepCases

(* ... and so keeps the invariant. *)
LEMMA ReplicationStep ==
    ASSUME Counting, MaxSnapshot = 0, ElectionInv, ElectionInv', ReplicationInv, [Next]_vars
    PROVE  [R!Next]_(R!vars) /\ ReplicationInv'
<1>1. R!QuorumRules /\ TypeOK /\ VoteMessagesSound /\ LeadersElected' /\ TypeOK'
  BY Zenon, MajorityRules DEF ElectionInv
<1>2. CASE Next
  BY Zenon, <1>1, <1>2, FaithfulStep, StepKeeps
<1>3. CASE UNCHANGED vars
  <2>1. CalmStep
    BY Zenon, <1>3 DEF CalmStep, vars, persistentVars, leaderVars, historyVars
  <2> QED BY Zenon, <1>1, <2>1, CalmKeeps, StepKeeps
<1> QED BY Zenon, <1>2, <1>3

(* The servers as Make leaves them are servers of LogReplication. *)
LEMMA ReplicationInit ==
    ASSUME Counting, Init
    PROVE  R!Init /\ ReplicationInv
<1>1. R!QuorumRules
  BY Zenon, MajorityRules
<1>2. LogOf = [s \in Servers |-> <<>>]
  <2>1. Tail(<<Placeholder>>) = <<>> /\ <<>> \o <<>> = <<>>
    OBVIOUS
  <2> QED BY Zenon, <2>1 DEF Init, LogOf, WholeLog
<1>3. R!Init
  BY Zenon, <1>2 DEF Init, R!Init
<1>4. R!Inv
  BY Zenon, <1>1, <1>3, R!InvInit
<1>5. NoSnapshots
  BY Zenon DEF Init, NoSnapshots, Placeholder
<1>6. CallsFaithful /\ CandidatesFaithful /\ LeadersRecorded
  BY DEF Init, CallsFaithful, CandidatesFaithful, LeadersRecorded, Follower, Leader
<1>7. AnswersFaithful /\ CommitsLearned
  BY DEF Init, AnswersFaithful, CommitsLearned, R!Learned
<1> QED BY Zenon, <1>3, <1>4, <1>5, <1>6, <1>7 DEF ReplicationInv

(* Logs that agree have equal prefixes. *)
LEMMA AgreeIsPrefix ==
    ASSUME NEW a \in Seq(R!Entry), NEW b \in Seq(R!Entry), NEW n \in Nat, R!Agree(a, b, n)
    PROVE  /\ SubSeq(a, 1, n) = SubSeq(b, 1, n) /\ IsPrefixOf(SubSeq(a, 1, n), b)
           /\ n = Len(a) => IsPrefixOf(a, b)
<1>1. n <= Len(a) /\ n <= Len(b) /\ \A i \in 1..n : a[i] = b[i]
  BY Zenon DEF R!Agree
<1>2. SubSeq(a, 1, n) = SubSeq(b, 1, n) /\ Len(SubSeq(a, 1, n)) = n
  BY <1>1
<1>3. n = Len(a) => SubSeq(a, 1, n) = a
  OBVIOUS
<1> QED BY Zenon, <1>1, <1>2, <1>3 DEF IsPrefixOf

(* The four properties of the servers' logs, read off the leaders' logs. *)
LEMMA LogsAgree ==
    ASSUME Counting, ElectionInv, ReplicationInv
    PROVE  LogMatching /\ LeaderCompleteness /\ StateMachineSafety /\ MatchIndexSound
<1>1. /\ R!QuorumRules /\ TypeOK /\ LeadersElected /\ NoSnapshots
      /\ R!Inv /\ R!TypeOK /\ R!LogsFromLeaders /\ R!AcksSound
  BY Zenon, MajorityRules DEF ElectionInv, ReplicationInv, R!Inv
<1>2. /\ \A s \in Servers : /\ WholeLog(s) = LogOf[s] /\ LogOf[s] \in Seq(R!Entry)
                            /\ Len(LogOf[s]) \in Nat /\ currentTerm[s] \in Nat
      /\ \A p \in committed : p \in Seq(R!Entry) /\ Len(p) \in Nat
  BY <1>1, R!LogTypes DEF LogOf, R!TypeOK
<1>3. LogMatching
  <2> SUFFICES ASSUME NEW s \in Servers, NEW t \in Servers,
                      NEW i \in DOMAIN WholeLog(s) \cap DOMAIN WholeLog(t),
                      WholeLog(s)[i].Term = WholeLog(t)[i].Term
               PROVE  SubSeq(WholeLog(s), 1, i) = SubSeq(WholeLog(t), 1, i)
    BY Zenon DEF LogMatching
  <2> WholeLog(s) = LogOf[s] /\ WholeLog(t) = LogOf[t]
    BY Zenon, <1>2
  <2>1. i \in 1..Len(LogOf[s]) /\ i \in 1..Len(LogOf[t]) /\ i \in Nat
    BY <1>2
  <2>2. R!Agree(LogOf[s], LogOf[t], i)
    BY Zenon, <1>1, <1>2, <2>1, R!Matching DEF R!LogsFromLeaders
  <2> QED BY <1>2, <2>1, <2>2, AgreeIsPrefix
<1>4. LeaderCompleteness
  <2> SUFFICES ASSUME NEW s \in Servers, NEW p \in committed,
                      state[s] = Leader, currentTerm[s] >= p[Len(p)].Term
               PROVE  IsPrefixOf(p, LogOf[s])
    BY Zenon, <1>2 DEF LeaderCompleteness
  <2>1. /\ currentTerm[s] \in R!Elected /\ LogOf[s] = leaderLog[currentTerm[s]]
    BY Zenon, <1>1, LeaderView DEF R!Elected
  <2>2. Len(p) > 0 /\ p[Len(p)].Term \in Nat
    BY Zenon, <1>1, <1>2 DEF R!Inv, R!CommittedHeld, R!TypeOK
  <2>3. R!LastTerm(p) <= currentTerm[s]
    BY <1>2, <2>2 DEF R!LastTerm
  <2>4. R!Agree(p, LogOf[s], Len(p))
    BY Zenon, <1>1, <2>1, <2>3, R!LeadersHold
  <2> QED BY Zenon, <1>2, <2>4, AgreeIsPrefix
<1>5. StateMachineSafety
  <2>1. CommittedAgree
    <3> SUFFICES ASSUME NEW p \in committed, NEW q \in committed
                 PROVE  IsPrefixOf(p, q) \/ IsPrefixOf(q, p)
      BY Zenon DEF CommittedAgree
    <3>1. CASE Len(p) <= Len(q)
      BY Zenon, <1>1, <1>2, <3>1, R!CommitsAgree, AgreeIsPrefix
    <3>2. CASE Len(q) <= Len(p)
      BY Zenon, <1>1, <1>2, <3>2, R!CommitsAgree, AgreeIsPrefix
    <3> QED BY <1>2, <3>1, <3>2
  <2>2. ASSUME NEW s \in Servers
        PROVE  commitIndex[s] \in Nat /\ commitIndex[s] <= LastIndex(s)
    BY Zenon, <1>1, CommitInLog, LogView
  <2>3. ASSUME NEW s \in Servers, commitIndex[s] > 0
        PROVE  \E p \in committed : IsPrefixOf(SubSeq(LogOf[s], 1, commitIndex[s]), p)
    <3>1. PICK p \in committed : R!Agree(LogOf[s], p, commitIndex[s])
      BY <2>2, <2>3 DEF ReplicationInv, CommitsLearned, R!Learned
    <3> QED BY Zenon, <1>2, <2>2, <3>1, AgreeIsPrefix
  <2> QED BY Zenon, <1>2, <2>1, <2>2, <2>3 DEF StateMachineSafety
<1>6. MatchIndexSound
  <2> SUFFICES ASSUME NEW s \in Servers, NEW p \in Servers, state[s] = Leader,
                      currentTerm[p] = currentTerm[s]
               PROVE  /\ matchIndex[s][p] <= LastIndex(s)
                      /\ IsPrefixOf(SubSeq(LogOf[s], 1, matchIndex[s][p]), LogOf[p])
    BY Zenon, <1>2 DEF MatchIndexSound
  <2> DEFINE n == matchIndex[s][p]
  <2>1. R!Leads(s) /\ LogOf[s] = leaderLog[currentTerm[s]] /\ LastIndex(s) = Len(LogOf[s])
    BY Zenon, <1>1, LeaderView, LogView
  <2>2. n \in Nat
    BY Zenon, <1>1 DEF TypeOK, Index
  <2>3. n <= Len(LogOf[s]) /\ R!Agree(LogOf[s], LogOf[p], n)
    <3>1. CASE n = 0
      BY <1>2, <3>1 DEF R!Agree
    <3>2. CASE n > 0
      <4>1. <<p, currentTerm[s], n>> \in acks
        BY Zenon, <2>1, <3>2 DEF ReplicationInv, AnswersFaithful
      <4>2. n <= Len(LogOf[s]) /\ R!Agree(LogOf[p], LogOf[s], n)
        BY Zenon, <1>1, <2>1, <4>1 DEF R!AcksSound
      <4> QED BY Zenon, <4>2 DEF R!Agree
    <3> QED BY <2>2, <3>1, <3>2
  <2> QED BY Zenon, <1>2, <2>1, <2>2, <2>3, AgreeIsPrefix
<1> QED BY Zenon, <1>3, <1>4, <1>5, <1>6

(* A leader that goes on leading has a log that only grows, and commitIndex
   moves back only in a restart. *)
LEMMA OnlyAppends ==
    ASSUME Counting, MaxSnapshot = 0, ElectionInv, ElectionInv', ReplicationInv, Next,
           NEW s \in Servers
    PROVE  /\ state[s] = Leader /\ state'[s] = Leader => IsPrefixOf(WholeLog(s), WholeLog(s)')
           /\ boots'[s] = boots[s] => commitIndex'[s] >= commitIndex[s]
<1>1. /\ R!QuorumRules /\ TypeOK /\ LeadersElected /\ TypeOK' /\ LeadersElected'
      /\ [R!Next]_(R!vars) /\ OutcomeFaithful /\ ReplicationInv'
  BY Zenon, MajorityRules, FaithfulStep, ReplicationStep DEF ElectionInv
<1>2. boots'[s] = boots[s] => commitIndex'[s] >= commitIndex[s]
  <2>1. commitIndex[s] \in Int /\ commitIndex'[s] \in Int
    BY <1>1 DEF TypeOK, Index
  <2> QED BY <1>1, <2>1 DEF OutcomeFaithful
<1>3. ASSUME state[s] = Leader, state'[s] = Leader
      PROVE  IsPrefixOf(LogOf[s], LogOf'[s])
  <2> DEFINE t == currentTerm[s]
  <2>1. t \in R!Elected /\ LogOf[s] = leaderLog[t]
    BY Zenon, <1>1, <1>3, LeaderView DEF R!Elected
  <2>2. currentTerm'[s] = t
    BY Zenon, <1>1, <1>3 DEF OutcomeFaithful
  <2>3. LogOf'[s] = leaderLog'[t]
    <3>1. t \in DOMAIN leaderLog'
      BY Zenon, <1>1, <1>3, <2>2 DEF ReplicationInv, LeadersRecorded
    <3>2. R!Voters(s, t)' = VotersOf(s, t)'
      BY Zenon DEF R!Voters, VotersOf
    <3>3. VotersOf(s, t)' \in Majorities
      BY Zenon, <1>1, <1>3, <2>2 DEF LeadersElected, VotersOf, Majorities
    <3>4. R!Leads(s)'
      BY Zenon, <2>2, <3>1, <3>2, <3>3 DEF R!Leads, R!Elected, R!Voters, VotersOf
    <3> QED BY Zenon, <1>1, <2>2, <3>4 DEF ReplicationInv, R!Inv, R!LeadersOwnTheirTerm
  <2>4. R!Agree(leaderLog'[t], leaderLog[t], Len(leaderLog[t]))
    BY Zenon, <1>1, <2>1, R!StepGrows DEF ReplicationInv, R!GrowStep
  <2>5. LogOf[s] \in Seq(R!Entry) /\ LogOf'[s] \in Seq(R!Entry) /\ Len(LogOf[s]) \in Nat
    BY Zenon, <1>1, R!LogTypes DEF ReplicationInv, R!Inv, R!TypeOK
  <2>6. R!Agree(LogOf[s], LogOf'[s], Len(LogOf[s]))
    BY Zenon, <2>1, <2>3, <2>4 DEF R!Agree
  <2> QED BY Zenon, <2>5, <2>6, AgreeIsPrefix
<1>4. WholeLog(s) = LogOf[s] /\ WholeLog(s)' = LogOf'[s]
  BY Zenon DEF LogOf
<1> QED BY Zenon, <1>2, <1>3, <1>4

-----------------------------------------------------------------------------
(* Counting servers                                                        *)

FS == INSTANCE FiniteSetTheorems
WF == INSTANCE WellFoundedInduction

(* The library's finite sets and cardinalities are the usual ones. *)
LEMMA SameSets ==
    /\ \A S : IsFiniteSet(S) <=> FS!IsFiniteSet(S)
    /\ \A S : Cardinality(S) = FS!Cardinality(S)
BY DEF IsFiniteSet, FS!IsFiniteSet, Cardinality, FS!Cardinality

(* A nonempty set of naturals has a least element. *)
LEMMA LeastNatural ==
    ASSUME NEW S \in SUBSET Nat, S # {}
    PROVE  \E x \in S : \A y \in S : x <= y
<1>1. PICK x \in S : \A y \in S : ~(<<y, x>> \in WF!OpToRel(<, Nat))
  BY WF!NatLessThanWellFounded, WF!WFMin, Zenon
<1>2. \A y \in S : ~(y < x)
  BY <1>1, Zenon DEF WF!OpToRel
<1> QED BY <1>2

(* A part of a finite set is finite and not larger. *)
LEMMA PartOf ==
    ASSUME NEW S, IsFiniteSet(S), NEW T \in SUBSET S
    PROVE  /\ IsFiniteSet(T) /\ Cardinality(T) <= Cardinality(S)
           /\ Cardinality(T) \in Nat /\ Cardinality(S) \in Nat
BY SameSets, FS!FS_Subset, FS!FS_CardinalityType

(* The facts about majorities of servers that the proofs rest on. *)
LEMMA ServersCount == Counting
<1>1. \A P \in SUBSET Servers : IsFiniteSet(P)
  BY PartOf, ServersAssumption
<1>2. ASSUME NEW P \in SUBSET Servers, NEW Q \in SUBSET Servers,
             Majority(Cardinality(P)), Majority(Cardinality(Q))
      PROVE  P \cap Q # {}
  <2>1. Cardinality(P) \in Nat /\ Cardinality(Q) \in Nat /\ Cardinality(Servers) \in Nat
    BY PartOf, ServersAssumption
  <2>2. Cardinality(P) + Cardinality(Q) > Cardinality(Servers)
    BY <1>2, <2>1 DEF Majority
  <2> QED BY <2>2, SameSets, ServersAssumption, FS!FS_MajoritiesIntersect
<1>3. ASSUME NEW P \in SUBSET Servers
      PROVE  /\ Cardinality(P) \in Nat
             /\ \A Q \in SUBSET P : Cardinality(Q) <= Cardinality(P)
             /\ \A s \in Servers \ P : Cardinality(P \cup {s}) = Cardinality(P) + 1
  BY <1>1, PartOf, SameSets, FS!FS_AddElement
<1>4. \A s : Cardinality({s}) = 1
  BY Zenon, SameSets, FS!FS_Singleton
<1> QED BY Zenon, <1>2, <1>3, <1>4, LeastNatural DEF Counting

-----------------------------------------------------------------------------
(* Elections                                                               *)

(* ElectionInv is inductive: the ticker, every handler, the snapshots and the
   restarts keep it, so it holds in every reachable state. *)
THEOREM Invariance == Spec => []ElectionInv
<1>1. ElectionInv /\ [Next]_vars => ElectionInv'
  BY ServersCount, ElectionStep
<1> QED BY <1>1, InitInv, PTL DEF Spec

(* The fields of the Raft struct and of every message keep the types of the Go
   code, and log[0] is always there. *)
THEOREM TypeCorrect == Spec => []TypeOK
<1>1. ElectionInv => TypeOK
  BY DEF ElectionInv
<1> QED BY <1>1, Invariance, PTL

(* A term has at most one leader, whatever is lost, delayed or reordered and
   wherever servers crash. *)
THEOREM ElectionSafe == Spec => []ElectionSafety
<1>1. ElectionInv => ElectionSafety
  BY ServersCount, OneLeaderPerTerm
<1> QED BY <1>1, Invariance, PTL

(* What a server would read back after a crash is what it works with. *)
THEOREM DiskCurrent == Spec => []DiskIsCurrent
<1>1. ElectionInv => DiskIsCurrent
  BY DEF ElectionInv
<1> QED BY <1>1, Invariance, PTL

(* A leader never indexes its log behind its end. *)
THEOREM NextIndexSafe == Spec => []NextIndexInLog
<1>1. ElectionInv => NextIndexInLog
  BY DEF ElectionInv
<1> QED BY <1>1, Invariance, PTL

(* Neither a term nor a vote is ever taken back, not even by a restart. *)
THEOREM TermsAndVotesLast == Spec => TermAndVoteStable
<1>1. ElectionInv /\ [Next]_vars =>
        [\A s \in Servers :
            /\ currentTerm'[s] >= currentTerm[s]
            /\ currentTerm'[s] = currentTerm[s] /\ votedFor[s] # Nil
               => votedFor'[s] = votedFor[s]]_vars
  BY ServersCount, TypeStep, StableNext DEF StableStep
<1> QED BY <1>1, Invariance, PTL DEF Spec, TermAndVoteStable

-----------------------------------------------------------------------------
(* Logs, as long as nobody takes a snapshot                                *)

(* Whatever is lost, delayed, reordered or crashes, the leaders' logs, the
   servers' logs, their indexes and their messages fit together: the inductive
   invariant of the log. *)
THEOREM LogInvariance ==
    ASSUME MaxSnapshot = 0
    PROVE  Spec => []ReplicationInv
<1>1. Init => ReplicationInv
  BY ServersCount, ReplicationInit
<1>2. ElectionInv /\ ElectionInv' /\ ReplicationInv /\ [Next]_vars => ReplicationInv'
  BY ServersCount, ReplicationStep
<1> QED BY <1>1, <1>2, Invariance, PTL DEF Spec

(* Raft implements LogReplication: Make gives an initial state of it, and
   every timer, call, reply and restart is one of its steps or none. *)
THEOREM Refinement ==
    ASSUME MaxSnapshot = 0
    PROVE  Spec => ReplicatesLogs
<1>1. Init => R!Init
  BY ServersCount, ReplicationInit
<1>2. ElectionInv /\ ElectionInv' /\ ReplicationInv /\ [Next]_vars => [R!Next]_(R!vars)
  BY ServersCount, ReplicationStep
<1> QED BY <1>1, <1>2, Invariance, LogInvariance, PTL DEF Spec, ReplicatesLogs, R!Spec

(* Two logs with entries of one term at an index are the same up to there. *)
THEOREM LogsMatch ==
    ASSUME MaxSnapshot = 0
    PROVE  Spec => []LogMatching
<1>1. ElectionInv /\ ReplicationInv => LogMatching
  BY ServersCount, LogsAgree
<1> QED BY <1>1, Invariance, LogInvariance, PTL

(* Every leader has all that was committed before its term. *)
THEOREM LeadersComplete ==
    ASSUME MaxSnapshot = 0
    PROVE  Spec => []LeaderCompleteness
<1>1. ElectionInv /\ ReplicationInv => LeaderCompleteness
  BY ServersCount, LogsAgree
<1> QED BY <1>1, Invariance, LogInvariance, PTL

(* No two servers count different entries as committed at an index. *)
THEOREM CommitsSafe ==
    ASSUME MaxSnapshot = 0
    PROVE  Spec => []StateMachineSafety
<1>1. ElectionInv /\ ReplicationInv => StateMachineSafety
  BY ServersCount, LogsAgree
<1> QED BY <1>1, Invariance, LogInvariance, PTL

(* The entries that matchIndex counts are in the peer's log, so a leader
   commits nothing that a majority does not have. *)
THEOREM MatchesSound ==
    ASSUME MaxSnapshot = 0
    PROVE  Spec => []MatchIndexSound
<1>1. ElectionInv /\ ReplicationInv => MatchIndexSound
  BY ServersCount, LogsAgree
<1> QED BY <1>1, Invariance, LogInvariance, PTL

(* A leader never replaces an entry of its log, and commitIndex falls in no
   step but a restart. *)
THEOREM LeadersAppend ==
    ASSUME MaxSnapshot = 0
    PROVE  Spec => LeaderAppendOnly
<1>1. ElectionInv /\ ElectionInv' /\ ReplicationInv /\ [Next]_vars =>
        [\A s \in Servers :
            /\ state[s] = Leader /\ state'[s] = Leader
               => IsPrefixOf(WholeLog(s), WholeLog(s)')
            /\ boots'[s] = boots[s] => commitIndex'[s] >= commitIndex[s]]_vars
  BY ServersCount, OnlyAppends
<1> QED BY <1>1, Invariance, LogInvariance, PTL DEF Spec, LeaderAppendOnly
=============================================================================
