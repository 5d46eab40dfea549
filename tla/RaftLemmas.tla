------------------------------ MODULE RaftLemmas ------------------------------
(****************************************************************************)
(* Facts the proofs about module Raft share: numbers and parts of          *)
(* sequences, what TypeOK says of one message and of one log, what a       *)
(* heartbeat sends and what a restart reads back; every step keeps TypeOK; *)
(* and what a step does to the disk, to the snapshots, to the end of a log *)
(* and to the calls that leaders send.                                     *)
(****************************************************************************)
EXTENDS Raft, TLAPS

-----------------------------------------------------------------------------
(* Numbers and sequences                                                   *)

(* What the proofs use about numbers and about sets of servers.  It is proved
   from the library's theorems where the theorems about Raft are, so that the
   provers do not have the library before them in every step. *)
Counting ==
    /\ \A S \in SUBSET Nat : S # {} => \E x \in S : \A y \in S : x <= y
    /\ \A P \in SUBSET Servers :
          /\ Cardinality(P) \in Nat
          /\ \A Q \in SUBSET P : Cardinality(Q) <= Cardinality(P)
          /\ \A Q \in SUBSET Servers :
                Majority(Cardinality(P)) /\ Majority(Cardinality(Q)) => P \cap Q # {}
          /\ \A s \in Servers \ P : Cardinality(P \cup {s}) = Cardinality(P) + 1
    /\ \A s : Cardinality({s}) = 1

(* Max and Min of two integers. *)
LEMMA MaxMinPair ==
    ASSUME NEW x \in Int, NEW y \in Int
    PROVE  /\ Max({x, y}) = IF x >= y THEN x ELSE y
           /\ Min({x, y}) = IF x <= y THEN x ELSE y
BY DEF Max, Min

(* Min, which MergedLog and LogAfterSnapshot take of sets of positions. *)
LEMMA MinNat ==
    ASSUME Counting, NEW S \in SUBSET Nat, S # {}
    PROVE  Min(S) \in S /\ \A y \in S : Min(S) <= y
BY Zenon DEF Counting, Min

(* Max of a set of integers that is bounded on both sides. *)
LEMMA MaxInterval ==
    ASSUME Counting, NEW a \in Int, NEW b \in Int, NEW S \in SUBSET (a..b), S # {}
    PROVE  Max(S) \in S /\ \A y \in S : y <= Max(S)
<1> DEFINE D == {b - x : x \in S}
<1>1. D \in SUBSET Nat /\ D # {}
  <2>1. \A x \in S : b - x \in Nat
    OBVIOUS
  <2> QED BY <2>1, Zenon
<1>2. PICK d \in D : \A e \in D : d <= e
  BY <1>1, Zenon DEF Counting
<1>3. PICK x \in S : d = b - x
  BY Zenon
<1>4. \A y \in S : x >= y
  <2> TAKE y \in S
  <2>1. b - y \in D
    BY Zenon
  <2>2. d <= b - y
    BY Zenon, <2>1, <1>2
  <2>3. x \in Int /\ y \in Int
    OBVIOUS
  <2> QED BY <2>2, <2>3, <1>3
<1> QED BY <1>4, Zenon DEF Max

(* A part of a sequence. *)
LEMMA SubSeqType ==
    ASSUME NEW S, NEW q \in Seq(S), NEW a \in Nat \ {0}, NEW b \in Int, b <= Len(q)
    PROVE  /\ SubSeq(q, a, b) \in Seq(S)
           /\ Len(SubSeq(q, a, b)) = IF a <= b THEN b - a + 1 ELSE 0
OBVIOUS

(* A sequence and one more element. *)
LEMMA AppendType ==
    ASSUME NEW S, NEW q \in Seq(S), NEW e \in S
    PROVE  Append(q, e) \in Seq(S) /\ Len(Append(q, e)) = Len(q) + 1
OBVIOUS

(* Two sequences, one behind the other. *)
LEMMA ConcatType ==
    ASSUME NEW S, NEW q \in Seq(S), NEW r \in Seq(S)
    PROVE  q \o r \in Seq(S) /\ Len(q \o r) = Len(q) + Len(r)
OBVIOUS

(* A sequence without its first element. *)
LEMMA TailType ==
    ASSUME NEW S, NEW q \in Seq(S), q # <<>>
    PROVE  Tail(q) \in Seq(S) /\ Len(Tail(q)) = Len(q) - 1
OBVIOUS

(* A log keeps its placeholder as long as it has a length. *)
LEMMA SeqNonEmpty ==
    ASSUME NEW S, NEW q \in Seq(S), Len(q) >= 1
    PROVE  q \in Seq(S) \ {<<>>}
OBVIOUS

-----------------------------------------------------------------------------
(* Messages and logs                                                       *)

(* The rpc field tells which fields a message has. *)
LEMMA MessageKinds ==
    ASSUME TypeOK, NEW m \in net
    PROVE  /\ m.from \in Servers /\ m.to \in Servers /\ m.boot \in Nat
           /\ m.rpc = "RequestVote" => m \in RequestVoteMsg
           /\ m.rpc = "RequestVoteReply" => m \in RequestVoteReplyMsg
           /\ m.rpc = "AppendEntries" => m \in AppendEntriesMsg
           /\ m.rpc = "AppendEntriesReply" => m \in AppendEntriesReplyMsg
           /\ m.rpc = "handleInstallSnapshot" => m \in SnapshotTask
           /\ m.rpc = "InstallSnapshot" => m \in InstallSnapshotMsg
           /\ m.rpc = "InstallSnapshotReply" => m \in InstallSnapshotReplyMsg
BY Zenon DEF TypeOK, Message, RequestVoteMsg, RequestVoteReplyMsg, AppendEntriesMsg,
       AppendEntriesReplyMsg, SnapshotTask, InstallSnapshotMsg,
       InstallSnapshotReplyMsg

(* The slice of a server is never empty and its indexes are naturals. *)
LEMMA LogTypes ==
    ASSUME TypeOK, NEW s \in Servers
    PROVE  /\ log[s] \in Seq(Entry) /\ Len(log[s]) \in Nat /\ Len(log[s]) >= 1
           /\ \A i \in 1..Len(log[s]) : log[s][i] \in Entry /\ log[s][i].Term \in EntryTerm
           /\ LastIndex(s) \in Nat
           /\ LastIndex(s) = lastIncludedIndex[s] + Len(log[s]) - 1
           /\ lastIncludedIndex[s] \in Nat
<1>1. log[s] \in Seq(Entry) /\ log[s] # <<>> /\ lastIncludedIndex[s] \in Nat
  BY Zenon DEF TypeOK, Index
<1>2. Len(log[s]) \in Nat /\ Len(log[s]) >= 1
  BY <1>1
<1>3. \A i \in 1..Len(log[s]) : log[s][i] \in Entry /\ log[s][i].Term \in EntryTerm
  <2> TAKE i \in 1..Len(log[s])
  <2>1. log[s][i] \in Entry
    BY <1>1
  <2> QED BY Zenon, <2>1 DEF Entry
<1> QED BY <1>1, <1>2, <1>3 DEF LastIndex, VirtualLogIdx

(* A server's whole log reaches to its LastIndex. *)
LEMMA WholeLogType ==
    ASSUME TypeOK, SnapshotLength, NEW s \in Servers
    PROVE  WholeLog(s) \in Seq(Entry) /\ Len(WholeLog(s)) = LastIndex(s)
<1>1. log[s] \in Seq(Entry) /\ log[s] # <<>> /\ snapShot[s] \in Seq(Entry)
  BY Zenon DEF TypeOK
<1>2. Tail(log[s]) \in Seq(Entry) /\ Len(Tail(log[s])) = Len(log[s]) - 1
  BY Zenon, <1>1, TailType
<1>3. WholeLog(s) \in Seq(Entry) /\ Len(WholeLog(s)) = Len(snapShot[s]) + Len(Tail(log[s]))
  BY Zenon, <1>1, <1>2, ConcatType DEF WholeLog
<1>4. Len(snapShot[s]) = lastIncludedIndex[s]
  BY Zenon DEF SnapshotLength
<1>5. LastIndex(s) = lastIncludedIndex[s] + Len(log[s]) - 1 /\ lastIncludedIndex[s] \in Nat /\ Len(log[s]) \in Nat
  BY Zenon, LogTypes
<1> QED BY Zenon, <1>2, <1>3, <1>4, <1>5

(* What doLeader sends to a peer is a message: nextIndex points into the log. *)
LEMMA HeartbeatType ==
    ASSUME ElectionInv, NEW s \in Servers, NEW p \in Servers \ {s}, state[s] = Leader
    PROVE  LET h == HeartbeatTo(s, p)
           IN /\ h \in Message /\ h.from = s /\ h.to = p
              /\ \/ h.rpc = "handleInstallSnapshot"
                 \/ /\ h.rpc = "AppendEntries" /\ h.Term = currentTerm[s]
                    /\ h.PrevLogIndex + Len(h.Entries) <= LastIndex(s)
<1> DEFINE prev == Max({nextIndex[s][p] - 1, 0})
           es == SubSeq(log[s], RealLogIdx(s, prev) + 2, Len(log[s]))
<1>1. TypeOK /\ NextIndexInLog
  BY Zenon DEF ElectionInv
<1>0. /\ log[s] \in Seq(Entry) /\ Len(log[s]) \in Nat /\ Len(log[s]) >= 1
      /\ LastIndex(s) = lastIncludedIndex[s] + Len(log[s]) - 1
      /\ lastIncludedIndex[s] \in Nat
  BY Zenon, <1>1, LogTypes
<1>2. nextIndex[s][p] \in Nat /\ boots[s] \in Nat /\ currentTerm[s] \in Term /\ commitIndex[s] \in Index
  BY <1>1 DEF TypeOK, Index
<1>3. prev \in Nat /\ prev <= LastIndex(s)
  <2>1. nextIndex[s][p] <= LastIndex(s) + 1 /\ LastIndex(s) \in Nat
    BY <1>0, <1>1 DEF NextIndexInLog, VirtualLogIdx
  <2>2. prev = IF nextIndex[s][p] - 1 >= 0 THEN nextIndex[s][p] - 1 ELSE 0
    BY <1>2, MaxMinPair
  <2> QED BY <1>2, <2>1, <2>2
<1>4. CASE prev < lastIncludedIndex[s]
  <2>1. HeartbeatTo(s, p) = [rpc |-> "handleInstallSnapshot", from |-> s, to |-> p, boot |-> boots[s]]
    BY Zenon, <1>4 DEF HeartbeatTo
  <2> QED BY <1>2, <2>1 DEF Message, SnapshotTask
<1>5. CASE ~(prev < lastIncludedIndex[s])
  <2> DEFINE k == RealLogIdx(s, prev)
  <2>1. k \in 0..Len(log[s]) - 1 /\ prev = k + lastIncludedIndex[s]
    BY <1>0, <1>3, <1>5 DEF RealLogIdx
  <2>2. TermAt(s, prev) \in EntryTerm
    BY <1>1, <2>1, LogTypes DEF TermAt
  <2>3. es \in Seq(Entry) /\ Len(es) = Len(log[s]) - k - 1
    <3> HIDE DEF k
    <3>1. SubSeq(log[s], k + 2, Len(log[s])) \in Seq(Entry)
      BY <1>0, <2>1, SubSeqType
    <3>2. Len(SubSeq(log[s], k + 2, Len(log[s]))) =
             IF k + 2 <= Len(log[s]) THEN Len(log[s]) - (k + 2) + 1 ELSE 0
      BY <1>0, <2>1, SubSeqType
    <3>3. Len(SubSeq(log[s], k + 2, Len(log[s]))) = Len(log[s]) - k - 1
      BY <1>0, <2>1, <3>2
    <3> QED BY <3>1, <3>3, Zenon DEF k
  <2>4. prev + Len(es) <= LastIndex(s)
    <3> HIDE DEF prev, es, k
    <3>1. k \in Int /\ prev = k + lastIncludedIndex[s]
      BY <2>1
    <3>2. Len(es) = Len(log[s]) - k - 1
      BY Zenon, <2>3
    <3> QED BY <1>0, <3>1, <3>2
  <2> DEFINE h == [rpc |-> "AppendEntries", from |-> s, to |-> p, boot |-> boots[s],
                   Term |-> currentTerm[s], PrevLogIndex |-> prev,
                   PrevLogTerm |-> TermAt(s, prev), Entries |-> es,
                   LeaderCommit |-> commitIndex[s]]
  <2>5. HeartbeatTo(s, p) = h
    BY Zenon, <1>5 DEF HeartbeatTo
  <2> HIDE DEF prev, es
  <2>6. h \in AppendEntriesMsg
    BY Zenon, <1>2, <1>3, <2>2, <2>3 DEF AppendEntriesMsg, Index
  <2> QED BY <2>4, <2>5, <2>6 DEF Message
<1> QED BY Zenon, <1>4, <1>5

-----------------------------------------------------------------------------
(* Restarts                                                                *)

(* What Reboot reads back: the state on disk, or, after a crash between the
   two persists of a handler, the same with a later term and no vote. *)
Image(s, T, v) ==
    [currentTerm |-> T, votedFor |-> v, log |-> log[s],
     snapShot |-> snapShot[s], lastIncludedIndex |-> lastIncludedIndex[s],
     lastIncludedTerm |-> lastIncludedTerm[s]]

(* A restart runs Make on the Image of the server. *)
LEMMA RebootImage ==
    ASSUME ElectionInv
    PROVE  /\ \A s \in Servers : Restart(s) =>
                 Reboot(s, Image(s, currentTerm[s], votedFor[s])) /\ net' = net
           /\ \A m \in net : CrashBetweenPersists(m) =>
                 /\ m.to \in Servers /\ m.Term \in Term /\ m.Term > currentTerm[m.to]
                 /\ Reboot(m.to, Image(m.to, m.Term, Nil)) /\ net' = net \ {m}
<1>1. \A s \in Servers : disk[s] = Image(s, currentTerm[s], votedFor[s])
  BY Zenon DEF ElectionInv, DiskIsCurrent, encodeState, Image
<1>2. ASSUME NEW m \in net, CrashBetweenPersists(m)
      PROVE  /\ m.to \in Servers /\ m.Term \in Term /\ m.Term > currentTerm[m.to]
             /\ Reboot(m.to, Image(m.to, m.Term, Nil)) /\ net' = net \ {m}
  <2>1. m.to \in Servers /\ m.Term \in Term
    BY Zenon, <1>2, MessageKinds DEF ElectionInv, CrashBetweenPersists, RequestVoteMsg, AppendEntriesMsg
  <2>2. DiskWithTerm(m.to, m.Term) = Image(m.to, m.Term, Nil)
    <3>0. disk[m.to] = Image(m.to, currentTerm[m.to], votedFor[m.to])
      BY Zenon, <1>1, <2>1
    <3>1. /\ disk[m.to].log = log[m.to] /\ disk[m.to].snapShot = snapShot[m.to]
          /\ disk[m.to].lastIncludedIndex = lastIncludedIndex[m.to]
          /\ disk[m.to].lastIncludedTerm = lastIncludedTerm[m.to]
      BY <3>0 DEF Image
    <3> QED BY <3>1, Zenon DEF DiskWithTerm, Image
  <2> QED BY Zenon, <1>2, <2>1, <2>2 DEF CrashBetweenPersists
<1> QED BY <1>1, <1>2, Zenon DEF Restart

-----------------------------------------------------------------------------
(* The ticker and the votes                                                *)

(* The ticker and Start keep the types. *)
LEMMA TickerTypes ==
    ASSUME ElectionInv, NEW s \in Servers,
           \/ StartPreVote(s) \/ sendPreVote(s)
           \/ \E P \in SUBSET (Servers \ {s}) : StartElection(s, P) \/ doLeader(s, P)
           \/ \E c \in Commands : Start(s, c)
    PROVE  TypeOK'
<1>0. TypeOK
  BY Zenon DEF ElectionInv
<1> USE DEF Follower, PreCandidate, Candidate, Leader
<1>1. CASE StartPreVote(s)
  BY Zenon, <1>0, <1>1 DEF TypeOK, StartPreVote, persistentVars, leaderVars, historyVars
<1>2. CASE sendPreVote(s)
  <2>1. preVoteCount' \in [Servers -> Nat]
    <3>1. preVoteCount \in [Servers -> Nat]
      BY Zenon, <1>0 DEF TypeOK
    <3>2. \/ preVoteCount' = preVoteCount
          \/ preVoteCount' = [preVoteCount EXCEPT ![s] = preVoteCount[s] + 1]
      BY <1>2 DEF sendPreVote
    <3> QED BY <3>1, <3>2
  <2>2. state' \in [Servers -> {Follower, PreCandidate, Candidate, Leader}]
    <3>1. state \in [Servers -> {Follower, PreCandidate, Candidate, Leader}]
      BY Zenon, <1>0 DEF TypeOK
    <3>2. \/ state' = state
          \/ state' = [state EXCEPT ![s] = Candidate]
      BY Zenon, <1>2, <3>1 DEF sendPreVote
    <3> QED BY Zenon, <3>1, <3>2
  <2> QED BY <1>0, <1>2, <2>1, <2>2, Zenon DEF TypeOK, sendPreVote, persistentVars, leaderVars, historyVars
<1>3. ASSUME NEW P \in SUBSET (Servers \ {s}), StartElection(s, P)
      PROVE  TypeOK'
  <2>1. \A p \in P : RequestVoteCall(s, p) \in Message
    <3> TAKE p \in P
    <3>1. getLastLog(s).Term \in EntryTerm /\ VirtualLogIdx(s, Len(log[s])) \in Index
      BY <1>0, LogTypes DEF getLastLog, VirtualLogIdx, Index
    <3>2. currentTerm[s] + 1 \in Term /\ boots[s] \in Nat
      BY <1>0 DEF TypeOK, Term
    <3> QED BY Zenon, <3>1, <3>2 DEF RequestVoteCall, Message, RequestVoteMsg
  <2>2. net' \subseteq Message
    BY <1>0, <1>3, <2>1 DEF StartElection, Send, TypeOK
  <2>3. ballots' \subseteq Servers \X Term \X Servers
    BY <1>0, <1>3 DEF StartElection, TypeOK, Term
  <2>4. /\ currentTerm' \in [Servers -> Term] /\ voteCount' \in [Servers -> Nat]
        /\ votedFor' \in [Servers -> Servers \cup {Nil}]
    BY <1>0, <1>3 DEF TypeOK, StartElection, Term
  <2> QED BY <1>0, <1>3, <2>2, <2>3, <2>4, Zenon DEF TypeOK, StartElection, leaderVars
<1>4. ASSUME NEW P \in SUBSET (Servers \ {s}), doLeader(s, P)
      PROVE  TypeOK'
  <2>1. \A p \in P : HeartbeatTo(s, p) \in Message
    BY Zenon, <1>4, HeartbeatType DEF doLeader
  <2>2. net' \subseteq Message
    BY <1>0, <1>4, <2>1 DEF doLeader, Send, TypeOK
  <2> QED BY <1>0, <1>4, <2>2, Zenon DEF TypeOK, doLeader, persistentVars, leaderVars, countVars, historyVars
<1>5. ASSUME NEW c \in Commands, Start(s, c)
      PROVE  TypeOK'
  <2> DEFINE e == [Term |-> currentTerm[s], Command |-> c]
  <2>1. e \in Entry
    BY Zenon, <1>0 DEF TypeOK, Entry, EntryTerm
  <2>2. Append(log[s], e) \in Seq(Entry) \ {<<>>}
    <3>1. Append(log[s], e) \in Seq(Entry) /\ Len(Append(log[s], e)) = Len(log[s]) + 1
      BY Zenon, <1>0, <2>1, LogTypes, AppendType
    <3>2. Len(log[s]) \in Nat
      BY Zenon, <1>0, LogTypes
    <3> QED BY <3>1, <3>2, SeqNonEmpty
  <2>3. log' \in [Servers -> Seq(Entry) \ {<<>>}]
    BY Zenon, <1>0, <1>5, <2>2 DEF TypeOK, Start
  <2>4. nextIndex' \in [Servers -> [Servers -> Index]]
    <3>1. VirtualLogIdx(s, Len(log[s]) + 1) \in Index
      BY <1>0, LogTypes DEF VirtualLogIdx, Index
    <3> QED BY Zenon, <1>0, <1>5, <3>1 DEF TypeOK, Start
  <2> QED BY <1>0, <1>5, <2>3, <2>4, Zenon DEF TypeOK, Start, countVars, historyVars
<1> QED BY Zenon, <1>1, <1>2, <1>3, <1>4, <1>5

(* The two sides of an election keep the types. *)
LEMMA ElectionTypes ==
    ASSUME ElectionInv, NEW m \in net, RequestVote(m) \/ sendRequestVote(m)
    PROVE  TypeOK'
<1>0. TypeOK /\ m.from \in Servers /\ m.to \in Servers
  BY Zenon, MessageKinds DEF ElectionInv
<1> USE DEF Follower, PreCandidate, Candidate, Leader
<1>1. CASE RequestVote(m)
  <2>0. m \in RequestVoteMsg /\ m.Term \in Term
    BY Zenon, <1>0, <1>1, MessageKinds DEF RequestVote, RequestVoteMsg
  <2>1. net' \subseteq Message
    <3>1. Grants(m.to, m) \in BOOLEAN
      BY Zenon DEF Grants, UpToDate
    <3>2. VoteReply(m, Grants(m.to, m)) \in Message
      BY Zenon, <2>0, <3>1 DEF VoteReply, Message, RequestVoteReplyMsg, RequestVoteMsg
    <3> QED BY <1>0, <1>1, <3>2 DEF RequestVote, Reply, TypeOK
  <2>2. CASE m.Term < currentTerm[m.to]
    BY <1>0, <1>1, <2>1, <2>2, Zenon DEF TypeOK, RequestVote, persistentVars, leaderVars, countVars
  <2>3. CASE ~(m.Term < currentTerm[m.to])
    <3> DEFINE r == m.to
               g == Grants(r, m)
    <3>0. /\ currentTerm' = [currentTerm EXCEPT ![r] = m.Term]
          /\ votedFor' = [votedFor EXCEPT ![r] =
                IF g THEN m.from ELSE IF m.Term > currentTerm[r] THEN Nil ELSE @]
          /\ state' = [state EXCEPT ![r] =
                IF g \/ m.Term > currentTerm[r] THEN Follower ELSE @]
          /\ ballots' = ballots \cup (IF g THEN {<<r, m.Term, m.from>>} ELSE {})
      BY Zenon, <1>1, <2>3 DEF RequestVote
    <3> HIDE DEF g
    <3>1. /\ currentTerm' \in [Servers -> Term]
          /\ votedFor' \in [Servers -> Servers \cup {Nil}]
          /\ state' \in [Servers -> {Follower, PreCandidate, Candidate, Leader}]
      BY Zenon, <1>0, <2>0, <3>0 DEF TypeOK
    <3>2. ballots' \subseteq Servers \X Term \X Servers
      BY <1>0, <2>0, <3>0 DEF TypeOK
    <3> QED BY <1>0, <1>1, <2>1, <2>3, <3>1, <3>2, Zenon DEF TypeOK, RequestVote, leaderVars, countVars
  <2> QED BY Zenon, <2>2, <2>3
<1>2. CASE sendRequestVote(m)
  <2>1. /\ voteCount' \in [Servers -> Nat]
        /\ state' \in [Servers -> {Follower, PreCandidate, Candidate, Leader}]
    BY <1>0, <1>2 DEF TypeOK, sendRequestVote
  <2>2. /\ nextIndex' \in [Servers -> [Servers -> Index]]
        /\ matchIndex' \in [Servers -> [Servers -> Index]]
    <3>1. VirtualLogIdx(m.from, Len(log[m.from])) \in Index /\ 0 \in Index
      BY <1>0, LogTypes DEF VirtualLogIdx, Index
    <3> DEFINE nx == [p \in Servers |-> VirtualLogIdx(m.from, Len(log[m.from]))]
               mt == [p \in Servers |-> 0]
    <3>2. nx \in [Servers -> Index] /\ mt \in [Servers -> Index]
      BY Zenon, <3>1
    <3>3. \/ UNCHANGED <<nextIndex, matchIndex>>
          \/ /\ nextIndex' = [nextIndex EXCEPT ![m.from] = nx]
             /\ matchIndex' = [matchIndex EXCEPT ![m.from] = mt]
      BY Zenon, <1>2 DEF sendRequestVote, leaderVars
    <3> HIDE DEF nx, mt
    <3>4. nextIndex \in [Servers -> [Servers -> Index]] /\ matchIndex \in [Servers -> [Servers -> Index]]
      BY Zenon, <1>0 DEF TypeOK
    <3>5. CASE UNCHANGED <<nextIndex, matchIndex>>
      BY Zenon, <3>4, <3>5
    <3>6. CASE /\ nextIndex' = [nextIndex EXCEPT ![m.from] = nx]
               /\ matchIndex' = [matchIndex EXCEPT ![m.from] = mt]
      BY Zenon, <1>0, <3>2, <3>4, <3>6
    <3> QED BY Zenon, <3>3, <3>5, <3>6
  <2> QED BY <1>0, <1>2, <2>1, <2>2, Zenon DEF TypeOK, sendRequestVote, persistentVars, historyVars
<1> QED BY Zenon, <1>1, <1>2

-----------------------------------------------------------------------------
(* Replication                                                             *)

(* The log after AppendEntries: no shorter than the part up to the last entry
   of the call, and no shorter than before unless an entry was replaced. *)
LEMMA MergedLogType ==
    ASSUME Counting, TypeOK, NEW m \in net, m.rpc = "AppendEntries", PrevMatches(m.to, m)
    PROVE  MergedLog(m.to, m) \in Seq(Entry) \ {<<>>}
<1> DEFINE r == m.to
           base == RealLogIdx(r, m.PrevLogIndex) + 1
           new == {i \in 1..Len(m.Entries) :
                     \/ base + i > Len(log[r])
                     \/ log[r][base + i].Term # m.Entries[i].Term}
<1>1. m \in AppendEntriesMsg /\ r \in Servers
  BY Zenon, MessageKinds
<1>2. m.Entries \in Seq(Entry) /\ Len(m.Entries) \in Nat /\ m.PrevLogIndex \in Nat
  BY <1>1 DEF AppendEntriesMsg, Index
<1>3. log[r] \in Seq(Entry) /\ Len(log[r]) \in Nat /\ lastIncludedIndex[r] \in Nat
  BY Zenon, <1>1, LogTypes
<1>4. base \in 1..Len(log[r])
  BY <1>2, <1>3 DEF PrevMatches, RealLogIdx, VirtualLogIdx
<1>5. CASE new = {}
  <2>1. MergedLog(r, m) = log[r]
    BY Zenon, <1>5 DEF MergedLog
  <2> QED BY Zenon, <2>1, <1>1 DEF TypeOK
<1>6. CASE new # {}
  <2> DEFINE k == Min(new)
             kept == SubSeq(log[r], 1, base + k - 1)
             added == SubSeq(m.Entries, k, Len(m.Entries))
  <2>1. MergedLog(r, m) = kept \o added
    BY <1>6, Zenon DEF MergedLog
  <2>2. new \in SUBSET Nat
    OBVIOUS
  <2>3. k \in new /\ \A y \in new : k <= y
    BY <1>6, <2>2, MinNat, Zenon
  <2>4. k \in 1..Len(m.Entries)
    BY <2>3, Zenon
  <2>5. base + k - 1 <= Len(log[r])
    <3>1. CASE k = 1
      BY <3>1, <1>4, <1>3
    <3>2. CASE k # 1
      <4>1. k - 1 \in 1..Len(m.Entries)
        BY <3>2, <2>4, <1>2
      <4>2. k - 1 \notin new
        <5> HIDE DEF k, new
        <5> QED BY <2>3, <2>4, <1>2
      <4>3. ~(base + (k - 1) > Len(log[r]))
        BY <4>1, <4>2, Zenon
      <4> HIDE DEF k, base
      <4> QED BY <4>3, <1>3, <1>4, <2>4, <1>2
    <3> QED BY Zenon, <3>1, <3>2
  <2> HIDE DEF k, base, new, r
  <2>6. kept \in Seq(Entry)
    BY <1>3, <1>4, <2>4, <2>5, SubSeqType
  <2>7. added \in Seq(Entry) /\ Len(added) >= 1
    BY <1>2, <2>4, SubSeqType
  <2>8. kept \o added \in Seq(Entry) /\ Len(kept \o added) = Len(kept) + Len(added)
    BY Zenon, <2>6, <2>7, ConcatType
  <2>9. Len(kept \o added) >= 1
    BY <2>6, <2>7, <2>8
  <2> HIDE DEF kept, added
  <2> QED BY Zenon, <2>1, <2>8, <2>9, SeqNonEmpty DEF r
<1> QED BY Zenon, <1>5, <1>6

(* A server that learns a term keeps its types. *)
LEMMA LearnTermType ==
    ASSUME TypeOK, NEW s \in Servers, NEW T \in Term, LearnTerm(s, T)
    PROVE  /\ currentTerm' \in [Servers -> Term]
           /\ votedFor' \in [Servers -> Servers \cup {Nil}]
           /\ state' \in [Servers -> {Follower, PreCandidate, Candidate, Leader}]
BY Zenon DEF TypeOK, LearnTerm, Follower, PreCandidate, Candidate, Leader

(* The two sides of AppendEntries keep the types. *)
LEMMA AppendTypes ==
    ASSUME Counting, ElectionInv, NEW m \in net,
           RejectAppendEntries(m) \/ AcceptAppendEntries(m)
    PROVE  TypeOK'
<1>0. TypeOK /\ m.from \in Servers /\ m.to \in Servers
  BY Zenon, MessageKinds DEF ElectionInv
<1>1. m \in AppendEntriesMsg
  BY <1>0, MessageKinds, Zenon DEF RejectAppendEntries, AcceptAppendEntries
<1>2. m.Term \in Term /\ currentTerm[m.to] \in Term /\ m.LeaderCommit \in Nat
  BY Zenon, <1>0, <1>1 DEF AppendEntriesMsg, TypeOK, Index
<1>3. net' \subseteq Message
  <2>1. m.PrevLogIndex + Len(m.Entries) \in Index
    <3>1. m.PrevLogIndex \in Nat /\ m.Entries \in Seq(Entry)
      BY Zenon, <1>1 DEF AppendEntriesMsg, Index
    <3> QED BY <3>1 DEF Index
  <2>2. \A b \in BOOLEAN : AppendReply(m, b, currentTerm[m.to]) \in AppendEntriesReplyMsg
    BY Zenon, <1>0, <1>1, <1>2, <2>1, MessageKinds DEF AppendReply, AppendEntriesReplyMsg, AppendEntriesMsg
  <2>3. \E b \in BOOLEAN : Reply(m, AppendReply(m, b, currentTerm[m.to]))
    BY Zenon DEF RejectAppendEntries, AcceptAppendEntries
  <2> QED BY <1>0, <2>2, <2>3 DEF Reply, Message, TypeOK
<1>4. CASE RejectAppendEntries(m)
  <2>1. CASE m.Term < currentTerm[m.to]
    BY <1>0, <1>3, <1>4, <2>1, Zenon DEF TypeOK, RejectAppendEntries, persistentVars, leaderVars, countVars, historyVars
  <2>2. CASE ~(m.Term < currentTerm[m.to])
    <3>1. LearnTerm(m.to, m.Term)
      BY Zenon, <1>4, <2>2 DEF RejectAppendEntries
    <3>2. /\ currentTerm' \in [Servers -> Term]
          /\ votedFor' \in [Servers -> Servers \cup {Nil}]
          /\ state' \in [Servers -> {Follower, PreCandidate, Candidate, Leader}]
      BY Zenon, <1>0, <1>2, <3>1, LearnTermType
    <3>3. UNCHANGED <<log, snapShot, lastIncludedIndex, lastIncludedTerm, commitIndex,
                      leaderVars, countVars, boots, historyVars>>
      BY Zenon, <1>4, <2>2 DEF RejectAppendEntries
    <3> QED BY <1>0, <1>3, <3>2, <3>3, Zenon DEF TypeOK, leaderVars, countVars, historyVars
  <2> QED BY Zenon, <2>1, <2>2
<1>5. CASE AcceptAppendEntries(m)
  <2>1. LearnTerm(m.to, m.Term) /\ PrevMatches(m.to, m) /\ m.rpc = "AppendEntries"
    BY Zenon, <1>5 DEF AcceptAppendEntries
  <2>2. /\ currentTerm' \in [Servers -> Term]
        /\ votedFor' \in [Servers -> Servers \cup {Nil}]
        /\ state' \in [Servers -> {Follower, PreCandidate, Candidate, Leader}]
    BY Zenon, <1>0, <1>2, <2>1, LearnTermType
  <2>3. log' \in [Servers -> Seq(Entry) \ {<<>>}]
    <3>1. MergedLog(m.to, m) \in Seq(Entry) \ {<<>>}
      BY Zenon, <1>0, <2>1, MergedLogType
    <3>2. log' = [log EXCEPT ![m.to] = MergedLog(m.to, m)]
      BY Zenon, <1>5 DEF AcceptAppendEntries
    <3> QED BY Zenon, <1>0, <3>1, <3>2 DEF TypeOK
  <2>4. commitIndex' \in [Servers -> Index]
    <3> DEFINE r == m.to
               last == LastIndex(r)'
    <3>1. last \in Nat
      <4>1. log'[r] \in Seq(Entry) \ {<<>>}
        BY Zenon, <1>0, <2>3
      <4>2. Len(log'[r]) \in Nat /\ Len(log'[r]) >= 1
        BY <4>1
      <4>3. lastIncludedIndex'[r] \in Nat
        BY Zenon, <1>0, <1>5 DEF AcceptAppendEntries, TypeOK, Index
      <4> QED BY <4>2, <4>3 DEF LastIndex, VirtualLogIdx
    <3> HIDE DEF last
    <3>2. Min({m.LeaderCommit, last}) \in Nat
      <4>1. m.LeaderCommit \in Int /\ last \in Int
        BY <1>2, <3>1
      <4>2. Min({m.LeaderCommit, last}) = IF m.LeaderCommit <= last THEN m.LeaderCommit ELSE last
        BY <4>1, MaxMinPair, Zenon
      <4> QED BY Zenon, <1>2, <3>1, <4>2
    <3>3. commitIndex' = [commitIndex EXCEPT ![r] =
             IF m.LeaderCommit > @ THEN Min({m.LeaderCommit, last}) ELSE @]
      BY Zenon, <1>5 DEF AcceptAppendEntries, last
    <3> QED BY Zenon, <1>0, <3>2, <3>3 DEF TypeOK, Index
  <2>5. UNCHANGED <<snapShot, lastIncludedIndex, lastIncludedTerm, leaderVars,
                    countVars, boots, ballots, committed>>
    BY Zenon, <1>5 DEF AcceptAppendEntries
  <2> QED BY <1>0, <1>3, <2>2, <2>3, <2>4, <2>5, Zenon DEF TypeOK, leaderVars, countVars
<1> QED BY Zenon, <1>4, <1>5

(* A refusal moves nextIndex back, never past the end of the log. *)
LEMMA BackoffBound ==
    ASSUME Counting, TypeOK, NEW s \in Servers, NEW p \in Servers
    PROVE  /\ Backoff(s, p) \in Nat
           /\ nextIndex[s][p] <= LastIndex(s) + 1 => Backoff(s, p) <= LastIndex(s) + 1
<1> DEFINE last == nextIndex[s][p] - 1
           earlier == {i \in lastIncludedIndex[s]..last : TermAt(s, i) < TermAt(s, last)}
<1>1. /\ LastIndex(s) \in Nat /\ lastIncludedIndex[s] \in Nat
      /\ lastIncludedIndex[s] <= LastIndex(s)
  <2>1. /\ LastIndex(s) \in Nat /\ lastIncludedIndex[s] \in Nat
        /\ LastIndex(s) = lastIncludedIndex[s] + Len(log[s]) - 1
        /\ Len(log[s]) \in Nat /\ Len(log[s]) >= 1
    BY Zenon, LogTypes
  <2> QED BY <2>1
<1>2. nextIndex[s][p] \in Nat
  BY Zenon DEF TypeOK, Index
<1>3. CASE last < 0
  <2>1. Backoff(s, p) = nextIndex[s][p]
    BY Zenon, <1>3 DEF Backoff
  <2> QED BY Zenon, <2>1, <1>2
<1>4. CASE ~(last < 0) /\ earlier = {}
  <2>1. Backoff(s, p) = lastIncludedIndex[s]
    BY Zenon, <1>4 DEF Backoff
  <2> QED BY <2>1, <1>1
<1>5. CASE ~(last < 0) /\ earlier # {}
  <2>1. Backoff(s, p) = Max(earlier) + 1
    BY Zenon, <1>5 DEF Backoff
  <2>2. earlier \in SUBSET (lastIncludedIndex[s]..last) /\ last \in Int
    BY <1>2
  <2>3. Max(earlier) \in lastIncludedIndex[s]..last
    <3>1. lastIncludedIndex[s] \in Int /\ earlier # {}
      BY <1>1, <1>5
    <3> HIDE DEF earlier, last
    <3>2. Max(earlier) \in earlier
      BY <2>2, <3>1, MaxInterval, Zenon
    <3> QED BY <2>2, <3>2, Zenon
  <2> HIDE DEF earlier
  <2> QED BY <1>1, <1>2, <2>1, <2>3
<1> QED BY Zenon, <1>3, <1>4, <1>5

(* The index a leader commits is in its log. *)
LEMMA CommittableBound ==
    ASSUME Counting, TypeOK, NEW s \in Servers, NEW match, Committable(s, match) # {}
    PROVE  /\ Max(Committable(s, match)) \in Nat
           /\ Max(Committable(s, match)) > commitIndex[s]
           /\ Max(Committable(s, match)) <= LastIndex(s)
<1>1. commitIndex[s] \in Nat /\ LastIndex(s) \in Nat
  BY LogTypes, Zenon DEF TypeOK, Index
<1> DEFINE new == Committable(s, match)
<1>2. new \in SUBSET (commitIndex[s] + 1 .. LastIndex(s)) /\ new # {}
  BY Zenon DEF Committable
<1> HIDE DEF new
<1>3. Max(new) \in commitIndex[s] + 1 .. LastIndex(s)
  <2>1. commitIndex[s] + 1 \in Int /\ LastIndex(s) \in Int
    BY <1>1
  <2> QED BY <1>2, <2>1, MaxInterval, Zenon
<1>4. Max(new) \in Nat /\ Max(new) > commitIndex[s] /\ Max(new) <= LastIndex(s)
  BY <1>1, <1>3
<1> QED BY Zenon, <1>4 DEF new

(* sendAppendEntries keeps the types, whatever the reply. *)
LEMMA AppendReplyTypes ==
    ASSUME Counting, ElectionInv, NEW m \in net, AppendRefused(m) \/ AppendSucceeded(m)
    PROVE  TypeOK'
<1> DEFINE s == m.from
           p == m.to
<1>0. TypeOK /\ SnapshotLength /\ s \in Servers /\ p \in Servers
  BY Zenon, MessageKinds DEF ElectionInv
<1>1. m \in AppendEntriesReplyMsg
  BY Zenon, <1>0, MessageKinds DEF AppendRefused, AppendSucceeded
<1>2. m.ReplyTerm \in Term /\ m.Match \in Nat
  BY Zenon, <1>1 DEF AppendEntriesReplyMsg, Index
<1>3. net' \subseteq Message
  BY Zenon, <1>0 DEF AppendRefused, AppendSucceeded, TypeOK
<1>4. CASE AppendRefused(m)
  <2>1. nextIndex' \in [Servers -> [Servers -> Index]]
    <3>1. \E n \in {nextIndex[s][p], Backoff(s, p)} : nextIndex' = [nextIndex EXCEPT ![s][p] = n]
      BY <1>4, Zenon DEF AppendRefused
    <3>2. nextIndex \in [Servers -> [Servers -> Index]] /\ Backoff(s, p) \in Index
      BY <1>0, BackoffBound, Zenon DEF TypeOK, Index
    <3> QED BY <1>0, <3>1, <3>2
  <2>2. UNCHANGED <<commitIndex, matchIndex, preVoteCount, boots, ballots, committed>>
    BY Zenon, <1>4 DEF AppendRefused, historyVars
  <2>3. CASE UNCHANGED <<persistentVars, disk, state, voteCount>>
    BY <1>0, <1>3, <2>1, <2>2, <2>3, Zenon DEF TypeOK, persistentVars
  <2>4. CASE ~UNCHANGED <<persistentVars, disk, state, voteCount>>
    <3>1. /\ LearnTerm(s, m.ReplyTerm)
          /\ voteCount' = [voteCount EXCEPT ![s] = 0]
          /\ UNCHANGED <<log, snapShot, lastIncludedIndex, lastIncludedTerm>>
      BY Zenon, <1>4, <2>4 DEF AppendRefused
    <3>2. /\ currentTerm' \in [Servers -> Term]
          /\ votedFor' \in [Servers -> Servers \cup {Nil}]
          /\ state' \in [Servers -> {Follower, PreCandidate, Candidate, Leader}]
      BY Zenon, <1>0, <1>2, <3>1, LearnTermType
    <3> QED BY <1>0, <1>3, <2>1, <2>2, <3>1, <3>2, Zenon DEF TypeOK
  <2> QED BY Zenon, <2>3, <2>4
<1>5. CASE AppendSucceeded(m)
  <2> DEFINE match == [matchIndex[s] EXCEPT ![p] = m.Match]
             new == Committable(s, match)
  <2>1. match \in [Servers -> Index]
    BY <1>0, <1>2, Zenon DEF TypeOK, Index
  <2>2. /\ \/ UNCHANGED <<matchIndex, nextIndex>>
           \/ /\ matchIndex' = [matchIndex EXCEPT ![s] = match]
              /\ nextIndex' = [nextIndex EXCEPT ![s][p] = m.Match + 1]
        /\ \/ UNCHANGED <<commitIndex, committed>>
           \/ /\ new # {}
              /\ commitIndex' = [commitIndex EXCEPT ![s] = Max(new)]
              /\ committed' = committed \cup {SubSeq(WholeLog(s), 1, Max(new))}
    BY Zenon, <1>5 DEF AppendSucceeded, leaderVars
  <2>3. UNCHANGED <<currentTerm, votedFor, log, snapShot, lastIncludedIndex, lastIncludedTerm,
                    state, preVoteCount, voteCount, boots, ballots>>
    BY Zenon, <1>5 DEF AppendSucceeded, persistentVars, countVars
  <2> HIDE DEF match, s, p
  <2>4. matchIndex' \in [Servers -> [Servers -> Index]] /\ nextIndex' \in [Servers -> [Servers -> Index]]
    <3>1. /\ matchIndex \in [Servers -> [Servers -> Index]]
          /\ nextIndex \in [Servers -> [Servers -> Index]]
      BY Zenon, <1>0 DEF TypeOK
    <3>2. m.Match + 1 \in Index
      BY <1>2 DEF Index
    <3>3. CASE UNCHANGED <<matchIndex, nextIndex>>
      BY Zenon, <3>1, <3>3
    <3>4. CASE /\ matchIndex' = [matchIndex EXCEPT ![s] = match]
               /\ nextIndex' = [nextIndex EXCEPT ![s][p] = m.Match + 1]
      BY Zenon, <1>0, <2>1, <3>1, <3>2, <3>4
    <3> QED BY Zenon, <2>2, <3>3, <3>4
  <2>5. commitIndex' \in [Servers -> Index] /\ committed' \subseteq Seq(Entry)
    <3>1. CASE UNCHANGED <<commitIndex, committed>>
      BY Zenon, <1>0, <3>1 DEF TypeOK
    <3>2. CASE ~UNCHANGED <<commitIndex, committed>>
      <4> DEFINE n == Max(new)
      <4>1. n \in Nat /\ n <= LastIndex(s)
        BY Zenon, <1>0, <2>2, <3>2, CommittableBound
      <4>2. SubSeq(WholeLog(s), 1, n) \in Seq(Entry)
        <5> HIDE DEF n
        <5>1. WholeLog(s) \in Seq(Entry) /\ n \in Int /\ n <= Len(WholeLog(s))
          BY <1>0, <4>1, WholeLogType
        <5> QED BY <5>1, SubSeqType
      <4>3. /\ commitIndex' = [commitIndex EXCEPT ![s] = n]
            /\ committed' = committed \cup {SubSeq(WholeLog(s), 1, n)}
        BY Zenon, <2>2, <3>2
      <4> HIDE DEF n
      <4> QED BY <1>0, <4>1, <4>2, <4>3, Zenon DEF TypeOK, Index
    <3> QED BY Zenon, <3>1, <3>2
  <2> QED BY <1>0, <1>3, <2>3, <2>4, <2>5, Zenon DEF TypeOK
<1> QED BY Zenon, <1>4, <1>5

-----------------------------------------------------------------------------
(* Snapshots and restarts                                                  *)

(* The slice after a snapshot is never empty. *)
LEMMA LogAfterSnapshotType ==
    ASSUME Counting, TypeOK, NEW m \in InstallSnapshotMsg
    PROVE  LogAfterSnapshot(m.to, m) \in Seq(Entry) \ {<<>>}
<1> DEFINE r == m.to
           at == {i \in 1..Len(log[r]) :
                    /\ VirtualLogIdx(r, i - 1) = m.LastIncludedIndex
                    /\ log[r][i].Term = m.LastIncludedTerm}
<1>1. r \in Servers /\ m.LastIncludedCmd \in Commands \cup {Nil}
  BY Zenon DEF InstallSnapshotMsg
<1>2. log[r] \in Seq(Entry) /\ Len(log[r]) \in Nat
  BY Zenon, <1>1, LogTypes
<1>3. CASE at = {}
  <2> DEFINE e == [Term |-> lastIncludedTerm[r], Command |-> m.LastIncludedCmd]
  <2>1. e \in Entry
    BY Zenon, <1>1 DEF TypeOK, Entry
  <2>2. LogAfterSnapshot(r, m) = <<e>>
    BY Zenon, <1>3 DEF LogAfterSnapshot
  <2> HIDE DEF e
  <2> QED BY <2>1, <2>2
<1>4. CASE at # {}
  <2>1. at \in SUBSET Nat
    OBVIOUS
  <2>2. Min(at) \in at
    BY <1>4, <2>1, MinNat, Zenon
  <2> DEFINE k == Min(at)
  <2>3. k \in 1..Len(log[r])
    BY <2>2, Zenon
  <2>4. LogAfterSnapshot(r, m) = SubSeq(log[r], k, Len(log[r]))
    BY <1>4, Zenon DEF LogAfterSnapshot
  <2> HIDE DEF k, r
  <2>5. /\ SubSeq(log[r], k, Len(log[r])) \in Seq(Entry)
        /\ Len(SubSeq(log[r], k, Len(log[r]))) = IF k <= Len(log[r]) THEN Len(log[r]) - k + 1 ELSE 0
    BY <1>2, <2>3, SubSeqType
  <2>6. Len(SubSeq(log[r], k, Len(log[r]))) >= 1
    BY <1>2, <2>3, <2>5
  <2> QED BY <2>4, <2>5, <2>6, SeqNonEmpty, Zenon DEF r
<1> QED BY Zenon, <1>3, <1>4

(* Snapshots keep the types. *)
LEMMA SnapshotTypes ==
    ASSUME Counting, ElectionInv,
           \/ \E s \in Servers, i \in 1..MaxSnapshot : Snapshot(s, i)
           \/ \E m \in net : \/ handleInstallSnapshot(m) \/ InstallSnapshot(m)
                             \/ SnapshotAnswered(m)
    PROVE  TypeOK'
<1>0. TypeOK /\ SnapshotLength
  BY Zenon DEF ElectionInv
<1>1. ASSUME NEW s \in Servers, NEW i \in 1..MaxSnapshot, Snapshot(s, i)
      PROVE  TypeOK'
  <2> DEFINE k == RealLogIdx(s, i)
  <2>0. /\ log[s] \in Seq(Entry) /\ Len(log[s]) \in Nat /\ lastIncludedIndex[s] \in Nat
        /\ LastIndex(s) = lastIncludedIndex[s] + Len(log[s]) - 1
    BY Zenon, <1>0, LogTypes
  <2>1. i \in Nat /\ k \in 1..Len(log[s]) - 1 /\ i = k + lastIncludedIndex[s]
    <3>1. i \in Nat /\ i > lastIncludedIndex[s] /\ k < Len(log[s])
      BY <1>0, <1>1, <2>0, BoundsAssumption DEF Snapshot, TypeOK, Index
    <3> QED BY <2>0, <3>1 DEF RealLogIdx
  <2>2. snapShot' \in [Servers -> Seq(Entry)]
    <3>1. WholeLog(s) \in Seq(Entry) /\ Len(WholeLog(s)) = LastIndex(s)
      BY Zenon, <1>0, WholeLogType
    <3>2. i \in Int /\ i <= Len(WholeLog(s))
      BY <2>0, <2>1, <3>1
    <3>3. SubSeq(WholeLog(s), 1, i) \in Seq(Entry)
      BY <3>1, <3>2, SubSeqType
    <3>4. snapShot' = [snapShot EXCEPT ![s] = SubSeq(WholeLog(s), 1, i)]
      BY <1>1, Zenon DEF Snapshot
    <3> QED BY Zenon, <1>0, <3>3, <3>4 DEF TypeOK
  <2>3. log' \in [Servers -> Seq(Entry) \ {<<>>}]
    <3> HIDE DEF k
    <3>1. k + 1 \in Nat \ {0} /\ Len(log[s]) \in Int
      BY <2>0, <2>1
    <3>2. /\ SubSeq(log[s], k + 1, Len(log[s])) \in Seq(Entry)
          /\ Len(SubSeq(log[s], k + 1, Len(log[s]))) =
                IF k + 1 <= Len(log[s]) THEN Len(log[s]) - (k + 1) + 1 ELSE 0
      BY <2>0, <3>1, SubSeqType
    <3>3. Len(SubSeq(log[s], k + 1, Len(log[s]))) >= 1
      BY <2>0, <2>1, <3>2
    <3>4. SubSeq(log[s], k + 1, Len(log[s])) \in Seq(Entry) \ {<<>>}
      BY <3>2, <3>3, SeqNonEmpty, Zenon
    <3>5. log' = [log EXCEPT ![s] = SubSeq(log[s], k + 1, Len(log[s]))]
      BY Zenon, <1>1 DEF Snapshot, k
    <3> QED BY Zenon, <1>0, <3>4, <3>5 DEF TypeOK
  <2>4. lastIncludedTerm' \in [Servers -> EntryTerm] /\ lastIncludedIndex' \in [Servers -> Index]
    <3>1. TermAt(s, i) \in EntryTerm
      BY <1>0, <2>1, LogTypes DEF TermAt
    <3>2. /\ lastIncludedTerm' = [lastIncludedTerm EXCEPT ![s] = TermAt(s, i)]
          /\ lastIncludedIndex' = [lastIncludedIndex EXCEPT ![s] = i]
      BY <1>1, Zenon DEF Snapshot
    <3> QED BY Zenon, <1>0, <2>1, <3>1, <3>2 DEF TypeOK, Index
  <2>5. UNCHANGED <<currentTerm, votedFor, state, commitIndex, leaderVars, countVars,
                    net, boots, historyVars>>
    BY Zenon, <1>1 DEF Snapshot
  <2> QED BY <1>0, <2>2, <2>3, <2>4, <2>5, Zenon DEF TypeOK, leaderVars, countVars, historyVars
<1>2. ASSUME NEW m \in net, handleInstallSnapshot(m)
      PROVE  TypeOK'
  <2> DEFINE s == m.from
             call == [rpc |-> "InstallSnapshot", from |-> s, to |-> m.to, boot |-> m.boot,
                      Term |-> currentTerm[s],
                      LastIncludedIndex |-> lastIncludedIndex[s],
                      LastIncludedTerm |-> lastIncludedTerm[s],
                      Data |-> snapShot[s],
                      LastIncludedCmd |-> log[s][1].Command]
  <2>1. s \in Servers /\ m.to \in Servers /\ m.boot \in Nat
    BY Zenon, <1>0, MessageKinds
  <2>2. log[s][1].Command \in Commands \cup {Nil}
    <3>1. 1 \in 1..Len(log[s])
      BY <1>0, <2>1, LogTypes
    <3>2. log[s][1] \in Entry
      BY Zenon, <1>0, <2>1, <3>1, LogTypes
    <3> QED BY Zenon, <3>2 DEF Entry
  <2>3. call \in InstallSnapshotMsg
    BY <1>0, <2>1, <2>2, Zenon DEF InstallSnapshotMsg, TypeOK
  <2>4. net' \subseteq net \cup {call}
    BY Zenon, <1>2 DEF handleInstallSnapshot
  <2>5. net' \subseteq Message
    <3> HIDE DEF call
    <3> QED BY Zenon, <1>0, <2>3, <2>4 DEF Message, TypeOK
  <2> QED BY <1>0, <1>2, <2>5, Zenon DEF TypeOK, handleInstallSnapshot, persistentVars,
                                   leaderVars, countVars, historyVars
<1>3. ASSUME NEW m \in net, SnapshotAnswered(m)
      PROVE  TypeOK'
  <2> DEFINE s == m.from
             p == m.to
  <2>1. s \in Servers /\ p \in Servers /\ m.ReplyTerm \in Term
    BY Zenon, <1>0, <1>3, MessageKinds DEF SnapshotAnswered, InstallSnapshotReplyMsg
  <2>2. net' \subseteq Message
    BY Zenon, <1>0, <1>3 DEF SnapshotAnswered, TypeOK
  <2>3. nextIndex' \in [Servers -> [Servers -> Index]]
    <3>0. lastIncludedIndex[s] \in Nat
      BY Zenon, <1>0, <2>1, LogTypes
    <3>1. VirtualLogIdx(s, 1) \in Index
      BY <3>0 DEF VirtualLogIdx, Index
    <3>2. nextIndex \in [Servers -> [Servers -> Index]]
      BY Zenon, <1>0 DEF TypeOK
    <3>3. \E n \in {nextIndex[s][p], VirtualLogIdx(s, 1)} :
             nextIndex' = [nextIndex EXCEPT ![s][p] = n]
      BY <1>3, Zenon DEF SnapshotAnswered
    <3> QED BY <2>1, <3>1, <3>2, <3>3
  <2>4. UNCHANGED <<commitIndex, matchIndex, countVars, boots, historyVars>>
    BY Zenon, <1>3 DEF SnapshotAnswered
  <2>5. CASE UNCHANGED <<persistentVars, disk, state>>
    BY <1>0, <2>2, <2>3, <2>4, <2>5, Zenon DEF TypeOK, persistentVars, countVars, historyVars
  <2>6. CASE ~UNCHANGED <<persistentVars, disk, state>>
    <3>1. LearnTerm(s, m.ReplyTerm) /\ UNCHANGED <<log, snapShot, lastIncludedIndex, lastIncludedTerm>>
      BY Zenon, <1>3, <2>6 DEF SnapshotAnswered
    <3>2. /\ currentTerm' \in [Servers -> Term]
          /\ votedFor' \in [Servers -> Servers \cup {Nil}]
          /\ state' \in [Servers -> {Follower, PreCandidate, Candidate, Leader}]
      BY Zenon, <1>0, <2>1, <3>1, LearnTermType
    <3> QED BY <1>0, <2>2, <2>3, <2>4, <3>1, <3>2, Zenon DEF TypeOK, countVars, historyVars
  <2> QED BY Zenon, <2>5, <2>6
<1>4. ASSUME NEW m \in net, InstallSnapshot(m)
      PROVE  TypeOK'
  <2> DEFINE r == m.to
  <2>1. /\ m \in InstallSnapshotMsg /\ r \in Servers /\ m.from \in Servers /\ m.boot \in Nat
        /\ currentTerm[r] \in Term
    BY <1>0, <1>4, MessageKinds, Zenon DEF InstallSnapshot, TypeOK
  <2>2. /\ m.Term \in Term /\ m.LastIncludedIndex \in Nat /\ m.LastIncludedTerm \in EntryTerm
        /\ m.Data \in Seq(Entry) /\ m.LastIncludedCmd \in Commands \cup {Nil}
    BY Zenon, <2>1 DEF InstallSnapshotMsg, Index
  <2>3. net' \subseteq Message
    <3>1. \A T \in Term : SnapshotReply(m, T) \in InstallSnapshotReplyMsg
      BY Zenon, <2>1 DEF SnapshotReply, InstallSnapshotReplyMsg
    <3>2. \E T \in Term : ReplyOrRetry(m, SnapshotReply(m, T))
      BY <1>4, <2>1, <2>2, Zenon DEF InstallSnapshot
    <3> QED BY <1>0, <3>1, <3>2 DEF ReplyOrRetry, Message, TypeOK
  <2>4. CASE m.Term < currentTerm[r]
    BY <1>0, <1>4, <2>3, <2>4, Zenon DEF InstallSnapshot, TypeOK, persistentVars, leaderVars, countVars, historyVars
  <2>5. CASE ~(m.Term < currentTerm[r])
    <3>1. LogAfterSnapshot(r, m) \in Seq(Entry) \ {<<>>}
      BY Zenon, <1>0, <2>1, <2>2, LogAfterSnapshotType
    <3>2. /\ currentTerm' = [currentTerm EXCEPT ![r] = m.Term]
          /\ votedFor' = [votedFor EXCEPT ![r] = IF m.Term > currentTerm[r] THEN Nil ELSE @]
          /\ state' = [state EXCEPT ![r] = Follower]
          /\ log' = [log EXCEPT ![r] = LogAfterSnapshot(r, m)]
          /\ snapShot' = [snapShot EXCEPT ![r] = m.Data]
          /\ lastIncludedIndex' = [lastIncludedIndex EXCEPT ![r] = m.LastIncludedIndex]
          /\ lastIncludedTerm' = [lastIncludedTerm EXCEPT ![r] = m.LastIncludedTerm]
          /\ commitIndex' = [commitIndex EXCEPT ![r] = Max({@, m.LastIncludedIndex})]
      BY Zenon, <1>4, <2>5 DEF InstallSnapshot
    <3>3. Max({commitIndex[r], m.LastIncludedIndex}) \in Nat
      <4>1. commitIndex[r] \in Nat
        BY <1>0, <2>1, Zenon DEF TypeOK, Index
      <4>2. Max({commitIndex[r], m.LastIncludedIndex}) =
              IF commitIndex[r] >= m.LastIncludedIndex THEN commitIndex[r] ELSE m.LastIncludedIndex
        <5>1. commitIndex[r] \in Int /\ m.LastIncludedIndex \in Int
          BY <2>2, <4>1
        <5> QED BY Zenon, <5>1, MaxMinPair
      <4> QED BY <2>2, <4>1, <4>2, Zenon
    <3>4. /\ currentTerm' \in [Servers -> Term]
          /\ votedFor' \in [Servers -> Servers \cup {Nil}]
          /\ state' \in [Servers -> {Follower, PreCandidate, Candidate, Leader}]
      BY Zenon, <1>0, <2>1, <2>2, <3>2 DEF TypeOK, Follower, PreCandidate, Candidate, Leader
    <3>5. /\ log' \in [Servers -> Seq(Entry) \ {<<>>}]
          /\ snapShot' \in [Servers -> Seq(Entry)]
      BY Zenon, <1>0, <2>1, <2>2, <3>1, <3>2 DEF TypeOK
    <3>6. /\ lastIncludedIndex' \in [Servers -> Index]
          /\ lastIncludedTerm' \in [Servers -> EntryTerm]
          /\ commitIndex' \in [Servers -> Index]
      BY <1>0, <2>1, <2>2, <3>2, <3>3, Zenon DEF TypeOK, Index
    <3>7. UNCHANGED <<leaderVars, countVars, boots, historyVars>>
      BY Zenon, <1>4 DEF InstallSnapshot
    <3> QED BY <1>0, <2>3, <3>4, <3>5, <3>6, <3>7, Zenon DEF TypeOK, leaderVars, countVars, historyVars
  <2> QED BY Zenon, <2>4, <2>5
<1> QED BY Zenon, <1>1, <1>2, <1>3, <1>4

(* A restart keeps the types. *)
LEMMA RebootTypes ==
    ASSUME ElectionInv, NEW s \in Servers, NEW T \in Term, NEW v \in Servers \cup {Nil},
           Reboot(s, Image(s, T, v)), net' \subseteq net
    PROVE  TypeOK'
<1>0. TypeOK
  BY Zenon DEF ElectionInv
<1>1. /\ boots' = [boots EXCEPT ![s] = @ + 1]
      /\ currentTerm' = [currentTerm EXCEPT ![s] = T]
      /\ votedFor' = [votedFor EXCEPT ![s] = v]
      /\ log' = [log EXCEPT ![s] = log[s]]
      /\ snapShot' = [snapShot EXCEPT ![s] = snapShot[s]]
      /\ lastIncludedIndex' = [lastIncludedIndex EXCEPT ![s] = lastIncludedIndex[s]]
      /\ lastIncludedTerm' = [lastIncludedTerm EXCEPT ![s] = lastIncludedTerm[s]]
      /\ state' = [state EXCEPT ![s] = Follower]
      /\ commitIndex' = [commitIndex EXCEPT ![s] = lastIncludedIndex[s]]
      /\ preVoteCount' = [preVoteCount EXCEPT ![s] = 0]
      /\ voteCount' = [voteCount EXCEPT ![s] = 0]
      /\ UNCHANGED historyVars
  BY Zenon DEF Reboot, Image
<1>2. /\ nextIndex' \in [Servers -> [Servers -> Index]]
      /\ matchIndex' \in [Servers -> [Servers -> Index]]
  <2> DEFINE nx == [p \in Servers |-> Len(log[s]) + lastIncludedIndex[s]]
             mt == [p \in Servers |-> lastIncludedIndex[s]]
  <2>1. Len(log[s]) + lastIncludedIndex[s] \in Index /\ lastIncludedIndex[s] \in Index
    BY <1>0, LogTypes DEF Index
  <2>2. nx \in [Servers -> Index] /\ mt \in [Servers -> Index]
    BY Zenon, <2>1
  <2>3. nextIndex' = [nextIndex EXCEPT ![s] = nx] /\ matchIndex' = [matchIndex EXCEPT ![s] = mt]
    BY Zenon DEF Reboot, Image
  <2>4. nextIndex \in [Servers -> [Servers -> Index]] /\ matchIndex \in [Servers -> [Servers -> Index]]
    BY Zenon, <1>0 DEF TypeOK
  <2> HIDE DEF nx, mt
  <2> QED BY Zenon, <2>2, <2>3, <2>4
<1>3. /\ currentTerm' \in [Servers -> Term] /\ votedFor' \in [Servers -> Servers \cup {Nil}]
      /\ state' \in [Servers -> {Follower, PreCandidate, Candidate, Leader}]
  BY Zenon, <1>0, <1>1 DEF TypeOK, Follower, PreCandidate, Candidate, Leader
<1>4. /\ log' \in [Servers -> Seq(Entry) \ {<<>>}] /\ snapShot' \in [Servers -> Seq(Entry)]
      /\ lastIncludedIndex' \in [Servers -> Index] /\ lastIncludedTerm' \in [Servers -> EntryTerm]
      /\ commitIndex' \in [Servers -> Index]
  BY Zenon, <1>0, <1>1 DEF TypeOK
<1>5. /\ preVoteCount' \in [Servers -> Nat] /\ voteCount' \in [Servers -> Nat]
      /\ boots' \in [Servers -> Nat]
  BY <1>0, <1>1 DEF TypeOK
<1>6. net' \subseteq Message /\ ballots' \subseteq Servers \X Term \X Servers /\ committed' \subseteq Seq(Entry)
  BY Zenon, <1>0, <1>1 DEF TypeOK, historyVars
<1> QED BY <1>2, <1>3, <1>4, <1>5, <1>6, Zenon DEF TypeOK

-----------------------------------------------------------------------------
(* Every step of Raft keeps the types. *)
LEMMA TypeStep ==
    ASSUME Counting, ElectionInv, Next
    PROVE  TypeOK'
<1>1. ASSUME NEW s \in Servers,
             \/ StartPreVote(s) \/ sendPreVote(s)
             \/ \E P \in SUBSET (Servers \ {s}) : StartElection(s, P) \/ doLeader(s, P)
             \/ \E c \in Commands : Start(s, c)
      PROVE  TypeOK'
  BY Zenon, <1>1, TickerTypes
<1>2. ASSUME NEW s \in Servers, NEW i \in 1..MaxSnapshot, Snapshot(s, i)
      PROVE  TypeOK'
  BY Zenon, <1>2, SnapshotTypes
<1>3. ASSUME NEW s \in Servers, Restart(s)
      PROVE  TypeOK'
  <2>1. Reboot(s, Image(s, currentTerm[s], votedFor[s])) /\ net' \subseteq net
    BY Zenon, <1>3, RebootImage
  <2>2. currentTerm[s] \in Term /\ votedFor[s] \in Servers \cup {Nil}
    BY Zenon DEF ElectionInv, TypeOK
  <2> QED BY Zenon, <2>1, <2>2, RebootTypes
<1>4. ASSUME NEW m \in net, Handle(m)
      PROVE  TypeOK'
  <2>1. CASE RequestVote(m) \/ sendRequestVote(m)
    BY Zenon, <2>1, ElectionTypes
  <2>2. CASE RejectAppendEntries(m) \/ AcceptAppendEntries(m)
    BY Zenon, <2>2, AppendTypes
  <2>3. CASE AppendRefused(m) \/ AppendSucceeded(m)
    BY Zenon, <2>3, AppendReplyTypes
  <2>4. CASE handleInstallSnapshot(m) \/ InstallSnapshot(m) \/ SnapshotAnswered(m)
    BY Zenon, <2>4, SnapshotTypes
  <2>5. CASE CrashBetweenPersists(m)
    <3>1. /\ m.to \in Servers /\ m.Term \in Term
          /\ Reboot(m.to, Image(m.to, m.Term, Nil)) /\ net' \subseteq net
      BY Zenon, <2>5, RebootImage
    <3> QED BY Zenon, <3>1, RebootTypes
  <2> QED BY Zenon, <1>4, <2>1, <2>2, <2>3, <2>4, <2>5 DEF Handle
<1> QED BY Zenon, <1>1, <1>2, <1>3, <1>4 DEF Next

-----------------------------------------------------------------------------
(* Every step ends with what it changed on disk                            *)

(* A server that persists what it changed, while no other changes. *)
LEMMA PersistKeepsDisk ==
    ASSUME DiskIsCurrent, NEW s \in Servers, persist(s),
           \A t \in Servers \ {s} :
              /\ currentTerm'[t] = currentTerm[t] /\ votedFor'[t] = votedFor[t]
              /\ log'[t] = log[t] /\ snapShot'[t] = snapShot[t]
              /\ lastIncludedIndex'[t] = lastIncludedIndex[t]
              /\ lastIncludedTerm'[t] = lastIncludedTerm[t]
    PROVE  DiskIsCurrent'
<1>1. \A t \in Servers \ {s} : encodeState(t)' = encodeState(t)
  BY Zenon DEF encodeState
<1>2. disk = [t \in Servers |-> encodeState(t)] /\ disk' = [disk EXCEPT ![s] = encodeState(s)']
  BY Zenon DEF DiskIsCurrent, persist
<1>3. \A t \in Servers : disk'[t] = encodeState(t)'
  BY Zenon, <1>1, <1>2
<1>4. disk' = [t \in Servers |-> disk'[t]]
  BY Zenon, <1>2
<1> QED BY Zenon, <1>3, <1>4 DEF DiskIsCurrent

(* A step that changes nothing persistent. *)
LEMMA DiskUnchanged ==
    ASSUME DiskIsCurrent, UNCHANGED <<persistentVars, disk>>
    PROVE  DiskIsCurrent'
BY Zenon DEF DiskIsCurrent, persistentVars, encodeState

(* Every step keeps the disk current. *)
LEMMA DiskStep ==
    ASSUME ElectionInv, Next
    PROVE  DiskIsCurrent'
<1> USE DEF ElectionInv
<1>0. /\ currentTerm \in [Servers -> Term] /\ votedFor \in [Servers -> Servers \cup {Nil}]
      /\ log \in [Servers -> Seq(Entry) \ {<<>>}] /\ snapShot \in [Servers -> Seq(Entry)]
      /\ lastIncludedIndex \in [Servers -> Index] /\ lastIncludedTerm \in [Servers -> EntryTerm]
  BY Zenon DEF TypeOK
<1>1. ASSUME NEW s \in Servers, NEW P \in SUBSET (Servers \ {s}), StartElection(s, P)
      PROVE  DiskIsCurrent'
  <2>1. persist(s) /\ UNCHANGED <<log, snapShot, lastIncludedIndex, lastIncludedTerm>>
        /\ currentTerm' = [currentTerm EXCEPT ![s] = @ + 1]
        /\ votedFor' = [votedFor EXCEPT ![s] = s]
    BY Zenon, <1>1 DEF StartElection
  <2> QED BY Zenon, <1>0, <2>1, PersistKeepsDisk
<1>2. ASSUME NEW s \in Servers, NEW c \in Commands, Start(s, c)
      PROVE  DiskIsCurrent'
  <2>1. /\ persist(s) /\ log' = [log EXCEPT ![s] = Append(@, [Term |-> currentTerm[s], Command |-> c])]
        /\ UNCHANGED <<currentTerm, votedFor, snapShot, lastIncludedIndex, lastIncludedTerm>>
    BY Zenon, <1>2 DEF Start
  <2> QED BY Zenon, <1>0, <2>1, PersistKeepsDisk
<1>3. ASSUME NEW s \in Servers, NEW i \in 1..MaxSnapshot, Snapshot(s, i)
      PROVE  DiskIsCurrent'
  <2>1. persist(s) /\ UNCHANGED <<currentTerm, votedFor>>
    BY Zenon, <1>3 DEF Snapshot
  <2>2. \A t \in Servers \ {s} :
           /\ log'[t] = log[t] /\ snapShot'[t] = snapShot[t]
           /\ lastIncludedIndex'[t] = lastIncludedIndex[t]
           /\ lastIncludedTerm'[t] = lastIncludedTerm[t]
    BY Zenon, <1>0, <1>3 DEF Snapshot
  <2> QED BY Zenon, <2>1, <2>2, PersistKeepsDisk
<1>4. ASSUME NEW s \in Servers, NEW T, NEW v, Reboot(s, Image(s, T, v))
      PROVE  DiskIsCurrent'
  <2>1. /\ currentTerm' = [currentTerm EXCEPT ![s] = T]
        /\ votedFor' = [votedFor EXCEPT ![s] = v]
        /\ log' = [log EXCEPT ![s] = log[s]]
        /\ snapShot' = [snapShot EXCEPT ![s] = snapShot[s]]
        /\ lastIncludedIndex' = [lastIncludedIndex EXCEPT ![s] = lastIncludedIndex[s]]
        /\ lastIncludedTerm' = [lastIncludedTerm EXCEPT ![s] = lastIncludedTerm[s]]
        /\ disk' = [disk EXCEPT ![s] = Image(s, T, v)]
    BY Zenon, <1>4 DEF Reboot, Image
  <2>2. Image(s, T, v) = encodeState(s)'
    <3>1. /\ currentTerm'[s] = T /\ votedFor'[s] = v /\ log'[s] = log[s]
          /\ snapShot'[s] = snapShot[s] /\ lastIncludedIndex'[s] = lastIncludedIndex[s]
          /\ lastIncludedTerm'[s] = lastIncludedTerm[s]
      BY Zenon, <1>0, <2>1
    <3> QED BY Zenon, <3>1 DEF Image, encodeState
  <2>3. persist(s)
    BY Zenon, <2>1, <2>2 DEF persist
  <2> QED BY Zenon, <1>0, <2>1, <2>3, PersistKeepsDisk
<1>5. ASSUME NEW m \in net, RequestVote(m)
      PROVE  DiskIsCurrent'
  <2>1. m.to \in Servers
    BY Zenon, MessageKinds
  <2>2. CASE m.Term < currentTerm[m.to]
    BY Zenon, <1>5, <2>2, DiskUnchanged DEF RequestVote
  <2>3. CASE ~(m.Term < currentTerm[m.to])
    <3>1. /\ persist(m.to) /\ UNCHANGED <<log, snapShot, lastIncludedIndex, lastIncludedTerm>>
          /\ \E x, y : /\ currentTerm' = [currentTerm EXCEPT ![m.to] = x]
                       /\ votedFor' = [votedFor EXCEPT ![m.to] = y]
      BY Zenon, <1>5, <2>3 DEF RequestVote
    <3> QED BY Zenon, <1>0, <2>1, <3>1, PersistKeepsDisk
  <2> QED BY Zenon, <2>2, <2>3
<1>6. ASSUME NEW s \in Servers, NEW T, LearnTerm(s, T), persist(s),
             UNCHANGED <<log, snapShot, lastIncludedIndex, lastIncludedTerm>>
      PROVE  DiskIsCurrent'
  <2>1. \A t \in Servers \ {s} : currentTerm'[t] = currentTerm[t] /\ votedFor'[t] = votedFor[t]
    BY Zenon, <1>0, <1>6 DEF LearnTerm
  <2> QED BY Zenon, <1>6, <2>1, PersistKeepsDisk
<1>7. ASSUME NEW m \in net,
             RejectAppendEntries(m) \/ AppendRefused(m) \/ SnapshotAnswered(m)
      PROVE  DiskIsCurrent'
  <2>1. m.to \in Servers /\ m.from \in Servers
    BY Zenon, MessageKinds
  <2>2. \/ UNCHANGED <<persistentVars, disk>>
        \/ \E s \in Servers, T \in {m.Term, m.ReplyTerm} :
              /\ LearnTerm(s, T) /\ persist(s)
              /\ UNCHANGED <<log, snapShot, lastIncludedIndex, lastIncludedTerm>>
    BY <1>7, <2>1, Zenon DEF RejectAppendEntries, AppendRefused, SnapshotAnswered
  <2> QED BY Zenon, <1>6, <2>2, DiskUnchanged
<1>8. ASSUME NEW m \in net, AcceptAppendEntries(m)
      PROVE  DiskIsCurrent'
  <2>1. m.to \in Servers
    BY Zenon, MessageKinds
  <2>2. /\ persist(m.to) /\ UNCHANGED <<snapShot, lastIncludedIndex, lastIncludedTerm>>
        /\ log' = [log EXCEPT ![m.to] = MergedLog(m.to, m)] /\ LearnTerm(m.to, m.Term)
    BY Zenon, <1>8 DEF AcceptAppendEntries
  <2>3. \A t \in Servers \ {m.to} :
           currentTerm'[t] = currentTerm[t] /\ votedFor'[t] = votedFor[t] /\ log'[t] = log[t]
    BY Zenon, <1>0, <2>2 DEF LearnTerm
  <2> QED BY Zenon, <2>1, <2>2, <2>3, PersistKeepsDisk
<1>9. ASSUME NEW m \in net, InstallSnapshot(m)
      PROVE  DiskIsCurrent'
  <2>1. m.to \in Servers
    BY Zenon, MessageKinds
  <2>2. CASE m.Term < currentTerm[m.to]
    BY Zenon, <1>9, <2>2, DiskUnchanged DEF InstallSnapshot
  <2>3. CASE ~(m.Term < currentTerm[m.to])
    <3>1. persist(m.to)
      BY Zenon, <1>9, <2>3 DEF InstallSnapshot
    <3>2. \A t \in Servers \ {m.to} :
             /\ currentTerm'[t] = currentTerm[t] /\ votedFor'[t] = votedFor[t]
             /\ log'[t] = log[t] /\ snapShot'[t] = snapShot[t]
             /\ lastIncludedIndex'[t] = lastIncludedIndex[t]
             /\ lastIncludedTerm'[t] = lastIncludedTerm[t]
      BY <1>0, <1>9, <2>3 DEF InstallSnapshot
    <3> QED BY Zenon, <2>1, <3>1, <3>2, PersistKeepsDisk
  <2> QED BY Zenon, <2>2, <2>3
<1>10. ASSUME \/ \E s \in Servers : \/ StartPreVote(s) \/ sendPreVote(s)
                                    \/ \E P \in SUBSET (Servers \ {s}) : doLeader(s, P)
              \/ \E m \in net : \/ sendRequestVote(m) \/ AppendSucceeded(m)
                                \/ handleInstallSnapshot(m)
       PROVE  DiskIsCurrent'
  <2>1. UNCHANGED <<persistentVars, disk>>
    BY <1>10, Zenon DEF StartPreVote, sendPreVote, doLeader, sendRequestVote, AppendSucceeded,
                 handleInstallSnapshot
  <2> QED BY Zenon, <2>1, DiskUnchanged
<1>11. ASSUME \/ \E s \in Servers : Restart(s)
              \/ \E m \in net : CrashBetweenPersists(m)
       PROVE  DiskIsCurrent'
  BY Zenon, <1>4, <1>11, RebootImage
<1> QED BY Zenon, <1>1, <1>2, <1>3, <1>5, <1>7, <1>8, <1>9, <1>10, <1>11 DEF Next, Handle

-----------------------------------------------------------------------------
(* Snapshots stand for as many entries as their index says                 *)

(* Every step keeps the lengths of snapshots. *)
LEMMA SnapshotStep ==
    ASSUME ElectionInv, Next
    PROVE  SnapshotLength'
<1>0. TypeOK /\ SnapshotLength
  BY Zenon DEF ElectionInv
<1>1. snapShot \in [Servers -> Seq(Entry)] /\ lastIncludedIndex \in [Servers -> Index]
  BY Zenon, <1>0 DEF TypeOK
<1>2. ASSUME UNCHANGED <<snapShot, lastIncludedIndex>>,
             \A n \in net' : n.rpc = "InstallSnapshot" => n \in net
      PROVE  SnapshotLength'
  BY Zenon, <1>0, <1>2 DEF SnapshotLength
<1>3. ASSUME NEW s \in Servers, NEW i \in 1..MaxSnapshot, Snapshot(s, i)
      PROVE  SnapshotLength'
  <2>1. WholeLog(s) \in Seq(Entry) /\ Len(WholeLog(s)) = LastIndex(s)
    BY Zenon, <1>0, WholeLogType
  <2>2. /\ LastIndex(s) = lastIncludedIndex[s] + Len(log[s]) - 1
        /\ Len(log[s]) \in Nat /\ lastIncludedIndex[s] \in Nat
    BY Zenon, <1>0, LogTypes
  <2>3. /\ i \in Nat /\ i >= 1 /\ i - lastIncludedIndex[s] < Len(log[s])
        /\ snapShot' = [snapShot EXCEPT ![s] = SubSeq(WholeLog(s), 1, i)]
        /\ lastIncludedIndex' = [lastIncludedIndex EXCEPT ![s] = i]
        /\ net' = net
    <3>1. i \in Nat /\ i >= 1
      BY BoundsAssumption
    <3>2. /\ i - lastIncludedIndex[s] < Len(log[s]) /\ net' = net
          /\ snapShot' = [snapShot EXCEPT ![s] = SubSeq(WholeLog(s), 1, i)]
          /\ lastIncludedIndex' = [lastIncludedIndex EXCEPT ![s] = i]
      BY Zenon, <1>3 DEF Snapshot, RealLogIdx
    <3> QED BY Zenon, <3>1, <3>2
  <2>4. i <= Len(WholeLog(s))
    BY <2>1, <2>2, <2>3
  <2>5. Len(SubSeq(WholeLog(s), 1, i)) = i
    BY <2>1, <2>3, <2>4, SubSeqType
  <2> QED BY Zenon, <1>0, <1>1, <2>3, <2>5 DEF SnapshotLength
<1>4. ASSUME NEW s \in Servers, NEW T, NEW v, Reboot(s, Image(s, T, v)), net' \subseteq net
      PROVE  SnapshotLength'
  <2>1. UNCHANGED <<snapShot, lastIncludedIndex>>
    BY Zenon, <1>1, <1>4 DEF Reboot, Image
  <2> QED BY Zenon, <1>2, <1>4, <2>1
<1>5. ASSUME NEW m \in net, handleInstallSnapshot(m)
      PROVE  SnapshotLength'
  <2>1. m.from \in Servers /\ UNCHANGED <<snapShot, lastIncludedIndex>>
    BY Zenon, <1>0, <1>5, MessageKinds DEF handleInstallSnapshot, persistentVars
  <2>2. \A n \in net' : n \in net \/ /\ n.Data = snapShot[m.from]
                                     /\ n.LastIncludedIndex = lastIncludedIndex[m.from]
    BY <1>5 DEF handleInstallSnapshot
  <2> QED BY Zenon, <1>0, <2>1, <2>2 DEF SnapshotLength
<1>6. ASSUME NEW m \in net, InstallSnapshot(m)
      PROVE  SnapshotLength'
  <2>1. m.to \in Servers /\ Len(m.Data) = m.LastIncludedIndex
    BY Zenon, <1>0, <1>6, MessageKinds DEF SnapshotLength, InstallSnapshot
  <2>2. \A n \in net' : n.rpc = "InstallSnapshot" => n \in net
    BY <1>6 DEF InstallSnapshot, ReplyOrRetry, SnapshotReply
  <2>3. \/ UNCHANGED <<snapShot, lastIncludedIndex>>
        \/ /\ snapShot' = [snapShot EXCEPT ![m.to] = m.Data]
           /\ lastIncludedIndex' = [lastIncludedIndex EXCEPT ![m.to] = m.LastIncludedIndex]
    BY Zenon, <1>6 DEF InstallSnapshot, persistentVars
  <2>4. \A s \in Servers : Len(snapShot'[s]) = lastIncludedIndex'[s]
    <3>1. \A s \in Servers : Len(snapShot[s]) = lastIncludedIndex[s]
      BY Zenon, <1>0 DEF SnapshotLength
    <3>2. CASE UNCHANGED <<snapShot, lastIncludedIndex>>
      BY Zenon, <3>1, <3>2
    <3>3. CASE /\ snapShot' = [snapShot EXCEPT ![m.to] = m.Data]
               /\ lastIncludedIndex' = [lastIncludedIndex EXCEPT ![m.to] = m.LastIncludedIndex]
      BY Zenon, <1>1, <2>1, <3>1, <3>3
    <3> QED BY Zenon, <2>3, <3>2, <3>3
  <2> QED BY Zenon, <1>0, <2>2, <2>4 DEF SnapshotLength
<1>7. ASSUME NEW s \in Servers, NEW P \in SUBSET (Servers \ {s}),
             StartElection(s, P) \/ doLeader(s, P)
      PROVE  SnapshotLength'
  <2>1. CASE StartElection(s, P)
    <3>1. UNCHANGED <<snapShot, lastIncludedIndex>>
      BY Zenon, <2>1 DEF StartElection
    <3>2. net' = net \cup {RequestVoteCall(s, p) : p \in P}
      BY Zenon, <2>1 DEF StartElection, Send
    <3>3. \A n \in net' : n.rpc = "InstallSnapshot" => n \in net
      BY <3>2 DEF RequestVoteCall
    <3> QED BY Zenon, <1>2, <3>1, <3>3
  <2>2. CASE doLeader(s, P)
    <3>1. UNCHANGED <<snapShot, lastIncludedIndex>>
      BY Zenon, <2>2 DEF doLeader, persistentVars
    <3>2. net' = net \cup {HeartbeatTo(s, p) : p \in P} /\ state[s] = Leader
      BY Zenon, <2>2 DEF doLeader, Send
    <3>3. \A p \in P : HeartbeatTo(s, p).rpc # "InstallSnapshot"
      BY Zenon, <3>2, HeartbeatType
    <3>4. \A n \in net' : n.rpc = "InstallSnapshot" => n \in net
      BY Zenon, <3>2, <3>3
    <3> QED BY Zenon, <1>2, <3>1, <3>4
  <2> QED BY Zenon, <1>7, <2>1, <2>2
<1>8. ASSUME NEW s \in Servers,
             StartPreVote(s) \/ sendPreVote(s) \/ \E c \in Commands : Start(s, c)
      PROVE  SnapshotLength'
  <2>1. UNCHANGED <<snapShot, lastIncludedIndex, net>>
    <3>1. CASE StartPreVote(s)
      BY Zenon, <3>1 DEF StartPreVote, persistentVars
    <3>2. CASE sendPreVote(s)
      BY Zenon, <3>2 DEF sendPreVote, persistentVars
    <3>3. CASE \E c \in Commands : Start(s, c)
      BY Zenon, <3>3 DEF Start
    <3> QED BY Zenon, <1>8, <3>1, <3>2, <3>3
  <2> QED BY Zenon, <1>2, <2>1
<1>9. ASSUME NEW m \in net,
             \/ RequestVote(m) \/ RejectAppendEntries(m) \/ AcceptAppendEntries(m)
      PROVE  SnapshotLength'
  <2>1. UNCHANGED <<snapShot, lastIncludedIndex>>
    <3>1. CASE RequestVote(m)
      BY Zenon, <3>1 DEF RequestVote, persistentVars
    <3>2. CASE RejectAppendEntries(m)
      BY Zenon, <3>2 DEF RejectAppendEntries, persistentVars
    <3>3. CASE AcceptAppendEntries(m)
      BY Zenon, <3>3 DEF AcceptAppendEntries
    <3> QED BY Zenon, <1>9, <3>1, <3>2, <3>3
  <2>2. \A n \in net' : n.rpc = "InstallSnapshot" => n \in net
    <3>1. CASE RequestVote(m)
      BY <3>1 DEF RequestVote, Reply, VoteReply
    <3>2. CASE RejectAppendEntries(m) \/ AcceptAppendEntries(m)
      BY <3>2 DEF RejectAppendEntries, AcceptAppendEntries, Reply, AppendReply
    <3> QED BY Zenon, <1>9, <3>1, <3>2
  <2> QED BY Zenon, <1>2, <2>1, <2>2
<1>10. ASSUME NEW m \in net,
              \/ sendRequestVote(m) \/ AppendRefused(m) \/ AppendSucceeded(m)
              \/ SnapshotAnswered(m)
       PROVE  SnapshotLength'
  <2>1. net' = net \ {m}
    BY Zenon, <1>10 DEF sendRequestVote, AppendRefused, AppendSucceeded, SnapshotAnswered
  <2>2. UNCHANGED <<snapShot, lastIncludedIndex>>
    <3>1. CASE sendRequestVote(m) \/ AppendSucceeded(m)
      BY Zenon, <3>1 DEF sendRequestVote, AppendSucceeded, persistentVars
    <3>2. CASE AppendRefused(m) \/ SnapshotAnswered(m)
      BY Zenon, <3>2 DEF AppendRefused, SnapshotAnswered, persistentVars
    <3> QED BY Zenon, <1>10, <3>1, <3>2
  <2> QED BY Zenon, <1>2, <2>1, <2>2
<1>11. ASSUME \/ \E s \in Servers : Restart(s)
             \/ \E m \in net : CrashBetweenPersists(m)
      PROVE  SnapshotLength'
  BY Zenon, <1>4, <1>11, RebootImage
<1> QED BY Zenon, <1>3, <1>5, <1>6, <1>7, <1>8, <1>9, <1>10, <1>11 DEF Next, Handle

-----------------------------------------------------------------------------
(* The ends of logs, and the calls                                         *)

(* Where the end of a log may move back: only where a server takes over what
   another one sent it, in the term of that one. *)
LEMMA LogShape ==
    ASSUME ElectionInv, Next, NEW s \in Servers
    PROVE  \/ LastIndex(s)' >= LastIndex(s)
           \/ \E m \in net : /\ m.rpc \in {"AppendEntries", "InstallSnapshot"}
                             /\ m.to = s /\ currentTerm'[s] = m.Term
<1>0. /\ TypeOK
      /\ LastIndex(s) \in Nat /\ LastIndex(s) = lastIncludedIndex[s] + Len(log[s]) - 1
      /\ Len(log[s]) \in Nat /\ lastIncludedIndex[s] \in Nat /\ log[s] \in Seq(Entry)
  BY Zenon, LogTypes DEF ElectionInv
<1>1. /\ log \in [Servers -> Seq(Entry) \ {<<>>}] /\ currentTerm \in [Servers -> Term]
      /\ lastIncludedIndex \in [Servers -> Index]
  BY Zenon, <1>0 DEF TypeOK
<1>2. LastIndex(s)' = Len(log'[s]) - 1 + lastIncludedIndex'[s]
  BY Zenon DEF LastIndex, VirtualLogIdx
<1>3. ASSUME log'[s] = log[s], lastIncludedIndex'[s] = lastIncludedIndex[s]
      PROVE  LastIndex(s)' >= LastIndex(s)
  BY <1>0, <1>2, <1>3
<1>4. ASSUME NEW t \in Servers, NEW c \in Commands, Start(t, c)
      PROVE  LastIndex(s)' >= LastIndex(s)
  <2>1. /\ log' = [log EXCEPT ![t] = Append(@, [Term |-> currentTerm[t], Command |-> c])]
        /\ lastIncludedIndex' = lastIncludedIndex
    BY Zenon, <1>4 DEF Start
  <2>2. CASE t # s
    BY Zenon, <1>1, <1>3, <2>1, <2>2
  <2>3. CASE t = s
    <3>1. [Term |-> currentTerm[s], Command |-> c] \in Entry
      BY Zenon, <1>1 DEF Entry, EntryTerm
    <3>2. log'[s] = Append(log[s], [Term |-> currentTerm[s], Command |-> c])
      BY Zenon, <1>1, <2>1, <2>3
    <3>3. Len(log'[s]) = Len(log[s]) + 1
      BY <1>0, <3>1, <3>2, AppendType
    <3> QED BY <1>0, <1>2, <2>1, <3>3
  <2> QED BY Zenon, <2>2, <2>3
<1>5. ASSUME NEW t \in Servers, NEW i \in 1..MaxSnapshot, Snapshot(t, i)
      PROVE  LastIndex(s)' >= LastIndex(s)
  <2>1. /\ log' = [log EXCEPT ![t] =
                      SubSeq(log[t], i - lastIncludedIndex[t] + 1, Len(log[t]))]
        /\ lastIncludedIndex' = [lastIncludedIndex EXCEPT ![t] = i]
    BY Zenon, <1>5 DEF Snapshot, RealLogIdx
  <2>2. i - lastIncludedIndex[t] < Len(log[t]) /\ i \in lastIncludedIndex[t] + 1 .. commitIndex[t]
    BY Zenon, <1>5 DEF Snapshot, RealLogIdx
  <2>3. CASE t # s
    BY Zenon, <1>1, <1>3, <2>1, <2>3
  <2>4. CASE t = s
    <3> DEFINE a == i - lastIncludedIndex[s] + 1
    <3>1. i \in Nat
      BY BoundsAssumption
    <3>2. a \in Nat \ {0} /\ a <= Len(log[s]) /\ a = i - lastIncludedIndex[s] + 1
      BY <1>0, <2>2, <2>4, <3>1
    <3>3. log'[s] = SubSeq(log[s], a, Len(log[s]))
      BY <1>1, <2>1, <2>4, Zenon
    <3>4. lastIncludedIndex'[s] = i
      BY Zenon, <1>1, <2>1, <2>4
    <3> HIDE DEF a
    <3>5. Len(SubSeq(log[s], a, Len(log[s]))) = IF a <= Len(log[s]) THEN Len(log[s]) - a + 1 ELSE 0
      BY <1>0, <3>2, SubSeqType
    <3>6. Len(log'[s]) = Len(log[s]) - a + 1
      BY Zenon, <3>2, <3>3, <3>5
    <3>7. LastIndex(s)' = (Len(log[s]) - a + 1) - 1 + i
      BY Zenon, <1>2, <3>4, <3>6
    <3>8. (Len(log[s]) - a + 1) - 1 + i = LastIndex(s)
      BY <1>0, <3>1, <3>2
    <3> QED BY <1>0, <3>7, <3>8
  <2> QED BY Zenon, <2>3, <2>4
<1>6. ASSUME NEW t \in Servers, NEW T, NEW v, Reboot(t, Image(t, T, v))
      PROVE  LastIndex(s)' >= LastIndex(s)
  <2>1. /\ log' = [log EXCEPT ![t] = log[t]]
        /\ lastIncludedIndex' = [lastIncludedIndex EXCEPT ![t] = lastIncludedIndex[t]]
    BY Zenon, <1>6 DEF Reboot, Image
  <2> QED BY Zenon, <1>1, <1>3, <2>1
<1>7. ASSUME NEW m \in net, AcceptAppendEntries(m)
      PROVE  \/ LastIndex(s)' >= LastIndex(s)
             \/ m.rpc = "AppendEntries" /\ m.to = s /\ currentTerm'[s] = m.Term
  <2>1. /\ m.rpc = "AppendEntries" /\ log' = [log EXCEPT ![m.to] = MergedLog(m.to, m)]
        /\ lastIncludedIndex' = lastIncludedIndex
        /\ currentTerm' = [currentTerm EXCEPT ![m.to] = m.Term]
    BY Zenon, <1>7 DEF AcceptAppendEntries, LearnTerm
  <2> QED BY Zenon, <1>1, <1>3, <2>1
<1>8. ASSUME NEW m \in net, InstallSnapshot(m)
      PROVE  \/ LastIndex(s)' >= LastIndex(s)
             \/ m.rpc = "InstallSnapshot" /\ m.to = s /\ currentTerm'[s] = m.Term
  <2>1. CASE m.Term < currentTerm[m.to]
    BY Zenon, <1>3, <1>8, <2>1 DEF InstallSnapshot, persistentVars
  <2>2. CASE ~(m.Term < currentTerm[m.to])
    <3>1. /\ m.rpc = "InstallSnapshot" /\ log' = [log EXCEPT ![m.to] = LogAfterSnapshot(m.to, m)]
          /\ lastIncludedIndex' = [lastIncludedIndex EXCEPT ![m.to] = m.LastIncludedIndex]
          /\ currentTerm' = [currentTerm EXCEPT ![m.to] = m.Term]
      BY Zenon, <1>8, <2>2 DEF InstallSnapshot
    <3> QED BY Zenon, <1>1, <1>3, <3>1
  <2> QED BY Zenon, <2>1, <2>2
<1>9. ASSUME NEW t \in Servers,
             \/ StartPreVote(t) \/ sendPreVote(t)
             \/ \E P \in SUBSET (Servers \ {t}) : StartElection(t, P) \/ doLeader(t, P)
      PROVE  LastIndex(s)' >= LastIndex(s)
  <2>1. UNCHANGED <<log, lastIncludedIndex>>
    <3>1. CASE StartPreVote(t)
      BY Zenon, <3>1 DEF StartPreVote, persistentVars
    <3>2. CASE sendPreVote(t)
      BY Zenon, <3>2 DEF sendPreVote, persistentVars
    <3>3. CASE \E P \in SUBSET (Servers \ {t}) : StartElection(t, P)
      BY Zenon, <3>3 DEF StartElection
    <3>4. CASE \E P \in SUBSET (Servers \ {t}) : doLeader(t, P)
      BY Zenon, <3>4 DEF doLeader, persistentVars
    <3> QED BY Zenon, <1>9, <3>1, <3>2, <3>3, <3>4
  <2> QED BY Zenon, <1>3, <2>1
<1>10. ASSUME NEW m \in net,
              \/ RequestVote(m) \/ sendRequestVote(m) \/ RejectAppendEntries(m)
              \/ AppendRefused(m) \/ AppendSucceeded(m)
              \/ handleInstallSnapshot(m) \/ SnapshotAnswered(m)
       PROVE  LastIndex(s)' >= LastIndex(s)
  <2>1. UNCHANGED <<log, lastIncludedIndex>>
    <3>1. CASE RequestVote(m)
      BY Zenon, <3>1 DEF RequestVote, persistentVars
    <3>2. CASE sendRequestVote(m) \/ handleInstallSnapshot(m)
      BY Zenon, <3>2 DEF sendRequestVote, handleInstallSnapshot, persistentVars
    <3>3. CASE RejectAppendEntries(m)
      BY Zenon, <3>3 DEF RejectAppendEntries, persistentVars
    <3>4. CASE AppendRefused(m)
      BY Zenon, <3>4 DEF AppendRefused, persistentVars
    <3>5. CASE AppendSucceeded(m)
      BY Zenon, <3>5 DEF AppendSucceeded, persistentVars
    <3>6. CASE SnapshotAnswered(m)
      BY Zenon, <3>6 DEF SnapshotAnswered, persistentVars
    <3> QED BY Zenon, <1>10, <3>1, <3>2, <3>3, <3>4, <3>5, <3>6
  <2> QED BY Zenon, <1>3, <2>1
<1>11. ASSUME \/ \E t \in Servers : Restart(t)
              \/ \E m \in net : CrashBetweenPersists(m)
       PROVE  LastIndex(s)' >= LastIndex(s)
  BY Zenon, <1>6, <1>11, RebootImage
<1> QED
  BY <1>4, <1>5, <1>7, <1>8, <1>9, <1>10, <1>11, Zenon DEF Next, Handle

(* The calls of a leader, and the answers to them, as they are sent. *)
LEMMA NewCalls ==
    ASSUME ElectionInv, Next, NEW n \in net', n \notin net,
           n.rpc \in {"AppendEntries", "AppendEntriesReply", "InstallSnapshot",
                      "handleInstallSnapshot"}
    PROVE  /\ n.to # n.from /\ n.from \in Servers
           /\ n.rpc \in {"AppendEntries", "AppendEntriesReply"} =>
                 /\ n.Term \in Nat /\ n.Term <= currentTerm[n.from]
                 /\ n.Term = currentTerm[n.from] =>
                      Majority(Cardinality(VotersOf(n.from, currentTerm[n.from])))
           /\ n.rpc = "AppendEntries" /\ n.Term = currentTerm[n.from] =>
                n.PrevLogIndex + Len(n.Entries) <= LastIndex(n.from)
           /\ n.rpc = "AppendEntriesReply" /\ n.Term = currentTerm[n.from] =>
                n.Match <= LastIndex(n.from)
<1>0. TypeOK /\ CallsWithinLog /\ LeadersElected
  BY Zenon DEF ElectionInv
<1>1. ASSUME NEW s \in Servers, NEW P \in SUBSET (Servers \ {s}), doLeader(s, P)
      PROVE  /\ n.to # n.from /\ n.from = s /\ state[s] = Leader
             /\ \/ n.rpc = "handleInstallSnapshot"
                \/ /\ n.rpc = "AppendEntries" /\ n.Term = currentTerm[s]
                   /\ n.PrevLogIndex + Len(n.Entries) <= LastIndex(s)
  <2>1. state[s] = Leader /\ net' = net \cup {HeartbeatTo(s, p) : p \in P}
    BY Zenon, <1>1 DEF doLeader, Send
  <2>2. PICK p \in P : n = HeartbeatTo(s, p)
    BY Zenon, <2>1
  <2> QED BY <2>1, <2>2, HeartbeatType
<1>2. ASSUME NEW m \in net, RejectAppendEntries(m) \/ AcceptAppendEntries(m)
      PROVE  /\ m.rpc = "AppendEntries" /\ n.rpc = "AppendEntriesReply"
             /\ n.from = m.from /\ n.to = m.to /\ n.Term = m.Term
             /\ n.Match = m.PrevLogIndex + Len(m.Entries)
  BY <1>2 DEF RejectAppendEntries, AcceptAppendEntries, Reply, AppendReply
<1>3. ASSUME NEW m \in net, handleInstallSnapshot(m)
      PROVE  /\ n.rpc = "InstallSnapshot" /\ m.rpc = "handleInstallSnapshot"
             /\ n.from = m.from /\ n.to = m.to
  BY <1>3 DEF handleInstallSnapshot
<1>4. \/ \E s \in Servers : \E P \in SUBSET (Servers \ {s}) : doLeader(s, P)
      \/ \E m \in net : RejectAppendEntries(m) \/ AcceptAppendEntries(m)
      \/ \E m \in net : handleInstallSnapshot(m)
  <2>1. ASSUME NEW s \in Servers, NEW P \in SUBSET (Servers \ {s}), StartElection(s, P)
        PROVE  FALSE
    <3>1. net' = net \cup {RequestVoteCall(s, p) : p \in P}
      BY Zenon, <2>1 DEF StartElection, Send
    <3> QED BY <3>1 DEF RequestVoteCall
  <2>2. ASSUME NEW m \in net, RequestVote(m)
        PROVE  FALSE
    BY <2>2 DEF RequestVote, Reply, VoteReply
  <2>3. ASSUME NEW m \in net, InstallSnapshot(m)
        PROVE  FALSE
    BY <2>3 DEF InstallSnapshot, ReplyOrRetry, SnapshotReply
  <2>4. ASSUME NEW s \in Servers,
               \/ StartPreVote(s) \/ sendPreVote(s) \/ Restart(s)
               \/ \E c \in Commands : Start(s, c)
               \/ \E i \in 1..MaxSnapshot : Snapshot(s, i)
        PROVE  FALSE
    <3>1. net' = net
      <4>1. CASE StartPreVote(s) \/ sendPreVote(s)
        BY Zenon, <4>1 DEF StartPreVote, sendPreVote
      <4>2. CASE \E c \in Commands : Start(s, c)
        BY Zenon, <4>2 DEF Start
      <4>3. CASE \E i \in 1..MaxSnapshot : Snapshot(s, i)
        BY Zenon, <4>3 DEF Snapshot
      <4>4. CASE Restart(s)
        BY Zenon, <4>4 DEF Restart
      <4> QED BY Zenon, <2>4, <4>1, <4>2, <4>3, <4>4
    <3> QED BY Zenon, <3>1
  <2>5. ASSUME NEW m \in net,
               \/ sendRequestVote(m) \/ AppendRefused(m) \/ AppendSucceeded(m)
               \/ SnapshotAnswered(m) \/ CrashBetweenPersists(m)
        PROVE  FALSE
    <3>1. net' = net \ {m}
      BY <2>5, Zenon DEF sendRequestVote, AppendRefused, AppendSucceeded, SnapshotAnswered,
                  CrashBetweenPersists
    <3> QED BY Zenon, <3>1
  <2> QED BY Zenon, <2>1, <2>2, <2>3, <2>4, <2>5 DEF Next, Handle
<1>5. \A s \in Servers : currentTerm[s] \in Nat
  BY Zenon, <1>0 DEF TypeOK, Term
<1>6. CASE \E s \in Servers : \E P \in SUBSET (Servers \ {s}) : doLeader(s, P)
  <2>1. PICK s \in Servers : \E P \in SUBSET (Servers \ {s}) : doLeader(s, P)
    BY Zenon, <1>6
  <2>2. Majority(Cardinality(VotersOf(s, currentTerm[s])))
    BY Zenon, <1>0, <1>1, <2>1 DEF LeadersElected
  <2> QED BY <1>1, <1>5, <2>1, <2>2
<1>7. CASE \E m \in net : RejectAppendEntries(m) \/ AcceptAppendEntries(m)
  <2>1. PICK m \in net : RejectAppendEntries(m) \/ AcceptAppendEntries(m)
    BY Zenon, <1>7
  <2>2. m.rpc = "AppendEntries" /\ m.from \in Servers /\ m.Term \in Nat
    BY Zenon, <1>0, <1>2, <2>1, MessageKinds DEF AppendEntriesMsg, Term
  <2>3. /\ m.to # m.from /\ m.Term <= currentTerm[m.from]
        /\ m.Term = currentTerm[m.from] => m.PrevLogIndex + Len(m.Entries) <= LastIndex(m.from)
    BY Zenon, <1>0, <2>2 DEF CallsWithinLog
  <2>4. Majority(Cardinality(VotersOf(m.from, m.Term)))
    BY Zenon, <1>0, <2>2 DEF LeadersElected, LeaderRpcs
  <2> QED BY Zenon, <1>2, <2>1, <2>2, <2>3, <2>4
<1>8. CASE \E m \in net : handleInstallSnapshot(m)
  <2>1. PICK m \in net : handleInstallSnapshot(m)
    BY Zenon, <1>8
  <2> QED BY <1>0, <1>3, <2>1, MessageKinds, Zenon DEF CallsWithinLog
<1> QED BY <1>4, <1>6, <1>7, <1>8, Zenon
===============================================================================
