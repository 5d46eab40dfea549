--------------------------------- MODULE Raft ---------------------------------
(***************************************************************************)
(* The consensus core of src/raft: the ticker, the RPC handlers and the    *)
(* goroutines that wait for the replies, with persistence, snapshots and   *)
(* the crash and restart of a server.  Every action is one critical        *)
(* section of rf.mu.  What the service receives on applyCh (CommitChecker  *)
(* and lastApplied, which no handler below reads) is module Applier.       *)
(*                                                                         *)
(* log[s] is the Go slice rf.log: its first element is the placeholder for *)
(* the entry at lastIncludedIndex, so the entry at virtual index v is      *)
(* log[s][RealLogIdx(s, v) + 1] (a TLA+ sequence starts at 1).             *)
(***************************************************************************)
EXTENDS Integers, Sequences, FiniteSets, FiniteSetsExt

CONSTANTS
    Servers,      \* peers[]
    Commands,     \* what the service passes to Start
    Nil,          \* votedFor = -1, and the Command of the first placeholder
    MaxTerm,      \* bound: no election beyond this term
    MaxIndex,     \* bound: no log index beyond this one
    MaxBoots,     \* bound: how often each server restarts
    MaxInFlight,  \* bound: calls and replies on their way at once
    MaxSnapshot,  \* bound: the service takes no snapshot beyond this index
    Electable     \* bound: the servers that may campaign for each term

ASSUME ServersAssumption == IsFiniteSet(Servers) /\ Servers # {}
ASSUME NilAssumption == Nil \notin Servers \cup Commands
ASSUME BoundsAssumption ==
    /\ MaxTerm \in Nat /\ MaxIndex \in Nat /\ MaxBoots \in [Servers -> Nat]
    /\ MaxInFlight \in Nat /\ MaxSnapshot \in Nat
    /\ Electable \in [2..MaxTerm -> SUBSET Servers]

VARIABLES
    currentTerm, votedFor, log,            \* persistent state (3C)
    snapShot, lastIncludedIndex, lastIncludedTerm,            \* and (3D)
    disk,                                  \* what the Persister holds
    state, commitIndex, nextIndex, matchIndex, preVoteCount, voteCount,
    net,        \* calls and replies in flight
    boots,      \* which instance of each server is running
    ballots,    \* history: every vote ever granted, <<voter, term, candidate>>
    committed,  \* history: every prefix of its log that a leader committed
    leaderLog,  \* history: per term that has had a leader, the log of that leader
    acks        \* history: <<r, term, n>>, r took the leader's log of term up to n

persistentVars ==
    <<currentTerm, votedFor, log, snapShot, lastIncludedIndex, lastIncludedTerm>>
leaderVars == <<nextIndex, matchIndex>>
countVars == <<preVoteCount, voteCount>>
historyVars == <<ballots, committed, leaderLog, acks>>
vars == <<persistentVars, disk, state, commitIndex, leaderVars, countVars,
          net, boots, historyVars>>

Follower == 0
PreCandidate == 1
Candidate == 2
Leader == 3

-----------------------------------------------------------------------------
(* Indexes into the log                                                    *)

RealLogIdx(s, vIdx) == vIdx - lastIncludedIndex[s]
VirtualLogIdx(s, rIdx) == rIdx + lastIncludedIndex[s]

TermAt(s, v) == log[s][RealLogIdx(s, v) + 1].Term
getLastLog(s) == log[s][Len(log[s])]
LastIndex(s) == VirtualLogIdx(s, Len(log[s]) - 1)

(* The entries a server stands for: those its snapshot replaced, then the
   ones still in its slice.  The bytes of a snapshot are abstracted to the
   entries the service had applied when it took it. *)
WholeLog(s) == snapShot[s] \o Tail(log[s])

-----------------------------------------------------------------------------
(* labrpc: a call is delivered at most once, after any delay and in any
   order; the call or its reply may be lost, and then the caller sees no
   answer. *)

Reply(m, reply) == net' \in {net \ {m}, (net \ {m}) \cup {reply}}

(* handleInstallSnapshot repeats its call until there is an answer, as long
   as its server runs. *)
ReplyOrRetry(m, reply) ==
    net' \in {IF m.boot = boots[m.from] THEN net ELSE net \ {m},
              (net \ {m}) \cup {reply}}

(* One call for each peer, of which those that are not lost at once are on
   their way. *)
Send(calls) ==
    /\ net' = net \cup calls
    /\ Cardinality(net') <= MaxInFlight

Majority(n) == n > Cardinality(Servers) \div 2

-----------------------------------------------------------------------------
(* The persister                                                           *)

encodeStateNoVote(s) ==
    [currentTerm |-> currentTerm[s], votedFor |-> Nil, log |-> log[s],
     snapShot |-> snapShot[s], lastIncludedIndex |-> lastIncludedIndex[s],
     lastIncludedTerm |-> lastIncludedTerm[s]]

encodeState(s) ==
    [currentTerm |-> currentTerm[s], votedFor |-> votedFor[s], log |-> log[s],
     snapShot |-> snapShot[s], lastIncludedIndex |-> lastIncludedIndex[s],
     lastIncludedTerm |-> lastIncludedTerm[s]]

persistTooEarly(s) == disk' = [disk EXCEPT ![s] = encodeState(s)]

persist(s) == disk' = [disk EXCEPT ![s] = encodeState(s)']

(* rf.currentTerm, votedFor and state after a message of a later term *)
LearnTerm(s, term) ==
    /\ currentTerm' = [currentTerm EXCEPT ![s] = term]
    /\ votedFor' = [votedFor EXCEPT ![s] = IF term > currentTerm[s] THEN Nil ELSE @]
    /\ state' = [state EXCEPT ![s] = IF term > currentTerm[s] THEN Follower ELSE @]

-----------------------------------------------------------------------------
Placeholder == [Term |-> -1, Command |-> Nil]

Init ==
    /\ currentTerm = [s \in Servers |-> 1]
    /\ votedFor = [s \in Servers |-> Nil]
    /\ log = [s \in Servers |-> <<Placeholder>>]
    /\ snapShot = [s \in Servers |-> <<>>]
    /\ lastIncludedIndex = [s \in Servers |-> 0]
    /\ lastIncludedTerm = [s \in Servers |-> -1]
    /\ disk = [s \in Servers |-> encodeState(s)]
    /\ state = [s \in Servers |-> Follower]
    /\ commitIndex = [s \in Servers |-> 0]
    /\ nextIndex = [s \in Servers |-> [p \in Servers |-> 1]]
    /\ matchIndex = [s \in Servers |-> [p \in Servers |-> 0]]
    /\ preVoteCount = [s \in Servers |-> 0]
    /\ voteCount = [s \in Servers |-> 0]
    /\ net = {}
    /\ boots = [s \in Servers |-> 0]
    /\ ballots = {}
    /\ committed = {}
    /\ leaderLog = [t \in {} |-> <<>>]
    /\ acks = {}

-----------------------------------------------------------------------------
(* The ticker                                                              *)

(* Timeout of a Follower or PreCandidate: a round of pings starts. *)
StartPreVote(s) ==
    /\ state[s] \in {Follower, PreCandidate}
    /\ currentTerm[s] < MaxTerm /\ s \in Electable[currentTerm[s] + 1]
    /\ state' = [state EXCEPT ![s] = PreCandidate]
    /\ preVoteCount' = [preVoteCount EXCEPT ![s] = 1]
    /\ UNCHANGED <<persistentVars, disk, commitIndex, leaderVars, voteCount,
                   net, boots, historyVars>>

(* A ping is answered by a peer.  PreVote answers every ping, the pings of
   earlier rounds are still out, and nothing ties an answer to its round or
   its peer, so an answer may come at any time. *)
sendPreVote(s) ==
    /\ Servers # {s}
    /\ IF state[s] = PreCandidate
       THEN /\ preVoteCount' = [preVoteCount EXCEPT ![s] = @ + 1]
            /\ state' = [state EXCEPT ![s] =
                 IF Majority(preVoteCount[s] + 1) THEN Candidate ELSE @]
       ELSE UNCHANGED <<state, preVoteCount>>
    /\ UNCHANGED <<persistentVars, disk, commitIndex, leaderVars, voteCount,
                   net, boots, historyVars>>

RequestVoteCall(s, p) ==
    [rpc |-> "RequestVote", from |-> s, to |-> p, boot |-> boots[s],
     Term |-> currentTerm[s] + 1,
     LastLogIndex |-> VirtualLogIdx(s, Len(log[s])),
     LastLogTerm |-> getLastLog(s).Term]

(* Timeout of a Candidate: a new term, and a RequestVote to every peer. *)
StartElection(s, P) ==
    /\ state[s] = Candidate
    /\ currentTerm[s] < MaxTerm
    /\ s \in Electable[currentTerm[s] + 1]
    /\ currentTerm' = [currentTerm EXCEPT ![s] = @ + 1]
    /\ votedFor' = [votedFor EXCEPT ![s] = s]
    /\ voteCount' = [voteCount EXCEPT ![s] = 1]
    /\ ballots' = ballots \cup {<<s, currentTerm[s] + 1, s>>}
    /\ UNCHANGED <<log, snapShot, lastIncludedIndex, lastIncludedTerm>>
    /\ persist(s)
    /\ Send({RequestVoteCall(s, p) : p \in P})
    /\ UNCHANGED <<state, commitIndex, leaderVars, preVoteCount, boots,
                   committed, leaderLog, acks>>

(* Heartbeat: to each peer the log from its nextIndex on, or, when that part
   of the log is gone, a goroutine that will send the snapshot. *)
HeartbeatTo(s, p) ==
    LET prev == Max({nextIndex[s][p] - 1, 0})
    IN IF prev < lastIncludedIndex[s]
       THEN [rpc |-> "handleInstallSnapshot", from |-> s, to |-> p,
             boot |-> boots[s]]
       ELSE [rpc |-> "AppendEntries", from |-> s, to |-> p, boot |-> boots[s],
             Term |-> currentTerm[s],
             PrevLogIndex |-> prev,
             PrevLogTerm |-> TermAt(s, prev),
             Entries |-> SubSeq(log[s], RealLogIdx(s, prev) + 2, Len(log[s])),
             LeaderCommit |-> commitIndex[s]]

doLeader(s, P) ==
    /\ state[s] = Leader
    /\ Send({HeartbeatTo(s, p) : p \in P})
    /\ UNCHANGED <<persistentVars, disk, state, commitIndex, leaderVars,
                   countVars, boots, historyVars>>

(* For the histories: s leads, and l is its log. *)
LeaderHas(s, l) ==
    /\ leaderLog' = [t \in DOMAIN leaderLog \cup {currentTerm[s]} |->
                        IF t = currentTerm[s] THEN l ELSE leaderLog[t]]
    /\ acks' = acks \cup {<<s, currentTerm[s], Len(l)>>}

(* Start(command) on the leader. *)
Start(s, c) ==
    /\ state[s] = Leader
    /\ LastIndex(s) < MaxIndex
    /\ log' = [log EXCEPT ![s] = Append(@, [Term |-> currentTerm[s], Command |-> c])]
    /\ nextIndex' = [nextIndex EXCEPT ![s][s] = VirtualLogIdx(s, Len(log[s]) + 1)]
    /\ UNCHANGED <<currentTerm, votedFor, snapShot, lastIncludedIndex, lastIncludedTerm>>
    /\ persist(s)
    /\ LeaderHas(s, WholeLog(s)')
    /\ UNCHANGED <<state, commitIndex, matchIndex, countVars, net, boots,
                   ballots, committed>>

-----------------------------------------------------------------------------
(* Elections                                                               *)

UpToDateAlways(r, m) == TRUE

UpToDate(r, m) ==
    \/ m.LastLogTerm > getLastLog(r).Term
    \/ /\ m.LastLogTerm = getLastLog(r).Term
       /\ m.LastLogIndex >= VirtualLogIdx(r, Len(log[r]))

GrantsAgain(r, m) == m.Term >= currentTerm[r] /\ UpToDate(r, m)

Grants(r, m) ==
    /\ m.Term >= currentTerm[r]
    /\ m.Term > currentTerm[r] \/ votedFor[r] \in {Nil, m.from}
    /\ UpToDate(r, m)

VoteReply(m, granted) ==
    [rpc |-> "RequestVoteReply", from |-> m.from, to |-> m.to, boot |-> m.boot,
     Term |-> m.Term, VoteGranted |-> granted]

(* The RequestVote handler of m.to. *)
RequestVote(m) ==
    LET r == m.to
        granted == Grants(r, m)
    IN /\ m.rpc = "RequestVote"
       /\ Reply(m, VoteReply(m, granted))
       /\ IF m.Term < currentTerm[r]
          THEN UNCHANGED <<persistentVars, disk, state, ballots>>
          ELSE /\ currentTerm' = [currentTerm EXCEPT ![r] = m.Term]
               /\ votedFor' = [votedFor EXCEPT ![r] =
                     IF granted THEN m.from
                     ELSE IF m.Term > currentTerm[r] THEN Nil ELSE @]
               /\ state' = [state EXCEPT ![r] =
                     IF granted \/ m.Term > currentTerm[r] THEN Follower ELSE @]
               /\ ballots' = ballots \cup
                     (IF granted THEN {<<r, m.Term, m.from>>} ELSE {})
               /\ UNCHANGED <<log, snapShot, lastIncludedIndex, lastIncludedTerm>>
               /\ persist(r)
       /\ UNCHANGED <<commitIndex, leaderVars, countVars, boots,
                      committed, leaderLog, acks>>

(* sendRequestVote after the reply: a vote is counted, or a refusal sends the
   server back to Follower, whatever it has become in this term. *)
sendRequestVote(m) ==
    LET s == m.from
        current == m.boot = boots[s] /\ m.Term = currentTerm[s]
        counts == m.VoteGranted /\ state[s] >= Candidate /\ ~Majority(voteCount[s])
        wins == counts /\ Majority(voteCount[s] + 1)
    IN /\ m.rpc = "RequestVoteReply"
       /\ net' = net \ {m}
       /\ voteCount' = [voteCount EXCEPT ![s] = IF current /\ counts THEN @ + 1 ELSE @]
       /\ state' = [state EXCEPT ![s] =
             IF current /\ wins THEN Leader
             ELSE IF current /\ ~m.VoteGranted THEN Follower ELSE @]
       /\ IF current /\ wins
          THEN /\ nextIndex' = [nextIndex EXCEPT ![s] =
                     [p \in Servers |-> VirtualLogIdx(s, Len(log[s]))]]
               /\ matchIndex' = [matchIndex EXCEPT ![s] = [p \in Servers |-> 0]]
               /\ LeaderHas(s, WholeLog(s))
          ELSE UNCHANGED <<leaderVars, leaderLog, acks>>
       /\ UNCHANGED <<persistentVars, disk, commitIndex, preVoteCount, boots,
                      ballots, committed>>

-----------------------------------------------------------------------------
(* Replication                                                             *)

PrevMatches(r, m) ==
    /\ m.PrevLogIndex >= lastIncludedIndex[r]
    /\ m.PrevLogIndex < VirtualLogIdx(r, Len(log[r]))
    /\ TermAt(r, m.PrevLogIndex) = m.PrevLogTerm

MergedLogTruncating(r, m) ==
    IF m.Entries = <<>> THEN log[r]
    ELSE SubSeq(log[r], 1, RealLogIdx(r, m.PrevLogIndex) + 1) \o m.Entries

MergedLogKeepingConflicts(r, m) ==
    LET have == Len(log[r]) - RealLogIdx(r, m.PrevLogIndex) - 1
    IN log[r] \o SubSeq(m.Entries, have + 1, Len(m.Entries))

(* r's slice with the entries of m: kept up to the first entry that is
   missing or has another term, and from there on the entries of m. *)
MergedLog(r, m) ==
    LET base == RealLogIdx(r, m.PrevLogIndex) + 1
        new == {i \in 1..Len(m.Entries) :
                   \/ base + i > Len(log[r])
                   \/ log[r][base + i].Term # m.Entries[i].Term}
    IN IF new = {} THEN log[r]
       ELSE SubSeq(log[r], 1, base + Min(new) - 1)
            \o SubSeq(m.Entries, Min(new), Len(m.Entries))

AppendReplyOffByOne(m, success, term) ==
    [rpc |-> "AppendEntriesReply", from |-> m.from, to |-> m.to, boot |-> m.boot,
     Term |-> m.Term, Success |-> success, ReplyTerm |-> term,
     Match |-> m.PrevLogIndex + Len(m.Entries) + 1]

(* The reply carries what sendAppendEntries reads of its arguments as well:
   its term, and how far a success shows the peer's log to reach. *)
AppendReply(m, success, term) ==
    [rpc |-> "AppendEntriesReply", from |-> m.from, to |-> m.to, boot |-> m.boot,
     Term |-> m.Term, Success |-> success, ReplyTerm |-> term,
     Match |-> m.PrevLogIndex + Len(m.Entries)]

(* The AppendEntries handler of m.to, refusing ... *)
RejectAppendEntries(m) ==
    LET r == m.to
    IN /\ m.rpc = "AppendEntries"
       /\ m.Term < currentTerm[r] \/ ~PrevMatches(r, m)
       /\ Reply(m, AppendReply(m, FALSE, currentTerm[r]))
       /\ IF m.Term < currentTerm[r]
          THEN UNCHANGED <<persistentVars, disk, state>>
          ELSE /\ LearnTerm(r, m.Term)
               /\ UNCHANGED <<log, snapShot, lastIncludedIndex, lastIncludedTerm>>
               /\ persist(r)
       /\ UNCHANGED <<commitIndex, leaderVars, countVars, boots, historyVars>>

(* ... and accepting. *)
AcceptAppendEntries(m) ==
    LET r == m.to
    IN /\ m.rpc = "AppendEntries"
       /\ m.Term >= currentTerm[r] /\ PrevMatches(r, m)
       /\ Reply(m, AppendReply(m, TRUE, currentTerm[r]))
       /\ LearnTerm(r, m.Term)
       /\ log' = [log EXCEPT ![r] = MergedLog(r, m)]
       /\ UNCHANGED <<snapShot, lastIncludedIndex, lastIncludedTerm>>
       /\ persist(r)
       /\ commitIndex' = [commitIndex EXCEPT ![r] =
             IF m.LeaderCommit > @ THEN Min({m.LeaderCommit, LastIndex(r)'}) ELSE @]
       /\ acks' = acks \cup {<<r, m.Term, m.PrevLogIndex + Len(m.Entries)>>}
       /\ UNCHANGED <<leaderVars, countVars, boots, ballots, committed, leaderLog>>

(* The nextIndex to try after a refusal: just behind the last entry of an
   earlier term, or inside the snapshot when there is none. *)
Backoff(s, p) ==
    LET last == nextIndex[s][p] - 1
        earlier == {i \in lastIncludedIndex[s]..last : TermAt(s, i) < TermAt(s, last)}
    IN IF last < 0 THEN nextIndex[s][p]
       ELSE IF earlier = {} THEN lastIncludedIndex[s]
       ELSE Max(earlier) + 1

CommittableAnyTerm(s, match) ==
    {n \in commitIndex[s] + 1 .. LastIndex(s) :
        Majority(1 + Cardinality({p \in Servers \ {s} : match[p] >= n}))}

CommittableAgain(s, match) ==
    {n \in 1..LastIndex(s) :
        Majority(1 + Cardinality({p \in Servers \ {s} :
                        match[p] >= n /\ TermAt(s, n) = currentTerm[s]}))}

(* The indexes s may commit, given how far its peers' logs match its own. *)
Committable(s, match) ==
    {n \in commitIndex[s] + 1 .. LastIndex(s) :
        Majority(1 + Cardinality({p \in Servers \ {s} :
                        match[p] >= n /\ TermAt(s, n) = currentTerm[s]}))}

(* sendAppendEntries after a refusal. *)
AppendRefused(m) ==
    LET s == m.from
        current == m.boot = boots[s] /\ m.Term = currentTerm[s]
        deposed == current /\ m.ReplyTerm > currentTerm[s]
        behind == current /\ m.ReplyTerm = currentTerm[s] /\ state[s] = Leader
    IN /\ m.rpc = "AppendEntriesReply" /\ ~m.Success
       /\ net' = net \ {m}
       /\ IF deposed
          THEN /\ LearnTerm(s, m.ReplyTerm)
               /\ voteCount' = [voteCount EXCEPT ![s] = 0]
               /\ UNCHANGED <<log, snapShot, lastIncludedIndex, lastIncludedTerm>>
               /\ persist(s)
          ELSE UNCHANGED <<persistentVars, disk, state, voteCount>>
       /\ nextIndex' = [nextIndex EXCEPT ![s][m.to] = IF behind THEN Backoff(s, m.to) ELSE @]
       /\ UNCHANGED <<commitIndex, matchIndex, preVoteCount, boots, historyVars>>

(* sendAppendEntries after a success; s need not be the leader any more. *)
AppendSucceeded(m) ==
    LET s == m.from
        current == m.boot = boots[s] /\ m.Term = currentTerm[s]
        match == [matchIndex[s] EXCEPT ![m.to] = m.Match]
        new == Committable(s, match)
    IN /\ m.rpc = "AppendEntriesReply" /\ m.Success
       /\ net' = net \ {m}
       /\ IF current
          THEN /\ matchIndex' = [matchIndex EXCEPT ![s] = match]
               /\ nextIndex' = [nextIndex EXCEPT ![s][m.to] = m.Match + 1]
          ELSE UNCHANGED leaderVars
       /\ IF current /\ new # {}
          THEN /\ commitIndex' = [commitIndex EXCEPT ![s] = Max(new)]
               /\ committed' = committed \cup {SubSeq(WholeLog(s), 1, Max(new))}
          ELSE UNCHANGED <<commitIndex, committed>>
       /\ UNCHANGED <<persistentVars, disk, state, countVars, boots,
                      ballots, leaderLog, acks>>

-----------------------------------------------------------------------------
(* Snapshots                                                               *)

(* Snapshot(index), called by the service for an index it has applied.  An
   index behind the last snapshot or ahead of the commitIndex or the log is
   ignored, or, one past the log, is the panic of Applier!SnapshotInRange. *)
Snapshot(s, index) ==
    /\ index \in lastIncludedIndex[s] + 1 .. commitIndex[s]
    /\ index <= MaxSnapshot
    /\ RealLogIdx(s, index) < Len(log[s])
    /\ snapShot' = [snapShot EXCEPT ![s] = SubSeq(WholeLog(s), 1, index)]
    /\ lastIncludedTerm' = [lastIncludedTerm EXCEPT ![s] = TermAt(s, index)]
    /\ log' = [log EXCEPT ![s] = SubSeq(@, RealLogIdx(s, index) + 1, Len(@))]
    /\ lastIncludedIndex' = [lastIncludedIndex EXCEPT ![s] = index]
    /\ UNCHANGED <<currentTerm, votedFor>>
    /\ persist(s)
    /\ UNCHANGED <<state, commitIndex, leaderVars, countVars, net, boots, historyVars>>

(* handleInstallSnapshot up to its call: the goroutine reads the arguments
   when it gets to run. *)
handleInstallSnapshot(m) ==
    LET s == m.from
        call == [rpc |-> "InstallSnapshot", from |-> s, to |-> m.to, boot |-> m.boot,
                 Term |-> currentTerm[s],
                 LastIncludedIndex |-> lastIncludedIndex[s],
                 LastIncludedTerm |-> lastIncludedTerm[s],
                 Data |-> snapShot[s],
                 LastIncludedCmd |-> log[s][1].Command]
    IN /\ m.rpc = "handleInstallSnapshot"
       /\ net' = (net \ {m}) \cup
             (IF m.boot = boots[s] /\ state[s] = Leader THEN {call} ELSE {})
       /\ UNCHANGED <<persistentVars, disk, state, commitIndex, leaderVars,
                      countVars, boots, historyVars>>

SnapshotReply(m, term) ==
    [rpc |-> "InstallSnapshotReply", from |-> m.from, to |-> m.to, boot |-> m.boot,
     ReplyTerm |-> term]

(* r's slice after the snapshot of m: what follows the entry the snapshot
   ends with if r has that entry, otherwise a placeholder only. *)
LogAfterSnapshot(r, m) ==
    LET at == {i \in 1..Len(log[r]) :
                 /\ VirtualLogIdx(r, i - 1) = m.LastIncludedIndex
                 /\ log[r][i].Term = m.LastIncludedTerm}
    IN IF at # {} THEN SubSeq(log[r], Min(at), Len(log[r]))
       ELSE <<[Term |-> lastIncludedTerm[r], Command |-> m.LastIncludedCmd]>>

(* The InstallSnapshot handler of m.to. *)
InstallSnapshot(m) ==
    LET r == m.to
    IN /\ m.rpc = "InstallSnapshot"
       /\ IF m.Term < currentTerm[r]
          THEN /\ ReplyOrRetry(m, SnapshotReply(m, currentTerm[r]))
               /\ UNCHANGED <<persistentVars, disk, state, commitIndex>>
          ELSE /\ ReplyOrRetry(m, SnapshotReply(m, m.Term))
               /\ currentTerm' = [currentTerm EXCEPT ![r] = m.Term]
               /\ votedFor' = [votedFor EXCEPT ![r] =
                     IF m.Term > currentTerm[r] THEN Nil ELSE @]
               /\ state' = [state EXCEPT ![r] = Follower]
               /\ log' = [log EXCEPT ![r] = LogAfterSnapshot(r, m)]
               /\ snapShot' = [snapShot EXCEPT ![r] = m.Data]
               /\ lastIncludedIndex' = [lastIncludedIndex EXCEPT ![r] = m.LastIncludedIndex]
               /\ lastIncludedTerm' = [lastIncludedTerm EXCEPT ![r] = m.LastIncludedTerm]
               /\ commitIndex' = [commitIndex EXCEPT ![r] = Max({@, m.LastIncludedIndex})]
               /\ persist(r)
       /\ UNCHANGED <<leaderVars, countVars, boots, historyVars>>

(* handleInstallSnapshot after the reply. *)
SnapshotAnswered(m) ==
    LET s == m.from
        deposed == m.boot = boots[s] /\ m.ReplyTerm > currentTerm[s]
    IN /\ m.rpc = "InstallSnapshotReply"
       /\ net' = net \ {m}
       /\ IF deposed
          THEN /\ LearnTerm(s, m.ReplyTerm)
               /\ UNCHANGED <<log, snapShot, lastIncludedIndex, lastIncludedTerm>>
               /\ persist(s)
          ELSE UNCHANGED <<persistentVars, disk, state>>
       /\ nextIndex' = [nextIndex EXCEPT ![s][m.to] =
             IF m.boot = boots[s] /\ ~deposed THEN VirtualLogIdx(s, 1) ELSE @]
       /\ UNCHANGED <<commitIndex, matchIndex, countVars, boots, historyVars>>

-----------------------------------------------------------------------------
(* Crash and restart                                                       *)

(* Make() on the persisted state d: the volatile state is lost, and replies
   to calls of the old instance never reach the new one. *)
Reboot(s, d) ==
    /\ boots[s] < MaxBoots[s]
    /\ boots' = [boots EXCEPT ![s] = @ + 1]
    /\ currentTerm' = [currentTerm EXCEPT ![s] = d.currentTerm]
    /\ votedFor' = [votedFor EXCEPT ![s] = d.votedFor]
    /\ log' = [log EXCEPT ![s] = d.log]
    /\ snapShot' = [snapShot EXCEPT ![s] = d.snapShot]
    /\ lastIncludedIndex' = [lastIncludedIndex EXCEPT ![s] = d.lastIncludedIndex]
    /\ lastIncludedTerm' = [lastIncludedTerm EXCEPT ![s] = d.lastIncludedTerm]
    /\ disk' = [disk EXCEPT ![s] = d]
    /\ state' = [state EXCEPT ![s] = Follower]
    /\ commitIndex' = [commitIndex EXCEPT ![s] = d.lastIncludedIndex]
    /\ nextIndex' = [nextIndex EXCEPT ![s] =
          [p \in Servers |-> Len(d.log) + d.lastIncludedIndex]]
    /\ matchIndex' = [matchIndex EXCEPT ![s] = [p \in Servers |-> d.lastIncludedIndex]]
    /\ preVoteCount' = [preVoteCount EXCEPT ![s] = 0]
    /\ voteCount' = [voteCount EXCEPT ![s] = 0]
    /\ UNCHANGED historyVars

Restart(s) == Reboot(s, disk[s]) /\ UNCHANGED net

DiskWithTerm(s, term) ==
    [currentTerm |-> term, votedFor |-> Nil, log |-> disk[s].log,
     snapShot |-> disk[s].snapShot,
     lastIncludedIndex |-> disk[s].lastIncludedIndex,
     lastIncludedTerm |-> disk[s].lastIncludedTerm]

(* A crash inside the RequestVote or AppendEntries handler, between its first
   persist (the new term) and its second (the vote, or the entries). *)
CrashBetweenPersists(m) ==
    /\ m.rpc \in {"RequestVote", "AppendEntries"}
    /\ m.Term > currentTerm[m.to]
    /\ Reboot(m.to, DiskWithTerm(m.to, m.Term))
    /\ net' = net \ {m}

-----------------------------------------------------------------------------
Handle(m) ==
    \/ RequestVote(m)
    \/ sendRequestVote(m)
    \/ RejectAppendEntries(m)
    \/ AcceptAppendEntries(m)
    \/ AppendRefused(m)
    \/ AppendSucceeded(m)
    \/ handleInstallSnapshot(m)
    \/ InstallSnapshot(m)
    \/ SnapshotAnswered(m)
    \/ CrashBetweenPersists(m)

Next ==
    \/ \E s \in Servers :
          \/ StartPreVote(s)
          \/ sendPreVote(s)
          \/ \E P \in SUBSET (Servers \ {s}) : StartElection(s, P) \/ doLeader(s, P)
          \/ \E c \in Commands : Start(s, c)
          \/ \E i \in 1..MaxSnapshot : Snapshot(s, i)
          \/ Restart(s)
    \/ \E m \in net : Handle(m)

Spec == Init /\ [][Next]_vars

-----------------------------------------------------------------------------
(* Types                                                                   *)

Index == Nat
Term == Nat \ {0}
EntryTerm == Term \cup {-1}
Entry == [Term : EntryTerm, Command : Commands \cup {Nil}]

RequestVoteMsg ==
    [rpc : {"RequestVote"}, from : Servers, to : Servers, boot : Nat,
     Term : Term, LastLogIndex : Index, LastLogTerm : EntryTerm]
RequestVoteReplyMsg ==
    [rpc : {"RequestVoteReply"}, from : Servers, to : Servers, boot : Nat,
     Term : Term, VoteGranted : BOOLEAN]
AppendEntriesMsg ==
    [rpc : {"AppendEntries"}, from : Servers, to : Servers, boot : Nat,
     Term : Term, PrevLogIndex : Index, PrevLogTerm : EntryTerm,
     Entries : Seq(Entry), LeaderCommit : Index]
AppendEntriesReplyMsg ==
    [rpc : {"AppendEntriesReply"}, from : Servers, to : Servers, boot : Nat,
     Term : Term, Success : BOOLEAN, ReplyTerm : Term, Match : Index]
SnapshotTask ==
    [rpc : {"handleInstallSnapshot"}, from : Servers, to : Servers, boot : Nat]
InstallSnapshotMsg ==
    [rpc : {"InstallSnapshot"}, from : Servers, to : Servers, boot : Nat,
     Term : Term, LastIncludedIndex : Index, LastIncludedTerm : EntryTerm,
     Data : Seq(Entry), LastIncludedCmd : Commands \cup {Nil}]
InstallSnapshotReplyMsg ==
    [rpc : {"InstallSnapshotReply"}, from : Servers, to : Servers, boot : Nat,
     ReplyTerm : Term]

Message ==
    RequestVoteMsg \cup RequestVoteReplyMsg \cup AppendEntriesMsg
    \cup AppendEntriesReplyMsg \cup SnapshotTask \cup InstallSnapshotMsg
    \cup InstallSnapshotReplyMsg

(* Every field of the Raft struct and of the messages has the type the Go
   code declares, and the log is never empty: log[0] is always there. *)
TypeOK ==
    /\ currentTerm \in [Servers -> Term]
    /\ votedFor \in [Servers -> Servers \cup {Nil}]
    /\ log \in [Servers -> Seq(Entry) \ {<<>>}]
    /\ snapShot \in [Servers -> Seq(Entry)]
    /\ lastIncludedIndex \in [Servers -> Index]
    /\ lastIncludedTerm \in [Servers -> EntryTerm]
    /\ state \in [Servers -> {Follower, PreCandidate, Candidate, Leader}]
    /\ commitIndex \in [Servers -> Index]
    /\ nextIndex \in [Servers -> [Servers -> Index]]
    /\ matchIndex \in [Servers -> [Servers -> Index]]
    /\ preVoteCount \in [Servers -> Nat]
    /\ voteCount \in [Servers -> Nat]
    /\ boots \in [Servers -> Nat]
    /\ net \subseteq Message
    /\ ballots \subseteq Servers \X Term \X Servers
    /\ committed \subseteq Seq(Entry)

-----------------------------------------------------------------------------
(* Invariants behind ElectionSafety and TypeOK                             *)

VotersOf(s, term) == {r \in Servers : <<r, term, s>> \in ballots}

(* A ballot binds its voter for its whole term: the voter's term and votedFor
   still show it, so a second vote in that term cannot differ.  Its candidate
   has reached that term. *)
BallotsBind ==
    /\ \A b \in ballots :
          /\ b[2] <= currentTerm[b[1]]
          /\ b[2] = currentTerm[b[1]] => votedFor[b[1]] = b[3]
          /\ b[2] <= currentTerm[b[3]]
    /\ \A a, b \in ballots : a[1] = b[1] /\ a[2] = b[2] => a[3] = b[3]

(* Of each election there is at most one message between candidate and voter:
   the call, not yet answered with a ballot, or then its reply. *)
VoteMessagesSound ==
    \A m \in net : m.rpc \in {"RequestVote", "RequestVoteReply"} =>
        /\ m.to # m.from
        /\ m.Term <= currentTerm[m.from]
        /\ m.Term = currentTerm[m.from] => votedFor[m.from] = m.from
        /\ m.rpc = "RequestVote" => <<m.to, m.Term, m.from>> \notin ballots
        /\ m.rpc = "RequestVoteReply" /\ m.VoteGranted
              => <<m.to, m.Term, m.from>> \in ballots
        /\ \A n \in net :
              /\ n.rpc \in {"RequestVote", "RequestVoteReply"}
              /\ n.from = m.from /\ n.to = m.to /\ n.Term = m.Term
              => n = m

(* The voters whose grant a candidate has not seen yet. *)
Pending(s) ==
    {r \in Servers : \E m \in net :
        /\ m.rpc = "RequestVoteReply" /\ m.VoteGranted
        /\ m.from = s /\ m.to = r /\ m.Term = currentTerm[s]}

(* No vote is counted twice and none that was not cast. *)
VotesCounted ==
    \A s \in Servers : votedFor[s] = s =>
        voteCount[s] <= Cardinality(VotersOf(s, currentTerm[s]) \ Pending(s))

LeaderRpcs == {"AppendEntries", "AppendEntriesReply", "InstallSnapshot"}

(* Who leads, and whoever made a leader's call, has the votes of a majority. *)
LeadersElected ==
    /\ \A s \in Servers : state[s] = Leader =>
          Majority(Cardinality(VotersOf(s, currentTerm[s])))
    /\ \A m \in net : m.rpc \in LeaderRpcs =>
          Majority(Cardinality(VotersOf(m.from, m.Term)))

(* A snapshot stands for lastIncludedIndex entries. *)
SnapshotLength ==
    /\ \A s \in Servers : Len(snapShot[s]) = lastIncludedIndex[s]
    /\ \A m \in net : m.rpc = "InstallSnapshot" => Len(m.Data) = m.LastIncludedIndex

(* What a leader has sent in its term it still has: its calls, and the
   answers to them, reach no further than its log. *)
CallsWithinLog ==
    \A m \in net :
        /\ m.rpc \in {"AppendEntries", "AppendEntriesReply", "InstallSnapshot",
                      "handleInstallSnapshot"} => m.to # m.from
        /\ m.rpc \in {"AppendEntries", "AppendEntriesReply"} =>
             m.Term <= currentTerm[m.from]
        /\ m.rpc = "AppendEntries" /\ m.Term = currentTerm[m.from] =>
             m.PrevLogIndex + Len(m.Entries) <= LastIndex(m.from)
        /\ m.rpc = "AppendEntriesReply" /\ m.Term = currentTerm[m.from] =>
             m.Match <= LastIndex(m.from)

-----------------------------------------------------------------------------
(* Safety                                                                  *)

(* A term has at most one leader (RequestVote grants one vote per term and
   persists it): no two servers lead in the same term, and all the calls of a
   term that only a leader makes come from one server, however long ago. *)
ElectionSafety ==
    /\ \A s, t \in Servers :
          state[s] = Leader /\ state[t] = Leader /\ currentTerm[s] = currentTerm[t]
          => s = t
    /\ \A m, n \in net :
          /\ m.rpc \in {"AppendEntries", "InstallSnapshot"}
          /\ n.rpc \in {"AppendEntries", "InstallSnapshot"}
          /\ m.Term = n.Term
          => m.from = n.from

(* What a restart would read back (readPersist) is what the server has told
   others: no handler returns with a change it has not persisted. *)
DiskIsCurrent == disk = [s \in Servers |-> encodeState(s)]

(* Two logs with an entry of the same index and term agree up to it (the
   PrevLogIndex/PrevLogTerm check of AppendEntries). *)
LogMatching ==
    \A s, t \in Servers :
        LET a == WholeLog(s)
            b == WholeLog(t)
        IN \A i \in DOMAIN a \cap DOMAIN b :
              a[i].Term = b[i].Term => SubSeq(a, 1, i) = SubSeq(b, 1, i)

IsPrefixOf(a, b) == Len(a) <= Len(b) /\ a = SubSeq(b, 1, Len(a))

(* What a leader commits is in the log of every leader of that or of a later
   term (the vote's up-to-date check and the commit's current-term check). *)
LeaderCompleteness ==
    \A s \in Servers, p \in committed :
        state[s] = Leader /\ currentTerm[s] >= p[Len(p)].Term
        => IsPrefixOf(p, WholeLog(s))

(* Leaders never commit different entries at an index: what they commit only
   ever extends what they committed (checkLogs of the raft tests asserts it of
   the commands the servers apply). *)
CommittedAgree == \A p, q \in committed : IsPrefixOf(p, q) \/ IsPrefixOf(q, p)

(* No two servers hold different entries committed at an index: leaders agree,
   and every server's log up to its commitIndex is there and is part of what
   they committed. *)
StateMachineSafety ==
    /\ CommittedAgree
    /\ \A s \in Servers :
          /\ commitIndex[s] <= LastIndex(s)
          /\ commitIndex[s] > 0 =>
               \E p \in committed :
                  IsPrefixOf(SubSeq(WholeLog(s), 1, commitIndex[s]), p)

(* What a leader counts on: a peer in its term has the leader's log up to
   matchIndex, though replies arrive late and in any order. *)
MatchIndexSound ==
    \A s, p \in Servers :
        state[s] = Leader /\ currentTerm[p] = currentTerm[s] /\ p # s
        => /\ matchIndex[s][p] <= LastIndex(s)
           /\ IsPrefixOf(SubSeq(WholeLog(s), 1, matchIndex[s][p]), WholeLog(p))

(* doLeader and sendAppendEntries index the log at nextIndex - 1 and never
   past its end, whatever replies of earlier calls did to nextIndex. *)
NextIndexInLog ==
    \A s, p \in Servers :
        state[s] = Leader => nextIndex[s][p] <= VirtualLogIdx(s, Len(log[s]))

(* The inductive invariant of the proofs: who may lead and how far a leader's
   indexes may point depend on each other, through the votes and the log. *)
ElectionInv ==
    /\ TypeOK /\ DiskIsCurrent
    /\ BallotsBind /\ VoteMessagesSound /\ VotesCounted /\ LeadersElected
    /\ SnapshotLength /\ CallsWithinLog /\ NextIndexInLog

(* A term, once known, and a vote, once cast, survive everything, restarts
   included. *)
TermAndVoteStable ==
    [][\A s \in Servers :
          /\ currentTerm'[s] >= currentTerm[s]
          /\ currentTerm'[s] = currentTerm[s] /\ votedFor[s] # Nil
             => votedFor'[s] = votedFor[s]]_vars

(* While a server leads it only appends to its log, and while it runs its
   commitIndex never moves back. *)
LeaderAppendOnly ==
    [][\A s \in Servers :
          /\ state[s] = Leader /\ state'[s] = Leader
             => IsPrefixOf(WholeLog(s), WholeLog(s)')
          /\ boots'[s] = boots[s] => commitIndex'[s] >= commitIndex[s]]_vars
=============================================================================
