# A TLA+ model of the s6-5840 labs

This directory models the Go code under `src/` (the MIT 6.5840 labs: MapReduce,
a key/value server, Raft, and the key/value service, the shard controller and
the sharded store on top of it), checks the models with TLC on small instances
and proves the main results with TLAPS for every instance.  `PROJECT.json` lists
every run, which source lines each definition stands for, the hazards, the findings
and the theorems.

    tlc -workers 2 -config raft_election.cfg MCRaft
    tlapm RaftProofs.tla

All source paths below are relative to `src/src/`.

## 1. Inventory

| part | state | operations | interacts with | what is hard |
|---|---|---|---|---|
| Raft election (`raft/raft.go`, `vote.go`) | currentTerm, votedFor, state, preVoteCount, voteCount | ticker branches, RequestVote, sendRequestVote, PreVote, sendPreVote | labrpc, Persister | late votes, crashes between persists, two candidates |
| Raft replication (`raft/raft.go`, `append.go`) | log, commitIndex, nextIndex, matchIndex | Start, doLeader, AppendEntries, sendAppendEntries | labrpc, Persister | reordered calls and replies, back-off, entries of earlier terms |
| Raft snapshots (`raft/persistence.go`, `append.go`) | snapShot, lastIncludedIndex, lastIncludedTerm | Snapshot, InstallSnapshot, handleInstallSnapshot | service, labrpc | stale snapshots, index arithmetic across compaction |
| Raft persistence (`raft/persistence.go`, `persister.go`) | the Persister's bytes | persist, readPersist, readSnapshot | crashes | what is not saved, or saved late |
| Raft delivery (`raft/raft.go` CommitChecker) | commitCh, lastApplied, msgBuf | CommitChecker, the goroutine of InstallSnapshot | service | sends without the lock, dropped wake-ups |
| labrpc | calls in flight | Call, processReq | everything | loss, delay, reordering |
| labgob | none | Encode, Decode | labrpc, Persister | — |
| kvsrv | map, clerkId_count, opReply | Get, Put, Append; the clerk's retries | labrpc | repeated requests, when a reply may be forgotten |
| kvraft | db, historyMap, waiCh, lastApplied | HandleOp, ApplyHandler, GenSnapShot, LoadSnapShot; the clerk | Raft | duplicate commands, a channel per index, leaders that changed |
| shardctrler state machine | Configs | Join, Leave, Move, Query | — | balance, determinism, empty and unknown groups |
| shardctrler server | lastOperations, notifyChans | Command, applier; the clerk | Raft | as kvraft |
| shardkv | stateMachine, lastConfig, currentConfig, lastOperations, notifyChans | Command, Execute, GetShardsData, DeleteShardsData, the applier's five commands, four monitors | Raft, shardctrler, other groups | a shard with two owners or none, lost or repeated migrations, snapshots that roll back |
| MapReduce coordinator (`mr/coordinator.go`) | tasks, tasksCh, workerIdCh, workerId_task, state | run, AskTask, FinishTask, catchTimeout, map2Reduce | workers | a select with the lock held, channels at capacity, late finishes |
| MapReduce worker (`mr/worker.go`) | task in hand, files | getOneTask, doMap, doReduce | coordinator | crashes, two workers on one task |
| porcupine, models | search state | CheckOperations | tests | a search with memoisation |
| mrapps, main, test harnesses | — | — | — | plugins, command lines, drivers |

What correctness means for each: Raft - one leader per term, committed entries
are final, the service gets them in order; kvsrv and kvraft - every operation
takes effect once and the history is linearizable; shardctrler - every shard has
a live group if there is one, groups differ by at most one shard; shardkv - at
most one group serves a shard and no write is lost in a migration; MapReduce -
every task completes and the job ends although workers crash.

## 2. Modules

| module | stands for |
|---|---|
| `Raft` | the ticker, every RPC handler and every handler of a reply, `Start`, snapshots, persistence and crashes, for a set of servers |
| `Applier` | the path of committed entries to the service on one server |
| `InOrder` | what that path promises: an abstract specification |
| `LogReplication` | what Raft promises about logs: an abstract specification without messages, timers and crashes |
| `RaftRefinement` | how `Raft` implements it, and the invariant of the proofs about logs |
| `Consensus` | the raft package as a service sees it; extended by the next two |
| `KVRaft` | kvraft: clerks, `HandleOp`, `ApplyHandler`, snapshots, restarts |
| `ShardCtrler` | the shard controller's servers and clerks |
| `ConfigStateMachine` | what Join, Leave and Move make of a configuration |
| `ShardKV` | the sharded store: groups that move shards between each other, and clerks |
| `KVSrv` | the single key/value server and its clerks |
| `KVModel` | what a key/value service promises (`models/kv.go`): an abstract specification |
| `MapReduce` | the coordinator, the workers and their files |
| `MCRaft`, `MCApplier`, `MCKVRaft`, `MCShardCtrler`, `MCShardKV`, `MCMapReduce` | instances for TLC |
| `LogReplicationProofs` | proofs about `LogReplication` |
| `RaftLemmas`, `RaftVotes`, `RaftSafety`, `RaftProofs` | proofs about `Raft`; the theorems are in the last |
| `ApplierProofs`, `KVSrvProofs`, `MapReduceProofs` | proofs about `Applier`, `KVSrv` and `MapReduce` |

They fit together like this:

    MapReduce       KVSrv ==> KVModel <== KVRaft     ShardCtrler     ShardKV
                                             \          /               |
    LogReplication <== Raft  - - - - - -   Consensus         ConfigStateMachine
                         \ - - - Applier ==> InOrder          (in MCShardKV)

`==>` is refinement (checked, and proved for Raft, KVSrv and Applier).  A solid line is
EXTENDS or INSTANCE.  A broken line is an argument on paper: `Applier` takes from
`Raft`, and `Consensus` from `Raft` and `Applier`, what is shown there.

**Raft.** An action is one critical section of `rf.mu`.  The variables are the
fields of the `Raft` struct as functions of the server, plus `disk` (what the
Persister holds), `net`, `boots` and four history variables: `ballots` (every
vote granted), `committed` (every prefix of its log a leader committed),
`leaderLog` (per term, the log of its leader as it last was) and `acks` (who took
how much of it).  No step reads them.
`log[s]` is the Go slice with its placeholder in front, so the code's index
arithmetic, `RealLogIdx` and `VirtualLogIdx`, appears as it is.  The snapshot's
bytes are the entries they stand for.  `WholeLog` is a snapshot followed by the
log behind it; the properties compare whole logs.

The ticker's timer branches are `StartPreVote`, `StartElection` and `doLeader`;
its timers may fire at any moment.  `sendPreVote` is a ping that came back.
`RequestVote`/`sendRequestVote`, `RejectAppendEntries`/`AcceptAppendEntries` and
`AppendRefused`/`AppendSucceeded`, `InstallSnapshot`/`SnapshotAnswered` are the
two sides of the RPCs.  `handleInstallSnapshot` is a goroutine that `doLeader`
has started and that has yet to read the leader's state.  `Snapshot` is the
service's call.  `Restart` is `crash1` followed by `start1`; a crash between the
two persists of one handler is `CrashBetweenPersists`.

labrpc is `net`, a set of calls and replies.  A call is lost when it is made
(`StartElection` and `doLeader` choose the peers they reach), a reply when it is
given (`Reply`), and any of them may wait for any time, so that order is not
kept.  A call is delivered at most once, as labrpc does; only
`handleInstallSnapshot` repeats its call until there is an answer
(`ReplyOrRetry`).

**LogReplication.** Servers learn terms and cast ballots for candidates whose logs
are up to date; a quorum of ballots makes a leader (`Win`); a leader appends
(`Extend`); a server takes a prefix of the log of a term's leader and keeps its own
log if that is a continuation (`Replicate`); a leader commits an entry of its own
term that a quorum has taken (`Commit`).  Quorums are any sets that meet.  In the
mapping of `RaftRefinement` the log is `WholeLog`, quorums are majorities, and the
other variables are the fields and histories of `Raft` of the same meaning.

**Applier.** One server's four indexes, where CommitChecker is (`pc`) and what is
left of its `msgBuf`, the snapshots on their way to the service (`installing`),
and the service, which may call `Snapshot` from its apply loop as `applierSnap`
and kvraft's `ApplyHandler` do.  Entries are their indexes: which entry it is
belongs to `Raft`.  From `Raft` it takes that AppendEntries removes no committed
entry (`StateMachineSafety`) and that the log has a committed entry with the
snapshot's term where it has one at the snapshot's index.

**InOrder.** The service gets the next committed command, or the server crashes
and starts over from something the service had applied.  Once a snapshot has been
installed it promises nothing until the next start (`disturbed`).

**Consensus.** One committed log (`chosen`); servers that think they lead, in
different terms, each with a log of its own whose uncommitted end may be lost;
`Start`, `Elect`, `StepDown`, `Commit` and `Reboot`.  That a new leader has every
committed entry is LeaderCompleteness of `Raft`, that there is one committed log
is StateMachineSafety.  `KVRaft` and `ShardCtrler` extend it and conjoin its
steps with theirs.

**KVSrv.** The three handlers, each one critical section of `kv.mu`, with
`clerkId_count` and `opReply` as the code keeps them; the clerk's loop is `Call`,
the handlers with a Boolean that says whether the reply arrives, and `Return`.  A
request that is lost is no step.

**KVModel.** The object the tests hand to porcupine, with a call, one effect and a
return for every operation.  A service that implements it is linearizable.

**KVRaft.** A `HandleOp` call is a record in `handlers` that goes through the
stages between its locks: duplicate check (`Lookup`), `Start`, entering its
channel in `waiCh` (`Register`), then `Receive` or `TimeOut`.  `DeliverCommand` is
the loop of `ApplyHandler`, which executes under the lock and sends without it;
`sending` is the send in progress and `SendPanics` the recovered panic of a send
on a channel that was closed.  Snapshots are taken at the indexes of `SnapshotAt`,
sent by InstallSnapshot (`arriving`), each by a goroutine of its own, so that
commands may overtake them (`overtaken` records it), and read back at a start.
`ResTerm` is the
term `ApplyHandler` puts in its message: always zero for a command, so no handler
accepts it, and the answer comes from `historyMap` at the next attempt.  Clerks
may abandon a call whose handler goes on.

**ShardCtrler.** The same for `Command` and `applier`.  Here the channels of an
index are shared by the handlers that ask for them, have room for one message and
are removed by a goroutine (`removals`), which may remove a later one.  `misled`
records the clerks whose handler was sent the reply of a command that its server
entered in place of theirs.  The state
machine is the sequence of the updates executed, because configurations are a
function of it.

**ConfigStateMachine.** `Join`, `Leave` and `Move` as operators on a configuration,
with the loops of the code as recursive operators; ties are broken by the smallest
gid, which is what the sorted keys do.

**ShardKV.** The log of a group is the sequence of the states its commands lead to,
each with the reply that the applier sends to the channel of the index.  A handler
waits at the index that `Start` gave it and gets the reply of what is applied there.
A command that is lost with its leader (`StartLost`, `LoseDelete`) leaves a handler
that waits at an index which another command will take: for that, the server must
have entered two commands, a later leader one in the place of the first, and the
server must lead again within `ExecuteTimeout`, so that its next command takes the
place of the second.  `misled` records the clerks that took such a reply and
`forgotten` that gcAction did.
The leader has applied a part of it (`applied`); an election may move that back,
and the new leader can apply nothing of its predecessors' before it has an entry of
its own term (`fresh`).  The four monitors are `ConfigurationAction`,
`MigrationAction`, `GCAction` and `CheckEntryInCurrentTermAction`; `StaleMonitor`
is a monitor whose answer is old or whose leader has been deposed.  A monitor reads
the state of its own group and of the other one at indexes that may be behind.

**MapReduce.** `lock` is `c.mu`: `run` holds it while it waits for a message and
gives it up between two, `catchTimeout` keeps it while it sends.  The task
channel has its capacity.  A worker is `asking`, `mapping`, `reducing`, `writing`
or `finishing`, or down; `files` and `out` are what the workers leave on disk,
`doMap`'s files one by one and `doReduce`'s output in two parts.  `reopened`
records the outputs opened by a worker whose task had been given up.

## 3. Runs

| run | checks | what happens in it |
|---|---|---|
| `raft_election` | ElectionInv, ElectionSafety, DiskIsCurrent, TermAndVoteStable | three servers, two elections, two candidates in one of them; every server may crash once, anywhere |
| `raft_figure8` | LeaderCompleteness, LogMatching, StateMachineSafety, ReplicatesLogs | rivals alternate over three elections, two log positions, one of them may crash and restart; one message at a time: an entry of an old term must not be committed by counting, and entries of three terms compete for an index |
| `raft_snapshot` | MatchIndexSound, NextIndexInLog, LeaderAppendOnly | one leader streams two entries; compaction at any server and installation of a snapshot meanwhile; calls and replies in any order |
| `raft_stale_snapshot` | CommittedAgree, which is violated | section 5 |
| `applier` | ApplierInv, IndexesInOrder, WokenApplies, DeliversInOrder | three entries, two installed snapshots, one restart |
| `kvsrv` | CountInv, Linearizable, CallsReturn | two clerks, two keys, up to two writes each and any number of reads; requests and replies are lost |
| `kvraft` | ReplicasAgree, Linearizable, CallsReturn | two servers, two terms, a snapshot; an Append and a Get by one clerk with a fault (a crash, a lost or abandoned call, an early timeout), or by two clerks at once; a snapshot that brings nothing new counts as a fault |
| `kvraft_overtaken` | AlwaysLinearizable, which is violated | section 5 |
| `config` | TypeOK, ShardsAssigned, StaysBalanced, MinimalTransfer | every sequence of up to five operations on five shards and three groups |
| `ctrler` | ReplicasAgree, Linearizable, CallsReturn | two controllers and three terms, so that a deposed leader may lead again; the calls and faults of `kvraft` |
| `shardkv` | TypeOK, OneOwner, MovesTogether, NothingLost, Linearizable, Settles, CallsReturn | two groups, three shards; configurations made by `ConfigStateMachine` in which a second group joins and one of the two leaves; writes and reads of a shard that moves, by one clerk or two; elections, lost commands, delayed and repeated calls: two faults without a move or without calls, one with a write and a read across a move, none with the longest histories |
| `mr` | MRInv, NoTaskLost, MapsBeforeReduces, OutputsWritten, JobEnds | two workers of which one may crash, jobs of one to three map tasks and one or two reduce tasks, one of which does not fit its channel; two timeouts where there is one reduce task, otherwise one |

Linearizable is a refinement of `KVModel` in `kvsrv` and `kvraft`.  In `ctrler` and
`shardkv` it is an invariant: what an answer says was true of the committed log
(of the shard) at some moment since the call.

*Bounds.* Every bound is a constant that guards the action it limits.  Three
servers are the least with a majority that is neither one nor all.  `MaxTerm`
counts elections (terms start at 1), `Electable` says who may campaign in which
term: the two sides of every conflict occur, and the same conflict with the
servers' names exchanged does not occur again.  `MaxInFlight = 2` lets two
messages be reordered and one be arbitrarily late; messages that are lost do not
count.  `raft_figure8` has `MaxInFlight = 1`: its third election and its crash
are what it is about (two messages make it five million states and more).  Late
messages of one leader are in `raft_snapshot`, late votes in `raft_election`; late
calls of several leaders rest on the theorems (section 4).  Two positions
are the least for logs that agree at one index and differ at another.  The
snapshot run takes snapshots of one entry of two, so that a log has a part in
front of and a part behind the snapshot.  For Applier, three entries let
CommitChecker be in the middle of its buffer.  In the services two servers
suffice, since `Consensus` needs no quorums: one leads, the other led or will
lead.  `Room` bounds what is entered in the log in each term; the last term has
room for every retry, so that no call is left without an answer by the bound
alone.  A workload fixes the calls and the number of faults of a behaviour, and
TLC tries all of them.  A write followed by a read tells a lost, repeated or
stale operation from a correct one.  Three shards make two of them move at once,
and five shards on three groups do not divide evenly.  The `intervals` of a job are
the timeouts that may happen; two let a task be given up twice.

*Views and symmetry.* The views of `MCRaft` leave out fields that no step reads
before they are written again, and the history that the run's properties do not
read; properties read only what the view keeps.  The exception is ReplicatesLogs,
which reads all four histories: with all of them in the view the run does not end,
so TLC checks each step of the live state with one of the histories that lead to
it.  The theorem `Refinement` is about all of them.  `PeerSymmetry` exchanges the
two servers that never campaign; it is used for runs whose properties are
safety properties.

*Exceptions in the properties.* Where the code does not keep what it should, the
runs do not exclude the schedule: the model has it, and the property names the
exception.  ReplicasAgree and Linearizable of `KVRaft` promise nothing once a command
has overtaken the snapshot below it (`overtaken`); Linearizable of `ShardCtrler` and
`ShardKV` nothing to a clerk whose handler was sent another command's reply
(`misled`, until the call returns); Settles and CallsReturn of `ShardKV` nothing
once a deletion is taken for done that was not (`forgotten`); OutputsWritten nothing
for an output that a worker opened late (`reopened`); and JobEnds names the ends of a
job that is not done: `Blocked`, `Overlooked`, or no worker left.  Each exception is
reached in its run.  Section 5 says where they come from.

*Fairness.* `Raft` has none and no liveness property: progress depends on
randomised timeouts.  `Applier` assumes weak fairness of CommitChecker's steps, of
the goroutines that wait to send a snapshot and of the service's own call, since
each is a goroutine that only has to be scheduled and the service always comes
back to its channel.  In `KVSrv` an attempt of a clerk gets through at last: it
repeats its call for ever and the network drops one in ten.  In `KVRaft` and
`ShardCtrler` goroutines run, timers fire, clerks go on, and the leader of the
last term, after which there are no more faults, commits what it has; `Consense`,
which includes elections, is weakly fair, and in `KVRaft` so is the delivery at every
server.  In `ShardKV` the monitors and the
applier of each group's leader keep running.  In `MapReduce` goroutines run,
workers that are up go on, and time passes; that a worker is started again is not
assumed.  A worker's requests and
`catchTimeout` get strong fairness: both compete for `c.mu` with `run`, which takes
and releases it all the time, and Go's mutex does not starve a waiter; `run`'s
select picks at random among the channels that are ready.  No fault, commit,
installation, restart or reconfiguration is assumed to happen.

*Deadlock* is checked in the runs of `Raft`, `Applier` and `KVSrv`.  The others may
stop, when the workload is done or `MaxNum` is reached; that they do not stop
earlier is what their liveness properties say.

## 4. Theorems

TLAPS checks all of them, for every finite set of servers, any clerks, keys,
workers and jobs, and all bounds.  The assumptions are those named in the modules:
`ServersAssumption`, `NilAssumption`, `BoundsAssumption`, `ApplierAssumption`,
`KVSrvAssumption` and `MapReduceAssumption`.

**About Raft** (`RaftProofs`): `TypeCorrect`, `ElectionSafe`, `DiskCurrent`,
`NextIndexSafe`, `TermsAndVotesLast`, all from `Invariance`, which says that
`ElectionInv` is inductive.  ElectionSafety alone is not: it has to be known
that a ballot binds its voter across restarts (`BallotsBind`, which needs
`DiskIsCurrent`), that a vote reply on its way stands for a ballot and that
there is only one message per voter and election (`VoteMessagesSound`), so that
the count of a candidate never exceeds the ballots that are no longer on their
way (`VotesCounted`), and that a leader, or a call a leader made, has a majority
of ballots (`LeadersElected`).  Two majorities share a voter (`OneLeader`).
Type correctness needs more than types: the terms a call carries are read from
the log at `nextIndex - 1`, so a leader's `nextIndex` must point into its log.
That holds because what a leader has sent in its term it still has
(`CallsWithinLog`), which rests on ElectionSafety: nobody else leads in its
term, so nothing replaces its log (`LeaderLogGrows`).  Hence types, votes, disk
and indexes are one invariant.

**About the logs of Raft** (`LogReplicationProofs`, `RaftProofs`): the argument has
two levels.

`LogsSafe` is about `LogReplication`, for any quorums that meet: `Inv` is inductive,
and with it whatever is committed is in the log of every later leader.  The heart of
`Inv` is what makes the paper's argument an induction over steps rather than over
terms.  An entry of a term's leader is `Choosable` if it is of that term and a
quorum has taken it or has not left the term yet: only such an entry can still be,
or has been, committed, and an entry that is not choosable never becomes so again.
Whoever took a choosable entry keeps it (`HoldersKeep`), a candidate with the vote
of such a server has a log that is at least as up to date (`VotesProtect`), and so
every later leader has the entry (`LeadersHave`).  That a log with an entry of a
term has all that the leader of the term had in front of it (`LogsFromLeaders`) is
what turns "as up to date" into "has the entry"; this is LogMatching.

`Refinement` says that `Raft` implements `LogReplication` (`ReplicatesLogs`).  Its
invariant, `ReplicationInv`, ties what is on the network and in the volatile state
to the leaders' logs: an AppendEntries call carries a part of its leader's log and a
commit index within it (`CallsFaithful`), a success reply and `matchIndex` stand for
an `acks` entry (`AnswersFaithful`), a vote call tells what the candidate's log
still is (`CandidatesFaithful`), and a commit index counts entries a leader
committed in the server's term or before (`CommitsLearned`).  Each action of `Raft`
is then a step of `LogReplication` or a stutter: a granted vote is `Vote`, the reply
that makes a majority is `Win`, `Start` is `Extend`, an accepted AppendEntries is
`Replicate`, a reply that moves the leader's commit index is `Commit`, a term read
from a message is `LearnTerm`, and a restart changes nothing because the disk is
current.  The delicate case is AcceptAppendEntries: the code leaves a log as it is
if it has all the entries, and otherwise cuts it at the first difference, so a late
call must not shorten what a later one has brought.  From `Refinement`, `LogsSafe`
and `ReplicationInv` follow `LogsMatch`, `LeadersComplete`, `CommitsSafe`,
`MatchesSound` and `LeadersAppend`.

All of these assume `MaxSnapshot = 0`: nobody calls `Snapshot`, as in a service
with `maxraftstate` -1.  With snapshots StateMachineSafety is false (section 5), so
the hypothesis cannot be dropped; `raft_snapshot` checks MatchIndexSound and
LeaderAppendOnly with snapshots, below the bound at which committed entries are
lost.  The theorems on elections need no such hypothesis.

`RaftLemmas` has the facts on sequences and messages and what a step does to disk,
snapshots and the ends of logs, and shows that each action keeps the types;
`RaftVotes` shows that each keeps what is known about votes (most actions are quiet:
they touch none of it), and puts the step of `ElectionInv` together; `RaftSafety`
shows that each keeps `ReplicationInv` and which step of `LogReplication` it is, and
`RaftProofs` collects the step and states the theorems.  What is needed of counting
is one definition, `Counting`, proved once for all finite sets of servers.

**About Applier** (`ApplierProofs`): `ApplierInvariance`, `CommandsInOrder`,
`IndexesStayInOrder` and `Refinement` (`Applier` implements `InOrder`).  The
inductive part is that between a send and its count the service is one ahead of
`lastApplied`, unless its own `Snapshot` call has already moved `lastApplied` along.

**About KVSrv** (`KVSrvProofs`): `TypeCorrect`, `CountsCorrect` and `Refinement`
(`KVSrv` implements `KVModel`, so it is linearizable).  The invariant is TypeOK and
CountInv: the server's count of a clerk is one behind the clerk's, and equal to it
exactly from the moment the pending Put or Append is executed.  An operation takes
effect in the handler that raises the count, or for a Get in the handler whose
reply arrives; every other step maps to a stutter.  A repeated Append answers with
`opReply`, which the mapping takes for the output as long as the clerk waits, so
the proof shows that the entry is still there.

**About MapReduce** (`MapReduceProofs`): `TasksKept`, `MapsFirst` and
`OutputsComplete`, from `Invariance`, which says that `MRInv` is inductive.  None
of the three is inductive alone.  That no output is missing at the end needs to
know who may finish a task: only a worker whose id is in use since the same begin
time (`Accepted`), which has the task that goes with the id and is the only such
worker (`HandedInv`: whoever had the id before has an earlier begin time, because
an id is only taken back when time has passed).  That the last finish completes the
phase needs every task to be in one place (NoTaskLost), with no task about to be
sent again while `run` has the lock (`PhaseInv`).  `FilesInv` and `OutInv` say what
workers at each point have written.  A task taken from the channel finds a free id
by counting: as many ids as tasks, and the tasks in hand are not in the channel
(`IdLeft`).

**Only model-checked:** MatchIndexSound and LeaderAppendOnly with snapshots (the
proofs are for `MaxSnapshot = 0`, see above);
everything about KVRaft, ShardCtrler, ConfigStateMachine and ShardKV, whose
definitions fold over logs or recurse; and all liveness (WokenApplies, CallsReturn,
Settles, JobEnds).  Liveness under fairness, ENABLED and induction over data are out
of the prover's reach.

## 5. What does not hold

`raft_stale_snapshot` shows that `InstallSnapshot` accepts a snapshot that is older
than the server's state.  If its index is no longer in the log, the log is cleared
and with it acknowledged entries; a rival can win and another entry is committed at
that index.  `checkLogs` of the tests asserts the opposite.  `raft_snapshot` stays
below the bound at which this happens.  The search is pruned by the constraint
`LateRival` (`MCRaft`) to the schedules that lead to the loss; the trace is a
behaviour of `Raft` all the same.

`kvraft_overtaken` shows what the goroutine of `InstallSnapshot` (`raft/append.go:343`)
does to a service: CommitChecker sends commands on the same channel without the lock
(`raft/raft.go:348`), so a command may be executed before the snapshot below it, on a
store that lacks what lies between, and a clerk is answered from that store.  The
tests of kvraft end with "history is not linearizable" (`kvraft/test_test.go:385`) on
such a history.  `kvraft` shows that nothing else breaks it.

What else was met while modelling, and how the models treat it:

1. The log that InstallSnapshot clears gets a placeholder with the term of the
   previous snapshot (`raft/append.go:329`).  `Raft` does the same.
2. A late success reply moves `matchIndex` back (`raft/append.go:90`).  It costs
   calls, not safety: MatchIndexSound holds.
3. An installed snapshot can overtake commands that CommitChecker has already
   collected (`raft/raft.go:348`); the tests' service then stops with "apply out of
   order".  Hence `disturbed` in `InOrder`.
4. The guard of `Snapshot` is off by one (`raft/persistence.go:108`), and the index
   it lets through is out of range.
5. A commit that finds CommitChecker busy is not announced again
   (`raft/append.go:112`): WokenApplies speaks of commits that were.
6. A handler whose entry was overwritten and whose server leads again and enters
   another command at that index shares the channel with the new handler and may
   take its reply (`shardctrler/server.go:51`, `shardkv/server.go:70`).  It takes
   two lost entries, of which a later leader has overwritten the first; `Consensus`
   lets the second be lost without that, which is more than Raft does.  Linearizable
   excepts the clerks of such handlers.
7. In shardkv the same reply can answer a DeleteShardsData request.  The new owner
   then serves the shard and never asks again, and the old one, which still has the
   status BePulling, takes no further configuration: Settles and CallsReturn
   except it.  OneOwner and NothingLost hold all the same.
8. A shard that goes to group 0 and later to another group is taken over without its
   data (`shardkv/server.go:341`); `ShardKVAssumption` excludes it.
9. `catchTimeout` sends to `tasksCh` with `c.mu` held (`mr/coordinator.go:351`): if
   the channel is full nothing goes on (`Blocked` in JobEnds).
10. The last task may be finished before the message that all are sent, and the end
    of the phase is then never noticed (`mr/coordinator.go:172`; `Overlooked` in
    JobEnds).
11. `doReduce` creates its output in place (`mr/worker.go:205`): a worker that comes
    back late empties a complete file.  OutputsWritten excepts these files.

## 6. Not modelled

- Times and random timeouts: a timer may fire at any moment.  Properties that need
  more say so (section 3).
- labgob, a wrapper of gob with warnings and no protocol state; labrpc's dispatch,
  delays in milliseconds and byte counts.  Every model has labrpc's faults as its
  clients see them.
- porcupine, a sequential search of the tests without state beyond one call, and
  its visualisation; plugins, main programs and test drivers, beyond crashes,
  restarts and reconfigurations, which are actions.
- Snapshots of shardkv: a group is its log, of which leaders have applied a prefix.
  So a snapshot that is restored whatever its index (`shardkv/server.go:208`) is not
  seen in `ShardKV`; `KVRaft` shows what it does (`kvraft_overtaken`).
- Votes between servers whose logs start at different snapshots: the runs with
  rivals have no snapshots but for `raft_stale_snapshot`.
- The sharing of the array of `args.Entries` with `rf.log` (`raft/raft.go:385`): a
  data race on the identity of arrays, which the logs of the model do not have.
- `CondInstallSnapshot` and `SnapshotNotOutDated`, which nothing calls.
