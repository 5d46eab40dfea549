-------------------------------- MODULE KVRaft --------------------------------
(***************************************************************************)
(* The replicated key/value service of lab 4 (kvraft) over Consensus: the  *)
(* clerks and their retries, HandleOp with its duplicate check, its wait   *)
(* channel and its timeout, ApplyHandler with its duplicate check and the  *)
(* notification it sends without the lock, snapshots taken, installed and  *)
(* loaded at start, and servers that are killed and started again.  A      *)
(* request is identified by its clerk and Seq, which also name the value   *)
(* it writes.  A handler is named by the index and term Start gave it, and *)
(* its channel by the handler.                                             *)
(***************************************************************************)
EXTENDS Consensus

CONSTANTS
    Clerks, Keys,
    Workloads,       \* bound: the calls the clerks make, [op, key] in their order,
                     \* with the number of faults: restarts, losses, early timeouts,
                     \* snapshots that bring nothing new
    SnapshotAt       \* bound: the indexes at which the raft state may be too large

ASSUME KVRaftAssumption ==
    /\ Servers = 0..Cardinality(Servers) - 1
    /\ \A w \in Workloads : DOMAIN w.calls = Clerks /\ w.faults \in Nat
    /\ SnapshotAt \subseteq Nat

VARIABLES
    db, historyMap, lastApplied,     \* KVServer
    waiCh,       \* waiCh[s][i]: the term of the handler whose channel is entered
    sending,     \* the handler to which ApplyHandler is sending, or NoHandler
    rfApplied,   \* rf.lastApplied
    stored,      \* the snapshot in the persister
    arriving,    \* the snapshots that goroutines of InstallSnapshot have still to
                 \* send on applyCh
    leftover,    \* the commands left in msgBuf when a snapshot was installed
    handlers,    \* the HandleOp calls in progress
    pc,          \* the clerk: "idle", "calling", "waiting" or "answered"
    args, seq, leaderId, reply,
    todo,        \* the calls a clerk has still to make
    faults,      \* the faults still to come
    ideal,       \* history: the store and the outputs, were every request of the
                 \* committed log executed once, at its first entry
    overtaken    \* history: some server has executed a command before the snapshot
                 \* installed below it

serviceVars == <<db, historyMap, lastApplied, waiCh, sending, rfApplied, stored,
                 arriving, leftover>>
clerkVars == <<pc, args, seq, leaderId, reply, todo>>
vars == <<raftVars, serviceVars, handlers, clerkVars, faults, ideal, overtaken>>

Seqs == 0..MaxIndex
Values == Clerks \X Seqs
Ops == [op : {"Get", "Put", "Append"}, key : Keys, value : Values]
NoSeq == -1                                   \* no entry in historyMap
NoHandler == [index |-> 0, term |-> 0]
Results == [LastSeq : Seqs \cup {NoSeq}, Value : Seq(Values)]
Snapshots == [index : 0..MaxIndex, db : [Keys -> Seq(Values)],
              historyMap : [Clerks -> Results]]

Empty == [index |-> 0, db |-> [k \in Keys |-> <<>>],
          historyMap |-> [c \in Clerks |-> [LastSeq |-> NoSeq, Value |-> <<>>]]]

TypeOK ==
    /\ RaftTypeOK(Ops)
    /\ db \in [Servers -> [Keys -> Seq(Values)]]
    /\ historyMap \in [Servers -> [Clerks -> Results]]
    /\ lastApplied \in [Servers -> 0..MaxIndex]
    /\ waiCh \in [Servers -> [1..MaxIndex -> 0..MaxTerm]]
    /\ sending \in [Servers -> [index : 0..MaxIndex, term : 0..MaxTerm]]
    /\ rfApplied \in [Servers -> 0..MaxIndex]
    /\ stored \in [Servers -> Snapshots]
    /\ arriving \in [Servers -> SUBSET Snapshots]
    /\ leftover \in [Servers -> SUBSET (1..MaxIndex)]
    /\ \A h \in handlers :
          /\ h.clerk \in Clerks /\ h.op \in Ops /\ h.server \in Servers
          /\ h.stage \in {"start", "register", "wait"}
          /\ h.index \in 0..MaxIndex /\ h.term \in 0..MaxTerm
          /\ h.live \in BOOLEAN
    /\ pc \in [Clerks -> {"idle", "calling", "waiting", "answered"}]
    /\ args \in [Clerks -> Ops]
    /\ seq \in [Clerks -> Seqs]
    /\ todo \in [Clerks -> Seq([op : {"Get", "Put", "Append"}, key : Keys])]
    /\ leaderId \in [Clerks -> Servers]
    /\ reply \in [Clerks -> Seq(Values)]
    /\ faults \in Nat
    /\ ideal \in [db : [Keys -> Seq(Values)], output : [Clerks -> Seq(Values)]]
    /\ overtaken \in BOOLEAN

Init ==
    /\ RaftInit
    /\ db = [s \in Servers |-> Empty.db]
    /\ historyMap = [s \in Servers |-> Empty.historyMap]
    /\ lastApplied = [s \in Servers |-> 0]
    /\ waiCh = [s \in Servers |-> [i \in 1..MaxIndex |-> 0]]
    /\ sending = [s \in Servers |-> NoHandler]
    /\ rfApplied = [s \in Servers |-> 0]
    /\ stored = [s \in Servers |-> Empty]
    /\ arriving = [s \in Servers |-> {}]
    /\ leftover = [s \in Servers |-> {}]
    /\ handlers = {}
    /\ pc = [c \in Clerks |-> "idle"]
    /\ args = [c \in Clerks |-> [op |-> "Get", key |-> CHOOSE k \in Keys : TRUE,
                                 value |-> <<c, 0>>]]
    /\ seq = [c \in Clerks |-> 0]
    /\ leaderId = [c \in Clerks |-> 0]
    /\ reply = [c \in Clerks |-> <<>>]
    /\ \E w \in Workloads : todo = w.calls /\ faults = w.faults
    /\ ideal = [db |-> Empty.db, output |-> [c \in Clerks |-> <<>>]]
    /\ overtaken = FALSE

Fault == faults > 0 /\ faults' = faults - 1

-----------------------------------------------------------------------------
(* The clerk                                                               *)

Call(c) ==
    /\ pc[c] = "idle" /\ todo[c] # <<>>
    /\ todo' = [todo EXCEPT ![c] = Tail(@)]
    /\ pc' = [pc EXCEPT ![c] = "calling"]
    /\ args' = [args EXCEPT ![c] = [op |-> Head(todo[c]).op, key |-> Head(todo[c]).key,
                                    value |-> <<c, seq[c]>>]]
    /\ seq' = [seq EXCEPT ![c] = @ + 1]
    /\ UNCHANGED <<raftVars, serviceVars, handlers, leaderId, reply, faults>>

Return(c) ==
    /\ pc[c] = "answered"
    /\ pc' = [pc EXCEPT ![c] = "idle"]
    /\ reply' = [reply EXCEPT ![c] = <<>>]
    /\ UNCHANGED <<raftVars, serviceVars, handlers, args, seq, leaderId, todo, faults>>

(* ck.leaderId += 1; ck.leaderId %= len(ck.servers)                        *)
NextServer(s) == (s + 1) % Cardinality(Servers)

(* What the clerk does with the outcome of one attempt.                    *)
Outcome(c, err, value) ==
    /\ pc' = [pc EXCEPT ![c] = IF err = "OK" THEN "answered" ELSE "calling"]
    /\ reply' = [reply EXCEPT ![c] = IF err = "OK" THEN value ELSE @]
    /\ leaderId' = [leaderId EXCEPT ![c] =
                      IF err \in {"RPCFailed", "NotLeader", "LeaderOutDated"}
                      THEN NextServer(@) ELSE @]
    /\ UNCHANGED <<args, seq, todo>>

(* A handler returns.  A clerk that has given the call up does not care.   *)
Reply(c, live, err, value) == IF live THEN Outcome(c, err, value) ELSE UNCHANGED clerkVars

(* The request is lost, or the reply of a handler that answers at once.    *)
LoseRequest(c) ==
    /\ pc[c] = "calling"
    /\ Outcome(c, "RPCFailed", <<>>) /\ Fault
    /\ UNCHANGED <<raftVars, serviceVars, handlers>>

(* The clerk is cut off while the handler runs, or its reply will be lost:  *)
(* the call fails and the handler goes on.                                 *)
Abandon(h) ==
    /\ h.live
    /\ handlers' = (handlers \ {h}) \cup {[h EXCEPT !.live = FALSE]}
    /\ Outcome(h.clerk, "RPCFailed", <<>>) /\ Fault
    /\ UNCHANGED <<raftVars, serviceVars>>

-----------------------------------------------------------------------------
(* HandleOp                                                                *)

(* The first critical section: an answer from the history, or on to Start. *)
Lookup(c) ==
    LET s == leaderId[c]
        his == historyMap[s][c] IN
    /\ pc[c] = "calling"
    /\ UNCHANGED <<raftVars, serviceVars, faults>>
    /\ IF his.LastSeq = args[c].value[2]
       THEN Reply(c, TRUE, "OK", his.Value) /\ UNCHANGED handlers
       ELSE /\ pc' = [pc EXCEPT ![c] = "waiting"]
            /\ handlers' = handlers \cup
                 {[clerk |-> c, op |-> args[c], server |-> s, stage |-> "start",
                   index |-> 0, term |-> 0, live |-> TRUE]}
            /\ UNCHANGED <<args, seq, leaderId, reply, todo>>

(* rf.Start, without the lock.                                             *)
StartOp(h) ==
    /\ h.stage = "start"
    /\ UNCHANGED <<serviceVars, faults>>
    /\ \/ /\ ledTerm[h.server] = NotLeading
          /\ handlers' = handlers \ {h}
          /\ Reply(h.clerk, h.live, "NotLeader", <<>>)
          /\ UNCHANGED raftVars
       \/ /\ Start(h.server, h.op)
          /\ handlers' = (handlers \ {h}) \cup
               {[h EXCEPT !.stage = "register", !.index = StartIndex(h.server),
                          !.term = ledTerm[h.server]]}
          /\ UNCHANGED clerkVars

(* The channel is entered in waiCh over whatever is there.                 *)
Register(h) ==
    /\ h.stage = "register"
    /\ handlers' = (handlers \ {h}) \cup {[h EXCEPT !.stage = "wait"]}
    /\ waiCh' = [waiCh EXCEPT ![h.server][h.index] = h.term]
    /\ UNCHANGED <<raftVars, db, historyMap, lastApplied, sending, rfApplied, stored,
                   arriving, leftover, clerkVars, faults>>

(* The deferred clean-up deletes whatever channel is in waiCh at the index, *)
(* and closes its own.                                                     *)
Finish(h, err, value) ==
    /\ handlers' = handlers \ {h}
    /\ waiCh' = [waiCh EXCEPT ![h.server][h.index] = 0]
    /\ Reply(h.clerk, h.live, err, value)

(* No command can reach h any more: the one at its index was delivered      *)
(* before the channel was entered, or h's server has lost the lead.        *)
Late(h) == rfApplied[h.server] >= h.index \/ ledTerm[h.server] # h.term

(* The two seconds are over, whether or not ApplyHandler is just sending.  *)
(* Only a timeout before its time is a fault.                              *)
TimeOut(h) ==
    /\ h.stage = "wait"
    /\ Finish(h, "HandleOpTimeOut", <<>>)
    /\ UNCHANGED <<raftVars, db, historyMap, lastApplied, sending, rfApplied, stored,
                   arriving, leftover>>

-----------------------------------------------------------------------------
(* ApplyHandler                                                            *)

DBExecute(d, op) ==
    CASE op.op = "Get"    -> d
      [] op.op = "Put"    -> [d EXCEPT ![op.key] = <<op.value>>]
      [] op.op = "Append" -> [d EXCEPT ![op.key] = Append(@, op.value)]

ResultOf(d, op) ==
    [LastSeq |-> op.value[2], Value |-> IF op.op = "Get" THEN d[op.key] ELSE <<>>]

(* Mutant of NeedApply: the result of the latest request is recomputed.    *)
NeedApplyAgain(s, op) == historyMap[s][op.value[1]].LastSeq <= op.value[2]

(* No entry in the history, or one of an earlier request.                  *)
NeedApply(s, op) == historyMap[s][op.value[1]].LastSeq < op.value[2]

(* The raft state has or has not grown to 95% of maxraftstate: a snapshot   *)
(* is handed to rf.Snapshot, which ignores one it has already.             *)
MaySnapshot(s, i) ==
    \/ UNCHANGED stored
    \/ /\ i > stored[s].index /\ i \in SnapshotAt
       /\ stored' = [stored EXCEPT ![s] =
                       [index |-> i, db |-> db'[s], historyMap |-> historyMap'[s]]]

(* The command at index i comes out of applyCh.                            *)
Apply(s, i) ==
    LET op == chosen[i].cmd IN
    IF i <= lastApplied[s]
    THEN UNCHANGED <<db, historyMap, lastApplied, sending, stored>>
    ELSE /\ lastApplied' = [lastApplied EXCEPT ![s] = i]
         /\ IF NeedApply(s, op)
            THEN /\ db' = [db EXCEPT ![s] = DBExecute(@, op)]
                 /\ historyMap' = [historyMap EXCEPT ![s][op.value[1]] = ResultOf(db[s], op)]
            ELSE UNCHANGED <<db, historyMap>>
         /\ IF waiCh[s][i] # 0
            THEN /\ sending' = [sending EXCEPT ![s] = [index |-> i, term |-> waiCh[s][i]]]
                 /\ UNCHANGED stored
            ELSE MaySnapshot(s, i) /\ UNCHANGED sending

(* The CommitChecker sends the next command, first what it had collected    *)
(* when a snapshot was installed.  Nothing makes it wait for the snapshots  *)
(* on their way.                                                           *)
DeliverCommand(s) ==
    LET i == IF leftover[s] # {} THEN Min(leftover[s]) ELSE rfApplied[s] + 1 IN
    /\ sending[s] = NoHandler
    /\ i <= Len(chosen)
    /\ rfApplied' = [rfApplied EXCEPT ![s] = IF i = @ + 1 THEN i ELSE @]
    /\ Apply(s, i)
    /\ leftover' = [leftover EXCEPT ![s] = @ \ {i}]
    /\ overtaken' = (overtaken \/ \E a \in arriving[s] : a.index \in lastApplied[s] + 1..i - 1)
    /\ UNCHANGED <<raftVars, waiCh, arriving, handlers, clerkVars, faults>>

(* A command's SnapshotTerm, which the CommitChecker does not set, is what  *)
(* ApplyHandler sends as ResTerm.                                          *)
ResTerm == 0

(* The handler takes the result from the channel, and ApplyHandler goes on. *)
Receive(h) ==
    /\ h.stage = "wait"
    /\ sending[h.server] = [index |-> h.index, term |-> h.term]
    /\ sending' = [sending EXCEPT ![h.server] = NoHandler]
    /\ IF ResTerm = h.term
       THEN Finish(h, "OK", historyMap[h.server][h.clerk].Value)
       ELSE Finish(h, "LeaderOutDated", <<>>)
    /\ UNCHANGED <<raftVars, db, historyMap, lastApplied, rfApplied, arriving, leftover, faults>>
    /\ MaySnapshot(h.server, h.index)

(* Mutant of SendPanics: a handler that leaves does not close its channel.  *)
NeverPanics(s) == FALSE

(* The channel was closed: the send panics and the panic is recovered.     *)
SendPanics(s) ==
    /\ sending[s] # NoHandler
    /\ ~\E h \in handlers : /\ h.server = s /\ h.stage = "wait"
                            /\ sending[s] = [index |-> h.index, term |-> h.term]
    /\ sending' = [sending EXCEPT ![s] = NoHandler]
    /\ UNCHANGED <<raftVars, db, historyMap, lastApplied, waiCh, rfApplied, arriving,
                   leftover, handlers, clerkVars, faults>>
    /\ MaySnapshot(s, sending[s].index)

-----------------------------------------------------------------------------
(* Snapshots and restarts                                                  *)

(* Raft's InstallSnapshot from leader t, which ends the lead of s, at any   *)
(* time and again: the call is repeated until it is answered, and no index  *)
(* is compared.  The CommitChecker may hold commands it has collected.     *)
InstallSnapshot(s, t) ==
    /\ ledTerm[t] > ledTerm[s]
    /\ stored[t] # Empty
    /\ ledTerm' = [ledTerm EXCEPT ![s] = NotLeading]
    /\ stored' = [stored EXCEPT ![s] = stored[t]]
    /\ arriving' = [arriving EXCEPT ![s] = @ \cup {stored[t]}]
    /\ rfApplied' = [rfApplied EXCEPT ![s] = stored[t].index]
    /\ \E n \in rfApplied[s]..Len(chosen) :
          leftover' = [leftover EXCEPT ![s] = IF @ = {} THEN rfApplied[s] + 1..n ELSE @]
    /\ IF stored[t].index > rfApplied[s] THEN UNCHANGED faults ELSE Fault
    /\ UNCHANGED <<term, entries, chosen, db, historyMap, lastApplied, waiCh, sending,
                   handlers, clerkVars>>

(* A snapshot comes out of applyCh.                                        *)
DeliverSnapshot(s) ==
    /\ sending[s] = NoHandler
    /\ \E a \in arriving[s] :
          /\ arriving' = [arriving EXCEPT ![s] = @ \ {a}]
          /\ IF a.index >= lastApplied[s]
             THEN /\ db' = [db EXCEPT ![s] = a.db]
                  /\ historyMap' = [historyMap EXCEPT ![s] = a.historyMap]
                  /\ lastApplied' = [lastApplied EXCEPT ![s] = a.index]
             ELSE UNCHANGED <<db, historyMap, lastApplied>>
    /\ UNCHANGED <<raftVars, waiCh, sending, rfApplied, stored, leftover, handlers,
                   clerkVars, faults>>

(* Kill and StartKVServer: the snapshot is loaded, kv.lastApplied starts at *)
(* 0, and every call the server was handling fails.  The leader of the last *)
(* term stays up.                                                          *)
Restart(s) ==
    LET cut(c) == \E h \in handlers : h.server = s /\ h.clerk = c /\ h.live IN
    /\ ledTerm[s] # MaxTerm
    /\ Fault
    /\ Reboot(s)
    /\ db' = [db EXCEPT ![s] = stored[s].db]
    /\ historyMap' = [historyMap EXCEPT ![s] = stored[s].historyMap]
    /\ lastApplied' = [lastApplied EXCEPT ![s] = 0]
    /\ rfApplied' = [rfApplied EXCEPT ![s] = stored[s].index]
    /\ waiCh' = [waiCh EXCEPT ![s] = [i \in 1..MaxIndex |-> 0]]
    /\ sending' = [sending EXCEPT ![s] = NoHandler]
    /\ arriving' = [arriving EXCEPT ![s] = {}]
    /\ leftover' = [leftover EXCEPT ![s] = {}]
    /\ handlers' = {h \in handlers : h.server # s}
    /\ pc' = [c \in Clerks |-> IF cut(c) THEN "calling" ELSE pc[c]]
    /\ leaderId' = [c \in Clerks |-> IF cut(c) THEN NextServer(leaderId[c]) ELSE leaderId[c]]
    /\ UNCHANGED <<stored, args, seq, reply, todo>>

-----------------------------------------------------------------------------
(* Specification                                                           *)

InLog(value) == \E i \in DOMAIN chosen : chosen[i].cmd.value = value

Consense ==
    /\ UNCHANGED <<serviceVars, handlers, clerkVars, faults, overtaken>>
    /\ \E s \in Servers :
          \/ (Elect(s) \/ StepDown(s)) /\ UNCHANGED ideal
          \/ /\ Commit(s)
             /\ LET op == Last(chosen').cmd
                IN ideal' = IF InLog(op.value) THEN ideal
                            ELSE [db |-> DBExecute(ideal.db, op),
                                  output |-> [ideal.output EXCEPT ![op.value[1]] =
                                                ResultOf(ideal.db, op).Value]]

Deliver(s) ==
    /\ DeliverCommand(s) \/ ((SendPanics(s) \/ DeliverSnapshot(s)) /\ UNCHANGED overtaken)
    /\ UNCHANGED ideal

(* What the goroutines of clerk c and of its handlers do.                  *)
Attend(c) ==
    /\ \/ Return(c) \/ Lookup(c)
       \/ \E h \in handlers :
             /\ h.clerk = c
             /\ \/ StartOp(h) \/ Register(h) \/ Receive(h)
                \/ (Late(h) /\ TimeOut(h) /\ UNCHANGED faults)
    /\ UNCHANGED <<ideal, overtaken>>

(* What need not happen.                                                   *)
Happen ==
    /\ \/ \E c \in Clerks : Call(c) \/ LoseRequest(c)
       \/ \E h \in handlers : Abandon(h) \/ (~Late(h) /\ TimeOut(h) /\ Fault)
       \/ \E s \in Servers : Restart(s) \/ \E t \in Servers : InstallSnapshot(s, t)
    /\ UNCHANGED <<ideal, overtaken>>

Next ==
    \/ Consense \/ Happen
    \/ \E s \in Servers : Deliver(s)
    \/ \E c \in Clerks : Attend(c)

Spec == Init /\ [][Next]_vars

(* Goroutines run on, timers fire, clerks keep calling, a server whose term *)
(* is over hears of the new one, and the leader of the last term, which     *)
(* meets no fault, commits what it has.                                    *)
Fairness ==
    /\ WF_vars(Consense)
    /\ \A s \in Servers : WF_vars(Deliver(s))
    /\ \A c \in Clerks : WF_vars(Attend(c))

FairSpec == Spec /\ Fairness

-----------------------------------------------------------------------------
(* Properties                                                              *)

(* The requests of a log, each once, in the order of their first entries.  *)
Requests(log) ==
    SelectSeq([i \in DOMAIN log |-> [op |-> log[i].cmd, at |-> i]],
              LAMBDA e : \A j \in 1..e.at - 1 : log[j].cmd.value # e.op.value)

(* What the store holds when every request of the log is executed once.    *)
StateAfter(log) == FoldLeft(LAMBDA d, e : DBExecute(d, e.op), Empty.db, Requests(log))

(* ReplicasAgree: however often a request was entered in the log, by whom   *)
(* and with which snapshots and restarts in between, and also when an       *)
(* InstallSnapshot comes late and sets rf.lastApplied back, the store of    *)
(* every server is that of a prefix of the committed log with each request  *)
(* executed once.  Nothing is promised once a command has overtaken the     *)
(* snapshot installed below it (raft/append.go:343).                       *)
ReplicasAgree ==
    \/ overtaken
    \/ {db[s] : s \in Servers} \subseteq {StateAfter(SubSeq(chosen, 1, n)) : n \in 0..Len(chosen)}

(* The clerk's call has taken effect: its request is in the committed log. *)
Effective(c) == pc[c] # "idle" /\ InLog(args[c].value)

Model == INSTANCE KVModel WITH
    Reads <- {"Get"},
    state <- ideal.db,
    phase <- [c \in Clerks |-> IF pc[c] = "idle" THEN "idle"
                               ELSE IF Effective(c) THEN "done" ELSE "called"],
    input <- args,
    output <- [c \in Clerks |-> IF ~Effective(c) THEN <<>>
                                ELSE IF pc[c] = "answered" THEN reply[c]
                                ELSE ideal.output[c]]

(* Linearizable: every call of a clerk acts as one atomic step of KvModel   *)
(* between its invocation and its return, although HandleOp may enter it in *)
(* the log several times, at several servers, some of which only think they *)
(* lead, and although any server may answer from its history; until a       *)
(* command overtakes the snapshot installed below it.                      *)
Linearizable == Model!Init /\ [][overtaken' \/ Model!Next]_(Model!vars)

(* AlwaysLinearizable: the same, whatever overtakes what.  The tests of     *)
(* kvraft demand it of every history; the goroutine that InstallSnapshot    *)
(* starts and the CommitChecker's sends on the same channel break it.      *)
AlwaysLinearizable == Model!Spec

(* CallsReturn: once the faults end, every call is answered, although the   *)
(* channel from ApplyHandler never brings an answer a handler accepts       *)
(* (ResTerm), may be deleted by another handler of the same index, and is   *)
(* entered after the command may have been applied.                        *)
CallsReturn == []<>(\A c \in Clerks : pc[c] = "idle")
===============================================================================
