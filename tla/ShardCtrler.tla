----------------------------- MODULE ShardCtrler ------------------------------
(***************************************************************************)
(* The shard controller's servers (shardctrler/server.go) and clerks over  *)
(* Consensus: the duplicate check, the notify channels that the handlers   *)
(* of an index share with the applier, timeouts, and servers that are      *)
(* killed and start again from an empty state.  What Join, Leave and Move  *)
(* make of a configuration is module ConfigStateMachine, a function of the *)
(* commands executed so far: here the state machine is the sequence of     *)
(* these commands, each named by its client and CommandId, and a Query     *)
(* returns it.                                                             *)
(***************************************************************************)
EXTENDS Consensus

CONSTANTS
    Clerks,
    Workloads      \* bound: the commands the clerks send, "Update" or "Query", in
                   \* their order, with the number of faults: restarts, losses,
                   \* early timeouts

ASSUME ShardCtrlerAssumption ==
    /\ Servers = 0..Cardinality(Servers) - 1
    /\ \A w \in Workloads : DOMAIN w.calls = Clerks /\ w.faults \in Nat

VARIABLES
    stateMachine, lastOperations,    \* lastOperations: MaxAppliedCommandId or None
    notifyChans,   \* notifyChans[s][i]: the number of the channel entered, or 0
    channels,      \* channels[s][i]: the buffers of the channels made for index i
    applied,       \* the index up to which the applier has the log
    handlers,      \* the Command calls in progress
    removals,      \* the goroutines about to remove a channel, <<server, index>>
    pc,            \* the clerk: "idle", "calling", "waiting" or "answered"
    args, commandId, leaderId, reply, todo,
    floor,         \* history: the commands committed when the clerk called
    misled,        \* history: the clerks whose handler returned a reply for an index
                   \* at which its server had entered another command by then
    faults         \* the faults still to come

serviceVars == <<stateMachine, lastOperations, notifyChans, channels, applied>>
clerkVars == <<pc, args, commandId, leaderId, reply, todo, floor, misled>>
vars == <<raftVars, serviceVars, handlers, removals, clerkVars, faults>>

Ids == 0..MaxIndex
Updates == Clerks \X Ids
Commands == [op : {"Update", "Query"}, id : Updates]
None == -1

TypeOK ==
    /\ RaftTypeOK(Commands)
    /\ stateMachine \in [Servers -> Seq(Updates)]
    /\ lastOperations \in [Servers -> [Clerks -> Ids \cup {None}]]
    /\ notifyChans \in [Servers -> [1..MaxIndex -> Nat]]
    /\ channels \in [Servers -> [1..MaxIndex -> Seq(Seq(Seq(Updates)))]]
    /\ applied \in [Servers -> 0..MaxIndex]
    /\ handlers \subseteq [clerk : Clerks, cmd : Commands, server : Servers, live : BOOLEAN,
                           stage : {"start", "register", "wait"}, index : 0..MaxIndex,
                           term : 0..MaxTerm, chan : 0..MaxIndex]
    /\ removals \subseteq Servers \X (1..MaxIndex)
    /\ pc \in [Clerks -> {"idle", "calling", "waiting", "answered"}]
    /\ args \in [Clerks -> Commands]
    /\ commandId \in [Clerks -> Ids]
    /\ leaderId \in [Clerks -> Servers]
    /\ reply \in [Clerks -> Seq(Updates)]
    /\ floor \in [Clerks -> 0..MaxIndex]
    /\ misled \subseteq Clerks

Init ==
    /\ RaftInit
    /\ stateMachine = [s \in Servers |-> <<>>]
    /\ lastOperations = [s \in Servers |-> [c \in Clerks |-> None]]
    /\ notifyChans = [s \in Servers |-> [i \in 1..MaxIndex |-> 0]]
    /\ channels = [s \in Servers |-> [i \in 1..MaxIndex |-> <<>>]]
    /\ applied = [s \in Servers |-> 0]
    /\ handlers = {} /\ removals = {}
    /\ pc = [c \in Clerks |-> "idle"]
    /\ args = [c \in Clerks |-> [op |-> "Query", id |-> <<c, 0>>]]
    /\ commandId = [c \in Clerks |-> 0]
    /\ leaderId = [c \in Clerks |-> 0]
    /\ reply = [c \in Clerks |-> <<>>]
    /\ floor = [c \in Clerks |-> 0]
    /\ misled = {}
    /\ \E w \in Workloads : todo = w.calls /\ faults = w.faults

Fault == faults > 0 /\ faults' = faults - 1

-----------------------------------------------------------------------------
(* The clerk                                                               *)

Call(c) ==
    /\ pc[c] = "idle" /\ todo[c] # <<>>
    /\ todo' = [todo EXCEPT ![c] = Tail(@)]
    /\ pc' = [pc EXCEPT ![c] = "calling"]
    /\ args' = [args EXCEPT ![c] = [op |-> Head(todo[c]), id |-> <<c, commandId[c]>>]]
    /\ floor' = [floor EXCEPT ![c] = Len(chosen)]
    /\ UNCHANGED <<raftVars, serviceVars, handlers, removals, commandId, leaderId, reply,
                   misled, faults>>

Return(c) ==
    /\ pc[c] = "answered"
    /\ pc' = [pc EXCEPT ![c] = "idle"]
    /\ commandId' = [commandId EXCEPT ![c] = @ + 1]
    /\ reply' = [reply EXCEPT ![c] = <<>>]
    /\ floor' = [floor EXCEPT ![c] = 0]
    /\ misled' = misled \ {c}
    /\ UNCHANGED <<raftVars, serviceVars, handlers, removals, args, leaderId, todo, faults>>

(* Mutant of NextServer: the clerk stays with its server.                  *)
SameServer(s) == s

NextServer(s) == (s + 1) % Cardinality(Servers)

(* A failed call, ErrWrongLeader and ErrTimeout send the clerk on to the    *)
(* next server.                                                            *)
Outcome(c, ok, value) ==
    /\ pc' = [pc EXCEPT ![c] = IF ok THEN "answered" ELSE "calling"]
    /\ reply' = [reply EXCEPT ![c] = IF ok THEN value ELSE @]
    /\ leaderId' = [leaderId EXCEPT ![c] = IF ok THEN @ ELSE NextServer(@)]
    /\ UNCHANGED <<args, commandId, todo, floor>>

(* A handler returns without a reply.  A clerk that has given the call up   *)
(* does not care.                                                          *)
Fail(h) ==
    IF h.live THEN Outcome(h.clerk, FALSE, <<>>) /\ UNCHANGED misled ELSE UNCHANGED clerkVars

(* A handler returns with what it took from its channel.                   *)
Succeed(h, value) ==
    IF h.live
    THEN /\ Outcome(h.clerk, TRUE, value)
         /\ misled' = IF entries[h.server][h.index].cmd = h.cmd THEN misled
                      ELSE misled \cup {h.clerk}
    ELSE UNCHANGED clerkVars

(* The request does not reach a server.                                    *)
LoseRequest(c) ==
    /\ pc[c] = "calling"
    /\ Outcome(c, FALSE, <<>>) /\ Fault
    /\ UNCHANGED <<raftVars, serviceVars, handlers, removals, misled>>

(* The clerk is cut off while the handler runs, or its reply will be lost. *)
Abandon(h) ==
    /\ h.live
    /\ handlers' = (handlers \ {h}) \cup {[h EXCEPT !.live = FALSE]}
    /\ Outcome(h.clerk, FALSE, <<>>) /\ Fault
    /\ UNCHANGED <<raftVars, serviceVars, removals, misled>>

-----------------------------------------------------------------------------
(* Command                                                                 *)

IsDuplicateRequest(s, id) == id[2] <= lastOperations[s][id[1]]

(* Under the read lock: the reply of a repeated update, or on to Start.    *)
Lookup(c) ==
    LET s == leaderId[c] IN
    /\ pc[c] = "calling"
    /\ IF args[c].op # "Query" /\ IsDuplicateRequest(s, args[c].id)
       THEN Outcome(c, TRUE, <<>>) /\ UNCHANGED handlers
       ELSE /\ pc' = [pc EXCEPT ![c] = "waiting"]
            /\ handlers' = handlers \cup
                 {[clerk |-> c, cmd |-> args[c], server |-> s, live |-> TRUE,
                   stage |-> "start", index |-> 0, term |-> 0, chan |-> 0]}
            /\ UNCHANGED <<args, commandId, leaderId, reply, todo, floor>>
    /\ UNCHANGED <<raftVars, serviceVars, removals, misled, faults>>

(* rf.Start, without the lock.                                             *)
StartOp(h) ==
    /\ h.stage = "start"
    /\ UNCHANGED <<serviceVars, removals, faults>>
    /\ \/ /\ ledTerm[h.server] = NotLeading
          /\ handlers' = handlers \ {h}
          /\ Fail(h)
          /\ UNCHANGED raftVars
       \/ /\ Start(h.server, h.cmd)
          /\ handlers' = (handlers \ {h}) \cup
               {[h EXCEPT !.stage = "register", !.index = StartIndex(h.server),
                          !.term = ledTerm[h.server]]}
          /\ UNCHANGED clerkVars

(* The channel entered for the index, or a new one.                        *)
GetNotifyChan(s, i) ==
    IF notifyChans[s][i] # 0 THEN notifyChans[s][i] ELSE Len(channels[s][i]) + 1

Buffer(s, i) ==
    IF notifyChans[s][i] # 0 THEN channels[s][i][notifyChans[s][i]] ELSE <<>>

EnterChan(s, i, buffer) ==
    LET k == GetNotifyChan(s, i) IN
    /\ notifyChans' = [notifyChans EXCEPT ![s][i] = k]
    /\ channels' = [channels EXCEPT ![s][i] =
                      [j \in 1..Max({k, Len(@)}) |-> IF j = k THEN buffer ELSE @[j]]]

Register(h) ==
    /\ h.stage = "register"
    /\ handlers' = (handlers \ {h}) \cup
         {[h EXCEPT !.stage = "wait", !.chan = GetNotifyChan(h.server, h.index)]}
    /\ EnterChan(h.server, h.index, Buffer(h.server, h.index))
    /\ UNCHANGED <<raftVars, stateMachine, lastOperations, applied, removals, clerkVars,
                   faults>>

(* The handler returns, and leaves a goroutine to remove the channel.      *)
Leave(h) ==
    /\ handlers' = handlers \ {h}
    /\ removals' = removals \cup {<<h.server, h.index>>}

Receive(h) ==
    LET buffer == channels[h.server][h.index][h.chan] IN
    /\ h.stage = "wait" /\ buffer # <<>>
    /\ channels' = [channels EXCEPT ![h.server][h.index][h.chan] = <<>>]
    /\ Leave(h)
    /\ Succeed(h, Head(buffer))
    /\ UNCHANGED <<raftVars, stateMachine, lastOperations, notifyChans, applied, faults>>

(* No reply will reach h: its channel is empty, and the entry at its index  *)
(* is applied already or its server has lost the lead.                     *)
Late(h) ==
    /\ h.stage = "wait" /\ channels[h.server][h.index][h.chan] = <<>>
    /\ applied[h.server] >= h.index \/ ledTerm[h.server] # h.term

TimeOut(h) ==
    /\ h.stage = "wait"
    /\ Leave(h)
    /\ Fail(h)
    /\ UNCHANGED <<raftVars, serviceVars>>

(* The entry is deleted, whichever channel it has by now.  Channels that no *)
(* handler of the index waits on are garbage.                              *)
RemoveOutdatedNotifyChan(s, i) ==
    LET used == \E h \in handlers : h.server = s /\ h.index = i /\ h.stage = "wait" IN
    /\ <<s, i>> \in removals
    /\ removals' = removals \ {<<s, i>>}
    /\ notifyChans' = [notifyChans EXCEPT ![s][i] = 0]
    /\ channels' = [channels EXCEPT ![s][i] = IF used THEN @ ELSE <<>>]
    /\ UNCHANGED <<raftVars, stateMachine, lastOperations, applied, handlers, clerkVars,
                   faults>>

-----------------------------------------------------------------------------
(* applier                                                                 *)

(* Mutant of MayNotify: the leader's check is missing.                     *)
NotifyAlways(s, e) == TRUE

(* Only for an entry of its own term does a leader notify.                 *)
MayNotify(s, e) == ledTerm[s] = e.term

(* Mutant of Execute: a repeated update is executed again.                 *)
ExecuteAgain(s, cmd) ==
    /\ stateMachine' = [stateMachine EXCEPT ![s] =
                          IF cmd.op = "Query" THEN @ ELSE Append(@, cmd.id)]
    /\ UNCHANGED lastOperations

(* applyLogToStateMachine, unless the command is a repeated update.        *)
Execute(s, cmd) ==
    IF cmd.op = "Query" \/ IsDuplicateRequest(s, cmd.id)
    THEN UNCHANGED <<stateMachine, lastOperations>>
    ELSE /\ stateMachine' = [stateMachine EXCEPT ![s] = Append(@, cmd.id)]
         /\ lastOperations' = [lastOperations EXCEPT ![s][cmd.id[1]] = cmd.id[2]]

(* The next command from applyCh.  The send to a channel whose buffer is    *)
(* full would block with sc.mu held.                                       *)
Deliver(s) ==
    LET i == applied[s] + 1
        cmd == chosen[i].cmd IN
    /\ i <= Len(chosen)
    /\ applied' = [applied EXCEPT ![s] = i]
    /\ Execute(s, cmd)
    /\ IF MayNotify(s, chosen[i])
       THEN /\ Buffer(s, i) = <<>>
            /\ EnterChan(s, i, <<IF cmd.op = "Query" THEN stateMachine[s] ELSE <<>>>>)
       ELSE UNCHANGED <<notifyChans, channels>>
    /\ UNCHANGED <<raftVars, handlers, removals, clerkVars, faults>>

(* Kill and StartServer: nothing but raft's log is kept, and every call the *)
(* server was handling fails.  The leader of the last term stays up.       *)
Restart(s) ==
    LET cut(c) == \E h \in handlers : h.server = s /\ h.clerk = c /\ h.live IN
    /\ ledTerm[s] # MaxTerm
    /\ Fault
    /\ Reboot(s)
    /\ stateMachine' = [stateMachine EXCEPT ![s] = <<>>]
    /\ lastOperations' = [lastOperations EXCEPT ![s] = [c \in Clerks |-> None]]
    /\ notifyChans' = [notifyChans EXCEPT ![s] = [i \in 1..MaxIndex |-> 0]]
    /\ channels' = [channels EXCEPT ![s] = [i \in 1..MaxIndex |-> <<>>]]
    /\ applied' = [applied EXCEPT ![s] = 0]
    /\ handlers' = {h \in handlers : h.server # s}
    /\ removals' = {r \in removals : r[1] # s}
    /\ pc' = [c \in Clerks |-> IF cut(c) THEN "calling" ELSE pc[c]]
    /\ leaderId' = [c \in Clerks |-> IF cut(c) THEN NextServer(leaderId[c]) ELSE leaderId[c]]
    /\ UNCHANGED <<args, commandId, reply, todo, floor, misled>>

-----------------------------------------------------------------------------
(* Specification                                                           *)

Consense ==
    /\ \E s \in Servers : Elect(s) \/ StepDown(s) \/ Commit(s)
    /\ UNCHANGED <<serviceVars, handlers, removals, clerkVars, faults>>

Applier == \E s \in Servers : Deliver(s)

(* What the goroutines of clerk c and of its handlers do.                  *)
Attend(c) ==
    \/ Return(c) \/ Lookup(c)
    \/ \E h \in handlers :
          /\ h.clerk = c
          /\ \/ StartOp(h) \/ Register(h) \/ Receive(h)
             \/ (Late(h) /\ TimeOut(h) /\ UNCHANGED faults)

(* What need not happen.                                                   *)
Happen ==
    \/ \E c \in Clerks : Call(c) \/ LoseRequest(c)
    \/ \E h \in handlers : Abandon(h) \/ (~Late(h) /\ TimeOut(h) /\ Fault)
    \/ \E s \in Servers, i \in 1..MaxIndex : RemoveOutdatedNotifyChan(s, i)
    \/ \E s \in Servers : Restart(s)

Next == Consense \/ Applier \/ (\E c \in Clerks : Attend(c)) \/ Happen

Spec == Init /\ [][Next]_vars

(* Goroutines run on, timers fire, clerks keep calling, a server whose term *)
(* is over hears of the new one, and the leader of the last term, which     *)
(* meets no fault, commits what it has.                                    *)
FairSpec ==
    /\ Spec
    /\ WF_vars(Consense \/ Applier)
    /\ \A c \in Clerks : WF_vars(Attend(c))

-----------------------------------------------------------------------------
(* Properties                                                              *)

(* The updates of a log, each once, in the order of their first entries.   *)
UpdatesOf(log) ==
    LET first(i) == /\ log[i].cmd.op = "Update"
                    /\ \A j \in 1..i - 1 : log[j].cmd # log[i].cmd
        firsts == SelectSeq([i \in DOMAIN log |-> i], first)
    IN [n \in DOMAIN firsts |-> log[firsts[n]].cmd.id]

(* ReplicasAgree: however often a command was entered in the log, and after *)
(* a restart too, a server has executed the updates of the log it has       *)
(* applied, each once and in that order.                                   *)
ReplicasAgree ==
    \A s \in Servers : stateMachine[s] = UpdatesOf(SubSeq(chosen, 1, applied[s]))

(* Linearizable: a Join, Leave or Move that was acknowledged is in the      *)
(* committed log, and a Query returns what the updates of some prefix of    *)
(* that log make, one that was not complete before the Query was called.    *)
(* Handlers of one index share a channel, whatever command each waits for:  *)
(* the leader's check in the applier keeps the replies for entries of other *)
(* leaders from them, but not the reply for an entry that their server made *)
(* in place of theirs when it led again.  The clerks of those are excepted. *)
Linearizable ==
    \A c \in Clerks \ misled : pc[c] = "answered" =>
        IF args[c].op = "Update"
        THEN \E i \in DOMAIN chosen : chosen[i].cmd = args[c]
        ELSE \E n \in floor[c]..Len(chosen) : reply[c] = UpdatesOf(SubSeq(chosen, 1, n))

(* CallsReturn: once the faults end, every call is answered, although the   *)
(* goroutine of an earlier handler may remove the channel of a later one,   *)
(* and the applier would block for ever on a channel that is full.         *)
CallsReturn == []<>(\A c \in Clerks : pc[c] = "idle")
===============================================================================
