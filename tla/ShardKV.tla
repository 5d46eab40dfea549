------------------------------- MODULE ShardKV --------------------------------
(***************************************************************************)
(* The sharded store (shardkv/server.go, client.go): groups of servers     *)
(* that move shards between each other from one configuration to the next, *)
(* while clerks read and write.  log[g] holds the commands that stay in    *)
(* the log of group g, each by the state it leads to and its reply; a      *)
(* command that is lost with its leader leaves nothing but a handler that  *)
(* waits at its index.  The leader has applied a part of the log, and a    *)
(* call that is delayed, or a leader that does not know it was deposed,    *)
(* acts on some earlier state.  A shard holds one key, whose value is the  *)
(* sequence of the writes in it.                                           *)
(***************************************************************************)
EXTENDS Integers, Sequences, FiniteSets

CONSTANTS
    Groups, Shards, Clerks,
    Scenarios      \* the sequence of configurations the shard controller makes, each
                   \* giving every shard its group, and the calls of the clerks;
                   \* bound: the number of faults, which are elections, commands that
                   \* are lost, and calls that are delayed, abandoned or repeated

NoGroup == 0
Nowhere == [gid |-> NoGroup, index |-> 0]

(* A shard that has a group is never without one later: nobody would hand   *)
(* its data on.                                                            *)
ASSUME ShardKVAssumption ==
    /\ NoGroup \notin Groups
    /\ \A s \in Scenarios : \A n \in DOMAIN s.configs :
          /\ s.configs[n] \in [Shards -> Groups \cup {NoGroup}]
          /\ n > 1 => \A sh \in Shards :
                s.configs[n - 1][sh] # NoGroup => s.configs[n][sh] # NoGroup
    /\ \A s \in Scenarios : DOMAIN s.calls = Clerks /\ s.faults \in Nat

VARIABLES
    configs, latest,   \* the configurations, and how far the controller has come
    log, applied,      \* the commands of a group; the leader has applied that many
    reached,           \* the most any leader of the group has applied
    fresh,             \* the leader has an entry of its own term in the log
    lost,              \* requests to delete shards whose handler waits for a lost command
    pc,                \* the clerk: "idle", "calling", "checked", "waiting", "answered"
    args, commandId, config, reply, todo,
    at,                \* the group and the index for which the handler waits
    late,              \* abandoned calls whose handler is about to call Start
    ideal,             \* history: the writes to every shard
    seen,              \* history: the values of the shard since the clerk called
    misled,            \* history: clerks that got the reply to another command
    forgotten,         \* history: a group took the reply to another command for
                       \* that to its request to delete shards
    faults

groupVars == <<log, applied, reached, fresh, ideal, seen>>
callVars == <<pc, args, commandId, config, reply, todo, at, misled>>
gcVars == <<lost, forgotten>>
vars == <<configs, latest, groupVars, callVars, gcVars, late, faults>>

Ids == Clerks \X Nat
Operations == [op : {"Get", "Put", "Append"}, shard : Shards, id : Ids]
Statuses == {"Serving", "Pulling", "BePulling", "GCing"}
States == [num : 0..Len(configs), status : [Shards -> Statuses],
           kv : [Shards -> Seq(Ids)], last : [Clerks -> Nat \cup {-1}]]

TypeOK ==
    /\ latest \in 0..Len(configs)
    /\ \A g \in Groups :
          /\ applied[g] \in 1..reached[g] /\ reached[g] \in 1..Len(log[g])
          /\ fresh[g] \in BOOLEAN
          /\ \A i \in DOMAIN log[g] : log[g][i].st \in States
    /\ \A c \in Clerks :
          /\ pc[c] \in {"idle", "calling", "checked", "waiting", "answered"}
          /\ args[c] \in Operations /\ commandId[c] \in Nat
          /\ config[c] \in 0..latest
          /\ reply[c] \in Seq(Ids)
          /\ pc[c] = "waiting" => at[c].index \in 2..Len(log[at[c].gid]) + 1
    /\ late \subseteq [gid : Groups, cmd : Operations]
    /\ lost \subseteq [by : Groups, gid : Groups, index : Nat \ {0}, num : 0..latest,
                      shards : SUBSET Shards]
    /\ misled \subseteq Clerks /\ forgotten \in BOOLEAN

-----------------------------------------------------------------------------
(* The state of a group                                                    *)

ConfigNum(n) == IF n = 0 THEN [sh \in Shards |-> NoGroup] ELSE configs[n]

At(g, i) == log[g][i].st
End(g) == At(g, Len(log[g]))

InitState ==
    [num |-> 0, status |-> [sh \in Shards |-> "Serving"],
     kv |-> [sh \in Shards |-> <<>>], last |-> [c \in Clerks |-> -1]]

(* Mutant of CanServe: the status of the shard is not looked at.           *)
CanServeByConfig(g, st, sh) == ConfigNum(st.num)[sh] = g

CanServe(g, st, sh) ==
    ConfigNum(st.num)[sh] = g /\ st.status[sh] \in {"Serving", "GCing"}

IsDuplicateRequest(st, id) == id[2] <= st.last[id[1]]

(* Does the operation change the state?                                    *)
Writes(g, st, o) ==
    CanServe(g, st, o.shard) /\ o.op # "Get" /\ ~IsDuplicateRequest(st, o.id)

Written(value, o) == IF o.op = "Put" THEN <<o.id>> ELSE Append(value, o.id)

ApplyOperation(g, st, o) ==
    IF Writes(g, st, o)
    THEN [st EXCEPT !.kv[o.shard] = Written(@, o), !.last[o.id[1]] = o.id[2]]
    ELSE st

(* updateShardStatus                                                       *)
StatusAfter(g, st, num) ==
    LET old == ConfigNum(st.num)
        new == ConfigNum(num)
    IN [sh \in Shards |->
          IF old[sh] # g /\ new[sh] = g /\ old[sh] # NoGroup THEN "Pulling"
          ELSE IF old[sh] = g /\ new[sh] # g /\ new[sh] # NoGroup THEN "BePulling"
          ELSE st.status[sh]]

ApplyConfiguration(g, st, num) ==
    IF num = st.num + 1
    THEN [st EXCEPT !.status = StatusAfter(g, st, num), !.num = num]
    ELSE st

MergeLast(last, other) ==
    [c \in Clerks |-> IF last[c] < other[c] THEN other[c] ELSE last[c]]

(* Mutant of Pulled: the loop stops after one shard.                       *)
PulledOne(st, shards) ==
    {sh \in shards : st.status[sh] = "Pulling" /\ \A s1 \in shards : sh <= s1}

(* The shards the loop inserts: all of them, or none (MovesTogether).      *)
Pulled(st, shards) == {sh \in shards : st.status[sh] = "Pulling"}

(* A key that has no value in the reply is left as it is.                  *)
ApplyInsertShards(st, num, shards, kv, last) ==
    LET pulled == Pulled(st, shards) IN
    IF num = st.num
    THEN [st EXCEPT !.kv = [sh \in Shards |-> IF sh \in pulled /\ kv[sh] # <<>>
                                              THEN kv[sh] ELSE @[sh]],
                    !.status = [sh \in Shards |-> IF sh \in pulled THEN "GCing" ELSE @[sh]],
                    !.last = MergeLast(@, last)]
    ELSE st

ApplyDeleteShards(st, num, shards) ==
    LET gone == {sh \in shards : st.status[sh] = "BePulling"}
        done == {sh \in shards : st.status[sh] = "GCing"} IN
    IF num = st.num
    THEN [st EXCEPT !.kv = [sh \in Shards |-> IF sh \in gone THEN <<>> ELSE @[sh]],
                    !.status = [sh \in Shards |->
                                  IF sh \in gone \cup done THEN "Serving" ELSE @[sh]]]
    ELSE st

(* getShardIDsByStatus: those that came from group h.                      *)
ShardIDsByStatus(st, status, h) ==
    {sh \in Shards : /\ st.status[sh] = status
                     /\ st.num > 0 /\ ConfigNum(st.num - 1)[sh] = h}

ApplyCommand(g, st, cmd) ==
    CASE cmd.type = "Operation"     -> ApplyOperation(g, st, cmd.data)
      [] cmd.type = "Configuration" -> ApplyConfiguration(g, st, cmd.num)
      [] cmd.type = "InsertShards"  -> ApplyInsertShards(st, cmd.num, cmd.shards, cmd.kv, cmd.last)
      [] cmd.type = "DeleteShards"  -> ApplyDeleteShards(st, cmd.num, cmd.shards)
      [] cmd.type = "EmptyShards"   -> st

OK(value) == [err |-> "OK", value |-> value]
Error(err) == [err |-> err, value |-> <<>>]

(* What the applier sends to the channel of the index.                     *)
CommandReply(g, st, cmd) ==
    CASE cmd.type = "Operation" ->
            LET o == cmd.data IN
            IF ~CanServe(g, st, o.shard) THEN Error("ErrWrongGroup")
            ELSE IF o.op # "Get" THEN OK(<<>>)
            ELSE IF st.kv[o.shard] = <<>> THEN Error("ErrNoKey") ELSE OK(st.kv[o.shard])
      [] cmd.type = "Configuration" -> IF cmd.num = st.num + 1 THEN OK(<<>>) ELSE Error("ErrOutDated")
      [] cmd.type = "InsertShards"  -> IF cmd.num = st.num THEN OK(<<>>) ELSE Error("ErrOutDated")
      [] OTHER                      -> OK(<<>>)

(* The request that a handler makes with the command, if one does.         *)
NoRequest == [num |-> 0, shards |-> {}]
Request(cmd) ==
    CASE cmd.type = "Operation"    -> cmd.data
      [] cmd.type = "DeleteShards" -> [num |-> cmd.num, shards |-> cmd.shards]
      [] OTHER                     -> NoRequest

Init ==
    /\ \E s \in Scenarios : configs = s.configs /\ todo = s.calls /\ faults = s.faults
    /\ latest = 0
    /\ log = [g \in Groups |-> <<[request |-> NoRequest, st |-> InitState, reply |-> OK(<<>>)]>>]
    /\ applied = [g \in Groups |-> 1]
    /\ reached = [g \in Groups |-> 1]
    /\ fresh = [g \in Groups |-> TRUE]
    /\ pc = [c \in Clerks |-> "idle"]
    /\ args = [c \in Clerks |-> [op |-> "Get", shard |-> CHOOSE sh \in Shards : TRUE,
                                 id |-> <<c, 0>>]]
    /\ commandId = [c \in Clerks |-> 0]
    /\ config = [c \in Clerks |-> 0]
    /\ reply = [c \in Clerks |-> <<>>]
    /\ at = [c \in Clerks |-> Nowhere]
    /\ late = {} /\ lost = {}
    /\ misled = {} /\ forgotten = FALSE
    /\ ideal = [sh \in Shards |-> <<>>]
    /\ seen = [c \in Clerks |-> {}]

Fault == faults > 0 /\ faults' = faults - 1

-----------------------------------------------------------------------------
(* The log of a group                                                      *)

(* Mutant of StartIndex: one too high.                                     *)
StartIndexTooHigh(g) == Len(log[g]) + 2

(* The index Start returns.                                                *)
StartIndex(g) == Len(log[g]) + 1

(* Execute, as far as Start: the command is in the log.  What it writes     *)
(* becomes the value of its shard.                                         *)
Execute(g, cmd) ==
    LET write == cmd.type = "Operation" /\ Writes(g, End(g), cmd.data)
        value(sh) == IF write /\ sh = cmd.data.shard THEN Written(ideal[sh], cmd.data)
                     ELSE ideal[sh]
        entry == [request |-> Request(cmd), st |-> ApplyCommand(g, End(g), cmd),
                  reply |-> CommandReply(g, End(g), cmd)]
    IN /\ log' = [log EXCEPT ![g] = Append(@, entry)]
       /\ fresh' = [fresh EXCEPT ![g] = TRUE]
       /\ ideal' = [sh \in Shards |-> value(sh)]
       /\ seen' = [c \in Clerks |-> IF pc[c] = "idle" THEN {}
                                    ELSE seen[c] \cup {value(args[c].shard)}]
       /\ UNCHANGED <<applied, reached>>

(* applier.  A leader learns what is committed once an entry of its own     *)
(* term is.                                                                *)
Apply(g) ==
    /\ fresh[g] /\ applied[g] < Len(log[g])
    /\ applied' = [applied EXCEPT ![g] = @ + 1]
    /\ reached' = [reached EXCEPT ![g] = IF applied[g] = @ THEN @ + 1 ELSE @]
    /\ UNCHANGED <<configs, latest, log, fresh, ideal, seen, callVars, gcVars, late, faults>>

(* Mutant of HasLogInCurrentTerm: always thought to hold.                  *)
HasLog(g) == TRUE

HasLogInCurrentTerm(g) == fresh[g]

CheckEntryInCurrentTermAction(g) ==
    /\ ~HasLogInCurrentTerm(g)
    /\ Execute(g, [type |-> "EmptyShards"])
    /\ UNCHANGED <<configs, latest, callVars, gcVars, late, faults>>

(* Another server leads, or the leader has restarted: it has applied some   *)
(* part of the log, and of the handlers that wait in the group only those   *)
(* can still get a reply whose index is beyond it.                         *)
NewLeader(g) ==
    /\ \E i \in 1..Len(log[g]) :
          /\ applied' = [applied EXCEPT ![g] = i]
          /\ reached' = [reached EXCEPT ![g] = IF i > @ THEN i ELSE @]
    /\ fresh' = [fresh EXCEPT ![g] = FALSE]
    /\ UNCHANGED <<log, ideal, seen>>

TimesOut(c, g) == pc[c] = "waiting" /\ at[c].gid = g /\ at[c].index \in DOMAIN log[g]
InTime(g) == {r \in lost : r.gid = g => r.index \notin DOMAIN log[g]}

Elect(g) ==
    /\ Fault
    /\ NewLeader(g)
    /\ pc' = [c \in Clerks |-> IF TimesOut(c, g) THEN "calling" ELSE pc[c]]
    /\ lost' = InTime(g)
    /\ UNCHANGED <<configs, latest, args, commandId, config, reply, todo, at, misled, forgotten,
                   late>>

-----------------------------------------------------------------------------
(* The monitors of a leader.  i is the state they act on.                  *)

(* The next configuration, once every shard is served.                     *)
ConfigurationAction(g, i) ==
    LET st == At(g, i) IN
    /\ \A sh \in Shards : st.status[sh] = "Serving"
    /\ st.num < latest
    /\ Execute(g, [type |-> "Configuration", num |-> st.num + 1])

(* Mutant of Ready: a group hands out shards it may still write.           *)
AlwaysReady(st, num) == TRUE

(* GetShardsData: ErrNotReady while the group is behind.                   *)
Ready(st, num) == st.num >= num

(* The shards are pulled from the state j of their last group h.           *)
MigrationAction(g, i, h, j) ==
    LET st == At(g, i)
        ids == ShardIDsByStatus(st, "Pulling", h) IN
    /\ ids # {}
    /\ Ready(At(h, j), st.num)
    /\ Execute(g, [type |-> "InsertShards", num |-> st.num, shards |-> ids,
                   kv |-> At(h, j).kv, last |-> At(h, j).last])

DeleteCommand(num, ids) == [type |-> "DeleteShards", num |-> num, shards |-> ids]

(* gcAction calls DeleteShardsData at h, whose leader is in state j: a      *)
(* group that is further on has deleted them.                              *)
DeleteShardsData(g, i, h, j) ==
    LET st == At(g, i)
        ids == ShardIDsByStatus(st, "GCing", h) IN
    /\ ids # {}
    /\ At(h, j).num <= st.num
    /\ Execute(h, DeleteCommand(st.num, ids))

(* DeleteShardsData has returned OK, from the state j or before.           *)
Deleted(h, j, num, ids) ==
    \E k \in 1..j : At(h, k).num > num \/ log[h][k].request = [num |-> num, shards |-> ids]

(* The rest of gcAction.                                                   *)
GCAction(g, i, h, j) ==
    LET st == At(g, i)
        ids == ShardIDsByStatus(st, "GCing", h) IN
    /\ ids # {}
    /\ Deleted(h, j, st.num, ids)
    /\ Execute(g, DeleteCommand(st.num, ids))

(* A leader that has applied its whole log acts, on what the other leader   *)
(* has applied.                                                            *)
Monitor(g) ==
    LET i == Len(log[g]) IN
    /\ applied[g] = i
    /\ \/ ConfigurationAction(g, i)
       \/ \E h \in Groups :
             \/ MigrationAction(g, i, h, applied[h])
             \/ /\ ~Deleted(h, Len(log[h]), At(g, i).num, ShardIDsByStatus(At(g, i), "GCing", h))
                /\ DeleteShardsData(g, i, h, applied[h])
             \/ GCAction(g, i, h, applied[h])
    /\ UNCHANGED <<configs, latest, callVars, gcVars, late, faults>>

(* The same with states of the past: the action of a leader that is behind, *)
(* a call that was delayed, or one that is repeated at another server.     *)
StaleMonitor(g) ==
    /\ Fault
    /\ \E i \in 1..reached[g] :
          \/ ConfigurationAction(g, i)
          \/ \E h \in Groups : \E j \in 1..reached[h] :
                MigrationAction(g, i, h, j) \/ DeleteShardsData(g, i, h, j) \/ GCAction(g, i, h, j)
    /\ UNCHANGED <<configs, latest, callVars, gcVars, late>>

(* DeleteShardsData enters its command at a leader of h that is deposed,    *)
(* behind other commands that are lost with it; in their place h has        *)
(* entries of a later leader, and now the server leads again.  Its handler  *)
(* still waits at the index, which is free.                                *)
LoseDelete(g, h) ==
    LET st == At(g, applied[g])
        ids == ShardIDsByStatus(st, "GCing", h) IN
    /\ Fault
    /\ ids # {} /\ fresh[h]
    /\ NewLeader(h)
    /\ lost' = InTime(h) \cup {[by |-> g, gid |-> h, index |-> StartIndex(h), num |-> st.num,
                               shards |-> ids]}
    /\ pc' = [c \in Clerks |-> IF TimesOut(c, h) THEN "calling" ELSE pc[c]]
    /\ UNCHANGED <<configs, latest, args, commandId, config, reply, todo, at, misled, forgotten,
                   late>>

(* The applier has sent the reply to another command to the channel of the  *)
(* index, and gcAction takes it for its own.                               *)
GCMisled(r) ==
    LET entry == log[r.gid][r.index] IN
    /\ fresh[r.gid] /\ r.index <= applied[r.gid] /\ entry.reply.err = "OK"
    /\ Execute(r.by, DeleteCommand(r.num, r.shards))
    /\ lost' = lost \ {r}
    /\ forgotten' = (forgotten \/ entry.request # [num |-> r.num, shards |-> r.shards])
    /\ UNCHANGED <<configs, latest, callVars, late, faults>>

-----------------------------------------------------------------------------
(* The clerk and Command                                                   *)

Call(c) ==
    /\ pc[c] = "idle" /\ todo[c] # <<>>
    /\ todo' = [todo EXCEPT ![c] = Tail(@)]
    /\ pc' = [pc EXCEPT ![c] = "calling"]
    /\ args' = [args EXCEPT ![c] = [op |-> Head(todo[c]).op, shard |-> Head(todo[c]).shard,
                                    id |-> <<c, commandId[c]>>]]
    /\ seen' = [seen EXCEPT ![c] = {ideal[Head(todo[c]).shard]}]
    /\ UNCHANGED <<configs, latest, log, applied, reached, fresh, ideal, commandId, config,
                   reply, at, misled, gcVars, late, faults>>

Return(c) ==
    /\ pc[c] = "answered"
    /\ pc' = [pc EXCEPT ![c] = "idle"]
    /\ commandId' = [commandId EXCEPT ![c] = @ + 1]
    /\ reply' = [reply EXCEPT ![c] = <<>>]
    /\ seen' = [seen EXCEPT ![c] = {}]
    /\ misled' = misled \ {c}
    /\ UNCHANGED <<configs, latest, log, applied, reached, fresh, ideal, args, config, todo, at,
                   gcVars, late, faults>>

Answer(c, value) ==
    /\ pc' = [pc EXCEPT ![c] = "answered"]
    /\ reply' = [reply EXCEPT ![c] = value]
    /\ UNCHANGED config

(* Mutant of Refresh: the clerk keeps its configuration.                   *)
KeepConfig(c) == pc' = [pc EXCEPT ![c] = "calling"] /\ UNCHANGED <<reply, config>>

(* ErrWrongGroup: the latest configuration.                                *)
Refresh(c) ==
    /\ pc' = [pc EXCEPT ![c] = "calling"]
    /\ config' = [config EXCEPT ![c] = latest]
    /\ UNCHANGED reply

(* Any other error: the next server of the group, or, if all were tried,    *)
(* the latest configuration.                                               *)
TryNext(c) ==
    /\ pc' = [pc EXCEPT ![c] = "calling"]
    /\ \E n \in {config[c], latest} : config' = [config EXCEPT ![c] = n]
    /\ UNCHANGED reply

(* The first part of Command, at the leader of the group.                  *)
Command(c) ==
    LET g == ConfigNum(config[c])[args[c].shard] IN
    /\ pc[c] = "calling"
    /\ IF g = NoGroup
       THEN config[c] # latest /\ Refresh(c) /\ UNCHANGED at
       ELSE LET st == At(g, applied[g]) IN
            IF args[c].op # "Get" /\ IsDuplicateRequest(st, args[c].id)
            THEN Answer(c, <<>>) /\ UNCHANGED at
            ELSE IF ~CanServe(g, st, args[c].shard)
            THEN config[c] # latest /\ Refresh(c) /\ UNCHANGED at
            ELSE /\ pc' = [pc EXCEPT ![c] = "checked"]
                 /\ at' = [at EXCEPT ![c] = [gid |-> g, index |-> 0]]
                 /\ UNCHANGED <<reply, config>>
    /\ UNCHANGED <<configs, latest, groupVars, args, commandId, todo, misled, gcVars, late, faults>>

(* Execute, without the lock.                                              *)
StartOp(c) ==
    LET g == at[c].gid IN
    /\ pc[c] = "checked"
    /\ Execute(g, [type |-> "Operation", data |-> args[c]])
    /\ pc' = [pc EXCEPT ![c] = "waiting"]
    /\ at' = [at EXCEPT ![c].index = StartIndex(g)]
    /\ UNCHANGED <<configs, latest, args, commandId, config, reply, todo, misled, gcVars, late,
                   faults>>

(* The same as in LoseDelete: the command is lost and the handler waits.   *)
StartLost(c) ==
    LET g == at[c].gid IN
    /\ pc[c] = "checked" /\ fresh[g]
    /\ Fault
    /\ NewLeader(g)
    /\ lost' = InTime(g)
    /\ pc' = [d \in Clerks |-> IF d = c THEN "waiting"
                               ELSE IF TimesOut(d, g) THEN "calling" ELSE pc[d]]
    /\ at' = [at EXCEPT ![c].index = StartIndex(g)]
    /\ UNCHANGED <<configs, latest, args, commandId, config, reply, todo, misled, forgotten, late>>

(* Mutant of Receive: whatever the reply, the clerk takes it for OK.       *)
ReceiveOK(c) ==
    /\ pc[c] = "waiting" /\ at[c].index <= applied[at[c].gid]
    /\ Answer(c, <<>>)
    /\ misled' = misled
    /\ at' = [at EXCEPT ![c] = Nowhere]
    /\ UNCHANGED <<configs, latest, groupVars, args, commandId, todo, gcVars, late, faults>>

(* The applier has sent the reply of the command at the index, whosever it  *)
(* is, to the channel of the index.                                        *)
Receive(c) ==
    LET entry == log[at[c].gid][at[c].index]
        answered == entry.reply.err \in {"OK", "ErrNoKey"} IN
    /\ pc[c] = "waiting" /\ at[c].index <= applied[at[c].gid]
    /\ \/ answered /\ Answer(c, entry.reply.value)
       \/ entry.reply.err = "ErrWrongGroup" /\ Refresh(c)
       \/ entry.reply.err = "ErrOutDated" /\ TryNext(c)
    /\ misled' = IF answered /\ entry.request # args[c] THEN misled \cup {c} ELSE misled
    /\ at' = [at EXCEPT ![c] = Nowhere]
    /\ UNCHANGED <<configs, latest, groupVars, args, commandId, todo, gcVars, late, faults>>

(* ErrTimeout, where no reply comes.                                       *)
TimeOut(c) ==
    /\ pc[c] = "waiting" /\ at[c].index \notin DOMAIN log[at[c].gid]
    /\ at' = [at EXCEPT ![c] = Nowhere]
    /\ TryNext(c)
    /\ UNCHANGED <<configs, latest, groupVars, args, commandId, todo, misled, gcVars, late, faults>>

(* The call fails or times out; its handler may have come no further than   *)
(* the check.                                                              *)
Abandon(c) ==
    /\ pc[c] \in {"checked", "waiting"}
    /\ Fault
    /\ late' = IF pc[c] = "checked" THEN late \cup {[gid |-> at[c].gid, cmd |-> args[c]]} ELSE late
    /\ at' = [at EXCEPT ![c] = Nowhere]
    /\ TryNext(c)
    /\ UNCHANGED <<configs, latest, groupVars, args, commandId, todo, misled, gcVars>>

StartLate(r) ==
    /\ late' = late \ {r}
    /\ Execute(r.gid, [type |-> "Operation", data |-> r.cmd])
    /\ UNCHANGED <<configs, latest, callVars, gcVars, faults>>

(* Join, Leave or Move at the shard controller.                            *)
Reconfigure ==
    /\ latest < Len(configs)
    /\ latest' = latest + 1
    /\ UNCHANGED <<configs, groupVars, callVars, gcVars, late, faults>>

-----------------------------------------------------------------------------
(* Specification                                                           *)

Run(g) == Apply(g) \/ CheckEntryInCurrentTermAction(g) \/ Monitor(g)

Attend(c) == Return(c) \/ Command(c) \/ StartOp(c) \/ Receive(c) \/ TimeOut(c)

(* What need not happen.                                                   *)
Happen ==
    \/ \E g \in Groups : Elect(g) \/ StaleMonitor(g)
    \/ \E g, h \in Groups : LoseDelete(g, h)
    \/ \E r \in lost : GCMisled(r)
    \/ \E c \in Clerks : Call(c) \/ StartLost(c) \/ Abandon(c)
    \/ \E r \in late : StartLate(r)
    \/ Reconfigure

Next == (\E g \in Groups : Run(g)) \/ (\E c \in Clerks : Attend(c)) \/ Happen

Spec == Init /\ [][Next]_vars

(* The leader of a group keeps running its monitors and its applier, and a  *)
(* clerk keeps trying.                                                     *)
FairSpec ==
    /\ Spec
    /\ WF_vars(\E g \in Groups : Run(g))
    /\ \A c \in Clerks : WF_vars(Attend(c))

-----------------------------------------------------------------------------
(* Properties                                                              *)

(* OneOwner: whatever configuration each group has come to, no two groups   *)
(* can execute operations on the same shard.                               *)
OneOwner ==
    \A sh \in Shards, g, h \in Groups :
        CanServe(g, End(g), sh) /\ CanServe(h, End(h), sh) => g = h

(* MovesTogether: the shards a group gets from another in one configuration *)
(* have the same status all the way, so that the loop of applyInsertShards, *)
(* and that of applyDeleteShards where they are collected, never stop at    *)
(* one half of them.                                                       *)
MovesTogether ==
    \A g, h \in Groups :
        LET st == End(g)
            moved == {sh \in Shards : /\ st.num > 0 /\ ConfigNum(st.num)[sh] = g /\ g # h
                                      /\ ConfigNum(st.num - 1)[sh] = h}
        IN \A s1, s2 \in moved : st.status[s1] = st.status[s2]

(* NothingLost: the group that can serve a shard has every write made to it *)
(* in whatever group, each write once.                                     *)
NothingLost ==
    \A sh \in Shards :
        /\ \A g \in Groups : CanServe(g, End(g), sh) => End(g).kv[sh] = ideal[sh]
        /\ \A m, n \in DOMAIN ideal[sh] : ideal[sh][m] = ideal[sh][n] => m = n

(* Linearizable: when a call returns its write has been made, or it read a  *)
(* value the shard had since it was called, although the clerk may have     *)
(* tried it in several groups and handlers of it may still be running.      *)
(* A clerk whose handler waited for a lost command and was sent the reply   *)
(* to another one is promised nothing: the channel is that of an index      *)
(* (server.go:70, 193).                                                    *)
Linearizable ==
    \A c \in Clerks \ misled : pc[c] = "answered" =>
        IF args[c].op = "Get" THEN reply[c] \in seen[c]
        ELSE \E v \in seen[c] : v # <<>> /\ v[Len(v)] = args[c].id

(* Settles: every group comes to the latest configuration and serves its    *)
(* shards, although it cannot go on before the other groups have pulled     *)
(* and deleted theirs, and although a new leader cannot apply its log       *)
(* before it has an entry of its own; unless a group takes the reply to     *)
(* another command for that to its request to delete, and never asks again. *)
Settles ==
    <>forgotten \/
    <>[](\A g \in Groups : /\ At(g, applied[g]).num = latest
                           /\ \A sh \in Shards : At(g, applied[g]).status[sh] = "Serving")

(* CallsReturn: a call is answered unless no group has its shard, with the  *)
(* same exception.                                                         *)
CallsReturn ==
    <>forgotten \/
    []<>(\A c \in Clerks : pc[c] = "idle" \/ ConfigNum(latest)[args[c].shard] = NoGroup)
===============================================================================
