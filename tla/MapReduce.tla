------------------------------ MODULE MapReduce -------------------------------
(***************************************************************************)
(* MapReduce (mr/coordinator.go, worker.go): a coordinator that hands map  *)
(* and then reduce tasks to workers through channels, takes a task back    *)
(* after ten seconds, and tells a worker that finishes from one that is    *)
(* late by worker id and begin time; workers that crash, are slow, or exit *)
(* when there is no task and are started again; and the files they write.  *)
(* now counts intervals of more than ten seconds: a task is overdue in the *)
(* interval after the one it began in.                                     *)
(***************************************************************************)
EXTENDS Integers, Sequences, Functions

CONSTANTS
    Workers,     \* the worker processes that run at a time
    Jobs,        \* [mMap, nReduce, intervals]: the numbers of map and reduce tasks,
                 \* and a bound: the intervals in which workers may crash
    Crashes      \* bound: the number of workers that crash

ASSUME MapReduceAssumption ==
    /\ \A j \in Jobs :
          j.mMap \in Nat \ {0} /\ j.nReduce \in Nat \ {0} /\ j.intervals \in Nat
    /\ Crashes \in Nat

VARIABLES
    job, state,
    tasksCh, sent,         \* sent: the tasks the Begin goroutine has sent
    tasksCh_sendClosed,    \* it has said that all are sent
    workerIdCh,
    workerId_task,         \* the ids in use, each with its task and begin time
    completed,             \* the tasks whose status is Completed
    lock,                  \* c.mu: "run", "free" or "catchTimeout"
    requeue,               \* the task catchTimeout is about to send, or NoTask
    pc, work,              \* the workers
    files,                 \* the intermediate files in place, <<map task, reduce task>>
    out,                   \* the parts written of every output file
    reopened,              \* history: outputs opened by a worker that was given up
    now, crashes

queueVars == <<tasksCh, sent, tasksCh_sendClosed, workerIdCh, workerId_task, completed>>
fileVars == <<files, out, reopened>>
vars == <<job, state, queueVars, lock, requeue, pc, work, fileVars, now, crashes>>

NoTask == -1
States == {"MAP", "SHUFFLE", "REDUCE", "DONE"}
Parts == {1, 2}

MaxNow == job.intervals

Maps == 0..job.mMap - 1
Reduces == 0..job.nReduce - 1

(* The tasks of the phase, and the capacity of their channel.              *)
NTasks == IF state \in {"MAP", "SHUFFLE"} THEN job.mMap ELSE job.nReduce
Tasks == 0..NTasks - 1

Capacity ==
    LET share == IF state \in {"MAP", "SHUFFLE"} THEN job.mMap \div 4 ELSE job.nReduce \div 2
    IN IF share > 2 THEN share ELSE 2

TypeOK ==
    /\ job \in Jobs /\ state \in States
    /\ tasksCh \in Seq(Tasks) /\ Len(tasksCh) <= Capacity
    /\ sent \in 0..NTasks
    /\ tasksCh_sendClosed \in BOOLEAN
    /\ workerIdCh \in Seq(Tasks)
    /\ DOMAIN workerId_task \subseteq Tasks
    /\ workerId_task \in [DOMAIN workerId_task -> [task : Tasks, begin : 0..MaxNow]]
    /\ completed \subseteq Tasks
    /\ lock \in {"run", "free", "catchTimeout"}
    /\ requeue \in Tasks \cup {NoTask}
    /\ pc \in [Workers -> {"down", "asking", "mapping", "reducing", "writing", "finishing"}]
    /\ work \in [Workers -> [task : Nat \cup {NoTask}, id : Nat, begin : 0..MaxNow, step : Nat]]
    /\ out \in [Reduces -> SUBSET Parts]
    /\ now \in 0..MaxNow /\ crashes \in Nat

NoWork == [task |-> NoTask, id |-> 0, begin |-> 0, step |-> 0]
NoIds == [id \in {} |-> NoTask]
AllIds(n) == [i \in 1..n |-> i - 1]

(* MakeCoordinator, up to its call of run.                                 *)
Init ==
    /\ job \in Jobs
    /\ state = "MAP"
    /\ tasksCh = <<>> /\ sent = 0 /\ tasksCh_sendClosed = FALSE
    /\ workerIdCh = AllIds(job.mMap) /\ workerId_task = NoIds
    /\ completed = {}
    /\ lock = "run" /\ requeue = NoTask
    /\ pc = [w \in Workers |-> "down"] /\ work = [w \in Workers |-> NoWork]
    /\ files = {} /\ out = [r \in Reduces |-> {}] /\ reopened = {}
    /\ now = 0 /\ crashes = Crashes

-----------------------------------------------------------------------------
(* mapTaskBegin and reduceTaskBegin: the tasks in their order, then the     *)
(* message that all are sent.                                              *)

SendTask ==
    /\ state \in {"MAP", "REDUCE"}
    /\ sent < NTasks /\ Len(tasksCh) < Capacity
    /\ tasksCh' = Append(tasksCh, sent)
    /\ sent' = sent + 1
    /\ UNCHANGED <<job, state, tasksCh_sendClosed, workerIdCh, workerId_task, completed, lock,
                   requeue, pc, work, fileVars, now, crashes>>

SendClosed ==
    /\ state \in {"MAP", "REDUCE"}
    /\ sent = NTasks /\ ~tasksCh_sendClosed
    /\ tasksCh_sendClosed' = TRUE
    /\ UNCHANGED <<job, state, tasksCh, sent, workerIdCh, workerId_task, completed, lock,
                   requeue, pc, work, fileVars, now, crashes>>

-----------------------------------------------------------------------------
(* run: it holds c.mu while it waits for a message, and gives it up for a   *)
(* moment after each.                                                      *)

Lock == lock = "free" /\ lock' = "run"

Relock ==
    /\ Lock
    /\ UNCHANGED <<job, state, queueVars, requeue, pc, work, fileVars, now, crashes>>

Serve == lock = "run" /\ lock' = "free"

(* doAskTask.  A worker that gets no task exits; a task for which there is  *)
(* no id is gone.                                                          *)
DoAskTask(w) ==
    /\ pc[w] = "asking" /\ Serve
    /\ IF state \notin {"MAP", "REDUCE"} \/ tasksCh = <<>>
       THEN /\ pc' = [pc EXCEPT ![w] = "down"]
            /\ UNCHANGED <<work, queueVars>>
       ELSE /\ tasksCh' = Tail(tasksCh)
            /\ IF workerIdCh = <<>>
               THEN /\ pc' = [pc EXCEPT ![w] = "down"]
                    /\ UNCHANGED <<work, workerIdCh, workerId_task>>
               ELSE LET id == Head(workerIdCh)
                        given == [task |-> Head(tasksCh), begin |-> now] IN
                    /\ workerIdCh' = Tail(workerIdCh)
                    /\ workerId_task' = [i \in DOMAIN workerId_task \cup {id} |->
                                           IF i = id THEN given ELSE workerId_task[i]]
                    /\ pc' = [pc EXCEPT ![w] = IF state = "MAP" THEN "mapping" ELSE "reducing"]
                    /\ work' = [work EXCEPT ![w] = [task |-> given.task, id |-> id,
                                                    begin |-> now, step |-> 0]]
            /\ UNCHANGED <<sent, tasksCh_sendClosed, completed>>
    /\ UNCHANGED <<job, state, requeue, fileVars, now, crashes>>

Without(f, id) == [i \in DOMAIN f \ {id} |-> f[i]]

(* Mutant of Accepts: the begin time is not compared.                      *)
AcceptsId(id, begin) == id \in DOMAIN workerId_task

(* The id is in use, since the same time.                                  *)
Accepts(id, begin) == id \in DOMAIN workerId_task /\ workerId_task[id].begin = begin

(* doFinishTask.  The TaskId in the message is not looked at: the task is   *)
(* the one that the id has now.                                            *)
DoFinishTask(w) ==
    LET id == work[w].id
        held == Without(workerId_task, id)
        over == tasksCh_sendClosed /\ tasksCh = <<>> /\ held = NoIds
    IN /\ pc[w] = "finishing" /\ Serve
       /\ IF Accepts(id, work[w].begin)
          THEN /\ workerId_task' = held
               /\ completed' = completed \cup {workerId_task[id].task}
               /\ workerIdCh' = Append(workerIdCh, id)
               /\ tasksCh_sendClosed' = (tasksCh_sendClosed /\ ~over)
               /\ state' = IF ~over THEN state ELSE IF state = "MAP" THEN "SHUFFLE" ELSE "DONE"
          ELSE UNCHANGED <<workerId_task, completed, workerIdCh, tasksCh_sendClosed, state>>
       /\ pc' = [pc EXCEPT ![w] = "asking"]
       /\ work' = [work EXCEPT ![w] = NoWork]
       /\ UNCHANGED <<job, tasksCh, sent, requeue, fileVars, now, crashes>>

(* Mutant of Map2Reduce: as many ids as there were map tasks.              *)
Map2ReduceMapIds ==
    /\ state = "SHUFFLE" /\ Serve
    /\ state' = "REDUCE"
    /\ tasksCh' = <<>> /\ sent' = 0
    /\ workerIdCh' = AllIds(job.mMap) /\ workerId_task' = NoIds
    /\ completed' = {}
    /\ UNCHANGED <<job, tasksCh_sendClosed, requeue, pc, work, fileVars, now, crashes>>

(* map2Reduce and createReduceTask.                                        *)
Map2Reduce ==
    /\ state = "SHUFFLE" /\ Serve
    /\ state' = "REDUCE"
    /\ tasksCh' = <<>> /\ sent' = 0
    /\ workerIdCh' = AllIds(job.nReduce) /\ workerId_task' = NoIds
    /\ completed' = {}
    /\ UNCHANGED <<job, tasksCh_sendClosed, requeue, pc, work, fileVars, now, crashes>>

-----------------------------------------------------------------------------
(* catchTimeout: it gets c.mu only between two messages of run.            *)

(* Mutant of Overdue: the comparison is the wrong way round.               *)
OverdueBackwards(id) == workerId_task[id].begin > now

Overdue(id) == workerId_task[id].begin < now

CatchTimeout ==
    /\ lock = "free" /\ \E id \in DOMAIN workerId_task : Overdue(id)
    /\ lock' = "catchTimeout"
    /\ UNCHANGED <<job, state, queueVars, requeue, pc, work, fileVars, now, crashes>>

(* Mutant of Evict: the id keeps its task.                                 *)
EvictKeepsTask(id) ==
    /\ lock = "catchTimeout" /\ requeue = NoTask
    /\ id \in DOMAIN workerId_task /\ Overdue(id)
    /\ workerIdCh' = Append(workerIdCh, id)
    /\ requeue' = workerId_task[id].task
    /\ UNCHANGED <<job, state, tasksCh, sent, tasksCh_sendClosed, workerId_task, completed, lock,
                   pc, work, fileVars, now, crashes>>

Evict(id) ==
    /\ lock = "catchTimeout" /\ requeue = NoTask
    /\ id \in DOMAIN workerId_task /\ Overdue(id)
    /\ workerIdCh' = Append(workerIdCh, id)
    /\ workerId_task' = Without(workerId_task, id)
    /\ requeue' = workerId_task[id].task
    /\ UNCHANGED <<job, state, tasksCh, sent, tasksCh_sendClosed, completed, lock, pc, work,
                   fileVars, now, crashes>>

(* The send waits for room, with c.mu held.                                *)
Requeue ==
    /\ requeue # NoTask /\ Len(tasksCh) < Capacity
    /\ tasksCh' = Append(tasksCh, requeue)
    /\ requeue' = NoTask
    /\ UNCHANGED <<job, state, sent, tasksCh_sendClosed, workerIdCh, workerId_task, completed,
                   lock, pc, work, fileVars, now, crashes>>

EndCatch ==
    /\ lock = "catchTimeout" /\ requeue = NoTask
    /\ \A id \in DOMAIN workerId_task : ~Overdue(id)
    /\ lock' = "free"
    /\ UNCHANGED <<job, state, queueVars, requeue, pc, work, fileVars, now, crashes>>

-----------------------------------------------------------------------------
(* The workers                                                             *)

(* Whoever started the workers may start another one, as the crash test of  *)
(* main/test-mr.sh does.                                                   *)
Spawn(w) ==
    /\ pc[w] = "down" /\ state # "DONE"
    /\ pc' = [pc EXCEPT ![w] = "asking"]
    /\ work' = [work EXCEPT ![w] = NoWork]
    /\ UNCHANGED <<job, state, queueVars, lock, requeue, fileVars, now, crashes>>

Crash(w) ==
    /\ pc[w] \notin {"down", "asking"}
    /\ crashes > 0 /\ now < MaxNow
    /\ crashes' = crashes - 1
    /\ pc' = [pc EXCEPT ![w] = "down"]
    /\ work' = [work EXCEPT ![w] = NoWork]
    /\ UNCHANGED <<job, state, queueVars, lock, requeue, fileVars, now>>

(* doMap renames one intermediate file after the other into place.         *)
DoMap(w) ==
    LET done == work[w].step + 1 = job.nReduce IN
    /\ pc[w] = "mapping"
    /\ files' = files \cup {<<work[w].task, work[w].step>>}
    /\ work' = [work EXCEPT ![w].step = IF done THEN 0 ELSE @ + 1]
    /\ pc' = [pc EXCEPT ![w] = IF done THEN "finishing" ELSE @]
    /\ UNCHANGED <<job, state, queueVars, lock, requeue, out, reopened, now, crashes>>

Late(w) ==
    LET id == work[w].id IN
    ~(state = "REDUCE" /\ id \in DOMAIN workerId_task /\ workerId_task[id].begin = work[w].begin)

(* doReduce reads its files, gives up without a word if one is missing, and *)
(* creates its output, which empties a file that is there.                 *)
DoReduce(w) ==
    LET r == work[w].task IN
    /\ pc[w] = "reducing"
    /\ IF \A m \in Maps : <<m, r>> \in files
       THEN /\ out' = [out EXCEPT ![r] = {}]
            /\ reopened' = IF Late(w) THEN reopened \cup {r} ELSE reopened
            /\ pc' = [pc EXCEPT ![w] = "writing"]
       ELSE pc' = [pc EXCEPT ![w] = "asking"] /\ UNCHANGED <<out, reopened>>
    /\ UNCHANGED <<job, state, queueVars, lock, requeue, work, files, now, crashes>>

(* It writes in the file itself: the rename that follows is one onto itself. *)
Write(w) ==
    LET done == work[w].step + 1 = 2 IN
    /\ pc[w] = "writing"
    /\ out' = [out EXCEPT ![work[w].task] = @ \cup {work[w].step + 1}]
    /\ work' = [work EXCEPT ![w].step = IF done THEN 0 ELSE @ + 1]
    /\ pc' = [pc EXCEPT ![w] = IF done THEN "finishing" ELSE @]
    /\ UNCHANGED <<job, state, queueVars, lock, requeue, files, reopened, now, crashes>>

Tick ==
    /\ now < MaxNow
    /\ now' = now + 1
    /\ UNCHANGED <<job, state, queueVars, lock, requeue, pc, work, fileVars, crashes>>

-----------------------------------------------------------------------------
(* Specification                                                           *)

(* The goroutine of mapTaskBegin or reduceTaskBegin.                       *)
Begin == SendTask \/ SendClosed

(* What gives c.mu back to run.                                            *)
Unblock == Relock \/ Requeue \/ EndCatch \/ \E id \in DOMAIN workerId_task : Evict(id)

Attend(w) ==
    DoAskTask(w) \/ DoFinishTask(w) \/ DoMap(w) \/ DoReduce(w) \/ Write(w)

Next ==
    \/ Begin \/ Unblock \/ Map2Reduce \/ CatchTimeout \/ Tick
    \/ \E w \in Workers : Attend(w) \/ Spawn(w) \/ Crash(w)

Spec == Init /\ [][Next]_vars

(* Goroutines run on, workers go on, time passes, run gets to every message *)
(* in its channels, and a mutex that is unlocked again and again is not     *)
(* kept from a goroutine that waits for it.                                *)
FairSpec ==
    /\ Spec
    /\ WF_vars(Begin) /\ WF_vars(Unblock) /\ WF_vars(Tick)
    /\ SF_vars(Map2Reduce \/ CatchTimeout)
    /\ \A w \in Workers : SF_vars(Attend(w))

-----------------------------------------------------------------------------
(* Properties                                                              *)

Running == state \in {"MAP", "REDUCE"}

Contains(ch, x) == \E i \in 1..Len(ch) : ch[i] = x
InQueue(t) == Contains(tasksCh, t)
Free(id) == Contains(workerIdCh, id)
Held(t) == \E id \in DOMAIN workerId_task : workerId_task[id].task = t

(* Where a task is; the places exclude each other.                         *)
InOnePlace(t) ==
    /\ t >= sent \/ InQueue(t) \/ Held(t) \/ t = requeue \/ t \in completed
    /\ t >= sent => ~InQueue(t) /\ ~Held(t) /\ t # requeue /\ t \notin completed
    /\ InQueue(t) => ~Held(t) /\ t # requeue /\ t \notin completed
    /\ Held(t) => t # requeue /\ t \notin completed
    /\ t = requeue => t \notin completed

(* NoTaskLost: with workers that crash, come back late or are given up, a   *)
(* task is always in one place, once: not sent yet, in the channel, with    *)
(* one worker id, about to be sent again, or completed; and every id is     *)
(* free, once, or has one task.  So doAskTask never takes a task for which  *)
(* it has no id, and the send of an id to workerIdCh never waits for room.  *)
NoTaskLost ==
    /\ Running => \A t \in Tasks : InOnePlace(t)
    /\ IsInjective(tasksCh) /\ IsInjective(workerIdCh)
    /\ \A id, other \in DOMAIN workerId_task :
          workerId_task[id].task = workerId_task[other].task => id = other
    /\ \A id \in Tasks : id \in DOMAIN workerId_task <=> ~Free(id)

(* MapsBeforeReduces: no reduce task is handed out before every             *)
(* intermediate file is in place, although doFinishTask takes the word of   *)
(* whoever has the id and the begin time.                                  *)
MapsBeforeReduces == state = "REDUCE" => Maps \X Reduces \subseteq files

(* OutputsWritten: when the job is done every output file is complete,      *)
(* except for one that a worker opened whose task had been given to another *)
(* worker.                                                                 *)
OutputsWritten == state = "DONE" => \A r \in Reduces : out[r] = Parts \/ r \in reopened

Working(w) == pc[w] \in {"mapping", "reducing", "writing", "finishing"}
Accepted(w) ==
    LET id == work[w].id
    IN Working(w) /\ id \in DOMAIN workerId_task /\ workerId_task[id].begin = work[w].begin

(* The message that all is sent, a task to be sent again and tasks in hand  *)
(* exist only while a phase goes on.                                       *)
PhaseInv ==
    /\ tasksCh_sendClosed => Running /\ sent = NTasks
    /\ requeue # NoTask => Running /\ lock = "catchTimeout"
    /\ ~Running => tasksCh = <<>> /\ DOMAIN workerId_task = {}

(* Id and begin time tell the one worker that has the task from those that  *)
(* had the id before.                                                      *)
HandedInv ==
    /\ \A w \in Workers : Working(w) /\ ~Accepted(w) => work[w].begin < now
    /\ \A w \in Workers : Accepted(w) => workerId_task[work[w].id].task = work[w].task
    /\ \A w, v \in Workers : Accepted(w) /\ Accepted(v) /\ work[w].id = work[v].id => w = v

Mapped(m) == \A r \in Reduces : <<m, r>> \in files

(* What a worker has left in the intermediate files.                       *)
MapperInv(w) ==
    /\ pc[w] = "mapping" =>
          /\ work[w].task \in Maps /\ work[w].step \in Reduces
          /\ \A r \in 0..work[w].step - 1 : <<work[w].task, r>> \in files
          /\ Accepted(w) => state = "MAP"
    /\ pc[w] = "finishing" /\ state = "MAP" => Mapped(work[w].task)

FilesInv ==
    /\ \A w \in Workers : MapperInv(w)
    /\ state = "MAP" => \A m \in completed : Mapped(m)
    /\ state # "MAP" => \A m \in Maps : Mapped(m)

Written(r) == out[r] = Parts \/ r \in reopened

(* What a worker has left in the output files.                             *)
ReducerInv(w) ==
    /\ pc[w] \in {"reducing", "writing"} =>
          /\ state \in {"REDUCE", "DONE"} /\ work[w].task \in Reduces
          /\ work[w].step \in (IF pc[w] = "reducing" THEN {0} ELSE {0, 1})
    /\ pc[w] = "writing" /\ Accepted(w) =>
          1..work[w].step \subseteq out[work[w].task] \/ work[w].task \in reopened
    /\ pc[w] = "finishing" /\ Accepted(w) /\ state = "REDUCE" => Written(work[w].task)

OutInv ==
    /\ \A w \in Workers : ReducerInv(w)
    /\ state = "REDUCE" => \A r \in completed : Written(r)
    /\ state = "DONE" => \A r \in Reduces : Written(r)

(* MRInv: the inductive invariant of the proofs.  What is in the files      *)
(* follows from who may finish a task, and that from where the tasks are.   *)
MRInv == TypeOK /\ NoTaskLost /\ PhaseInv /\ HandedInv /\ FilesInv /\ OutInv

(* catchTimeout sends to a channel that is full, with the lock that its     *)
(* only receiver needs (coordinator.go:351).                               *)
Blocked == requeue # NoTask /\ Len(tasksCh) = Capacity

(* The last task of a phase was finished before the message that all tasks  *)
(* are sent (coordinator.go:172, 188), and no finish is left to see it.     *)
Overlooked == Running /\ completed = Tasks

(* JobEnds: the job is done at last, whatever workers crash, are slow or    *)
(* leave, and although catchTimeout gets the lock only between two          *)
(* messages; unless it comes to one of the two ends above, or at some time  *)
(* no worker is left and none is started any more.                         *)
JobEnds ==
    \/ <>(state = "DONE" \/ Blocked \/ Overlooked)
    \/ <>[](\A w \in Workers : pc[w] = "down")
===============================================================================
