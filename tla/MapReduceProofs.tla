---------------------------- MODULE MapReduceProofs ----------------------------
(***************************************************************************)
(* Proofs about MapReduce, for any workers, jobs of any size and any       *)
(* number of crashes: no task is lost, no reduce task is handed out before *)
(* its inputs are there, and the outputs are complete when the job is done. *)
(***************************************************************************)
EXTENDS MapReduce, TLAPS

USE MapReduceAssumption

-----------------------------------------------------------------------------
(* Channels                                                                *)

(* AppendAdds: a send adds one element to what is in the channel.          *)
LEMMA AppendAdds ==
    ASSUME NEW S, NEW s \in Seq(S), NEW x \in S
    PROVE /\ Append(s, x) \in Seq(S) /\ Len(Append(s, x)) = Len(s) + 1
          /\ \A t : Contains(Append(s, x), t) <=> Contains(s, t) \/ t = x
  <1>1. /\ Append(s, x) \in Seq(S) /\ Len(Append(s, x)) = Len(s) + 1
        /\ \A i \in 1..Len(s) : Append(s, x)[i] = s[i]
        /\ Append(s, x)[Len(s) + 1] = x /\ Len(s) \in Nat
    OBVIOUS
  <1>2. ASSUME NEW t PROVE Contains(Append(s, x), t) <=> Contains(s, t) \/ t = x
    BY <1>1 DEF Contains
  <1> QED BY Zenon, <1>1, <1>2

(* SendNew: a send of an element that is not in the channel leaves it       *)
(* without repetitions.                                                    *)
LEMMA SendNew ==
    ASSUME NEW S, NEW s \in Seq(S), NEW x \in S, IsInjective(s), ~Contains(s, x)
    PROVE IsInjective(Append(s, x))
  <1>1. /\ DOMAIN Append(s, x) = 1..(Len(s) + 1) /\ DOMAIN s = 1..Len(s) /\ Len(s) \in Nat
        /\ \A i \in 1..Len(s) : Append(s, x)[i] = s[i]
        /\ Append(s, x)[Len(s) + 1] = x
    OBVIOUS
  <1>2. SUFFICES ASSUME NEW a \in 1..Len(s) + 1, NEW b \in 1..Len(s) + 1,
                        Append(s, x)[a] = Append(s, x)[b]
                 PROVE a = b
    BY <1>1, Zenon DEF IsInjective
  <1>3. \A i \in 1..Len(s) : s[i] # x
    BY Zenon DEF Contains
  <1>4. \A i, j \in 1..Len(s) : s[i] = s[j] => i = j
    BY <1>1, Zenon DEF IsInjective
  <1>5. \A i \in 1..Len(s) + 1 : i \in 1..Len(s) \/ i = Len(s) + 1
    BY <1>1
  <1> QED BY Zenon, <1>1, <1>2, <1>3, <1>4, <1>5

(* TailRemoves: a receive takes the first element out of the channel, and   *)
(* if nothing is in it twice, that element is gone.                        *)
LEMMA TailRemoves ==
    ASSUME NEW S, NEW s \in Seq(S), s # <<>>, IsInjective(s)
    PROVE /\ Tail(s) \in Seq(S) /\ Head(s) \in S /\ Len(Tail(s)) <= Len(s)
          /\ IsInjective(Tail(s)) /\ Contains(s, Head(s))
          /\ \A t : Contains(Tail(s), t) <=> Contains(s, t) /\ t # Head(s)
  <1>1. /\ DOMAIN Tail(s) = 1..Len(s) - 1 /\ DOMAIN s = 1..Len(s) /\ Len(s) \in Nat \ {0}
        /\ Len(Tail(s)) = Len(s) - 1 /\ Head(s) = s[1] /\ Tail(s) \in Seq(S)
        /\ \A i \in 1..Len(s) - 1 : Tail(s)[i] = s[i + 1]
    OBVIOUS
  <1>2. \A i, j \in 1..Len(s) : s[i] = s[j] => i = j
    BY Zenon, <1>1 DEF IsInjective
  <1>3. IsInjective(Tail(s))
    BY <1>1, <1>2 DEF IsInjective
  <1>4. Contains(s, Head(s)) /\ Head(s) \in S
    BY <1>1 DEF Contains
  <1>5. ASSUME NEW t PROVE Contains(Tail(s), t) <=> Contains(s, t) /\ t # Head(s)
    <2>1. ASSUME Contains(Tail(s), t) PROVE Contains(s, t) /\ t # Head(s)
      <3>1. PICK i \in 1..Len(s) - 1 : s[i + 1] = t
        BY Zenon, <1>1, <2>1 DEF Contains
      <3>2. i + 1 \in 1..Len(s) /\ i + 1 # 1 /\ 1 \in 1..Len(s)
        BY <1>1
      <3> QED BY Zenon, <1>1, <1>2, <3>1, <3>2 DEF Contains
    <2>2. ASSUME Contains(s, t), t # Head(s) PROVE Contains(Tail(s), t)
      <3>1. PICK i \in 1..Len(s) : s[i] = t
        BY Zenon, <2>2 DEF Contains
      <3>2. i - 1 \in 1..Len(s) - 1 /\ Tail(s)[i - 1] = t
        BY <1>1, <2>2, <3>1
      <3> QED BY Zenon, <1>1, <3>2 DEF Contains
    <2> QED BY Zenon, <2>1, <2>2
  <1> QED BY <1>1, <1>3, <1>4, <1>5

(* AllFree: the channel of worker ids is made with every id in it once.    *)
LEMMA AllFree ==
    ASSUME NEW n \in Nat
    PROVE /\ AllIds(n) \in Seq(0..n - 1) /\ IsInjective(AllIds(n))
          /\ \A t \in 0..n - 1 : Contains(AllIds(n), t)
  <1>1. /\ AllIds(n) \in Seq(0..n - 1) /\ Len(AllIds(n)) = n /\ DOMAIN AllIds(n) = 1..n
        /\ \A i \in 1..n : AllIds(n)[i] = i - 1
    BY DEF AllIds
  <1>2. IsInjective(AllIds(n))
    BY <1>1 DEF IsInjective
  <1>3. ASSUME NEW t \in 0..n - 1 PROVE Contains(AllIds(n), t)
    <2>1. t + 1 \in 1..Len(AllIds(n)) /\ AllIds(n)[t + 1] = t
      BY <1>1
    <2> QED BY <2>1, Zenon DEF Contains
  <1> QED BY Zenon, <1>1, <1>2, <1>3

-----------------------------------------------------------------------------
(* Tasks and ids                                                           *)

(* Sizes: a phase has at least one task, and its channel some room.        *)
LEMMA Sizes ==
    ASSUME TypeOK
    PROVE /\ job.mMap \in Nat \ {0} /\ job.nReduce \in Nat \ {0} /\ NTasks \in Nat \ {0}
          /\ Capacity \in Nat \ {0} /\ Tasks \subseteq Nat /\ NoTask \notin Tasks
          /\ MaxNow \in Nat
  <1>1. job.mMap \in Nat \ {0} /\ job.nReduce \in Nat \ {0} /\ MaxNow \in Nat
    BY Zenon DEF TypeOK, MaxNow
  <1>2. NTasks \in Nat \ {0}
    BY Zenon, <1>1 DEF NTasks
  <1>3. Capacity \in Nat \ {0}
    <2>1. (job.mMap \div 4) \in Int /\ (job.nReduce \div 2) \in Int
      BY <1>1
    <2> QED BY <2>1 DEF Capacity
  <1> QED BY <1>1, <1>2, <1>3 DEF Tasks, NoTask

(* SamePhase: the tasks are the same until the reduce phase begins.        *)
LEMMA SamePhase ==
    ASSUME job' = job,
           \/ state' = state
           \/ state = "MAP" /\ state' = "SHUFFLE"
           \/ state = "REDUCE" /\ state' = "DONE"
    PROVE /\ NTasks' = NTasks /\ Tasks' = Tasks /\ Maps' = Maps /\ Reduces' = Reduces
          /\ Capacity' = Capacity /\ MaxNow' = MaxNow
  <1>1. (state \in {"MAP", "SHUFFLE"})' <=> state \in {"MAP", "SHUFFLE"}
    BY Zenon
  <1>2. NTasks' = NTasks /\ Maps' = Maps /\ Reduces' = Reduces
    BY Zenon, <1>1 DEF NTasks, Maps, Reduces
  <1>3. Capacity' = Capacity
    BY Zenon, <1>1 DEF Capacity
  <1> QED BY Zenon, <1>2, <1>3 DEF Tasks, MaxNow

-----------------------------------------------------------------------------
(* The two requests of the workers, by their outcomes                      *)

(* A worker asks and there is no task.                                     *)
Turned(w) ==
    /\ pc[w] = "asking" /\ lock = "run" /\ lock' = "free"
    /\ pc' = [pc EXCEPT ![w] = "down"]
    /\ UNCHANGED <<job, state, queueVars, requeue, work, fileVars, now, crashes>>

(* A worker asks and gets a task under a free id.                          *)
Given(w) ==
    LET id == Head(workerIdCh)
        t == Head(tasksCh) IN
    /\ pc[w] = "asking" /\ Running /\ lock = "run" /\ lock' = "free"
    /\ tasksCh # <<>> /\ workerIdCh # <<>>
    /\ tasksCh' = Tail(tasksCh) /\ workerIdCh' = Tail(workerIdCh)
    /\ workerId_task' = [i \in DOMAIN workerId_task \cup {id} |->
                           IF i = id THEN [task |-> t, begin |-> now] ELSE workerId_task[i]]
    /\ pc' = [pc EXCEPT ![w] = IF state = "MAP" THEN "mapping" ELSE "reducing"]
    /\ work' = [work EXCEPT ![w] = [task |-> t, id |-> id, begin |-> now, step |-> 0]]
    /\ UNCHANGED <<job, state, sent, tasksCh_sendClosed, completed, requeue, fileVars, now,
                   crashes>>

(* A worker that was given up reports a task.                              *)
Refused(w) ==
    /\ pc[w] = "finishing" /\ lock = "run" /\ lock' = "free"
    /\ pc' = [pc EXCEPT ![w] = "asking"]
    /\ work' = [work EXCEPT ![w] = NoWork]
    /\ UNCHANGED <<job, state, queueVars, requeue, fileVars, now, crashes>>

(* The worker that has a task reports it, which may end the phase.         *)
Taken(w) ==
    LET id == work[w].id IN
    /\ pc[w] = "finishing" /\ Accepted(w) /\ lock = "run" /\ lock' = "free"
    /\ workerId_task' = Without(workerId_task, id)
    /\ completed' = completed \cup {workerId_task[id].task}
    /\ workerIdCh' = Append(workerIdCh, id)
    /\ \/ state' = state /\ tasksCh_sendClosed' = tasksCh_sendClosed
       \/ /\ tasksCh_sendClosed /\ tasksCh = <<>> /\ DOMAIN workerId_task = {id}
          /\ tasksCh_sendClosed' = FALSE
          /\ \/ state = "MAP" /\ state' = "SHUFFLE"
             \/ state = "REDUCE" /\ state' = "DONE"
    /\ pc' = [pc EXCEPT ![w] = "asking"]
    /\ work' = [work EXCEPT ![w] = NoWork]
    /\ UNCHANGED <<job, tasksCh, sent, requeue, fileVars, now, crashes>>

(* FinishCases: doFinishTask takes the report or refuses it.               *)
LEMMA FinishCases ==
    ASSUME TypeOK, PhaseInv, NEW w \in Workers, DoFinishTask(w)
    PROVE Refused(w) \/ Taken(w)
  <1> DEFINE id == work[w].id
             held == Without(workerId_task, id)
             over == tasksCh_sendClosed /\ tasksCh = <<>> /\ held = NoIds
  <1>1. CASE ~Accepts(id, work[w].begin)
    BY Zenon, <1>1 DEF DoFinishTask, Serve, Refused, queueVars
  <1>2. CASE Accepts(id, work[w].begin)
    <2>1. /\ Accepted(w) /\ Running /\ id \in DOMAIN workerId_task
      BY Zenon, <1>2 DEF DoFinishTask, Accepted, Accepts, Working, PhaseInv
    <2>2. CASE over
      <3>1. DOMAIN held = {}
        BY Zenon, <2>2 DEF NoIds
      <3>2. DOMAIN workerId_task = {id}
        BY Zenon, <2>1, <3>1 DEF Without
      <3>3. /\ tasksCh_sendClosed /\ tasksCh = <<>> /\ tasksCh_sendClosed' = FALSE
            /\ state' = IF state = "MAP" THEN "SHUFFLE" ELSE "DONE"
        BY <1>2, <2>2, Zenon DEF DoFinishTask
      <3> QED BY <1>2, <2>1, <3>2, <3>3, Zenon DEF DoFinishTask, Serve, Taken, Running
    <2>3. CASE ~over
      <3>1. state' = state /\ tasksCh_sendClosed' = tasksCh_sendClosed
        BY Zenon, <1>2, <2>3 DEF DoFinishTask, TypeOK
      <3> QED BY Zenon, <1>2, <2>1, <3>1 DEF DoFinishTask, Serve, Taken
    <2> QED BY Zenon, <2>2, <2>3
  <1> QED BY Zenon, <1>1, <1>2

-----------------------------------------------------------------------------
(* Types                                                                   *)

(* SendTypes: the sends to tasksCh, and the message that all are sent.     *)
LEMMA SendTypes ==
    ASSUME TypeOK, SendTask \/ SendClosed \/ Requeue
    PROVE TypeOK'
  <1>1. job' = job /\ state' = state
    BY Zenon DEF SendTask, SendClosed, Requeue
  <1>2. /\ NTasks' = NTasks /\ Tasks' = Tasks /\ Reduces' = Reduces /\ Capacity' = Capacity
        /\ MaxNow' = MaxNow
        /\ NTasks \in Nat /\ Capacity \in Nat
    BY Zenon, <1>1, SamePhase, Sizes
  <1>3. CASE SendTask
    <2>1. sent \in Tasks /\ sent + 1 \in 0..NTasks
      BY <1>2, <1>3 DEF SendTask, TypeOK, Tasks
    <2>2. tasksCh' \in Seq(Tasks) /\ Len(tasksCh') <= Capacity
      BY <1>2, <1>3, <2>1, AppendAdds DEF SendTask, TypeOK
    <2> QED BY Zenon, <1>2, <1>3, <2>1, <2>2 DEF SendTask, TypeOK, fileVars
  <1>4. CASE SendClosed
    BY Zenon, <1>2, <1>4 DEF SendClosed, TypeOK, fileVars
  <1>5. CASE Requeue
    <2>1. tasksCh' \in Seq(Tasks) /\ Len(tasksCh') <= Capacity
      <3>1. requeue \in Tasks
        BY Zenon, <1>5 DEF Requeue, TypeOK
      <3> QED BY <1>2, <1>5, <3>1, AppendAdds DEF Requeue, TypeOK
    <2> QED BY Zenon, <1>2, <1>5, <2>1 DEF Requeue, TypeOK, fileVars
  <1> QED BY Zenon, <1>3, <1>4, <1>5

(* LockTypes: c.mu changes hands, or time passes.                          *)
LEMMA LockTypes ==
    ASSUME TypeOK, Relock \/ CatchTimeout \/ EndCatch \/ Tick
    PROVE TypeOK'
  <1>1. UNCHANGED <<job, state, queueVars, requeue, pc, work, fileVars, crashes>>
    BY Zenon DEF Relock, CatchTimeout, EndCatch, Tick
  <1>2. /\ NTasks' = NTasks /\ Tasks' = Tasks /\ Reduces' = Reduces /\ Capacity' = Capacity
        /\ MaxNow' = MaxNow
    BY Zenon, <1>1, SamePhase
  <1>3. now' \in 0..MaxNow /\ lock' \in {"run", "free", "catchTimeout"}
    BY Sizes DEF Relock, Lock, CatchTimeout, EndCatch, Tick, TypeOK
  <1> QED BY Zenon, <1>1, <1>2, <1>3 DEF TypeOK, queueVars, fileVars

(* EvictTypes: an id is taken back.                                        *)
LEMMA EvictTypes ==
    ASSUME TypeOK, NEW id \in DOMAIN workerId_task, Evict(id)
    PROVE TypeOK'
  <1>1. job' = job /\ state' = state
    BY Zenon DEF Evict
  <1>2. /\ NTasks' = NTasks /\ Tasks' = Tasks /\ Reduces' = Reduces /\ Capacity' = Capacity
        /\ MaxNow' = MaxNow
    BY Zenon, <1>1, SamePhase
  <1>3. workerIdCh' \in Seq(Tasks) /\ requeue' \in Tasks \cup {NoTask}
    BY Zenon, AppendAdds DEF Evict, TypeOK
  <1>4. /\ DOMAIN workerId_task' \subseteq Tasks
        /\ workerId_task' \in [DOMAIN workerId_task' -> [task : Tasks, begin : 0..MaxNow]]
    BY Zenon DEF Evict, Without, TypeOK
  <1> QED BY Zenon, <1>2, <1>3, <1>4 DEF Evict, TypeOK, fileVars

(* ShuffleTypes: map2Reduce.                                               *)
LEMMA ShuffleTypes ==
    ASSUME TypeOK, PhaseInv, Map2Reduce
    PROVE TypeOK'
  <1>1. /\ NTasks' = job.nReduce /\ Reduces' = Reduces /\ Tasks' = Reduces /\ MaxNow' = MaxNow
    BY Zenon DEF Map2Reduce, NTasks, Tasks, Reduces, MaxNow
  <1>2. job.nReduce \in Nat \ {0} /\ Capacity' \in Nat
    <2>1. job.nReduce \in Nat \ {0} /\ (job.nReduce \div 2) \in Int
      BY Sizes
    <2> QED BY <2>1 DEF Capacity, Map2Reduce
  <1>3. workerIdCh' \in Seq(Tasks')
    BY <1>1, <1>2, AllFree, Zenon DEF Map2Reduce, Reduces
  <1>4. /\ DOMAIN workerId_task' = {}
        /\ workerId_task' \in [DOMAIN workerId_task' -> [task : Tasks', begin : 0..MaxNow]]
    BY Zenon DEF Map2Reduce, NoIds
  <1>5. requeue' = NoTask
    BY Zenon DEF Map2Reduce, PhaseInv, Running
  <1>6. tasksCh' \in Seq(Tasks') /\ Len(tasksCh') <= Capacity' /\ sent' \in 0..NTasks'
    BY <1>1, <1>2 DEF Map2Reduce
  <1>7. completed' = {} /\ lock' = "free" /\ state' = "REDUCE"
    BY Zenon DEF Map2Reduce, Serve
  <1>8. UNCHANGED <<job, tasksCh_sendClosed, pc, work, fileVars, now, crashes>>
    BY Zenon DEF Map2Reduce
  <1> QED BY Zenon, <1>1, <1>3, <1>4, <1>5, <1>6, <1>7, <1>8 DEF TypeOK, fileVars, States

Works == [task : Nat \cup {NoTask}, id : Nat, begin : 0..MaxNow, step : Nat]

(* WorkTypes: the steps of a worker that leave the coordinator as it is,    *)
(* but for its lock.                                                       *)
LEMMA WorkTypes ==
    ASSUME TypeOK, FilesInv, OutInv, NEW w \in Workers,
           \/ Turned(w) \/ Refused(w) \/ Spawn(w) \/ Crash(w)
           \/ DoMap(w) \/ DoReduce(w) \/ Write(w)
    PROVE TypeOK'
  <1>1. UNCHANGED <<job, state, queueVars, requeue, now>>
    BY Zenon DEF Turned, Refused, Spawn, Crash, DoMap, DoReduce, Write
  <1>2. /\ NTasks' = NTasks /\ Tasks' = Tasks /\ Reduces' = Reduces /\ Capacity' = Capacity
        /\ MaxNow' = MaxNow
    BY Zenon, <1>1, SamePhase
  <1>3. lock' \in {"run", "free", "catchTimeout"}
    BY Zenon DEF Turned, Refused, Spawn, Crash, DoMap, DoReduce, Write, TypeOK
  <1>4. pc' \in [Workers -> {"down", "asking", "mapping", "reducing", "writing", "finishing"}]
    BY Zenon DEF Turned, Refused, Spawn, Crash, DoMap, DoReduce, Write, TypeOK
  <1>5. work' \in [Workers -> Works]
    <2>1. NoWork \in Works /\ work \in [Workers -> Works]
      BY Sizes DEF NoWork, NoTask, Works, TypeOK
    <2>2. CASE DoMap(w) \/ Write(w)
      <3>1. PICK n \in Nat : work' = [work EXCEPT ![w].step = n]
        <4>1. work[w].step \in Nat
          BY Zenon DEF TypeOK
        <4> QED BY <2>2, <4>1 DEF DoMap, Write
      <3> QED BY Zenon, <2>1, <3>1 DEF Works
    <2>3. CASE Refused(w) \/ Spawn(w) \/ Crash(w)
      BY Zenon, <2>1, <2>3 DEF Refused, Spawn, Crash
    <2>4. CASE Turned(w) \/ DoReduce(w)
      BY Zenon, <2>1, <2>4 DEF Turned, DoReduce
    <2> QED BY Zenon, <2>2, <2>3, <2>4
  <1>6. out' \in [Reduces -> SUBSET Parts]
    <2>1. CASE Write(w)
      <3>1. work[w].step \in {0, 1}
        BY Zenon, <2>1 DEF Write, OutInv, ReducerInv
      <3>2. work[w].step + 1 \in Parts
        BY <3>1 DEF Parts
      <3> QED BY <2>1, <3>2, Zenon DEF Write, TypeOK
    <2>2. CASE DoReduce(w)
      BY Zenon, <2>2 DEF DoReduce, TypeOK
    <2>3. CASE Turned(w) \/ Refused(w) \/ Spawn(w) \/ Crash(w) \/ DoMap(w)
      BY Zenon, <2>3 DEF Turned, Refused, Spawn, Crash, DoMap, fileVars, TypeOK
    <2> QED BY Zenon, <2>1, <2>2, <2>3
  <1>7. crashes' \in Nat
    BY DEF Turned, Refused, Spawn, Crash, DoMap, DoReduce, Write, TypeOK
  <1> QED BY <1>1, <1>2, <1>3, <1>4, <1>5, <1>6, <1>7, Zenon DEF TypeOK, queueVars, Works

(* GivenTypes: a task is handed out.                                       *)
LEMMA GivenTypes ==
    ASSUME TypeOK, NoTaskLost, NEW w \in Workers, Given(w)
    PROVE TypeOK'
  <1> DEFINE id == Head(workerIdCh)
             t == Head(tasksCh)
  <1>1. /\ NTasks' = NTasks /\ Tasks' = Tasks /\ Reduces' = Reduces /\ Capacity' = Capacity
        /\ MaxNow' = MaxNow
    BY Zenon, SamePhase DEF Given
  <1>2. /\ id \in Tasks /\ t \in Tasks /\ Tasks \subseteq Nat /\ Capacity \in Nat
        /\ workerIdCh' \in Seq(Tasks) /\ tasksCh' \in Seq(Tasks) /\ Len(tasksCh') <= Len(tasksCh)
    BY TailRemoves, Sizes, Zenon DEF Given, TypeOK, NoTaskLost
  <1>3. Len(tasksCh') <= Capacity
    BY <1>2 DEF TypeOK
  <1>4. /\ DOMAIN workerId_task' \subseteq Tasks
        /\ workerId_task' \in [DOMAIN workerId_task' -> [task : Tasks, begin : 0..MaxNow]]
    BY <1>2, Zenon DEF Given, TypeOK
  <1>5. work' \in [Workers -> Works]
    BY <1>2, Zenon DEF Given, TypeOK, Works
  <1>6. pc' \in [Workers -> {"down", "asking", "mapping", "reducing", "writing", "finishing"}]
    BY Zenon DEF Given, TypeOK
  <1> QED BY <1>1, <1>2, <1>3, <1>4, <1>5, <1>6, Zenon DEF Given, TypeOK, Works, fileVars

(* TakenTypes: a task is completed.                                        *)
LEMMA TakenTypes ==
    ASSUME TypeOK, NEW w \in Workers, Taken(w)
    PROVE TypeOK'
  <1> DEFINE id == work[w].id
  <1>1. /\ NTasks' = NTasks /\ Tasks' = Tasks /\ Reduces' = Reduces /\ Capacity' = Capacity
        /\ MaxNow' = MaxNow
    BY Zenon, SamePhase DEF Taken
  <1>2. id \in DOMAIN workerId_task /\ id \in Tasks /\ workerId_task[id].task \in Tasks
    BY Zenon DEF Taken, Accepted, TypeOK
  <1>3. workerIdCh' \in Seq(Tasks) /\ completed' \subseteq Tasks
    BY <1>2, AppendAdds DEF Taken, TypeOK
  <1>4. /\ DOMAIN workerId_task' \subseteq Tasks
        /\ workerId_task' \in [DOMAIN workerId_task' -> [task : Tasks, begin : 0..MaxNow]]
    BY Zenon DEF Taken, Without, TypeOK
  <1>5. work' \in [Workers -> Works]
    BY Sizes DEF Taken, NoWork, NoTask, TypeOK, Works
  <1>6. pc' \in [Workers -> {"down", "asking", "mapping", "reducing", "writing", "finishing"}]
    BY Zenon DEF Taken, TypeOK
  <1>7. state' \in States /\ tasksCh_sendClosed' \in BOOLEAN
    BY Zenon DEF Taken, TypeOK, States
  <1> QED BY Zenon, <1>1, <1>3, <1>4, <1>5, <1>6, <1>7 DEF Taken, TypeOK, Works, fileVars

-----------------------------------------------------------------------------
(* Where the tasks and the ids are                                         *)

(* QueuesKept: steps that leave tasks and ids where they are.              *)
LEMMA QueuesKept ==
    ASSUME NoTaskLost,
           UNCHANGED <<job, state, tasksCh, sent, workerIdCh, workerId_task, completed, requeue>>
    PROVE NoTaskLost'
  <1>1. Tasks' = Tasks /\ (Running' <=> Running)
    BY Zenon, SamePhase DEF Running
  <1>2. ASSUME NEW t PROVE (Held(t)' <=> Held(t)) /\ (InQueue(t)' <=> InQueue(t))
                           /\ (Free(t)' <=> Free(t)) /\ (InOnePlace(t)' <=> InOnePlace(t))
    BY Zenon DEF Held, InQueue, Free, InOnePlace
  <1> QED BY Zenon, <1>1, <1>2 DEF NoTaskLost

(* SendLosesNothing: the goroutine of mapTaskBegin sends the next task.    *)
LEMMA SendLosesNothing ==
    ASSUME TypeOK, NoTaskLost, SendTask
    PROVE NoTaskLost'
  <1>1. Tasks' = Tasks /\ Running /\ Running' /\ NTasks \in Nat /\ Tasks \subseteq Nat
    BY Zenon, SamePhase, Sizes DEF SendTask, Running
  <1>2. sent \in Tasks /\ sent \in Nat
    BY <1>1 DEF SendTask, TypeOK, Tasks
  <1>3. ~InQueue(sent) /\ ~Held(sent) /\ sent # requeue /\ sent \notin completed
    BY <1>1, <1>2 DEF NoTaskLost, InOnePlace
  <1>4. /\ \A t : InQueue(t)' <=> InQueue(t) \/ t = sent
        /\ IsInjective(tasksCh')
    BY <1>2, <1>3, AppendAdds, SendNew DEF SendTask, TypeOK, InQueue, NoTaskLost
  <1>5. \A t : (Held(t)' <=> Held(t)) /\ (Free(t)' <=> Free(t))
    BY Zenon DEF SendTask, Held, Free
  <1>6. ASSUME NEW t \in Tasks PROVE InOnePlace(t)'
    <2>1. InOnePlace(t) /\ t \in Nat
      BY Zenon, <1>1 DEF NoTaskLost
    <2>2. sent' = sent + 1 /\ requeue' = requeue /\ completed' = completed
      BY Zenon DEF SendTask
    <2>3. t >= sent' <=> t >= sent /\ t # sent
      BY <1>2, <2>1, <2>2
    <2> QED BY Zenon, <1>3, <1>4, <1>5, <2>1, <2>2, <2>3 DEF InOnePlace
  <1>7. UNCHANGED <<workerIdCh, workerId_task>>
    BY Zenon DEF SendTask
  <1> QED BY Zenon, <1>1, <1>4, <1>5, <1>6, <1>7 DEF NoTaskLost

(* RequeueLosesNothing: catchTimeout sends a task again.                   *)
LEMMA RequeueLosesNothing ==
    ASSUME TypeOK, NoTaskLost, PhaseInv, Requeue
    PROVE NoTaskLost'
  <1>1. Tasks' = Tasks /\ Running /\ Running' /\ requeue \in Tasks /\ NoTask \notin Tasks
    BY Zenon, SamePhase, Sizes DEF Requeue, PhaseInv, Running, TypeOK
  <1>2. ~InQueue(requeue) /\ ~Held(requeue) /\ ~(requeue >= sent) /\ requeue \notin completed
    BY Zenon, <1>1 DEF NoTaskLost, InOnePlace
  <1>3. /\ \A t : InQueue(t)' <=> InQueue(t) \/ t = requeue
        /\ IsInjective(tasksCh')
    BY Zenon, <1>1, <1>2, AppendAdds, SendNew DEF Requeue, TypeOK, InQueue, NoTaskLost
  <1>4. \A t : (Held(t)' <=> Held(t)) /\ (Free(t)' <=> Free(t))
    BY Zenon DEF Requeue, Held, Free
  <1>5. ASSUME NEW t \in Tasks PROVE InOnePlace(t)'
    <2>1. InOnePlace(t) /\ t # requeue'
      BY Zenon, <1>1 DEF NoTaskLost, Requeue
    <2>2. sent' = sent /\ completed' = completed
      BY Zenon DEF Requeue
    <2> QED BY Zenon, <1>2, <1>3, <1>4, <2>1, <2>2 DEF InOnePlace
  <1>6. UNCHANGED <<workerIdCh, workerId_task>>
    BY Zenon DEF Requeue
  <1> QED BY Zenon, <1>1, <1>3, <1>4, <1>5, <1>6 DEF NoTaskLost

(* IdReturned: an id that is put back is free, and its task is with nobody. *)
LEMMA IdReturned ==
    ASSUME TypeOK, NoTaskLost, NEW id \in DOMAIN workerId_task,
           workerIdCh' = Append(workerIdCh, id), workerId_task' = Without(workerId_task, id)
    PROVE /\ IsInjective(workerIdCh')
          /\ \A i, other \in DOMAIN workerId_task' :
                workerId_task'[i].task = workerId_task'[other].task => i = other
          /\ \A i \in Tasks : i \in DOMAIN workerId_task' <=> ~Free(i)'
          /\ \A t : Held(t)' <=> Held(t) /\ t # workerId_task[id].task
  <1>1. id \in Tasks /\ ~Contains(workerIdCh, id)
    BY Zenon DEF NoTaskLost, Free, TypeOK
  <1>2. /\ \A t : Free(t)' <=> Free(t) \/ t = id
        /\ IsInjective(workerIdCh')
    BY <1>1, AppendAdds, SendNew DEF TypeOK, Free, NoTaskLost
  <1>3. /\ DOMAIN workerId_task' = DOMAIN workerId_task \ {id}
        /\ \A i \in DOMAIN workerId_task' : workerId_task'[i] = workerId_task[i]
    BY Zenon DEF Without
  <1>4. \A i \in Tasks : i \in DOMAIN workerId_task' <=> ~Free(i)'
    BY Zenon, <1>2, <1>3 DEF NoTaskLost
  <1>5. \A i, other \in DOMAIN workerId_task' :
            workerId_task'[i].task = workerId_task'[other].task => i = other
    BY <1>3 DEF NoTaskLost
  <1>6. ASSUME NEW t PROVE Held(t)' <=> Held(t) /\ t # workerId_task[id].task
    <2>1. \A i \in DOMAIN workerId_task : workerId_task[i].task = workerId_task[id].task => i = id
      BY Zenon DEF NoTaskLost
    <2> QED BY Zenon, <1>3, <2>1 DEF Held
  <1> QED BY Zenon, <1>2, <1>4, <1>5, <1>6

(* EvictLosesNothing: catchTimeout takes a task back.                      *)
LEMMA EvictLosesNothing ==
    ASSUME TypeOK, NoTaskLost, PhaseInv, NEW id \in DOMAIN workerId_task, Evict(id)
    PROVE NoTaskLost'
  <1>1. Tasks' = Tasks /\ Running /\ Running' /\ NoTask \notin Tasks
    BY Zenon, SamePhase, Sizes DEF Evict, PhaseInv, Running
  <1>2. /\ IsInjective(workerIdCh')
        /\ \A i, other \in DOMAIN workerId_task' :
              workerId_task'[i].task = workerId_task'[other].task => i = other
        /\ \A i \in Tasks : i \in DOMAIN workerId_task' <=> ~Free(i)'
        /\ \A t : Held(t)' <=> Held(t) /\ t # workerId_task[id].task
    BY Zenon, IdReturned DEF Evict
  <1>3. ASSUME NEW t \in Tasks PROVE InOnePlace(t)'
    <2>1. InOnePlace(t) /\ t # requeue
      BY Zenon, <1>1 DEF NoTaskLost, Evict
    <2>2. sent' = sent /\ completed' = completed /\ requeue' = workerId_task[id].task
      BY Zenon DEF Evict
    <2>3. InQueue(t)' <=> InQueue(t)
      BY Zenon DEF Evict, InQueue
    <2>4. Held(workerId_task[id].task)
      BY Zenon DEF Held
    <2> QED BY Zenon, <1>2, <2>1, <2>2, <2>3, <2>4 DEF InOnePlace
  <1> QED BY Zenon, <1>1, <1>2, <1>3 DEF NoTaskLost, Evict

(* TakenLosesNothing: doFinishTask completes a task.                       *)
LEMMA TakenLosesNothing ==
    ASSUME TypeOK, NoTaskLost, PhaseInv, NEW w \in Workers, Taken(w)
    PROVE NoTaskLost'
  <1> DEFINE id == work[w].id
  <1>1. id \in DOMAIN workerId_task /\ Tasks' = Tasks /\ Running
    BY Zenon, SamePhase DEF Taken, Accepted, PhaseInv
  <1>2. /\ IsInjective(workerIdCh')
        /\ \A i, other \in DOMAIN workerId_task' :
              workerId_task'[i].task = workerId_task'[other].task => i = other
        /\ \A i \in Tasks : i \in DOMAIN workerId_task' <=> ~Free(i)'
        /\ \A t : Held(t)' <=> Held(t) /\ t # workerId_task[id].task
    BY Zenon, <1>1, IdReturned DEF Taken
  <1>3. ASSUME NEW t \in Tasks PROVE InOnePlace(t)'
    <2>1. InOnePlace(t)
      BY Zenon, <1>1 DEF NoTaskLost
    <2>2. /\ sent' = sent /\ requeue' = requeue
          /\ completed' = completed \cup {workerId_task[id].task}
      BY Zenon DEF Taken
    <2>3. InQueue(t)' <=> InQueue(t)
      BY Zenon DEF Taken, InQueue
    <2>4. Held(workerId_task[id].task)
      BY Zenon, <1>1 DEF Held
    <2> QED BY Zenon, <1>2, <2>1, <2>2, <2>3, <2>4 DEF InOnePlace
  <1>4. tasksCh' = tasksCh
    BY Zenon DEF Taken
  <1> QED BY Zenon, <1>1, <1>2, <1>3, <1>4 DEF NoTaskLost

(* GivenLosesNothing: doAskTask hands out a task.                          *)
LEMMA GivenLosesNothing ==
    ASSUME TypeOK, NoTaskLost, NEW w \in Workers, Given(w)
    PROVE NoTaskLost'
  <1> DEFINE id == Head(workerIdCh)
             t0 == Head(tasksCh)
  <1>1. Tasks' = Tasks /\ Running /\ Running'
    BY Zenon, SamePhase DEF Given, Running
  <1>2. /\ id \in Tasks /\ Free(id) /\ IsInjective(workerIdCh')
        /\ \A i : Free(i)' <=> Free(i) /\ i # id
    BY Zenon, TailRemoves DEF Given, TypeOK, NoTaskLost, Free
  <1>3. /\ t0 \in Tasks /\ InQueue(t0) /\ IsInjective(tasksCh')
        /\ \A t : InQueue(t)' <=> InQueue(t) /\ t # t0
    BY Zenon, TailRemoves DEF Given, TypeOK, NoTaskLost, InQueue
  <1>4. /\ id \notin DOMAIN workerId_task
        /\ ~Held(t0) /\ t0 # requeue /\ t0 \notin completed /\ ~(t0 >= sent)
    BY Zenon, <1>1, <1>2, <1>3 DEF NoTaskLost, InOnePlace
  <1>5. /\ DOMAIN workerId_task' = DOMAIN workerId_task \cup {id}
        /\ \A i \in DOMAIN workerId_task : workerId_task'[i] = workerId_task[i]
        /\ workerId_task'[id].task = t0
    BY <1>4, Zenon DEF Given
  <1>6. \A t : Held(t)' <=> Held(t) \/ t = t0
    BY Zenon, <1>5 DEF Held
  <1>7. \A i, other \in DOMAIN workerId_task' :
            workerId_task'[i].task = workerId_task'[other].task => i = other
    BY Zenon, <1>4, <1>5 DEF NoTaskLost, Held
  <1>8. \A i \in Tasks : i \in DOMAIN workerId_task' <=> ~Free(i)'
    BY Zenon, <1>2, <1>5 DEF NoTaskLost
  <1>9. ASSUME NEW t \in Tasks PROVE InOnePlace(t)'
    <2>1. InOnePlace(t)
      BY Zenon, <1>1 DEF NoTaskLost
    <2>2. sent' = sent /\ requeue' = requeue /\ completed' = completed
      BY Zenon DEF Given
    <2> QED BY Zenon, <1>3, <1>4, <1>6, <2>1, <2>2 DEF InOnePlace
  <1> QED BY Zenon, <1>1, <1>2, <1>3, <1>7, <1>8, <1>9 DEF NoTaskLost

(* ShuffleLosesNothing: map2Reduce starts with all tasks and all ids.      *)
LEMMA ShuffleLosesNothing ==
    ASSUME TypeOK, PhaseInv, Map2Reduce
    PROVE NoTaskLost'
  <1>1. /\ Tasks' = 0..job.nReduce - 1 /\ job.nReduce \in Nat \ {0}
        /\ workerIdCh' = AllIds(job.nReduce)
    BY Zenon, Sizes DEF Map2Reduce, NTasks, Tasks
  <1>2. IsInjective(workerIdCh') /\ \A t \in Tasks' : Free(t)'
    BY <1>1, AllFree, Zenon DEF Free
  <1>3. DOMAIN workerId_task' = {} /\ tasksCh' = <<>> /\ sent' = 0 /\ completed' = {}
    BY Zenon DEF Map2Reduce, NoIds
  <1>4. requeue' = NoTask
    BY Zenon DEF Map2Reduce, PhaseInv, Running
  <1>5. IsInjective(tasksCh') /\ \A t : ~InQueue(t)' /\ ~Held(t)'
    BY <1>3 DEF InQueue, Contains, Held, IsInjective
  <1>6. ASSUME NEW t \in Tasks' PROVE InOnePlace(t)'
    <2>1. t >= sent' /\ t # requeue'
      BY <1>1, <1>3, <1>4 DEF NoTask
    <2> QED BY Zenon, <1>3, <1>5, <2>1 DEF InOnePlace
  <1> QED BY Zenon, <1>2, <1>3, <1>5, <1>6 DEF NoTaskLost

-----------------------------------------------------------------------------
(* The phases                                                              *)

(* CoordinatorPhase: the coordinator's own steps.                          *)
LEMMA CoordinatorPhase ==
    ASSUME TypeOK, PhaseInv,
           \/ SendTask \/ SendClosed \/ Requeue \/ Relock \/ CatchTimeout \/ EndCatch \/ Tick
           \/ \E id \in DOMAIN workerId_task : Evict(id)
    PROVE PhaseInv'
  <1>1. job' = job /\ state' = state
    BY Zenon DEF SendTask, SendClosed, Requeue, Relock, CatchTimeout, EndCatch, Tick, Evict
  <1>2. NTasks' = NTasks /\ (Running' <=> Running) /\ NTasks \in Nat
    BY Zenon, <1>1, SamePhase, Sizes DEF Running
  <1>3. CASE SendTask
    BY <1>2, <1>3 DEF SendTask, PhaseInv, Running, TypeOK
  <1>4. CASE SendClosed
    BY Zenon, <1>2, <1>4 DEF SendClosed, PhaseInv, Running
  <1>5. CASE Requeue
    BY Zenon, <1>2, <1>5 DEF Requeue, PhaseInv
  <1>6. CASE Relock \/ CatchTimeout \/ EndCatch \/ Tick
    BY <1>2, <1>6 DEF Relock, Lock, CatchTimeout, EndCatch, Tick, PhaseInv, queueVars
  <1>7. CASE \E id \in DOMAIN workerId_task : Evict(id)
    <2>1. PICK id \in DOMAIN workerId_task : Evict(id)
      BY Zenon, <1>7
    <2>2. Running
      BY Zenon, <2>1 DEF PhaseInv
    <2> QED BY Zenon, <1>2, <2>1, <2>2 DEF Evict, PhaseInv
  <1> QED BY Zenon, <1>3, <1>4, <1>5, <1>6, <1>7

(* ShufflePhase: map2Reduce.                                               *)
LEMMA ShufflePhase ==
    ASSUME PhaseInv, Map2Reduce
    PROVE PhaseInv'
  BY Zenon DEF Map2Reduce, PhaseInv, Running

(* WorkerPhase: the steps of a worker.                                     *)
LEMMA WorkerPhase ==
    ASSUME TypeOK, PhaseInv, NEW w \in Workers,
           \/ Turned(w) \/ Refused(w) \/ Spawn(w) \/ Crash(w)
           \/ DoMap(w) \/ DoReduce(w) \/ Write(w) \/ Given(w) \/ Taken(w)
    PROVE PhaseInv'
  <1>1. CASE \/ Turned(w) \/ Refused(w) \/ Spawn(w) \/ Crash(w)
             \/ DoMap(w) \/ DoReduce(w) \/ Write(w)
    <2>1. /\ UNCHANGED <<job, state, queueVars, requeue>>
          /\ lock' = lock \/ lock = "run"
      BY Zenon, <1>1 DEF Turned, Refused, Spawn, Crash, DoMap, DoReduce, Write
    <2>2. NTasks' = NTasks /\ (Running' <=> Running)
      BY Zenon, <2>1, SamePhase DEF Running
    <2> QED BY Zenon, <2>1, <2>2 DEF PhaseInv, queueVars
  <1>2. CASE Given(w)
    <2>1. NTasks' = NTasks /\ Running /\ Running'
      BY <1>2, SamePhase, Zenon DEF Given, Running
    <2> QED BY <1>2, <2>1, Zenon DEF Given, PhaseInv
  <1>3. CASE Taken(w)
    <2>1. NTasks' = NTasks /\ Running /\ requeue' = NoTask
      BY <1>3, SamePhase, Zenon DEF Taken, PhaseInv, Accepted
    <2>2. CASE state' = state /\ tasksCh_sendClosed' = tasksCh_sendClosed
      BY <1>3, <2>1, <2>2, Zenon DEF Taken, PhaseInv, Running
    <2>3. CASE /\ tasksCh = <<>> /\ DOMAIN workerId_task = {work[w].id}
               /\ tasksCh_sendClosed' = FALSE
      <3>1. DOMAIN workerId_task' = {} /\ tasksCh' = <<>>
        BY <1>3, <2>3, Zenon DEF Taken, Without
      <3> QED BY Zenon, <2>1, <2>3, <3>1 DEF PhaseInv
    <2> QED BY <1>3, <2>2, <2>3, Zenon DEF Taken
  <1> QED BY Zenon, <1>1, <1>2, <1>3

-----------------------------------------------------------------------------
(* Who has a task                                                          *)

(* What w works on is what it worked on before.                            *)
SameWork(w) ==
    Working(w)' => /\ Working(w) /\ work'[w].task = work[w].task
                   /\ work'[w].id = work[w].id /\ work'[w].begin = work[w].begin

(* WorkerKeeps: a worker goes on with its task or leaves it, and the others *)
(* do nothing.                                                             *)
LEMMA WorkerKeeps ==
    ASSUME TypeOK, NEW w \in Workers,
           \/ Turned(w) \/ Refused(w) \/ Spawn(w) \/ Crash(w)
           \/ DoMap(w) \/ DoReduce(w) \/ Write(w)
    PROVE /\ \A v \in Workers : SameWork(v)
          /\ \A v \in Workers \ {w} : pc'[v] = pc[v] /\ work'[v] = work[v]
          /\ UNCHANGED <<job, state, queueVars, now>>
  <1>1. UNCHANGED <<job, state, queueVars, now>>
    BY Zenon DEF Turned, Refused, Spawn, Crash, DoMap, DoReduce, Write
  <1>2. \A v \in Workers \ {w} : pc'[v] = pc[v] /\ work'[v] = work[v]
    BY Zenon DEF Turned, Refused, Spawn, Crash, DoMap, DoReduce, Write, TypeOK
  <1>3. \A v \in Workers \ {w} : SameWork(v)
    BY Zenon, <1>2 DEF SameWork, Working
  <1>4. SameWork(w)
    <2>1. CASE Turned(w) \/ Refused(w) \/ Spawn(w) \/ Crash(w)
      BY Zenon, <2>1 DEF Turned, Refused, Spawn, Crash, SameWork, Working, TypeOK
    <2>2. CASE DoMap(w) \/ Write(w)
      <3>1. PICK n : work' = [work EXCEPT ![w].step = n]
        BY Zenon, <2>2 DEF DoMap, Write
      <3>2. /\ work'[w].task = work[w].task /\ work'[w].id = work[w].id
            /\ work'[w].begin = work[w].begin
        BY Zenon, <3>1 DEF TypeOK
      <3> QED BY Zenon, <2>2, <3>2 DEF DoMap, Write, SameWork, Working
    <2>3. CASE DoReduce(w)
      BY Zenon, <2>3 DEF DoReduce, SameWork, Working
    <2> QED BY Zenon, <2>1, <2>2, <2>3
  <1> QED BY <1>1, <1>2, <1>3, <1>4, Zenon

(* KeptHanded: so nobody's claim to a task changes.                        *)
LEMMA KeptHanded ==
    ASSUME HandedInv, \A v \in Workers : SameWork(v), workerId_task' = workerId_task, now' = now
    PROVE HandedInv' /\ \A v \in Workers : Accepted(v)' => Accepted(v)
  <1>1. ASSUME NEW v \in Workers, Working(v)'
        PROVE Working(v) /\ (Accepted(v)' <=> Accepted(v))
    BY Zenon, <1>1 DEF SameWork, Accepted
  <1>2. ASSUME NEW v \in Workers PROVE Accepted(v)' => Accepted(v) /\ Working(v)'
    BY Zenon, <1>1 DEF Accepted
  <1>3. ASSUME NEW v \in Workers, Working(v)', ~Accepted(v)' PROVE work'[v].begin < now'
    BY Zenon, <1>1, <1>3 DEF HandedInv, SameWork
  <1>4. ASSUME NEW v \in Workers, Accepted(v)'
        PROVE workerId_task'[work'[v].id].task = work'[v].task
    BY Zenon, <1>2, <1>4 DEF HandedInv, SameWork
  <1>5. ASSUME NEW v \in Workers, NEW u \in Workers, Accepted(v)', Accepted(u)',
               work'[v].id = work'[u].id
        PROVE v = u
    BY Zenon, <1>2, <1>5 DEF HandedInv, SameWork
  <1>6. HandedInv'
    BY Zenon, <1>3, <1>4, <1>5 DEF HandedInv
  <1> QED BY Zenon, <1>2, <1>6

(* EvictHanded: a worker that is given up began in an earlier interval.    *)
LEMMA EvictHanded ==
    ASSUME TypeOK, HandedInv, NEW id \in DOMAIN workerId_task, Evict(id)
    PROVE HandedInv' /\ \A v \in Workers : Accepted(v)' => Accepted(v)
  <1>1. /\ DOMAIN workerId_task' = DOMAIN workerId_task \ {id}
        /\ \A i \in DOMAIN workerId_task' : workerId_task'[i] = workerId_task[i]
        /\ UNCHANGED <<pc, work, now>>
    BY Zenon DEF Evict, Without
  <1>2. ASSUME NEW v \in Workers
        PROVE (Working(v)' <=> Working(v)) /\ (Accepted(v)' <=> Accepted(v) /\ work[v].id # id)
    BY Zenon, <1>1 DEF Accepted, Working
  <1>3. ASSUME NEW v \in Workers, Working(v)', ~Accepted(v)' PROVE work'[v].begin < now'
    <2>1. CASE Accepted(v)
      <3>1. work[v].begin = workerId_task[id].begin
        BY Zenon, <1>2, <1>3, <2>1 DEF Accepted
      <3> QED BY Zenon, <1>1, <3>1 DEF Evict, Overdue
    <2>2. CASE ~Accepted(v)
      BY Zenon, <1>1, <1>2, <1>3, <2>2 DEF HandedInv
    <2> QED BY Zenon, <2>1, <2>2
  <1>4. ASSUME NEW v \in Workers, Accepted(v)'
        PROVE workerId_task'[work'[v].id].task = work'[v].task
    BY Zenon, <1>1, <1>2, <1>4 DEF HandedInv, Accepted
  <1>5. HandedInv'
    BY Zenon, <1>1, <1>2, <1>3, <1>4 DEF HandedInv
  <1> QED BY Zenon, <1>2, <1>5

(* TickHanded: time passes.                                                *)
LEMMA TickHanded ==
    ASSUME TypeOK, HandedInv, Tick
    PROVE HandedInv' /\ \A v \in Workers : Accepted(v)' => Accepted(v)
  <1>1. UNCHANGED <<pc, work, workerId_task>> /\ now' = now + 1 /\ now \in Nat
    BY DEF Tick, queueVars, TypeOK
  <1>2. ASSUME NEW v \in Workers
        PROVE /\ (Working(v)' <=> Working(v)) /\ (Accepted(v)' <=> Accepted(v))
              /\ work[v].begin \in Nat
    BY <1>1 DEF Accepted, Working, TypeOK
  <1>3. ASSUME NEW v \in Workers, Working(v)', ~Accepted(v)' PROVE work'[v].begin < now'
    <2>1. work[v].begin < now
      BY Zenon, <1>2, <1>3 DEF HandedInv
    <2> QED BY <1>1, <1>2, <2>1
  <1>4. HandedInv'
    BY Zenon, <1>1, <1>2, <1>3 DEF HandedInv
  <1> QED BY Zenon, <1>2, <1>4

(* ShuffleHanded: when the phase changes nobody has a task.                *)
LEMMA ShuffleHanded ==
    ASSUME HandedInv, PhaseInv, Map2Reduce
    PROVE HandedInv' /\ \A v \in Workers : ~Accepted(v)'
  <1>1. DOMAIN workerId_task = {} /\ DOMAIN workerId_task' = {} /\ UNCHANGED <<pc, work, now>>
    BY Zenon DEF Map2Reduce, PhaseInv, Running, NoIds
  <1>2. \A v \in Workers : ~Accepted(v) /\ ~Accepted(v)' /\ (Working(v)' <=> Working(v))
    BY Zenon, <1>1 DEF Accepted, Working
  <1> QED BY Zenon, <1>1, <1>2 DEF HandedInv

(* TakenHanded: no other worker has the id whose task is completed.        *)
LEMMA TakenHanded ==
    ASSUME TypeOK, HandedInv, NEW w \in Workers, Taken(w)
    PROVE /\ HandedInv' /\ ~Working(w)'
          /\ \A v \in Workers : Accepted(v)' => Accepted(v) /\ v # w
          /\ \A v \in Workers \ {w} : pc'[v] = pc[v] /\ work'[v] = work[v]
  <1> DEFINE id == work[w].id
  <1>1. /\ DOMAIN workerId_task' = DOMAIN workerId_task \ {id}
        /\ \A i \in DOMAIN workerId_task' : workerId_task'[i] = workerId_task[i]
        /\ now' = now /\ Accepted(w)
    BY Zenon DEF Taken, Without
  <1>2. /\ ~Working(w)' /\ ~Accepted(w)'
        /\ \A v \in Workers \ {w} : pc'[v] = pc[v] /\ work'[v] = work[v]
    BY Zenon DEF Taken, Working, Accepted, TypeOK
  <1>3. ASSUME NEW v \in Workers \ {w}
        PROVE (Working(v)' <=> Working(v)) /\ (Accepted(v)' <=> Accepted(v))
    <2>1. Working(v)' <=> Working(v)
      BY Zenon, <1>2 DEF Working
    <2>2. Accepted(v) => work[v].id # id
      BY Zenon, <1>1 DEF HandedInv
    <2> QED BY <1>1, <1>2, <2>1, <2>2 DEF Accepted
  <1>4. ASSUME NEW v \in Workers, Accepted(v)'
        PROVE workerId_task'[work'[v].id].task = work'[v].task
    <2>1. v # w /\ Accepted(v)
      BY Zenon, <1>2, <1>3, <1>4
    <2> QED BY <1>1, <1>2, <1>4, <2>1 DEF HandedInv, Accepted
  <1>5. HandedInv'
    BY <1>1, <1>2, <1>3, <1>4 DEF HandedInv
  <1> QED BY Zenon, <1>2, <1>3, <1>5

(* GivenHanded: the worker that is given a task is the only one with its id *)
(* and begin time: a worker that had the id before began earlier.          *)
LEMMA GivenHanded ==
    ASSUME TypeOK, NoTaskLost, HandedInv, NEW w \in Workers, Given(w)
    PROVE /\ HandedInv'
          /\ \A v \in Workers : Accepted(v)' => v = w \/ Accepted(v)
          /\ \A v \in Workers \ {w} : pc'[v] = pc[v] /\ work'[v] = work[v]
  <1> DEFINE id == Head(workerIdCh)
  <1>1. id \notin DOMAIN workerId_task
    <2>1. id \in Tasks /\ Free(id)
      BY Zenon, TailRemoves DEF Given, TypeOK, NoTaskLost, Free
    <2> QED BY Zenon, <2>1 DEF NoTaskLost
  <1>2. /\ DOMAIN workerId_task' = DOMAIN workerId_task \cup {id}
        /\ \A i \in DOMAIN workerId_task : workerId_task'[i] = workerId_task[i]
        /\ workerId_task'[id] = [task |-> Head(tasksCh), begin |-> now]
        /\ now' = now /\ now \in Nat
    BY <1>1 DEF Given, TypeOK
  <1>3. /\ Working(w)' /\ work'[w].id = id /\ work'[w].begin = now
        /\ work'[w].task = Head(tasksCh)
        /\ \A v \in Workers \ {w} : pc'[v] = pc[v] /\ work'[v] = work[v]
    BY Zenon DEF Given, Working, TypeOK
  <1>4. Accepted(w)' /\ workerId_task'[work'[w].id].task = work'[w].task
    BY <1>2, <1>3 DEF Accepted
  <1>5. ASSUME NEW v \in Workers \ {w}
        PROVE /\ (Working(v)' <=> Working(v)) /\ (Accepted(v)' <=> Accepted(v))
              /\ Accepted(v) => work[v].id \in DOMAIN workerId_task
    <2>1. Working(v)' <=> Working(v)
      BY Zenon, <1>3 DEF Working
    <2>2. CASE work[v].id = id
      <3>1. ~Accepted(v)
        BY Zenon, <1>1, <2>2 DEF Accepted
      <3>2. ASSUME Working(v) PROVE work[v].begin # now
        <4>1. work[v].begin < now /\ work[v].begin \in Nat
          BY <3>1, <3>2 DEF HandedInv, TypeOK
        <4> QED BY <1>2, <4>1
      <3> QED BY <1>2, <1>3, <2>1, <2>2, <3>1, <3>2 DEF Accepted
    <2>3. CASE work[v].id # id
      BY <1>2, <1>3, <2>1, <2>3 DEF Accepted
    <2> QED BY Zenon, <2>1, <2>2, <2>3
  <1>6. ASSUME NEW v \in Workers, Working(v)', ~Accepted(v)' PROVE work'[v].begin < now'
    BY Zenon, <1>2, <1>3, <1>4, <1>5, <1>6 DEF HandedInv
  <1>7. ASSUME NEW v \in Workers, Accepted(v)'
        PROVE workerId_task'[work'[v].id].task = work'[v].task
    <2>1. CASE v = w
      BY Zenon, <1>4, <2>1
    <2>2. CASE v # w
      BY <1>2, <1>3, <1>5, <1>7, <2>2 DEF HandedInv
    <2> QED BY Zenon, <2>1, <2>2
  <1>8. ASSUME NEW v \in Workers, NEW u \in Workers, Accepted(v)', Accepted(u)',
               work'[v].id = work'[u].id
        PROVE v = u
    BY <1>1, <1>3, <1>5, <1>8 DEF HandedInv
  <1>9. HandedInv'
    BY Zenon, <1>6, <1>7, <1>8 DEF HandedInv
  <1> QED BY <1>3, <1>5, <1>9, Zenon

-----------------------------------------------------------------------------
(* The files                                                               *)

(* KeptFiles: steps after which the same files are there and no worker has  *)
(* a task that it had not before.                                          *)
LEMMA KeptFiles ==
    ASSUME FilesInv, OutInv, \A v \in Workers : Accepted(v)' => Accepted(v),
           UNCHANGED <<job, state, completed, pc, work, fileVars>>
    PROVE FilesInv' /\ OutInv'
  <1>1. Maps' = Maps /\ Reduces' = Reduces /\ UNCHANGED <<files, out, reopened>>
    BY Zenon, SamePhase DEF fileVars
  <1>2. \A m : (Mapped(m)' <=> Mapped(m)) /\ (Written(m)' <=> Written(m))
    BY Zenon, <1>1 DEF Mapped, Written
  <1>3. FilesInv'
    BY Zenon, <1>1, <1>2 DEF FilesInv, MapperInv
  <1>4. OutInv'
    BY Zenon, <1>1, <1>2 DEF OutInv, ReducerInv
  <1> QED BY Zenon, <1>3, <1>4

(* ShuffleFiles: map2Reduce; every map task has been completed.            *)
LEMMA ShuffleFiles ==
    ASSUME FilesInv, OutInv, \A v \in Workers : ~Accepted(v)', Map2Reduce
    PROVE FilesInv' /\ OutInv'
  <1>1. /\ Maps' = Maps /\ Reduces' = Reduces /\ UNCHANGED <<files, out, reopened, pc, work>>
        /\ state = "SHUFFLE" /\ state' = "REDUCE" /\ completed' = {}
    BY Zenon DEF Map2Reduce, fileVars, Maps, Reduces
  <1>2. \A m : Mapped(m)' <=> Mapped(m)
    BY Zenon, <1>1 DEF Mapped
  <1>3. FilesInv'
    BY <1>1, <1>2, Zenon DEF FilesInv, MapperInv
  <1>4. OutInv'
    BY Zenon, <1>1 DEF OutInv, ReducerInv
  <1> QED BY Zenon, <1>3, <1>4

(* LeaveFiles: a worker stops working.                                     *)
LEMMA LeaveFiles ==
    ASSUME FilesInv, OutInv, NEW w \in Workers, ~Working(w)',
           \A v \in Workers : Accepted(v)' => Accepted(v),
           \A v \in Workers \ {w} : pc'[v] = pc[v] /\ work'[v] = work[v],
           UNCHANGED <<job, state, completed, fileVars>>
    PROVE FilesInv' /\ OutInv'
  <1>1. Maps' = Maps /\ Reduces' = Reduces /\ UNCHANGED <<files, out, reopened>>
    BY SamePhase, Zenon DEF fileVars
  <1>2. \A m : (Mapped(m)' <=> Mapped(m)) /\ (Written(m)' <=> Written(m))
    BY <1>1, Zenon DEF Mapped, Written
  <1>3. pc'[w] \notin {"mapping", "reducing", "writing", "finishing"}
    BY Zenon DEF Working
  <1>4. FilesInv'
    BY Zenon, <1>1, <1>2, <1>3 DEF FilesInv, MapperInv
  <1>5. OutInv'
    BY Zenon, <1>1, <1>2, <1>3 DEF OutInv, ReducerInv
  <1> QED BY Zenon, <1>4, <1>5

(* GivenFiles: a worker starts on a task.                                  *)
LEMMA GivenFiles ==
    ASSUME TypeOK, NoTaskLost, FilesInv, OutInv, NEW w \in Workers, Given(w),
           \A v \in Workers : Accepted(v)' => v = w \/ Accepted(v),
           \A v \in Workers \ {w} : pc'[v] = pc[v] /\ work'[v] = work[v]
    PROVE FilesInv' /\ OutInv'
  <1>1. /\ Maps' = Maps /\ Reduces' = Reduces
        /\ UNCHANGED <<files, out, reopened, state, completed>>
    BY Zenon, SamePhase DEF Given, fileVars
  <1>2. \A m : (Mapped(m)' <=> Mapped(m)) /\ (Written(m)' <=> Written(m))
    BY Zenon, <1>1 DEF Mapped, Written
  <1>3. /\ work'[w].task = Head(tasksCh) /\ work'[w].step = 0
        /\ pc'[w] = (IF state = "MAP" THEN "mapping" ELSE "reducing")
        /\ state \in {"MAP", "REDUCE"}
    BY Zenon DEF Given, TypeOK, Running
  <1>4. Head(tasksCh) \in Tasks
    BY Zenon, TailRemoves DEF Given, TypeOK, NoTaskLost
  <1>5. 0 \in Reduces
    BY Sizes DEF Reduces
  <1>6. FilesInv'
    <2>1. pc'[w] = "mapping" =>
            /\ work'[w].task \in Maps /\ work'[w].step \in Reduces
            /\ \A r \in 0..work'[w].step - 1 : <<work'[w].task, r>> \in files
            /\ state = "MAP"
      BY <1>3, <1>4, <1>5 DEF Tasks, NTasks, Maps
    <2>2. pc'[w] # "finishing"
      BY Zenon, <1>3
    <2> QED BY <1>1, <1>2, <2>1, <2>2, Zenon DEF FilesInv, MapperInv
  <1>7. OutInv'
    <2>1. pc'[w] \in {"reducing", "writing"} =>
            /\ state = "REDUCE" /\ work'[w].task \in Reduces
            /\ work'[w].step = 0
      BY Zenon, <1>3, <1>4 DEF Tasks, NTasks, Reduces
    <2>2. pc'[w] \notin {"writing", "finishing"}
      BY Zenon, <1>3
    <2> QED BY Zenon, <1>1, <1>2, <2>1, <2>2 DEF OutInv, ReducerInv
  <1> QED BY Zenon, <1>6, <1>7

(* AllCompleted: when doFinishTask ends a phase, every other task has been  *)
(* completed.                                                              *)
LEMMA AllCompleted ==
    ASSUME TypeOK, NoTaskLost, PhaseInv, NEW w \in Workers, Taken(w), state' # state
    PROVE Tasks \subseteq completed \cup {workerId_task[work[w].id].task}
  <1> DEFINE id == work[w].id
  <1>1. /\ tasksCh_sendClosed /\ tasksCh = <<>> /\ DOMAIN workerId_task = {id}
        /\ lock = "run"
    BY Zenon DEF Taken
  <1>2. Running /\ sent = NTasks /\ requeue = NoTask
    BY Zenon, <1>1 DEF PhaseInv
  <1> SUFFICES ASSUME NEW t \in Tasks, t \notin completed
               PROVE t = workerId_task[id].task
    BY Zenon
  <1>3. ~(t >= sent) /\ t # requeue
    BY <1>2, Sizes DEF Tasks
  <1>4. ~InQueue(t)
    BY <1>1 DEF InQueue, Contains
  <1>5. Held(t)
    BY Zenon, <1>2, <1>3, <1>4 DEF NoTaskLost, InOnePlace
  <1> QED BY Zenon, <1>1, <1>5 DEF Held

(* TakenFiles: the task that is completed was done by the worker that       *)
(* reports it.                                                             *)
LEMMA TakenFiles ==
    ASSUME TypeOK, NoTaskLost, PhaseInv, HandedInv, FilesInv, OutInv, NEW w \in Workers, Taken(w),
           ~Working(w)', \A v \in Workers : Accepted(v)' => Accepted(v),
           \A v \in Workers \ {w} : pc'[v] = pc[v] /\ work'[v] = work[v]
    PROVE FilesInv' /\ OutInv'
  <1> DEFINE t == workerId_task[work[w].id].task
  <1>1. /\ Maps' = Maps /\ Reduces' = Reduces /\ Tasks' = Tasks
        /\ UNCHANGED <<files, out, reopened>> /\ completed' = completed \cup {t}
        /\ Running
    BY Zenon, SamePhase DEF Taken, fileVars, PhaseInv, Accepted
  <1>2. \A m : (Mapped(m)' <=> Mapped(m)) /\ (Written(m)' <=> Written(m))
    BY Zenon, <1>1 DEF Mapped, Written
  <1>3. t = work[w].task /\ pc[w] = "finishing" /\ Accepted(w)
    BY Zenon DEF Taken, HandedInv
  <1>4. state = "MAP" => Mapped(t)
    BY <1>3, Zenon DEF FilesInv, MapperInv
  <1>5. state = "REDUCE" => Written(t)
    BY Zenon, <1>3 DEF OutInv, ReducerInv
  <1>6. pc'[w] \notin {"mapping", "reducing", "writing", "finishing"}
    BY Zenon DEF Working
  <1>7. CASE state' = state
    <2>1. FilesInv'
      BY <1>1, <1>2, <1>4, <1>6, <1>7, Zenon DEF FilesInv, MapperInv
    <2>2. OutInv'
      BY <1>1, <1>2, <1>5, <1>6, <1>7, Zenon DEF OutInv, ReducerInv
    <2> QED BY Zenon, <2>1, <2>2
  <1>8. CASE state = "MAP" /\ state' = "SHUFFLE"
    <2>1. \A m \in Maps : Mapped(m)
      <3>1. Maps = Tasks
        BY Zenon, <1>8 DEF Maps, Tasks, NTasks
      <3> QED BY Zenon, <1>4, <1>8, <3>1, AllCompleted DEF FilesInv, MapperInv
    <2>2. DOMAIN workerId_task' = {}
      BY Zenon, <1>8 DEF Taken, Without
    <2>3. \A v \in Workers : ~Accepted(v)'
      BY Zenon, <2>2 DEF Accepted
    <2>4. FilesInv'
      BY Zenon, <1>1, <1>2, <1>6, <1>8, <2>1, <2>3 DEF FilesInv, MapperInv
    <2>5. \A v \in Workers : pc'[v] \notin {"reducing", "writing"}
      BY <1>6, <1>8, Zenon DEF OutInv, ReducerInv
    <2>6. OutInv'
      BY Zenon, <1>8, <2>5 DEF OutInv, ReducerInv
    <2> QED BY Zenon, <2>4, <2>6
  <1>9. CASE state = "REDUCE" /\ state' = "DONE"
    <2>1. \A r \in Reduces : Written(r)
      <3>1. Reduces = Tasks
        BY Zenon, <1>9 DEF Reduces, Tasks, NTasks
      <3> QED BY <1>5, <1>9, <3>1, AllCompleted, Zenon DEF OutInv, ReducerInv
    <2>2. FilesInv'
      BY Zenon, <1>1, <1>2, <1>6, <1>9 DEF FilesInv, MapperInv
    <2>3. OutInv'
      BY <1>1, <1>2, <1>6, <1>9, <2>1, Zenon DEF OutInv, ReducerInv
    <2> QED BY Zenon, <2>2, <2>3
  <1> QED BY Zenon, <1>7, <1>8, <1>9 DEF Taken

(* MapFiles: doMap puts the next file in place.                            *)
LEMMA MapFiles ==
    ASSUME TypeOK, FilesInv, OutInv, NEW w \in Workers, DoMap(w),
           \A v \in Workers : Accepted(v)' => Accepted(v),
           \A v \in Workers \ {w} : pc'[v] = pc[v] /\ work'[v] = work[v]
    PROVE FilesInv' /\ OutInv'
  <1> PICK m, n : m = work[w].task /\ n = work[w].step
    BY Zenon
  <1>1. /\ Maps' = Maps /\ Reduces' = Reduces /\ UNCHANGED <<out, reopened, state, completed>>
        /\ files' = files \cup {<<m, n>>} /\ pc[w] = "mapping"
    BY Zenon, SamePhase DEF DoMap, queueVars
  <1>2. (\A x : Mapped(x) => Mapped(x)') /\ (\A x : Written(x)' <=> Written(x))
    BY <1>1, Zenon DEF Mapped, Written
  <1>3. /\ m \in Maps /\ n \in Reduces /\ \A r \in 0..n - 1 : <<m, r>> \in files
        /\ Accepted(w)' => state = "MAP"
    <2>1. MapperInv(w)
      BY Zenon DEF FilesInv
    <2>2. Accepted(w)' => Accepted(w)
      BY Zenon
    <2>3. work[w].task \in Maps /\ work[w].step \in Reduces /\ (Accepted(w) => state = "MAP")
      BY <1>1, <2>1, Zenon DEF MapperInv
    <2>4. \A r \in 0..work[w].step - 1 : <<work[w].task, r>> \in files
      BY <1>1, <2>1, Zenon DEF MapperInv
    <2> QED BY <2>2, <2>3, <2>4, Zenon
  <1>4. job.nReduce \in Nat \ {0} /\ Reduces = 0..job.nReduce - 1
    BY Zenon, Sizes DEF Reduces
  <1>5. work'[w].task = m
    BY DEF DoMap, TypeOK
  <1>6. ASSUME NEW v \in Workers \ {w} PROVE MapperInv(v)' /\ ReducerInv(v)'
    <2>1. /\ MapperInv(v) /\ ReducerInv(v) /\ pc'[v] = pc[v] /\ work'[v] = work[v]
          /\ Accepted(v)' => Accepted(v)
      BY Zenon DEF FilesInv, OutInv
    <2>2. MapperInv(v)'
      BY <1>1, <1>2, <2>1, Zenon DEF MapperInv
    <2>3. ReducerInv(v)'
      BY <1>1, <1>2, <2>1, Zenon DEF ReducerInv
    <2> QED BY Zenon, <2>2, <2>3
  <1>7. CASE n + 1 = job.nReduce
    <2>1. pc'[w] = "finishing"
      BY Zenon, <1>7 DEF DoMap, TypeOK
    <2>2. \A r \in Reduces : r \in 0..n - 1 \/ r = n
      BY <1>3, <1>4, <1>7
    <2>3. Mapped(m)'
      BY Zenon, <1>1, <1>3, <2>2 DEF Mapped
    <2>4. MapperInv(w)'
      BY Zenon, <1>5, <2>1, <2>3 DEF MapperInv
    <2>5. ReducerInv(w)'
      BY Zenon, <1>1, <1>3, <2>1 DEF ReducerInv
    <2> QED BY <1>1, <1>2, <1>6, <2>4, <2>5, Zenon DEF FilesInv, OutInv
  <1>8. CASE n + 1 # job.nReduce
    <2>1. pc'[w] = "mapping" /\ work'[w].step = n + 1
      BY <1>1, <1>8 DEF DoMap, TypeOK
    <2>2. n + 1 \in Reduces
      BY <1>3, <1>4, <1>8
    <2>3. \A r \in 0..(n + 1) - 1 : r \in 0..n - 1 \/ r = n
      BY <1>3, <1>4
    <2>4. \A r \in 0..work'[w].step - 1 : <<m, r>> \in files'
      BY Zenon, <1>1, <1>3, <2>1, <2>3
    <2>5. MapperInv(w)'
      BY Zenon, <1>1, <1>3, <1>5, <2>1, <2>2, <2>4 DEF MapperInv
    <2>6. ReducerInv(w)'
      BY <2>1, Zenon DEF ReducerInv
    <2> QED BY Zenon, <1>1, <1>2, <1>6, <2>5, <2>6 DEF FilesInv, OutInv
  <1> QED BY Zenon, <1>7, <1>8

(* OwnOutput: the output of the task that an accepted worker has is nobody  *)
(* else's, and the task is not completed.                                  *)
LEMMA OwnOutput ==
    ASSUME TypeOK, NoTaskLost, PhaseInv, HandedInv, NEW w \in Workers, Accepted(w)
    PROVE /\ work[w].task \notin completed /\ work[w].task \in Tasks
          /\ \A v \in Workers : Accepted(v) /\ work[v].task = work[w].task => v = w
  <1>1. /\ work[w].id \in DOMAIN workerId_task /\ workerId_task[work[w].id].task = work[w].task
        /\ work[w].task \in Tasks /\ Running
    BY Zenon DEF Accepted, HandedInv, TypeOK, PhaseInv
  <1>2. Held(work[w].task)
    BY <1>1, Zenon DEF Held
  <1>3. work[w].task \notin completed
    BY <1>1, <1>2, Zenon DEF NoTaskLost, InOnePlace
  <1>4. ASSUME NEW v \in Workers, Accepted(v), work[v].task = work[w].task PROVE v = w
    <2>1. /\ work[v].id \in DOMAIN workerId_task
          /\ workerId_task[work[v].id].task = workerId_task[work[w].id].task
      BY Zenon, <1>1, <1>4 DEF Accepted, HandedInv
    <2>2. work[v].id = work[w].id
      BY <1>1, <2>1, Zenon DEF NoTaskLost
    <2> QED BY Zenon, <1>4, <2>2 DEF HandedInv
  <1> QED BY Zenon, <1>1, <1>3, <1>4

(* ReduceFiles: doReduce empties an output file: its own, or one that is    *)
(* then among the reopened ones.                                           *)
LEMMA ReduceFiles ==
    ASSUME TypeOK, NoTaskLost, PhaseInv, HandedInv, FilesInv, OutInv, NEW w \in Workers,
           DoReduce(w), \A v \in Workers : Accepted(v)' => Accepted(v),
           \A v \in Workers \ {w} : pc'[v] = pc[v] /\ work'[v] = work[v]
    PROVE FilesInv' /\ OutInv'
  <1> PICK r0 : r0 = work[w].task
    BY Zenon
  <1>1. /\ Maps' = Maps /\ Reduces' = Reduces /\ UNCHANGED <<files, state, completed, work>>
        /\ pc[w] = "reducing" /\ pc'[w] \in {"asking", "writing"}
    BY Zenon, SamePhase DEF DoReduce, queueVars, TypeOK
  <1>2. \A x : Mapped(x)' <=> Mapped(x)
    BY <1>1, Zenon DEF Mapped
  <1>3. FilesInv'
    BY <1>1, <1>2, Zenon DEF FilesInv, MapperInv
  <1>4. r0 \in Reduces /\ work[w].step = 0 /\ state \in {"REDUCE", "DONE"}
    <2>1. ReducerInv(w)
      BY Zenon DEF OutInv
    <2> QED BY Zenon, <1>1, <2>1 DEF ReducerInv
  <1>5. (\A r \in Reduces \ {r0} : out'[r] = out[r]) /\ reopened \subseteq reopened'
    BY Zenon DEF DoReduce, TypeOK
  <1>6. \/ r0 \in reopened'
        \/ Accepted(w) /\ state = "REDUCE"
        \/ out' = out
    BY <1>1, Zenon DEF DoReduce, Late, Accepted, Working
  (* Only the output of w itself loses what it had. *)
  <1>7. ASSUME NEW r \in Reduces, r = r0 => ~(Accepted(w) /\ state = "REDUCE")
        PROVE out'[r] = out[r] \/ r \in reopened'
    BY Zenon, <1>5, <1>6, <1>7
  <1>8. ASSUME NEW r \in Reduces, r = r0 => ~(Accepted(w) /\ state = "REDUCE"), Written(r)
        PROVE Written(r)'
    BY Zenon, <1>5, <1>7, <1>8 DEF Written
  <1>9. state = "REDUCE" => \A r \in completed : Written(r)'
    <2> SUFFICES ASSUME state = "REDUCE", NEW r \in completed PROVE Written(r)'
      BY Zenon
    <2>1. r \in Reduces /\ Written(r)
      BY Zenon DEF TypeOK, Tasks, NTasks, Reduces, OutInv
    <2>2. Accepted(w) => r # r0
      BY Zenon, OwnOutput
    <2> QED BY Zenon, <1>8, <2>1, <2>2
  <1>10. state = "DONE" => \A r \in Reduces : Written(r)'
    BY <1>8, Zenon DEF OutInv
  <1>11. ReducerInv(w)'
    <2>1. 1..0 = {}
      OBVIOUS
    <2> QED BY <1>1, <1>4, <2>1, Zenon DEF ReducerInv
  <1>12. ASSUME NEW v \in Workers \ {w} PROVE ReducerInv(v)'
    <2>1. ReducerInv(v) /\ pc'[v] = pc[v] /\ work'[v] = work[v]
      BY Zenon DEF OutInv
    <2>2. CASE Accepted(v)'
      <3>1. Accepted(v) /\ work[v].task \in Reduces
        BY <1>4, <2>2, OwnOutput, Zenon DEF Tasks, NTasks, Reduces
      <3>2. work[v].task = r0 => ~Accepted(w)
        BY Zenon, <3>1, OwnOutput
      <3>3. out'[work[v].task] = out[work[v].task] \/ work[v].task \in reopened'
        BY <1>7, <3>1, <3>2, Zenon
      <3> QED BY <1>1, <1>5, <2>1, <3>1, <3>3, Zenon DEF ReducerInv, Written
    <2>3. CASE ~Accepted(v)'
      BY <1>1, <2>1, <2>3, Zenon DEF ReducerInv
    <2> QED BY Zenon, <2>2, <2>3
  <1>13. OutInv'
    BY <1>1, <1>9, <1>10, <1>11, <1>12, Zenon DEF OutInv
  <1> QED BY Zenon, <1>3, <1>13

(* WriteFiles: a worker adds a part to an output file.                     *)
LEMMA WriteFiles ==
    ASSUME TypeOK, FilesInv, OutInv, NEW w \in Workers, Write(w),
           \A v \in Workers : Accepted(v)' => Accepted(v),
           \A v \in Workers \ {w} : pc'[v] = pc[v] /\ work'[v] = work[v]
    PROVE FilesInv' /\ OutInv'
  <1> PICK r0, n : r0 = work[w].task /\ n = work[w].step
    BY Zenon
  <1>1. /\ Maps' = Maps /\ Reduces' = Reduces /\ UNCHANGED <<files, reopened, state, completed>>
        /\ pc[w] = "writing"
    BY Zenon, SamePhase DEF Write, queueVars
  <1>2. work'[w].task = r0
    BY DEF Write, TypeOK
  <1>3. /\ r0 \in Reduces /\ n \in {0, 1} /\ state \in {"REDUCE", "DONE"}
        /\ Accepted(w) => 1..n \subseteq out[r0] \/ r0 \in reopened
    <2>1. ReducerInv(w)
      BY Zenon DEF OutInv
    <2> QED BY <1>1, <2>1, Zenon DEF ReducerInv
  <1>4. /\ \A r \in Reduces : out[r] \subseteq out'[r] /\ out'[r] \subseteq Parts
        /\ n + 1 \in out'[r0]
    BY <1>3 DEF Write, TypeOK, Parts
  <1>5. \A x : Mapped(x)' <=> Mapped(x)
    BY Zenon, <1>1 DEF Mapped
  <1>6. ASSUME NEW r \in Reduces, Written(r) PROVE Written(r)'
    <2>1. CASE r \in reopened
      BY Zenon, <1>1, <2>1 DEF Written
    <2>2. CASE out[r] = Parts
      <3>1. out[r] \subseteq out'[r] /\ out'[r] \subseteq Parts
        BY <1>4, Zenon
      <3>2. out'[r] = Parts
        BY <2>2, <3>1, Zenon
      <3> QED BY Zenon, <3>2 DEF Written
    <2> QED BY Zenon, <1>6, <2>1, <2>2 DEF Written
  <1>7. /\ n = 0 => pc'[w] = "writing" /\ work'[w].step = 1
        /\ n = 1 => pc'[w] = "finishing"
    BY <1>1 DEF Write, TypeOK
  <1>8. FilesInv'
    BY <1>1, <1>3, <1>5, <1>7, Zenon DEF FilesInv, MapperInv
  <1>9. ReducerInv(w)'
    <2>1. CASE n = 0
      <3>1. 1..1 \subseteq out'[r0]
        BY <1>4, <2>1
      <3> QED BY <1>1, <1>2, <1>3, <1>7, <2>1, <3>1, Zenon DEF ReducerInv
    <2>2. CASE n = 1
      <3>1. ASSUME Accepted(w)' PROVE Written(r0)'
        <4>1. CASE r0 \in reopened
          BY Zenon, <1>1, <4>1 DEF Written
        <4>2. CASE r0 \notin reopened
          <5>1. 1 \in out[r0]
            BY <1>3, <2>2, <3>1, <4>2
          <5>2. out'[r0] = Parts
            BY <1>3, <1>4, <2>2, <5>1 DEF Parts
          <5> QED BY Zenon, <5>2 DEF Written
        <4> QED BY Zenon, <4>1, <4>2
      <3> QED BY Zenon, <1>2, <1>7, <2>2, <3>1 DEF ReducerInv
    <2> QED BY <1>3, <2>1, <2>2, Zenon
  <1>10. ASSUME NEW v \in Workers \ {w} PROVE ReducerInv(v)'
    <2>1. ReducerInv(v) /\ pc'[v] = pc[v] /\ work'[v] = work[v]
      BY Zenon DEF OutInv
    <2>2. CASE pc[v] = "finishing" /\ Accepted(v)' /\ state = "REDUCE"
      <3>1. Written(work[v].task)
        BY <2>1, <2>2, Zenon DEF ReducerInv
      <3>2. ASSUME NEW r, r = work[v].task PROVE Written(r)'
        <4>1. CASE r \in Reduces
          BY Zenon, <1>6, <3>1, <3>2, <4>1
        <4>2. CASE r \notin Reduces
          BY <1>1, <3>1, <3>2, <4>2 DEF Write, Written, TypeOK
        <4> QED BY Zenon, <4>1, <4>2
      <3> QED BY <2>1, <2>2, <3>2, Zenon DEF ReducerInv
    <2>3. CASE pc[v] = "writing"
      <3>1. work[v].task \in Reduces
        BY <2>1, <2>3, Zenon DEF ReducerInv
      <3> QED BY <1>1, <1>4, <2>1, <2>3, <3>1, Zenon DEF ReducerInv
    <2>4. CASE pc[v] # "writing" /\ ~(pc[v] = "finishing" /\ Accepted(v)' /\ state = "REDUCE")
      BY <1>1, <2>1, <2>4, Zenon DEF ReducerInv
    <2> QED BY Zenon, <2>2, <2>3, <2>4
  <1>11. completed \subseteq Reduces
    BY Zenon, <1>3 DEF TypeOK, Tasks, NTasks, Reduces
  <1>12. OutInv'
    BY <1>1, <1>6, <1>9, <1>10, <1>11, Zenon DEF OutInv
  <1> QED BY <1>8, <1>12, Zenon


-----------------------------------------------------------------------------
(* The inductive invariant                                                 *)

(* InitInv: the coordinator as MakeCoordinator leaves it satisfies it.      *)
LEMMA InitInv == ASSUME Init PROVE MRInv
  <1>1. job.mMap \in Nat \ {0} /\ job.nReduce \in Nat \ {0} /\ MaxNow \in Nat
    BY Zenon DEF Init, MaxNow
  <1>2. NTasks = job.mMap /\ Tasks = 0..job.mMap - 1
    BY Zenon DEF Init, NTasks, Tasks
  <1>3. /\ workerIdCh \in Seq(Tasks) /\ IsInjective(workerIdCh)
        /\ \A t \in Tasks : Free(t)
    BY <1>1, <1>2, AllFree, Zenon DEF Init, Free
  <1>4. 0 <= Capacity
    <2>1. (job.mMap \div 4) \in Int
      BY <1>1
    <2> QED BY <2>1 DEF Capacity, Init
  <1>5. TypeOK
    <2>1. tasksCh \in Seq(Tasks) /\ Len(tasksCh) <= Capacity /\ sent \in 0..NTasks
      BY <1>1, <1>2, <1>4 DEF Init
    <2>2. workerId_task \in [DOMAIN workerId_task -> [task : Tasks, begin : 0..MaxNow]]
      BY Zenon DEF Init, NoIds
    <2>3. work \in [Workers -> [task : Nat \cup {NoTask}, id : Nat, begin : 0..MaxNow, step : Nat]]
      BY <1>1 DEF Init, NoWork
    <2>4. DOMAIN workerId_task \subseteq Tasks /\ now \in 0..MaxNow /\ crashes \in Nat
      BY <1>1 DEF Init, NoIds
    <2>5. /\ job \in Jobs /\ state \in States /\ tasksCh_sendClosed \in BOOLEAN
          /\ completed \subseteq Tasks /\ lock \in {"run", "free", "catchTimeout"}
          /\ requeue \in Tasks \cup {NoTask}
      BY Zenon DEF Init, States
    <2>6. /\ pc \in [Workers -> {"down", "asking", "mapping", "reducing", "writing", "finishing"}]
          /\ out \in [Reduces -> SUBSET Parts]
      BY Zenon DEF Init
    <2> QED BY <1>3, <2>1, <2>2, <2>3, <2>4, <2>5, <2>6, Zenon DEF TypeOK
  <1>6. NoTaskLost
    <2>1. \A t \in Tasks : t >= sent /\ ~InQueue(t) /\ ~Held(t) /\ t # requeue
      BY <1>1, <1>2 DEF Init, InQueue, Contains, Held, NoIds, NoTask
    <2>2. \A t \in Tasks : InOnePlace(t)
      BY Zenon, <2>1 DEF InOnePlace, Init
    <2>3. IsInjective(tasksCh) /\ DOMAIN workerId_task = {}
      BY DEF Init, IsInjective, NoIds
    <2> QED BY Zenon, <1>3, <2>2, <2>3 DEF NoTaskLost
  <1>7. \A w \in Workers : ~Working(w)
    BY Zenon DEF Init, Working
  <1>8. PhaseInv /\ HandedInv
    BY Zenon, <1>7 DEF Init, PhaseInv, Running, HandedInv, Accepted
  <1>9. FilesInv /\ OutInv
    BY Zenon, <1>7 DEF Init, FilesInv, MapperInv, OutInv, ReducerInv, Working
  <1> QED BY Zenon, <1>5, <1>6, <1>8, <1>9 DEF MRInv

(* CoordinatorStep: what the coordinator does by itself.                    *)
LEMMA CoordinatorStep ==
    ASSUME MRInv, Begin \/ Unblock \/ Map2Reduce \/ CatchTimeout \/ Tick
    PROVE MRInv'
  <1>1. TypeOK /\ NoTaskLost /\ PhaseInv /\ HandedInv /\ FilesInv /\ OutInv
    BY Zenon DEF MRInv
  <1>2. ASSUME NEW id \in DOMAIN workerId_task, Evict(id) PROVE MRInv'
    <2>1. UNCHANGED <<job, state, completed, pc, work, fileVars>>
      BY Zenon, <1>2 DEF Evict
    <2> QED BY Zenon, <1>1, <1>2, <2>1, EvictTypes, EvictLosesNothing, CoordinatorPhase, EvictHanded,
               KeptFiles DEF MRInv
  <1>3. CASE Map2Reduce
    BY Zenon, <1>1, <1>3, ShuffleTypes, ShuffleLosesNothing, ShufflePhase, ShuffleHanded, ShuffleFiles
       DEF MRInv
  <1>4. CASE Tick
    <2>1. /\ UNCHANGED <<job, state, tasksCh, sent, workerIdCh, workerId_task, completed, requeue>>
          /\ UNCHANGED <<pc, work, fileVars>>
      BY Zenon, <1>4 DEF Tick, queueVars
    <2> QED BY Zenon, <1>1, <1>4, <2>1, LockTypes, QueuesKept, CoordinatorPhase, TickHanded, KeptFiles
            DEF MRInv
  <1>5. ASSUME SendTask \/ SendClosed \/ Requeue \/ Relock \/ CatchTimeout \/ EndCatch
        PROVE MRInv'
    <2>1. UNCHANGED <<job, state, completed, workerId_task, now, pc, work, fileVars>>
      BY Zenon, <1>5 DEF SendTask, SendClosed, Requeue, Relock, CatchTimeout, EndCatch, queueVars
    <2>2. TypeOK'
      BY Zenon, <1>1, <1>5, SendTypes, LockTypes
    <2>3. NoTaskLost'
      <3>1. CASE SendTask \/ Requeue
        BY Zenon, <1>1, <3>1, SendLosesNothing, RequeueLosesNothing
      <3>2. CASE SendClosed \/ Relock \/ CatchTimeout \/ EndCatch
        <4>1. UNCHANGED <<job, state, tasksCh, sent, workerIdCh, workerId_task, completed, requeue>>
          BY Zenon, <3>2 DEF SendClosed, Relock, CatchTimeout, EndCatch, queueVars
        <4> QED BY Zenon, <1>1, <4>1, QueuesKept
      <3> QED BY Zenon, <1>5, <3>1, <3>2
    <2>4. PhaseInv'
      BY Zenon, <1>1, <1>5, CoordinatorPhase
    <2>5. \A v \in Workers : SameWork(v)
      BY Zenon, <2>1 DEF SameWork, Working
    <2>6. HandedInv' /\ \A v \in Workers : Accepted(v)' => Accepted(v)
      BY Zenon, <1>1, <2>1, <2>5, KeptHanded
    <2>7. FilesInv' /\ OutInv'
      BY Zenon, <1>1, <2>1, <2>6, KeptFiles
    <2> QED BY Zenon, <2>2, <2>3, <2>4, <2>6, <2>7 DEF MRInv
  <1> QED BY Zenon, <1>2, <1>3, <1>4, <1>5 DEF Begin, Unblock

LOCAL FS == INSTANCE FiniteSetTheorems

(* IdLeft: as long as a task waits in the channel there is a free id for    *)
(* it: there are as many ids as tasks, and no two ids have the same task.  *)
LEMMA IdLeft ==
    ASSUME TypeOK, NoTaskLost, Running, tasksCh # <<>>
    PROVE workerIdCh # <<>>
  <1> SUFFICES ASSUME workerIdCh = <<>> PROVE FALSE
    BY Zenon
  <1> DEFINE t == Head(tasksCh)
             f == [id \in Tasks |-> workerId_task[id].task]
  <1>1. t \in Tasks /\ ~Held(t)
    <2>1. t \in Tasks /\ Contains(tasksCh, t)
      BY Zenon, TailRemoves DEF TypeOK, NoTaskLost
    <2> QED BY Zenon, <2>1 DEF NoTaskLost, InOnePlace, InQueue
  <1>2. DOMAIN workerId_task = Tasks
    <2>1. \A id \in Tasks : ~Contains(workerIdCh, id)
      BY DEF Contains
    <2> QED BY <2>1, Zenon DEF NoTaskLost, Free, TypeOK
  <1>3. f \in [Tasks -> Tasks \ {t}]
    <2> SUFFICES ASSUME NEW id \in Tasks PROVE f[id] \in Tasks \ {t}
      BY Zenon
    <2>1. workerId_task[id].task \in Tasks
      BY Zenon, <1>2 DEF TypeOK
    <2> QED BY Zenon, <1>1, <1>2, <2>1 DEF Held
  <1>4. /\ FS!IsFiniteSet(Tasks) /\ FS!IsFiniteSet(Tasks \ {t})
        /\ FS!Cardinality(Tasks) \in Nat
        /\ FS!Cardinality(Tasks \ {t}) = FS!Cardinality(Tasks) - 1
    <2>1. NTasks \in Nat
      BY Zenon, Sizes
    <2>2. FS!IsFiniteSet(Tasks)
      BY <2>1, FS!FS_Interval DEF Tasks
    <2> QED BY Zenon, <1>1, <2>2, FS!FS_RemoveElement, FS!FS_CardinalityType
  <1>5. \E x, y \in Tasks : x # y /\ f[x] = f[y]
    <2>1. FS!Cardinality(Tasks \ {t}) < FS!Cardinality(Tasks)
      BY <1>4
    <2> HIDE DEF f
    <2> QED BY <1>3, <1>4, <2>1, FS!FS_PigeonHole
  <1> QED BY Zenon, <1>2, <1>5 DEF NoTaskLost

(* AskCases: a task is never dropped for want of an id.                    *)
LEMMA AskCases ==
    ASSUME TypeOK, NoTaskLost, NEW w \in Workers, DoAskTask(w)
    PROVE Turned(w) \/ Given(w)
  <1>1. CASE state \notin {"MAP", "REDUCE"} \/ tasksCh = <<>>
    BY Zenon, <1>1 DEF DoAskTask, Serve, Turned, queueVars
  <1>2. CASE ~(state \notin {"MAP", "REDUCE"} \/ tasksCh = <<>>)
    <2>1. Running /\ tasksCh # <<>> /\ workerIdCh # <<>>
      BY Zenon, <1>2, IdLeft DEF Running
    <2>2. Given(w)
      BY Zenon, <1>2, <2>1 DEF DoAskTask, Serve, Given
    <2> QED BY Zenon, <2>2
  <1> QED BY Zenon, <1>1, <1>2

(* WorkerStep: what a worker does, and the coordinator's answer to it.      *)
LEMMA WorkerStep ==
    ASSUME MRInv, NEW w \in Workers, Attend(w) \/ Spawn(w) \/ Crash(w)
    PROVE MRInv'
  <1>1. TypeOK /\ NoTaskLost /\ PhaseInv /\ HandedInv /\ FilesInv /\ OutInv
    BY Zenon DEF MRInv
  <1>2. \/ Given(w) \/ Taken(w) \/ Turned(w) \/ Refused(w) \/ Spawn(w) \/ Crash(w)
        \/ DoMap(w) \/ DoReduce(w) \/ Write(w)
    BY Zenon, <1>1, AskCases, FinishCases DEF Attend
  <1>3. CASE Given(w)
    BY <1>1, <1>3, GivenTypes, GivenLosesNothing, WorkerPhase, GivenHanded, GivenFiles, Zenon DEF MRInv
  <1>4. CASE Taken(w)
    BY <1>1, <1>4, TakenTypes, TakenLosesNothing, WorkerPhase, TakenHanded, TakenFiles, Zenon DEF MRInv
  <1>5. ASSUME \/ Turned(w) \/ Refused(w) \/ Spawn(w) \/ Crash(w)
               \/ DoMap(w) \/ DoReduce(w) \/ Write(w)
        PROVE MRInv'
    <2>1. /\ \A v \in Workers : SameWork(v)
          /\ \A v \in Workers \ {w} : pc'[v] = pc[v] /\ work'[v] = work[v]
          /\ UNCHANGED <<job, state, queueVars, now>>
      BY Zenon, <1>1, <1>5, WorkerKeeps
    <2>2. HandedInv' /\ \A v \in Workers : Accepted(v)' => Accepted(v)
      BY <1>1, <2>1, KeptHanded, Zenon DEF queueVars
    <2>3. requeue' = requeue
      BY Zenon, <1>5 DEF Turned, Refused, Spawn, Crash, DoMap, DoReduce, Write
    <2>4. NoTaskLost'
      BY Zenon, <1>1, <2>1, <2>3, QueuesKept DEF queueVars
    <2>5. TypeOK' /\ PhaseInv'
      BY Zenon, <1>1, <1>5, WorkTypes, WorkerPhase
    <2>6. FilesInv' /\ OutInv'
      <3>1. CASE Turned(w) \/ Refused(w) \/ Spawn(w) \/ Crash(w)
        <4>1. ~Working(w)' /\ UNCHANGED fileVars
          BY Zenon, <1>1, <3>1 DEF Turned, Refused, Spawn, Crash, Working, TypeOK
        <4> QED BY <1>1, <2>1, <2>2, <4>1, LeaveFiles, Zenon DEF queueVars
      <3>2. CASE DoMap(w)
        BY <1>1, <2>1, <2>2, <3>2, MapFiles, Zenon
      <3>3. CASE DoReduce(w)
        BY Zenon, <1>1, <2>1, <2>2, <3>3, ReduceFiles
      <3>4. CASE Write(w)
        BY Zenon, <1>1, <2>1, <2>2, <3>4, WriteFiles
      <3> QED BY Zenon, <1>5, <3>1, <3>2, <3>3, <3>4
    <2> QED BY Zenon, <2>2, <2>4, <2>5, <2>6 DEF MRInv
  <1> QED BY Zenon, <1>2, <1>3, <1>4, <1>5

(* StutterInv: so does a state in which nothing changes.                    *)
LEMMA StutterInv == ASSUME MRInv, UNCHANGED vars PROVE MRInv'
  <1>1. TypeOK /\ NoTaskLost /\ PhaseInv /\ HandedInv /\ FilesInv /\ OutInv
    BY Zenon DEF MRInv
  <1>2. /\ UNCHANGED <<job, state, tasksCh, sent, workerIdCh, workerId_task, completed, requeue>>
        /\ UNCHANGED <<tasksCh_sendClosed, lock, pc, work, fileVars, now, crashes>>
    BY Zenon DEF vars, queueVars
  <1>3. \A v \in Workers : SameWork(v)
    BY Zenon, <1>2 DEF SameWork, Working
  <1>4. HandedInv' /\ \A v \in Workers : Accepted(v)' => Accepted(v)
    BY Zenon, <1>1, <1>2, <1>3, KeptHanded
  <1>5. FilesInv' /\ OutInv'
    BY Zenon, <1>1, <1>2, <1>4, KeptFiles
  <1>6. NoTaskLost'
    BY Zenon, <1>1, <1>2, QueuesKept
  <1>7. /\ NTasks' = NTasks /\ Tasks' = Tasks /\ Capacity' = Capacity /\ Reduces' = Reduces
        /\ MaxNow' = MaxNow
    BY Zenon, <1>2, SamePhase
  <1>8. TypeOK'
    BY Zenon, <1>1, <1>2, <1>7 DEF TypeOK, fileVars
  <1>9. PhaseInv'
    BY Zenon, <1>1, <1>2, <1>7 DEF PhaseInv, Running
  <1> QED BY Zenon, <1>4, <1>5, <1>6, <1>8, <1>9 DEF MRInv

(* StepInv: every step keeps the invariant.                                *)
LEMMA StepInv == MRInv /\ [Next]_vars => MRInv'
  <1> SUFFICES ASSUME MRInv, [Next]_vars PROVE MRInv'
    BY Zenon
  <1>1. CASE Begin \/ Unblock \/ Map2Reduce \/ CatchTimeout \/ Tick
    BY Zenon, <1>1, CoordinatorStep
  <1>2. CASE \E w \in Workers : Attend(w) \/ Spawn(w) \/ Crash(w)
    BY Zenon, <1>2, WorkerStep
  <1>3. CASE UNCHANGED vars
    BY Zenon, <1>3, StutterInv
  <1> QED BY Zenon, <1>1, <1>2, <1>3 DEF Next

-----------------------------------------------------------------------------
(* Theorems                                                                *)

(* Invariance: the inductive invariant holds in every state that the        *)
(* coordinator and the workers reach.                                      *)
THEOREM Invariance == Spec => []MRInv
  BY InitInv, StepInv, PTL DEF Spec

(* TasksKept: however many workers crash, are late or are given up, a task  *)
(* is always in exactly one place (mapTaskBegin, doAskTask, doFinishTask,   *)
(* catchTimeout).                                                          *)
THEOREM TasksKept == Spec => []NoTaskLost
  <1>1. MRInv => NoTaskLost
    BY Zenon DEF MRInv
  <1> QED BY <1>1, Invariance, PTL

(* MapsFirst: map2Reduce and doFinishTask let no reduce task start before   *)
(* every intermediate file is in place.                                    *)
THEOREM MapsFirst == Spec => []MapsBeforeReduces
  <1>1. MRInv => MapsBeforeReduces
    BY DEF MRInv, FilesInv, Mapped, MapsBeforeReduces
  <1> QED BY <1>1, Invariance, PTL

(* OutputsComplete: at the end of the job every output is complete, or was  *)
(* opened by a worker whose task had been given to another one (doReduce).  *)
THEOREM OutputsComplete == Spec => []OutputsWritten
  <1>1. MRInv => OutputsWritten
    BY Zenon DEF MRInv, OutInv, Written, OutputsWritten
  <1> QED BY <1>1, Invariance, PTL


===============================================================================
