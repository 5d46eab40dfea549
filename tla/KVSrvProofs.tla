----------------------------- MODULE KVSrvProofs ------------------------------
(***************************************************************************)
(* Proofs about KVSrv, for any number of clerks, keys and calls: the types, *)
(* the invariant on the two counts, and that the server is linearizable.   *)
(***************************************************************************)
EXTENDS KVSrv, TLAPS

USE KVSrvAssumption

Inv == TypeOK /\ CountInv

(* The handler of clerk c runs, or c calls or returns.                     *)
Step(c) ==
    \/ \E op \in {"Get", "Put", "Append"}, key \in Keys : Call(c, op, key)
    \/ \E delivered \in BOOLEAN : Get(c, delivered)
    \/ \E delivered \in BOOLEAN : Put(c, delivered)
    \/ \E delivered \in BOOLEAN : AppendOp(c, delivered)
    \/ Return(c)

(* NextIsStep: every step of kvsrv is a step of one clerk or its handler.  *)
LEMMA NextIsStep == Next <=> \E c \in Clerks : Step(c)
  BY Zenon DEF Next, Step, Handle

(* InitInv: the invariant holds when the server and the clerks start.      *)
LEMMA InitInv == Init => Inv
  <1> SUFFICES ASSUME Init PROVE Inv
    OBVIOUS
  <1>1. (CHOOSE k \in Keys : TRUE) \in Keys
    BY Zenon
  <1>2. \A c \in Clerks : <<c, 0>> \in Values
    BY DEF Values, Counts
  <1>3. args \in [Clerks -> Inputs]
    BY <1>1, <1>2, Zenon DEF Init, Inputs
  <1>4. TypeOK
    BY <1>3 DEF Init, TypeOK, NoCount, Counts
  <1>5. CountInv
    <2> SUFFICES ASSUME NEW c \in Clerks
                 PROVE pc[c] = "idle" /\ clerkId_count[c] = count[c] - 1
      BY Zenon DEF CountInv
    <2>1. pc[c] = "idle" /\ clerkId_count[c] = NoCount /\ count[c] = 0
      BY Zenon DEF Init
    <2> QED BY <2>1 DEF NoCount
  <1> QED BY <1>4, <1>5 DEF Inv

(* Executing: what a handler that runs for clerk c knows of its request:    *)
(* whether it is repeated can be read off the two counts.                  *)
LEMMA Executing ==
    ASSUME Inv, NEW c \in Clerks, pc[c] = "calling", args[c].op # "Get"
    PROVE /\ args[c].value = <<c, count[c]>> /\ args[c].value[2] = count[c]
          /\ count[c] \in Counts
          /\ clerkId_count[c] \in {count[c] - 1, count[c]}
          /\ args[c].value[2] = ExceptCount(c) <=> clerkId_count[c] = count[c] - 1
          /\ args[c].value[2] # ExceptCount(c) <=> clerkId_count[c] = count[c]
  <1>1. /\ args[c].value = <<c, count[c]>> /\ count[c] <= MaxCount
        /\ clerkId_count[c] \in {count[c] - 1, count[c]}
    BY Zenon DEF Inv, CountInv
  <1>2. count[c] \in Counts
    BY <1>1 DEF Inv, TypeOK, Counts
  <1>3. args[c].value[2] = count[c]
    BY <1>1
  <1> QED BY <1>1, <1>2, <1>3 DEF ExceptCount, NoCount, Counts

(* AnswerTyped: whether or not the reply is delivered, a handler leaves the *)
(* clerk's side well typed.                                                *)
LEMMA AnswerTyped ==
    ASSUME TypeOK, NEW c \in Clerks, NEW value \in Seq(Values), NEW delivered \in BOOLEAN,
           Answer(c, value, delivered)
    PROVE /\ pc' \in [Clerks -> {"idle", "calling", "answered"}]
          /\ args' \in [Clerks -> Inputs]
          /\ count' \in [Clerks -> 0..MaxCount + 1]
          /\ reply' \in [Clerks -> Seq(Values)]
  BY DEF TypeOK, Answer

(* HandlerCounts: a handler keeps the invariant on the counts if afterwards *)
(* the server's count of the clerk is that of the request.                 *)
LEMMA HandlerCounts ==
    ASSUME Inv, NEW c \in Clerks, pc[c] = "calling", args[c].op # "Get",
           NEW value, NEW delivered \in BOOLEAN, Answer(c, value, delivered),
           clerkId_count' = [clerkId_count EXCEPT ![c] = count[c]]
    PROVE CountInv'
  <1> SUFFICES ASSUME NEW d \in Clerks
               PROVE (IF pc[d] = "idle" \/ args[d].op = "Get"
                      THEN clerkId_count[d] = count[d] - 1
                      ELSE /\ args[d].value = <<d, count[d]>>
                           /\ count[d] <= MaxCount
                           /\ clerkId_count[d] \in {count[d] - 1, count[d]}
                           /\ pc[d] = "answered" => clerkId_count[d] = count[d])'
    BY Zenon DEF CountInv
  <1>1. args' = args /\ count' = count
    BY Zenon DEF Answer
  <1>2. CASE d = c
    <2>1. pc'[d] \in {"calling", "answered"} /\ clerkId_count'[d] = count[d]
      BY <1>2 DEF Inv, TypeOK, Answer
    <2> QED BY <2>1, <1>1, <1>2, Executing DEF Counts
  <1>3. CASE d # c
    <2>1. pc'[d] = pc[d] /\ clerkId_count'[d] = clerkId_count[d]
      BY <1>3, Zenon DEF Inv, TypeOK, Answer
    <2> QED BY <2>1, <1>1, Zenon DEF Inv, CountInv
  <1> QED BY <1>2, <1>3

(* CallInv: a clerk may begin a call whenever it is idle.                  *)
LEMMA CallInv ==
    ASSUME Inv, NEW c \in Clerks, NEW op \in {"Get", "Put", "Append"}, NEW key \in Keys,
           Call(c, op, key)
    PROVE Inv' /\ args'[c] \in Inputs
  <1> DEFINE request == [op |-> op, key |-> key,
                         value |-> <<c, IF op = "Get" THEN 0 ELSE count[c]>>]
  <1>1. (IF op = "Get" THEN 0 ELSE count[c]) \in Counts
    BY DEF Call, Inv, TypeOK, Counts
  <1>2. request \in Inputs
    BY <1>1, Zenon DEF Inputs, Values
  <1>3. args' = [args EXCEPT ![c] = request]
    BY Zenon DEF Call
  <1>4. args' \in [Clerks -> Inputs] /\ args'[c] = request
    BY <1>2, <1>3, Zenon DEF Inv, TypeOK
  <1>5. TypeOK'
    BY <1>4 DEF Inv, TypeOK, Call
  <1>6. CountInv'
    <2> SUFFICES ASSUME NEW d \in Clerks
                 PROVE (IF pc[d] = "idle" \/ args[d].op = "Get"
                        THEN clerkId_count[d] = count[d] - 1
                        ELSE /\ args[d].value = <<d, count[d]>>
                             /\ count[d] <= MaxCount
                             /\ clerkId_count[d] \in {count[d] - 1, count[d]}
                             /\ pc[d] = "answered" => clerkId_count[d] = count[d])'
      BY Zenon DEF CountInv
    <2>1. clerkId_count' = clerkId_count /\ count' = count
      BY Zenon DEF Call
    <2>2. CASE d = c
      <3>1. clerkId_count[c] = count[c] - 1
        BY Zenon DEF Inv, CountInv, Call
      <3>2. pc'[c] = "calling" /\ (op # "Get" => count[c] <= MaxCount)
        BY DEF Inv, TypeOK, Call
      <3> QED BY <1>4, <2>1, <2>2, <3>1, <3>2
    <2>3. CASE d # c
      <3>1. pc'[d] = pc[d] /\ args'[d] = args[d]
        BY <1>3, <2>3, Zenon DEF Inv, TypeOK, Call
      <3> QED BY <2>1, <3>1, Zenon DEF Inv, CountInv
    <2> QED BY <2>2, <2>3
  <1> QED BY <1>2, <1>4, <1>5, <1>6 DEF Inv

(* GetInv: a Get leaves the server and the counts alone.                   *)
LEMMA GetInv ==
    ASSUME Inv, NEW c \in Clerks, NEW delivered \in BOOLEAN, Get(c, delivered)
    PROVE Inv'
  <1>1. map[args[c].key] \in Seq(Values)
    BY DEF Inv, TypeOK, Inputs
  <1>2. Answer(c, map[args[c].key], delivered)
    BY Zenon DEF Get
  <1>3. map' = map /\ clerkId_count' = clerkId_count /\ opReply' = opReply
    BY Zenon DEF Get
  <1>4. TypeOK'
    BY <1>1, <1>2, <1>3, AnswerTyped DEF Inv, TypeOK
  <1>5. args' = args /\ count' = count
    BY <1>2, Zenon DEF Answer
  <1>6. \A d \in Clerks : pc'[d] = pc[d] \/ args[d].op = "Get"
    BY <1>2 DEF Inv, TypeOK, Answer, Get
  <1>7. CountInv'
    <2> SUFFICES ASSUME NEW d \in Clerks
                 PROVE (IF pc[d] = "idle" \/ args[d].op = "Get"
                        THEN clerkId_count[d] = count[d] - 1
                        ELSE /\ args[d].value = <<d, count[d]>>
                             /\ count[d] <= MaxCount
                             /\ clerkId_count[d] \in {count[d] - 1, count[d]}
                             /\ pc[d] = "answered" => clerkId_count[d] = count[d])'
      BY Zenon DEF CountInv
    <2>1. CASE args[d].op = "Get"
      BY <1>3, <1>5, <2>1, Zenon DEF Inv, CountInv
    <2>2. CASE args[d].op # "Get"
      <3>1. pc'[d] = pc[d]
        BY <1>6, <2>2
      <3> QED BY <1>3, <1>5, <3>1, Zenon DEF Inv, CountInv
    <2> QED BY <2>1, <2>2
  <1> QED BY <1>4, <1>7 DEF Inv

(* RepeatedInv: a repeated Put or Append changes nothing at the server.    *)
LEMMA RepeatedInv ==
    ASSUME Inv, NEW c \in Clerks, pc[c] = "calling", args[c].op # "Get",
           args[c].value[2] # ExceptCount(c),
           NEW value \in Seq(Values), NEW delivered \in BOOLEAN,
           Repeated(c, value, delivered)
    PROVE Inv' /\ clerkId_count' = clerkId_count
  <1>1. clerkId_count[c] = count[c] /\ count[c] \in Counts
    BY Executing
  <1>2. clerkId_count' = clerkId_count
    BY <1>1 DEF Repeated, NoCount, Counts, Inv, TypeOK
  <1>3. clerkId_count' = [clerkId_count EXCEPT ![c] = count[c]]
    BY <1>1, <1>2 DEF Inv, TypeOK
  <1>4. Answer(c, value, delivered) /\ map' = map /\ opReply' = opReply
    BY Zenon DEF Repeated
  <1>5. CountInv'
    BY <1>3, <1>4, HandlerCounts, Zenon
  <1>6. TypeOK'
    BY <1>2, <1>4, AnswerTyped DEF Inv, TypeOK
  <1> QED BY <1>2, <1>5, <1>6 DEF Inv

(* PutInv: a Put, executed or repeated, keeps the invariant.               *)
LEMMA PutInv ==
    ASSUME Inv, NEW c \in Clerks, NEW delivered \in BOOLEAN, Put(c, delivered)
    PROVE Inv'
  <1> DEFINE key == args[c].key
  <1>1. pc[c] = "calling" /\ args[c].op # "Get"
    BY Zenon DEF Put
  <1>2. key \in Keys /\ args[c].value \in Values /\ map[key] \in Seq(Values)
    BY DEF Inv, TypeOK, Inputs
  <1>3. CASE args[c].value[2] # ExceptCount(c)
    <2>1. Repeated(c, map[key], delivered)
      BY <1>3, Zenon DEF Put
    <2> QED BY <1>1, <1>2, <1>3, <2>1, RepeatedInv
  <1>4. CASE args[c].value[2] = ExceptCount(c)
    <2>1. /\ map' = [map EXCEPT ![key] = <<args[c].value>>]
          /\ clerkId_count' = [clerkId_count EXCEPT ![c] = args[c].value[2]]
          /\ Answer(c, <<>>, delivered)
          /\ opReply' = opReply
      BY <1>4, Zenon DEF Put
    <2>2. args[c].value[2] = count[c] /\ count[c] \in Counts
      BY <1>1, Executing
    <2>3. CountInv'
      BY <1>1, <2>1, <2>2, HandlerCounts
    <2>4. <<args[c].value>> \in Seq(Values) /\ <<>> \in Seq(Values)
      BY <1>2
    <2>5. map' \in [Keys -> Seq(Values)]
      BY <2>1, <2>4 DEF Inv, TypeOK
    <2>6. clerkId_count' \in [Clerks -> Counts \cup {NoCount}]
      BY <2>1, <2>2 DEF Inv, TypeOK
    <2>7. /\ pc' \in [Clerks -> {"idle", "calling", "answered"}]
          /\ args' \in [Clerks -> Inputs]
          /\ count' \in [Clerks -> 0..MaxCount + 1]
          /\ reply' \in [Clerks -> Seq(Values)]
      BY <2>1, <2>4, AnswerTyped DEF Inv
    <2>8. TypeOK'
      BY <2>1, <2>5, <2>6, <2>7, Zenon DEF Inv, TypeOK
    <2> QED BY <2>3, <2>8 DEF Inv
  <1> QED BY <1>3, <1>4

(* AppendInv: an Append, executed or repeated, keeps the invariant.        *)
LEMMA AppendInv ==
    ASSUME Inv, NEW c \in Clerks, NEW delivered \in BOOLEAN, AppendOp(c, delivered)
    PROVE Inv'
  <1> DEFINE key == args[c].key
             n == args[c].value[2]
  <1>1. pc[c] = "calling" /\ args[c].op # "Get"
    BY Zenon DEF AppendOp
  <1>2. key \in Keys /\ args[c].value \in Values /\ map[key] \in Seq(Values)
    BY DEF Inv, TypeOK, Inputs
  <1>3. n = count[c] /\ count[c] \in Counts /\ <<c, n>> \in Values
    BY <1>1, Executing DEF Values
  <1>4. CASE n # ExceptCount(c)
    <2>1. Repeated(c, opReply[<<c, n>>], delivered)
      BY <1>4, Zenon DEF AppendOp
    <2>2. opReply[<<c, n>>] \in Seq(Values)
      BY <1>3 DEF Inv, TypeOK
    <2> QED BY <1>1, <1>4, <2>1, <2>2, RepeatedInv
  <1>5. CASE n = ExceptCount(c)
    <2>1. /\ map' = [map EXCEPT ![key] = Append(@, args[c].value)]
          /\ clerkId_count' = [clerkId_count EXCEPT ![c] = n]
          /\ opReply' = [v \in Values |-> IF v = <<c, n>> THEN map[key]
                                          ELSE IF v = <<c, n - 1>> THEN <<>>
                                          ELSE opReply[v]]
          /\ Answer(c, map[key], delivered)
      BY <1>5, Zenon DEF AppendOp
    <2>2. CountInv'
      BY <1>1, <1>3, <2>1, HandlerCounts
    <2>3. Append(map[key], args[c].value) \in Seq(Values)
      BY <1>2
    <2>4. map' \in [Keys -> Seq(Values)]
      BY <2>1, <2>3 DEF Inv, TypeOK
    <2>5. opReply' \in [Values -> Seq(Values)]
      BY <1>2, <2>1 DEF Inv, TypeOK
    <2>6. clerkId_count' \in [Clerks -> Counts \cup {NoCount}]
      BY <1>3, <2>1 DEF Inv, TypeOK
    <2>7. /\ pc' \in [Clerks -> {"idle", "calling", "answered"}]
          /\ args' \in [Clerks -> Inputs]
          /\ count' \in [Clerks -> 0..MaxCount + 1]
          /\ reply' \in [Clerks -> Seq(Values)]
      BY <1>2, <2>1, AnswerTyped DEF Inv
    <2>8. TypeOK'
      BY <2>1, <2>4, <2>5, <2>6, <2>7, Zenon DEF Inv, TypeOK
    <2> QED BY <2>2, <2>8 DEF Inv
  <1> QED BY <1>4, <1>5

(* ReturnInv: when a Put or Append returns the clerk's count moves on, when *)
(* a Get returns it stays, and again it is one ahead of the server's.      *)
LEMMA ReturnInv ==
    ASSUME Inv, NEW c \in Clerks, Return(c)
    PROVE Inv'
  <1>1. /\ pc[c] = "answered"
        /\ args' = args /\ clerkId_count' = clerkId_count
        /\ pc' = [pc EXCEPT ![c] = "idle"]
        /\ count' = [count EXCEPT ![c] = IF args[c].op = "Get" THEN @ ELSE @ + 1]
    BY Zenon DEF Return
  <1>2. args[c].op # "Get" => clerkId_count[c] = count[c] /\ count[c] <= MaxCount
    BY <1>1, Zenon DEF Inv, CountInv
  <1>3. args[c].op = "Get" => clerkId_count[c] = count[c] - 1
    BY Zenon DEF Inv, CountInv
  <1>4. count[c] \in 0..MaxCount + 1
    BY DEF Inv, TypeOK
  <1>5. TypeOK'
    <2>1. count' \in [Clerks -> 0..MaxCount + 1]
      BY <1>1, <1>2, <1>4 DEF Inv, TypeOK
    <2> QED BY <2>1 DEF Inv, TypeOK, Return
  <1>6. CountInv'
    <2> SUFFICES ASSUME NEW d \in Clerks
                 PROVE (IF pc[d] = "idle" \/ args[d].op = "Get"
                        THEN clerkId_count[d] = count[d] - 1
                        ELSE /\ args[d].value = <<d, count[d]>>
                             /\ count[d] <= MaxCount
                             /\ clerkId_count[d] \in {count[d] - 1, count[d]}
                             /\ pc[d] = "answered" => clerkId_count[d] = count[d])'
      BY Zenon DEF CountInv
    <2>1. CASE d = c
      <3>1. pc'[c] = "idle" /\ count'[c] = IF args[c].op = "Get" THEN count[c] ELSE count[c] + 1
        BY <1>1 DEF Inv, TypeOK
      <3> QED BY <1>1, <1>2, <1>3, <1>4, <2>1, <3>1
    <2>2. CASE d # c
      <3>1. pc'[d] = pc[d] /\ count'[d] = count[d]
        BY <1>1, <2>2, Zenon DEF Inv, TypeOK
      <3> QED BY <1>1, <3>1, Zenon DEF Inv, CountInv
    <2> QED BY <2>1, <2>2
  <1> QED BY <1>5, <1>6 DEF Inv

(* StepInv: the invariant is inductive.                                    *)
LEMMA StepInv == Inv /\ [Next]_vars => Inv'
  <1> SUFFICES ASSUME Inv, [Next]_vars PROVE Inv'
    OBVIOUS
  <1>1. CASE Next
    <2>1. PICK c \in Clerks : Step(c)
      BY <1>1, NextIsStep
    <2> QED BY <2>1, CallInv, GetInv, PutInv, AppendInv, ReturnInv, Zenon DEF Step
  <1>2. CASE UNCHANGED vars
    <2>1. TypeOK'
      BY <1>2 DEF Inv, TypeOK, vars
    <2>2. CountInv'
      BY <1>2, Zenon DEF Inv, CountInv, vars
    <2> QED BY <2>1, <2>2 DEF Inv
  <1> QED BY <1>1, <1>2

(* Invariance: the invariant holds in every state of kvsrv.                *)
THEOREM Invariance == Spec => []Inv
  BY InitInv, StepInv, PTL DEF Spec

(* TypeCorrect: every state kvsrv reaches is well typed.                   *)
THEOREM TypeCorrect == Spec => []TypeOK
  <1>1. Inv => TypeOK
    BY DEF Inv
  <1> QED BY <1>1, Invariance, PTL

(* CountsCorrect: for any number of clerks and calls, however often a      *)
(* request is lost or repeated, the server's count of a clerk tells whether *)
(* its pending Put or Append has been executed.                            *)
THEOREM CountsCorrect == Spec => []CountInv
  <1>1. Inv => CountInv
    BY DEF Inv
  <1> QED BY <1>1, Invariance, PTL

-----------------------------------------------------------------------------
(* Linearizability                                                         *)

(* Aside: what a step of clerk c leaves as it is for another clerk.        *)
LEMMA Aside ==
    ASSUME Inv, NEW c \in Clerks, Step(c), NEW d \in Clerks, d # c
    PROVE Phase(d)' = Phase(d) /\ Result(d)' = Result(d) /\ args'[d] = args[d]
  <1>1. /\ pc'[d] = pc[d] /\ args'[d] = args[d] /\ count'[d] = count[d]
        /\ reply'[d] = reply[d] /\ clerkId_count'[d] = clerkId_count[d]
    BY DEF Step, Call, Get, Put, AppendOp, Return, Answer, Repeated, Inv, TypeOK
  <1>2. Executed(d)' <=> Executed(d)
    BY <1>1, Zenon DEF Executed
  <1>3. Executed(d) /\ pc[d] # "answered" => opReply'[args[d].value] = opReply[args[d].value]
    <2> SUFFICES ASSUME Executed(d), pc[d] # "answered"
                 PROVE opReply'[args[d].value] = opReply[args[d].value]
      OBVIOUS
    <2>1. args[d].value = <<d, count[d]>> /\ count[d] \in Counts
      BY Executing, Zenon DEF Executed
    <2>2. <<d, count[d]>> \in Values
      BY <2>1 DEF Values
    <2>3. CASE opReply' = opReply
      BY <2>3
    <2>4. CASE \E delivered \in BOOLEAN : AppendOp(c, delivered)
      <3>1. opReply'[<<d, count[d]>>] = opReply[<<d, count[d]>>]
        BY <2>2, <2>4 DEF AppendOp, Repeated
      <3> QED BY <2>1, <3>1
    <2> QED BY <2>3, <2>4, Zenon DEF Step, Call, Get, Put, Return, Repeated
  <1>4. Phase(d)' = Phase(d)
    BY <1>1, <1>2, Zenon DEF Phase
  <1>5. Result(d)' = Result(d)
    BY <1>1, <1>2, <1>3, Zenon DEF Result
  <1> QED BY <1>1, <1>4, <1>5

(* Lift: how the step looks to KVModel, from how it looks for clerk c.     *)
LEMMA Lift ==
    ASSUME Inv, NEW c \in Clerks, Step(c), NEW p, NEW r, Phase(c)' = p, Result(c)' = r
    PROVE /\ [d \in Clerks |-> Phase(d)]' = [[d \in Clerks |-> Phase(d)] EXCEPT ![c] = p]
          /\ [d \in Clerks |-> Result(d)]' = [[d \in Clerks |-> Result(d)] EXCEPT ![c] = r]
  <1>1. \A d \in Clerks : d # c => Phase(d)' = Phase(d) /\ Result(d)' = Result(d)
    BY Aside
  <1> QED BY <1>1

(* Takes: a step that executes the pending request of c, delivered or not,  *)
(* is the moment at which the call takes effect.                           *)
LEMMA Takes ==
    ASSUME Inv, NEW c \in Clerks, Step(c), Phase(c) = "called", Phase(c)' = "done",
           Result(c)' = Model!Output(map[args[c].key], args[c]),
           map' = [map EXCEPT ![args[c].key] = Model!Step(@, args[c])], args' = args
    PROVE Model!Next
  <1>1. Model!Effect(c)
    BY Lift DEF Model!Effect
  <1> QED BY <1>1 DEF Model!Next

(* Hides: a step KVModel does not see.                                     *)
LEMMA Hides ==
    ASSUME Inv, NEW c \in Clerks, Step(c), Phase(c)' = Phase(c), Result(c)' = Result(c),
           map' = map, args' = args
    PROVE UNCHANGED Model!vars
  <1>1. /\ [d \in Clerks |-> Phase(d)]' = [d \in Clerks |-> Phase(d)]
        /\ [d \in Clerks |-> Result(d)]' = [d \in Clerks |-> Result(d)]
    BY Lift
  <1> QED BY <1>1 DEF Model!vars

(* CallRefines: a clerk's call is KVModel's.                               *)
LEMMA CallRefines ==
    ASSUME Inv, NEW c \in Clerks, NEW op \in {"Get", "Put", "Append"}, NEW key \in Keys,
           Call(c, op, key)
    PROVE Model!Next
  <1>1. Step(c)
    BY Zenon DEF Step
  <1>2. pc[c] = "idle" /\ pc'[c] = "calling" /\ map' = map
    BY DEF Call, Inv, TypeOK
  <1>3. clerkId_count'[c] = count'[c] - 1 /\ count'[c] \in 0..MaxCount + 1
    <2>1. clerkId_count' = clerkId_count /\ count' = count
      BY Zenon DEF Call
    <2> QED BY <1>2, <2>1, Zenon DEF Inv, CountInv, TypeOK
  <1>4. Phase(c) = "idle" /\ Result(c) = <<>>
    BY <1>2 DEF Phase, Result, Executed
  <1>5. ~Executed(c)'
    BY <1>2, <1>3 DEF Executed
  <1>6. Phase(c)' = "called" /\ Result(c)' = <<>>
    BY <1>2, <1>5 DEF Phase, Result
  <1>7. PICK in \in Inputs : args' = [args EXCEPT ![c] = in]
    BY CallInv, Zenon DEF Call, Inv, TypeOK
  <1>8. [d \in Clerks |-> Result(d)]' = [d \in Clerks |-> Result(d)]
    BY <1>1, <1>4, <1>6, Lift
  <1>9. Model!Call(c)
    <2>1. in \in Model!Inputs
      BY <1>7 DEF Inputs, Model!Inputs
    <2>2. [d \in Clerks |-> Phase(d)]' = [[d \in Clerks |-> Phase(d)] EXCEPT ![c] = "called"]
      BY <1>1, <1>6, Lift
    <2> QED BY <1>2, <1>4, <1>7, <1>8, <2>1, <2>2 DEF Model!Call
  <1> QED BY <1>9 DEF Model!Next

(* GetRefines: a Get takes effect in the run whose reply is delivered.     *)
LEMMA GetRefines ==
    ASSUME Inv, NEW c \in Clerks, NEW delivered \in BOOLEAN, Get(c, delivered)
    PROVE Model!Next \/ UNCHANGED Model!vars
  <1> DEFINE key == args[c].key
  <1>1. Step(c)
    BY Zenon DEF Step
  <1>2. /\ pc[c] = "calling" /\ args[c].op = "Get" /\ args' = args /\ map' = map
        /\ Answer(c, map[key], delivered)
    BY Zenon DEF Get, Answer
  <1>3. Phase(c) = "called" /\ Result(c) = <<>>
    BY <1>2 DEF Phase, Result, Executed
  <1>4. CASE delivered
    <2>1. pc'[c] = "answered" /\ reply'[c] = map[key]
      BY <1>2, <1>4 DEF Answer, Inv, TypeOK
    <2>2. Phase(c)' = "done" /\ Result(c)' = map[key]
      BY <1>2, <2>1 DEF Phase, Result, Executed
    <2>3. /\ Model!Output(map[key], args[c]) = map[key]
          /\ Model!Step(map[key], args[c]) = map[key]
      BY <1>2 DEF Model!Output, Model!Step
    <2>4. map' = [map EXCEPT ![key] = Model!Step(@, args[c])]
      BY <1>2, <2>3 DEF Inv, TypeOK
    <2> QED BY <1>1, <1>2, <1>3, <2>2, <2>3, <2>4, Takes
  <1>5. CASE ~delivered
    <2>1. pc'[c] = "calling"
      BY <1>2, <1>5 DEF Answer, Inv, TypeOK
    <2>2. Phase(c)' = "called" /\ Result(c)' = <<>>
      BY <1>2, <2>1 DEF Phase, Result, Executed
    <2> QED BY <1>1, <1>2, <1>3, <2>2, Hides
  <1> QED BY <1>4, <1>5

(* Done: after the handler has counted the request of c it has taken       *)
(* effect, whether or not the reply is delivered.                          *)
LEMMA Done ==
    ASSUME Inv, NEW c \in Clerks, pc[c] = "calling", args[c].op # "Get",
           NEW value, NEW delivered \in BOOLEAN, Answer(c, value, delivered),
           clerkId_count'[c] = count[c]
    PROVE /\ Phase(c)' = "done" /\ Executed(c)' /\ args' = args
          /\ IF delivered THEN pc'[c] = "answered" /\ reply'[c] = value
             ELSE pc'[c] = "calling"
  <1>1. args' = args /\ count' = count
    BY Zenon DEF Answer
  <1>2. IF delivered THEN pc'[c] = "answered" /\ reply'[c] = value ELSE pc'[c] = "calling"
    BY DEF Answer, Inv, TypeOK
  <1>3. Executed(c)'
    BY <1>1, <1>2, Zenon DEF Executed
  <1>4. pc'[c] # "idle"
    BY <1>2
  <1>5. Phase(c)' = "done"
    BY <1>3, <1>4, Zenon DEF Phase
  <1> QED BY <1>1, <1>2, <1>3, <1>5

(* PutRefines: a Put takes effect the first time it is handled.            *)
LEMMA PutRefines ==
    ASSUME Inv, NEW c \in Clerks, NEW delivered \in BOOLEAN, Put(c, delivered)
    PROVE Model!Next \/ UNCHANGED Model!vars
  <1> DEFINE key == args[c].key
             n == args[c].value[2]
  <1>1. Step(c) /\ pc[c] = "calling" /\ args[c].op = "Put"
    BY Zenon DEF Step, Put
  <1>2. Result(c) = <<>>
    BY <1>1, Zenon DEF Result
  <1>3. CASE n # ExceptCount(c)
    <2>1. Repeated(c, map[key], delivered) /\ map[key] \in Seq(Values)
      BY <1>3, Zenon DEF Put, Inv, TypeOK, Inputs
    <2>2. clerkId_count' = clerkId_count /\ clerkId_count[c] = count[c]
      BY <1>1, <1>3, <2>1, RepeatedInv, Executing
    <2>3. map' = map /\ Answer(c, map[key], delivered)
      BY <2>1, Zenon DEF Repeated
    <2>4. Phase(c)' = "done" /\ args' = args
      BY <1>1, <2>2, <2>3, Done
    <2>5. Phase(c) = "done"
      BY <1>1, <2>2 DEF Phase, Executed
    <2>6. Result(c)' = <<>>
      BY <1>1, <2>4, Zenon DEF Result
    <2> QED BY <1>1, <1>2, <2>3, <2>4, <2>5, <2>6, Hides
  <1>4. CASE n = ExceptCount(c)
    <2>1. /\ map' = [map EXCEPT ![key] = <<args[c].value>>]
          /\ clerkId_count' = [clerkId_count EXCEPT ![c] = n]
          /\ Answer(c, <<>>, delivered)
      BY <1>4, Zenon DEF Put
    <2>2. n = count[c] /\ clerkId_count[c] = count[c] - 1 /\ count[c] \in Counts
      BY <1>1, <1>4, Executing
    <2>3. clerkId_count'[c] = count[c]
      BY <2>1, <2>2 DEF Inv, TypeOK
    <2>4. Phase(c)' = "done" /\ args' = args
      BY <1>1, <2>1, <2>3, Done
    <2>5. Phase(c) = "called"
      BY <1>1, <2>2 DEF Phase, Executed, Counts
    <2>6. Result(c)' = <<>>
      BY <1>1, <2>4, Zenon DEF Result
    <2>7. /\ Model!Output(map[key], args[c]) = <<>>
          /\ Model!Step(map[key], args[c]) = <<args[c].value>>
      BY <1>1 DEF Model!Output, Model!Step
    <2> QED BY <1>1, <2>1, <2>4, <2>5, <2>6, <2>7, Takes
  <1> QED BY <1>3, <1>4

(* AppendRefines: an Append takes effect the first time it is handled, and  *)
(* opReply has the value it found until it returns.                        *)
LEMMA AppendRefines ==
    ASSUME Inv, NEW c \in Clerks, NEW delivered \in BOOLEAN, AppendOp(c, delivered)
    PROVE Model!Next \/ UNCHANGED Model!vars
  <1> DEFINE key == args[c].key
             n == args[c].value[2]
  <1>1. Step(c) /\ pc[c] = "calling" /\ args[c].op = "Append"
    BY Zenon DEF Step, AppendOp
  <1>2. args[c].value = <<c, n>> /\ n = count[c] /\ n \in Counts
    BY <1>1, Executing
  <1>3. <<c, n>> \in Values
    BY <1>2 DEF Values
  <1>4. CASE n # ExceptCount(c)
    <2>1. Repeated(c, opReply[<<c, n>>], delivered) /\ opReply[<<c, n>>] \in Seq(Values)
      BY <1>3, <1>4, Zenon DEF AppendOp, Inv, TypeOK
    <2>2. clerkId_count' = clerkId_count /\ clerkId_count[c] = count[c]
      BY <1>1, <1>4, <2>1, RepeatedInv, Executing
    <2>3. map' = map /\ opReply' = opReply /\ Answer(c, opReply[<<c, n>>], delivered)
      BY <2>1, Zenon DEF Repeated
    <2>4. /\ Phase(c)' = "done" /\ Executed(c)' /\ args' = args
          /\ IF delivered THEN pc'[c] = "answered" /\ reply'[c] = opReply[<<c, n>>]
             ELSE pc'[c] = "calling"
      BY <1>1, <2>2, <2>3, Done
    <2>5. Phase(c) = "done" /\ Result(c) = opReply[<<c, n>>]
      BY <1>1, <1>2, <2>2 DEF Phase, Result, Executed
    <2>6. Result(c)' = opReply[<<c, n>>]
      BY <1>1, <1>2, <2>3, <2>4 DEF Result
    <2> QED BY <1>1, <2>3, <2>4, <2>5, <2>6, Hides
  <1>5. CASE n = ExceptCount(c)
    <2>1. /\ map' = [map EXCEPT ![key] = Append(@, args[c].value)]
          /\ clerkId_count' = [clerkId_count EXCEPT ![c] = n]
          /\ opReply' = [v \in Values |-> IF v = <<c, n>> THEN map[key]
                                          ELSE IF v = <<c, n - 1>> THEN <<>>
                                          ELSE opReply[v]]
          /\ Answer(c, map[key], delivered)
      BY <1>5, Zenon DEF AppendOp
    <2>2. clerkId_count[c] = count[c] - 1 /\ clerkId_count'[c] = count[c]
      BY <1>1, <1>2, <1>5, <2>1, Executing DEF Inv, TypeOK
    <2>3. opReply'[<<c, n>>] = map[key]
      BY <1>3, <2>1
    <2>4. /\ Phase(c)' = "done" /\ Executed(c)' /\ args' = args
          /\ IF delivered THEN pc'[c] = "answered" /\ reply'[c] = map[key]
             ELSE pc'[c] = "calling"
      BY <1>1, <2>1, <2>2, Done
    <2>5. Phase(c) = "called"
      BY <1>1, <1>2, <2>2 DEF Phase, Executed, Counts
    <2>6. Result(c)' = map[key]
      BY <1>1, <1>2, <2>3, <2>4 DEF Result
    <2>7. /\ Model!Output(map[key], args[c]) = map[key]
          /\ Model!Step(map[key], args[c]) = Append(map[key], args[c].value)
      BY <1>1 DEF Model!Output, Model!Step
    <2> QED BY <1>1, <2>1, <2>4, <2>5, <2>6, <2>7, Takes
  <1> QED BY <1>4, <1>5

(* ReturnRefines: a clerk's return is KVModel's.                           *)
LEMMA ReturnRefines ==
    ASSUME Inv, NEW c \in Clerks, Return(c)
    PROVE Model!Next
  <1>1. Step(c) /\ pc[c] = "answered" /\ map' = map /\ args' = args
    BY Zenon DEF Step, Return
  <1>2. pc'[c] = "idle"
    BY DEF Return, Inv, TypeOK
  <1>3. Phase(c) = "done" /\ Phase(c)' = "idle" /\ Result(c)' = <<>>
    BY <1>1, <1>2 DEF Phase, Result, Executed
  <1>4. Model!Return(c)
    BY <1>1, <1>3, Lift DEF Model!Return
  <1> QED BY <1>4 DEF Model!Next

(* InitRefines: at the start every key is empty and no call is under way.  *)
LEMMA InitRefines == Init => Model!Init
  <1> SUFFICES ASSUME Init PROVE Model!Init
    OBVIOUS
  <1>1. args \in [Clerks -> Model!Inputs]
    BY InitInv DEF Inv, TypeOK, Inputs, Model!Inputs
  <1>2. \A c \in Clerks : Phase(c) = "idle" /\ Result(c) = <<>>
    BY DEF Init, Phase, Result, Executed
  <1> QED BY <1>1, <1>2 DEF Init, Model!Init

(* StepRefines: every step of kvsrv is a step of KVModel or none.          *)
LEMMA StepRefines == Inv /\ [Next]_vars => [Model!Next]_(Model!vars)
  <1> SUFFICES ASSUME Inv, [Next]_vars PROVE Model!Next \/ UNCHANGED Model!vars
    OBVIOUS
  <1>1. CASE Next
    <2>1. PICK c \in Clerks : Step(c)
      BY <1>1, NextIsStep
    <2> QED BY <2>1, CallRefines, GetRefines, PutRefines, AppendRefines, ReturnRefines,
               Zenon DEF Step
  <1>2. CASE UNCHANGED vars
    BY <1>2 DEF vars, Model!vars, Phase, Result, Executed
  <1> QED BY <1>1, <1>2

(* Refinement: kvsrv is linearizable for any number of clerks, keys and     *)
(* calls, and however many requests and replies are lost.                  *)
THEOREM Refinement == Spec => Linearizable
  BY Invariance, InitRefines, StepRefines, PTL DEF Spec, Linearizable, Model!Spec

===============================================================================
