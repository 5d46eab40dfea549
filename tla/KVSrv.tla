-------------------------------- MODULE KVSrv ---------------------------------
(***************************************************************************)
(* The single key/value server of lab 2 (kvsrv) and its clerks, over a     *)
(* labrpc network that may drop a request or, after the handler has run,   *)
(* its reply.  A clerk repeats a call until an answer comes; the server    *)
(* recognises a repeated Put or Append by the clerk's running count.  The  *)
(* value a call writes is named by its clerk and its count.  A Go map      *)
(* reads as the zero value where it holds nothing: "" (here <<>>) in map   *)
(* and opReply.                                                            *)
(***************************************************************************)
EXTENDS Integers, Sequences

CONSTANTS
    Clerks, Keys,
    MaxCount     \* bound: no Put or Append numbered beyond this one

ASSUME KVSrvAssumption == MaxCount \in Nat /\ Keys # {}

VARIABLES
    map, clerkId_count, opReply,  \* the server
    pc,                           \* the clerk: "idle", "calling" or "answered"
    args,                         \* the arguments of its latest call
    count,                        \* the number of its next Put or Append
    reply                         \* reply.Value, once the call is answered

vars == <<map, clerkId_count, opReply, pc, args, count, reply>>

Counts == 0..MaxCount
Values == Clerks \X Counts
NoCount == -1    \* clerkId_count does not hold the clerk

Inputs == [op : {"Get", "Put", "Append"}, key : Keys, value : Values]

TypeOK ==
    /\ map \in [Keys -> Seq(Values)]
    /\ clerkId_count \in [Clerks -> Counts \cup {NoCount}]
    /\ opReply \in [Values -> Seq(Values)]
    /\ pc \in [Clerks -> {"idle", "calling", "answered"}]
    /\ args \in [Clerks -> Inputs]
    /\ count \in [Clerks -> 0..MaxCount + 1]
    /\ reply \in [Clerks -> Seq(Values)]

Init ==
    /\ map = [k \in Keys |-> <<>>]
    /\ clerkId_count = [c \in Clerks |-> NoCount]
    /\ opReply = [v \in Values |-> <<>>]
    /\ pc = [c \in Clerks |-> "idle"]
    /\ args = [c \in Clerks |-> [op |-> "Get", key |-> CHOOSE k \in Keys : TRUE,
                                 value |-> <<c, 0>>]]
    /\ count = [c \in Clerks |-> 0]
    /\ reply = [c \in Clerks |-> <<>>]

-----------------------------------------------------------------------------
(* The clerk: one call at a time (ck.mu), repeated until it is answered    *)

Call(c, op, key) ==
    /\ pc[c] = "idle"
    /\ op # "Get" => count[c] <= MaxCount
    /\ pc' = [pc EXCEPT ![c] = "calling"]
    /\ args' = [args EXCEPT ![c] =
                  [op |-> op, key |-> key,
                   value |-> <<c, IF op = "Get" THEN 0 ELSE count[c]>>]]
    /\ UNCHANGED <<map, clerkId_count, opReply, count, reply>>

Return(c) ==
    /\ pc[c] = "answered"
    /\ pc' = [pc EXCEPT ![c] = "idle"]
    /\ count' = [count EXCEPT ![c] = IF args[c].op = "Get" THEN @ ELSE @ + 1]
    /\ reply' = [reply EXCEPT ![c] = <<>>]
    /\ UNCHANGED <<map, clerkId_count, opReply, args>>

(* The reply reaches the clerk, or the network drops it and the clerk calls *)
(* again.                                                                  *)
Answer(c, value, delivered) ==
    /\ pc' = [pc EXCEPT ![c] = IF delivered THEN "answered" ELSE @]
    /\ reply' = [reply EXCEPT ![c] = IF delivered THEN value ELSE @]
    /\ UNCHANGED <<args, count>>

-----------------------------------------------------------------------------
(* The handlers, each under kv.mu                                          *)

Get(c, delivered) ==
    /\ pc[c] = "calling" /\ args[c].op = "Get"
    /\ Answer(c, map[args[c].key], delivered)
    /\ UNCHANGED <<map, clerkId_count, opReply>>

ExceptCount(c) == IF clerkId_count[c] = NoCount THEN 0 ELSE clerkId_count[c] + 1

(* A count that is not the expected one leaves the map alone, but a clerk  *)
(* seen for the first time is entered with count 0 all the same.           *)
Repeated(c, value, delivered) ==
    /\ clerkId_count' = [clerkId_count EXCEPT ![c] = IF @ = NoCount THEN 0 ELSE @]
    /\ Answer(c, value, delivered)
    /\ UNCHANGED <<map, opReply>>

(* Mutant of Put: a repeated Put is left without an answer.                *)
PutAnswersOnce(c, delivered) ==
    LET n == args[c].value[2] IN
    /\ pc[c] = "calling" /\ args[c].op = "Put"
    /\ \/ n # ExceptCount(c) /\ Repeated(c, <<>>, FALSE)
       \/ /\ n = ExceptCount(c)
          /\ map' = [map EXCEPT ![args[c].key] = <<args[c].value>>]
          /\ clerkId_count' = [clerkId_count EXCEPT ![c] = n]
          /\ Answer(c, <<>>, delivered)
          /\ UNCHANGED opReply

(* Mutant of Put: the count is entered for a new clerk only.                *)
PutUncounted(c, delivered) ==
    /\ pc[c] = "calling" /\ args[c].op = "Put"
    /\ \/ args[c].value[2] # ExceptCount(c) /\ Repeated(c, map[args[c].key], delivered)
       \/ /\ args[c].value[2] = ExceptCount(c)
          /\ map' = [map EXCEPT ![args[c].key] = <<args[c].value>>]
          /\ clerkId_count' = [clerkId_count EXCEPT ![c] = IF @ = NoCount THEN 0 ELSE @]
          /\ Answer(c, <<>>, delivered)
          /\ UNCHANGED opReply

Put(c, delivered) ==
    LET key == args[c].key
        n == args[c].value[2] IN
    /\ pc[c] = "calling" /\ args[c].op = "Put"
    /\ \/ /\ n # ExceptCount(c)
          /\ Repeated(c, map[key], delivered)
       \/ /\ n = ExceptCount(c)
          /\ map' = [map EXCEPT ![key] = <<args[c].value>>]
          /\ clerkId_count' = [clerkId_count EXCEPT ![c] = n]
          /\ Answer(c, <<>>, delivered)
          /\ UNCHANGED opReply

(* Mutant of AppendOp: a repeated Append is answered with the value of now. *)
AppendRepliesNow(c, delivered) ==
    LET key == args[c].key
        n == args[c].value[2] IN
    /\ pc[c] = "calling" /\ args[c].op = "Append"
    /\ \/ n # ExceptCount(c) /\ Repeated(c, map[key], delivered)
       \/ /\ n = ExceptCount(c)
          /\ map' = [map EXCEPT ![key] = Append(@, args[c].value)]
          /\ clerkId_count' = [clerkId_count EXCEPT ![c] = n]
          /\ Answer(c, map[key], delivered)
          /\ UNCHANGED opReply

AppendOp(c, delivered) ==
    LET key == args[c].key
        n == args[c].value[2] IN
    /\ pc[c] = "calling" /\ args[c].op = "Append"
    /\ \/ /\ n # ExceptCount(c)
          /\ Repeated(c, opReply[<<c, n>>], delivered)
       \/ /\ n = ExceptCount(c)
          /\ map' = [map EXCEPT ![key] = Append(@, args[c].value)]
          /\ clerkId_count' = [clerkId_count EXCEPT ![c] = n]
          /\ opReply' = [v \in Values |-> IF v = <<c, n>> THEN map[key]
                                          ELSE IF v = <<c, n - 1>> THEN <<>>
                                          ELSE opReply[v]]
          /\ Answer(c, map[key], delivered)

Handle(c, delivered) == Get(c, delivered) \/ Put(c, delivered) \/ AppendOp(c, delivered)

Next ==
    \E c \in Clerks :
        \/ \E op \in {"Get", "Put", "Append"}, key \in Keys : Call(c, op, key)
        \/ \E delivered \in BOOLEAN : Handle(c, delivered)
        \/ Return(c)

(* A clerk repeats its call for ever and the network drops a request or a   *)
(* reply one time in ten, so some attempt gets through.                    *)
Fairness == \A c \in Clerks : WF_vars(Handle(c, TRUE)) /\ WF_vars(Return(c))

Spec == Init /\ [][Next]_vars
FairSpec == Spec /\ Fairness

-----------------------------------------------------------------------------
(* Properties                                                              *)

(* The latest call of c has taken effect: the server has counted its Put   *)
(* or Append, or the answer to its Get is on the way back.                 *)
Executed(c) ==
    \/ pc[c] = "answered"
    \/ pc[c] = "calling" /\ args[c].op # "Get" /\ clerkId_count[c] = count[c]

Phase(c) ==
    IF pc[c] = "idle" THEN "idle" ELSE IF Executed(c) THEN "done" ELSE "called"

Result(c) ==
    IF ~Executed(c) \/ args[c].op = "Put" THEN <<>>
    ELSE IF pc[c] = "answered" THEN reply[c] ELSE opReply[args[c].value]

Model == INSTANCE KVModel WITH
    Reads <- {"Get", "Append"},
    state <- map,
    phase <- [c \in Clerks |-> Phase(c)],
    input <- args,
    output <- [c \in Clerks |-> Result(c)]

(* CountInv: the count the server keeps for a clerk lags behind the clerk's *)
(* by one, and equals it only from the moment the pending Put or Append has *)
(* been executed.  So the counts alone tell a repeated request from a new   *)
(* one, the Gets in between notwithstanding.                               *)
CountInv ==
    \A c \in Clerks :
        IF pc[c] = "idle" \/ args[c].op = "Get"
        THEN clerkId_count[c] = count[c] - 1
        ELSE /\ args[c].value = <<c, count[c]>>
             /\ count[c] <= MaxCount
             /\ clerkId_count[c] \in {count[c] - 1, count[c]}
             /\ pc[c] = "answered" => clerkId_count[c] = count[c]

(* Linearizable: whatever requests and replies are lost and however the    *)
(* calls of the clerks interleave, every Get, Put and Append of kvsrv acts *)
(* as one atomic step of KvModel between its call and its return, and a    *)
(* repeated Append is answered with the value its first run found.         *)
Linearizable == Model!Spec

(* CallsReturn: no call of a clerk goes on for ever.                       *)
CallsReturn == \A c \in Clerks : pc[c] = "calling" ~> pc[c] = "idle"

===============================================================================
