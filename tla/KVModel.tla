------------------------------- MODULE KVModel --------------------------------
(***************************************************************************)
(* What a key/value service promises its clerks: the object of             *)
(* models/kv.go (KvModel), on which every call takes effect once, at one   *)
(* moment between its invocation and its return.  A stored string is the   *)
(* sequence of the values it was put together from.                        *)
(***************************************************************************)
EXTENDS Sequences

CONSTANTS
    Clerks, Keys, Values,
    Reads    \* the operations that return the value they find

VARIABLES
    state,    \* KvModel's state, for every key
    phase,    \* "idle", "called" or "done", for every clerk
    input,    \* the KvInput of the clerk's latest call
    output    \* the KvOutput of the call, while it is done and not returned

vars == <<state, phase, input, output>>

Inputs == [op : {"Get", "Put", "Append"}, key : Keys, value : Values]

(* KvModel.Step: the next state, for an output that is the state before.   *)
Step(st, in) ==
    CASE in.op = "Get"    -> st
      [] in.op = "Put"    -> <<in.value>>
      [] in.op = "Append" -> Append(st, in.value)

(* What the call returns; a call that is not a read returns nothing.       *)
Output(st, in) == IF in.op \in Reads THEN st ELSE <<>>

Init ==
    /\ state = [k \in Keys |-> <<>>]
    /\ phase = [c \in Clerks |-> "idle"]
    /\ input \in [Clerks -> Inputs]
    /\ output = [c \in Clerks |-> <<>>]

Call(c) ==
    /\ phase[c] = "idle"
    /\ phase' = [phase EXCEPT ![c] = "called"]
    /\ \E in \in Inputs : input' = [input EXCEPT ![c] = in]
    /\ UNCHANGED <<state, output>>

Effect(c) ==
    /\ phase[c] = "called"
    /\ phase' = [phase EXCEPT ![c] = "done"]
    /\ state' = [state EXCEPT ![input[c].key] = Step(@, input[c])]
    /\ output' = [output EXCEPT ![c] = Output(state[input[c].key], input[c])]
    /\ UNCHANGED input

Return(c) ==
    /\ phase[c] = "done"
    /\ phase' = [phase EXCEPT ![c] = "idle"]
    /\ output' = [output EXCEPT ![c] = <<>>]
    /\ UNCHANGED <<state, input>>

Next == \E c \in Clerks : Call(c) \/ Effect(c) \/ Return(c)

Spec == Init /\ [][Next]_vars
===============================================================================
