------------------------------- MODULE MCKVRaft -------------------------------
(* Small instances of KVRaft for TLC.                                      *)
EXTENDS KVRaft

CONSTANTS c1, c2, k1

Calls(ops) == [i \in DOMAIN ops |-> [op |-> ops[i], key |-> k1]]
Work(ops1, ops2) == (c1 :> Calls(ops1)) @@ (c2 :> Calls(ops2))

OneClerk == [calls |-> Work(<<"Append", "Get">>, <<>>), faults |-> 1]
TwoClerks == [calls |-> Work(<<"Append">>, <<"Get">>), faults |-> 0]
MCWorkloads == {OneClerk, TwoClerks}
MCRoom == <<1, 4>>
===============================================================================
