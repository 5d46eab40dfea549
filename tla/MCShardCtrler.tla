----------------------------- MODULE MCShardCtrler ----------------------------
(* Small instances of ShardCtrler for TLC.                                 *)
EXTENDS ShardCtrler

CONSTANTS c1, c2

Work(ops1, ops2) == (c1 :> ops1) @@ (c2 :> ops2)

OneClerk == [calls |-> Work(<<"Update", "Query">>, <<>>), faults |-> 1]
TwoClerks == [calls |-> Work(<<"Update">>, <<"Query">>), faults |-> 0]
MCWorkloads == {OneClerk, TwoClerks}
MCRoom == <<1, 1, 4>>
===============================================================================
