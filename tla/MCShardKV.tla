------------------------------- MODULE MCShardKV ------------------------------
(* Small instances of ShardKV for TLC; the shard controller makes their     *)
(* configurations.                                                         *)
EXTENDS ShardKV, SequencesExt

CONSTANTS c1, c2

Ctrl == INSTANCE ConfigStateMachine WITH
    NShards <- 3, Gids <- Groups, MaxNum <- 4, Configs <- <<>>, op <- "None"

Joined == Ctrl!Join(Ctrl!DefaultConfig, {1})
Shared == Ctrl!Join(Joined, {2})
Assigned(cs) == [n \in DOMAIN cs |-> cs[n].Shards]

Stay == Assigned(<<Joined>>)
Move == Assigned(<<Joined, Shared>>)
MoveOn == Assigned(<<Joined, Shared, Ctrl!Leave(Shared, <<1>>)>>)
MoveBack == Assigned(<<Joined, Shared, Ctrl!Leave(Shared, <<2>>)>>)

Moves == CHOOSE sh \in 0..2 : Shared.Shards[sh] = 2

Calls(ops) == [i \in DOMAIN ops |-> [op |-> ops[i], shard |-> Moves]]

Scenario(cs, ops1, ops2, n) ==
    [configs |-> cs, calls |-> (c1 :> Calls(ops1) @@ c2 :> Calls(ops2)), faults |-> n]
MCScenarios ==
    {Scenario(Stay, <<"Append", "Get">>, <<>>, 2),
     Scenario(Stay, <<"Append">>, <<"Get">>, 1),
     Scenario(Move, <<"Append", "Get">>, <<>>, 1),
     Scenario(Move, <<"Append">>, <<"Get">>, 0),
     Scenario(MoveOn, <<"Append", "Get">>, <<>>, 0),
     Scenario(MoveBack, <<"Append", "Get">>, <<>>, 0),
     Scenario(MoveOn, <<>>, <<>>, 2),
     Scenario(MoveBack, <<>>, <<>>, 2)}
===============================================================================
