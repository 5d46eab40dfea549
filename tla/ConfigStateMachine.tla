-------------------------- MODULE ConfigStateMachine --------------------------
(***************************************************************************)
(* The configurations of the shard controller                              *)
(* (shardctrler/configStateMachine.go): how Join, Leave and Move make the  *)
(* next configuration from the latest one.  A group is its gid; gid 0 is   *)
(* no group.  A map from gids to shards is a function whose domain is the  *)
(* keys of the map, and Configs[n + 1] is configuration n.                 *)
(***************************************************************************)
EXTENDS Integers, Sequences, FiniteSets, FiniteSetsExt, SequencesExt

CONSTANTS
    NShards,
    Gids,          \* the groups there are
    MaxNum         \* bound: no configuration numbered beyond this one

ASSUME ConfigAssumption ==
    NShards \in Nat \ {0} /\ Gids \subseteq Nat \ {0} /\ MaxNum \in Nat

VARIABLES
    Configs,
    op             \* history: the operation that made the latest configuration

vars == <<Configs, op>>

ShardIds == 0..NShards - 1

DefaultConfig == [Num |-> 0, Shards |-> [s \in ShardIds |-> 0], Groups |-> {}]

TypeOK ==
    /\ Configs \in Seq([Num : 0..MaxNum, Shards : [ShardIds -> Gids \cup {0}],
                        Groups : SUBSET Gids])
    /\ \A i \in DOMAIN Configs : Configs[i].Num = i - 1
    /\ op \in {"None", "Join", "Leave", "Move"}

Init == Configs = <<DefaultConfig>> /\ op = "None"

-----------------------------------------------------------------------------
(* Groups and the shards they own                                          *)

(* The shards of every group, in increasing order; 0 is a key if it has some. *)
Group2Shards(config) ==
    LET owners == {config.Shards[s] : s \in ShardIds}
    IN [gid \in config.Groups \cup owners |->
          SetToSortSeq({s \in ShardIds : config.Shards[s] = gid}, <)]

(* The smallest gid but 0 with the fewest shards, -1 if there is none.     *)
GetGIDWithMinimumShards(g2s) ==
    LET gids == DOMAIN g2s \ {0}
        fewest == {g \in gids : \A h \in gids : Len(g2s[g]) <= Len(g2s[h])}
    IN IF gids = {} THEN -1 ELSE Min(fewest)

(* Mutant of GetGIDWithMaximumShards: shards without a group do not go      *)
(* first.                                                                  *)
MaximumWithoutZero(g2s) ==
    Min({g \in DOMAIN g2s : \A h \in DOMAIN g2s : Len(g2s[g]) >= Len(g2s[h])})

(* 0 while it has shards, else the smallest gid with the most.             *)
GetGIDWithMaximumShards(g2s) ==
    LET most == {g \in DOMAIN g2s : \A h \in DOMAIN g2s : Len(g2s[g]) >= Len(g2s[h])}
    IN IF 0 \in DOMAIN g2s /\ g2s[0] # <<>> THEN 0 ELSE Min(most)

(* newShards: the inverse of group2Shards.                                 *)
Assignment(g2s) ==
    [s \in ShardIds |-> CHOOSE g \in DOMAIN g2s : s \in Range(g2s[g])]

-----------------------------------------------------------------------------
(* The operations                                                          *)

RECURSIVE BalanceLoosely(_)

(* Mutant of Balance: stops one shard too early.                           *)
BalanceLoosely(g2s) ==
    LET source == GetGIDWithMaximumShards(g2s)
        target == GetGIDWithMinimumShards(g2s)
    IN IF source # 0 /\ Len(g2s[source]) - Len(g2s[target]) <= 2 THEN g2s
       ELSE BalanceLoosely([g2s EXCEPT ![target] = Append(@, Head(g2s[source])),
                                       ![source] = Tail(@)])

RECURSIVE Balance(_)

(* The loop of Join: one shard at a time from the group with the most to   *)
(* the group with the fewest.                                              *)
Balance(g2s) ==
    LET source == GetGIDWithMaximumShards(g2s)
        target == GetGIDWithMinimumShards(g2s)
    IN IF source # 0 /\ Len(g2s[source]) - Len(g2s[target]) <= 1 THEN g2s
       ELSE Balance([g2s EXCEPT ![target] = Append(@, Head(g2s[source])),
                                ![source] = Tail(@)])

Join(config, groups) ==
    LET joined == [config EXCEPT !.Num = @ + 1, !.Groups = @ \cup groups]
    IN [joined EXCEPT !.Shards = Assignment(Balance(Group2Shards(joined)))]

(* The shards of the groups that leave, in the order of gids.              *)
OrphanShards(g2s, gids) ==
    FlattenSeq([i \in DOMAIN gids |-> IF gids[i] \in DOMAIN g2s THEN g2s[gids[i]] ELSE <<>>])

Reallocate(g2s, orphans) ==
    FoldLeft(LAMBDA m, s : [m EXCEPT ![GetGIDWithMinimumShards(m)] = Append(@, s)],
             g2s, orphans)

(* Mutant of Leave: the loop of Join runs here too.                        *)
LeaveAndBalance(config, gids) ==
    LET g2s == Group2Shards(config)
        staying == [g \in DOMAIN g2s \ Range(gids) |-> g2s[g]]
        groups == config.Groups \ Range(gids)
    IN [Num |-> config.Num + 1, Groups |-> groups,
        Shards |-> IF groups = {} THEN [s \in ShardIds |-> 0]
                   ELSE Assignment(Balance(Reallocate(staying, OrphanShards(g2s, gids))))]

Leave(config, gids) ==
    LET g2s == Group2Shards(config)
        staying == [g \in DOMAIN g2s \ Range(gids) |-> g2s[g]]
        groups == config.Groups \ Range(gids)
    IN [Num |-> config.Num + 1, Groups |-> groups,
        Shards |-> IF groups = {} THEN [s \in ShardIds |-> 0]
                   ELSE Assignment(Reallocate(staying, OrphanShards(g2s, gids)))]

(* Mutant of Move: the configuration is changed in place.                  *)
MoveInPlace(config, shard, gid) == [config EXCEPT !.Shards[shard] = gid]

Move(config, shard, gid) == [config EXCEPT !.Num = @ + 1, !.Shards[shard] = gid]

(* Configuration num, or the latest one.                                   *)
Query(configs, num) ==
    IF num < 0 \/ num >= Len(configs) THEN Last(configs) ELSE configs[num + 1]

Extend(config, name) ==
    /\ Len(Configs) <= MaxNum
    /\ Configs' = Append(Configs, config)
    /\ op' = name

(* The controller's callers: they join some group, leave groups in any      *)
(* order, whether or not these are in the configuration, and move a shard   *)
(* to a group that is.                                                     *)
DoJoin == \E groups \in SUBSET Gids \ {{}} : Extend(Join(Last(Configs), groups), "Join")

DoLeave ==
    \E gids \in SetToAllKPermutations(Gids) \ {<<>>} :
        Extend(Leave(Last(Configs), gids), "Leave")

DoMove ==
    \E shard \in ShardIds, gid \in Last(Configs).Groups :
        Extend(Move(Last(Configs), shard, gid), "Move")

Next == DoJoin \/ DoLeave \/ DoMove

Spec == Init /\ [][Next]_vars

-----------------------------------------------------------------------------
(* Properties                                                              *)

Load(config, gid) == Cardinality({s \in ShardIds : config.Shards[s] = gid})

Balanced(config) ==
    \A g, h \in config.Groups : Load(config, g) <= Load(config, h) + 1

(* ShardsAssigned: while there is a group, every shard belongs to one of    *)
(* the configuration's groups; with none, to gid 0.                        *)
ShardsAssigned ==
    \A i \in DOMAIN Configs : \A s \in ShardIds :
        IF Configs[i].Groups = {} THEN Configs[i].Shards[s] = 0
        ELSE Configs[i].Shards[s] \in Configs[i].Groups

(* StaysBalanced: a Join balances the shards whatever Moves came before,    *)
(* and a Leave does not unbalance them (the test's "max too much larger     *)
(* than min").                                                             *)
StaysBalanced ==
    [][op' = "Join" \/ (op' = "Leave" /\ Balanced(Last(Configs)))
       => Balanced(Last(Configs'))]_vars

(* MinimalTransfer: a shard whose group stays does not change hands in a    *)
(* Leave, nor in a Join of a balanced configuration unless to a group that  *)
(* joins.                                                                  *)
MinimalTransfer ==
    [][LET old == Last(Configs)
           new == Last(Configs')
           moved == {s \in ShardIds : old.Shards[s] \in new.Groups
                                    /\ new.Shards[s] # old.Shards[s]}
       IN /\ op' = "Leave" => moved = {}
          /\ op' = "Join" /\ Balanced(old) =>
               \A s \in moved : new.Shards[s] \in new.Groups \ old.Groups]_vars
===============================================================================
