-------------------------------- MODULE MCRaft --------------------------------
(***************************************************************************)
(* Small instances of Raft for TLC.                                        *)
(***************************************************************************)
EXTENDS RaftRefinement, TLC

CONSTANTS s1, s2, s3

(* Who may campaign: two servers contest the first term and the third server
   the next one; or two rivals take turns, as in Figure 8 of the Raft paper;
   or s1 alone. *)
Contested == [t \in 2..MaxTerm |-> IF t % 2 = 0 THEN {s1, s2} ELSE {s3}]
Rivals == [t \in 2..MaxTerm |-> IF t % 2 = 0 THEN {s1} ELSE {s2}]
OnlyS1 == [t \in 2..MaxTerm |-> {s1}]

NoCrash == [s \in Servers |-> 0]
EachCrashesOnce == [s \in Servers |-> 1]
S1Crashes == [s \in Servers |-> IF s = s1 THEN 1 ELSE 0]

PeerSymmetry == Permutations({s2, s3})

(* A state without what no step can read before it is written again: the
   nextIndex of a server that does not lead (sendRequestVote sets it when the
   server wins), the matchIndex and voteCount of one that did not campaign in
   its current term (a reply is dropped when its term is not the current one),
   the preVoteCount of one that is not waiting for pings, and what only the
   properties read, the histories. *)
LiveState ==
    LET Live(P(_), f) == [s \in {t \in Servers : P(t)} |-> f[s]]
        campaigned(s) == votedFor[s] = s
    IN <<persistentVars, disk, state, commitIndex,
         Live(LAMBDA s : state[s] = Leader, nextIndex),
         Live(campaigned, matchIndex), Live(campaigned, voteCount),
         Live(LAMBDA s : state[s] = PreCandidate, preVoteCount),
         net, boots>>

(* The same with the histories that the properties of a run read. *)
LiveStateAndBallots == <<LiveState, ballots>>
LiveStateAndCommits == <<LiveState, committed>>

(* Pruning of the search for a committed entry that is lost: s2 holds at most
   one entry and campaigns once s3 has compacted its log, and from then on s1,
   cut off, has nothing on its way but a snapshot. *)
LateRival ==
    /\ state[s2] # Follower => lastIncludedIndex[s3] > 0
    /\ currentTerm[s2] < 3 => Len(WholeLog(s2)) <= 1
    /\ currentTerm[s2] = 3 => \A m \in net : m.from = s1 => m.rpc = "InstallSnapshot"
    /\ lastIncludedIndex[s1] <= 1 /\ lastIncludedIndex[s2] = 0
    /\ currentTerm[s1] < 3
===============================================================================
