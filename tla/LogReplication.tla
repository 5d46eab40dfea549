---------------------------- MODULE LogReplication ----------------------------
(****************************************************************************)
(* What src/raft promises about logs when no server takes a snapshot, with *)
(* no messages, no timers and no crashes: votes are cast for candidates    *)
(* whose logs are up to date, a quorum of votes makes a leader, servers    *)
(* replicate prefixes of a leader's log, and what a quorum has taken in    *)
(* the leader's own term is committed.  Module Raft implements it.         *)
(****************************************************************************)
EXTENDS Integers, Sequences

CONSTANTS Servers, Commands,
          Quorums       \* the sets of servers that are a majority

VARIABLES
    term,       \* the latest term each server knows of
    log,        \* the log of each server
    ballots,    \* the votes cast, <<voter, term, candidate>>
    leaderLog,  \* per term that has had a leader, the log of that leader
    acks,       \* <<v, t, n>>: v took the log of the leader of t up to n
    committed   \* the prefixes of their logs that leaders committed

vars == <<term, log, ballots, leaderLog, acks, committed>>

(* Any two quorums share a server, and more than a quorum is a quorum. *)
QuorumRules ==
    /\ \A P, Q \in Quorums : P \cap Q # {}
    /\ \A P \in Quorums, Q \in SUBSET Servers : P \subseteq Q => Q \in Quorums

Entry == [Term : Nat, Command : Commands]

Elected == DOMAIN leaderLog
Voters(s, t) == {v \in Servers : <<v, t, s>> \in ballots}

(* s is, or was before it stepped down in its term, the leader of its term. *)
Leads(s) == term[s] \in Elected /\ Voters(s, term[s]) \in Quorums

Acked(v, t, n) == \E a \in acks : a[1] = v /\ a[2] = t /\ a[3] >= n
Holders(t, n) == {v \in Servers : Acked(v, t, n)}

LastTerm(l) == IF Len(l) = 0 THEN -1 ELSE l[Len(l)].Term

UpToDate(l, m) ==
    \/ LastTerm(l) > LastTerm(m)
    \/ LastTerm(l) = LastTerm(m) /\ Len(l) >= Len(m)

Agree(l, m, n) == n <= Len(l) /\ n <= Len(m) /\ \A i \in 1..n : l[i] = m[i]

-----------------------------------------------------------------------------
Init ==
    /\ term \in [Servers -> Nat]
    /\ log = [s \in Servers |-> <<>>]
    /\ ballots = {}
    /\ leaderLog = [t \in {} |-> <<>>]
    /\ acks = {}
    /\ committed = {}

(* The leader log of t becomes l. *)
Record(t, l) ==
    leaderLog' = [u \in Elected \cup {t} |-> IF u = t THEN l ELSE leaderLog[u]]

LearnTerm(v) ==
    /\ term'[v] \in Nat /\ term'[v] > term[v]
    /\ term' = [term EXCEPT ![v] = term'[v]]
    /\ UNCHANGED <<log, ballots, leaderLog, acks, committed>>

(* v votes for c in the term t, which v has just learned if it is a new one.
   As long as t is open and c is in it, c's log is up to date. *)
Vote(v, c, t) ==
    /\ term'[v] = t /\ t \in Nat /\ t >= term[v]
    /\ term' = [term EXCEPT ![v] = t]
    /\ t <= term'[c]
    /\ \A b \in ballots : b[1] = v /\ b[2] = t => b[3] = c
    /\ t \notin Elected /\ t = term'[c] => UpToDate(log[c], log[v])
    /\ ballots' = ballots \cup {<<v, t, c>>}
    /\ UNCHANGED <<log, leaderLog, acks, committed>>

Win(s) ==
    /\ term[s] \notin Elected
    /\ Voters(s, term[s]) \in Quorums
    /\ Record(term[s], log[s])
    /\ acks' = acks \cup {<<s, term[s], Len(log[s])>>}
    /\ UNCHANGED <<term, log, ballots, committed>>

Extend(s, c) ==
    LET l == Append(log[s], [Term |-> term[s], Command |-> c])
    IN /\ Leads(s)
       /\ log' = [log EXCEPT ![s] = l]
       /\ Record(term[s], l)
       /\ acks' = acks \cup {<<s, term[s], Len(log[s]) + 1>>}
       /\ UNCHANGED <<term, ballots, committed>>

(* v takes the first n entries of the leader of t: they replace its log only
   if it does not have them already. *)
Replicate(v, t, n) ==
    /\ t \in Elected /\ t >= term[v]
    /\ n \in 0..Len(leaderLog[t])
    /\ \/ Agree(log[v], leaderLog[t], n) /\ UNCHANGED log
       \/ /\ \/ n > Len(log[v])
             \/ \E i \in 1..n : /\ i <= Len(log[v])
                                /\ log[v][i].Term # leaderLog[t][i].Term
          /\ log' = [log EXCEPT ![v] = SubSeq(leaderLog[t], 1, n)]
    /\ term' = [term EXCEPT ![v] = t]
    /\ acks' = acks \cup {<<v, t, n>>}
    /\ UNCHANGED <<ballots, leaderLog, committed>>

Commit(s, n) ==
    /\ Leads(s)
    /\ n \in 1..Len(log[s]) /\ log[s][n].Term = term[s]
    /\ Holders(term[s], n) \in Quorums
    /\ committed' = committed \cup {SubSeq(log[s], 1, n)}
    /\ UNCHANGED <<term, log, ballots, leaderLog, acks>>

Next ==
    \E v \in Servers :
        \/ LearnTerm(v)
        \/ \E c \in Servers : Vote(v, c, term'[v])
        \/ Win(v)
        \/ \E c \in Commands : Extend(v, c)
        \/ \E t \in Elected : \E n \in 0..Len(leaderLog[t]) : Replicate(v, t, n)
        \/ \E n \in 1..Len(log[v]) : Commit(v, n)

Spec == Init /\ [][Next]_vars

-----------------------------------------------------------------------------
(* The inductive invariant                                                 *)

TypeOK ==
    /\ term \in [Servers -> Nat]
    /\ log \in [Servers -> Seq(Entry)]
    /\ ballots \subseteq Servers \X Nat \X Servers
    /\ leaderLog \in [Elected -> Seq(Entry)] /\ Elected \subseteq Nat
    /\ acks \subseteq Servers \X Nat \X Nat
    /\ committed \subseteq Seq(Entry)

(* A voter is bound, voter and candidate have reached the term of a ballot,
   and a term with a leader has had an election. *)
BallotsBind ==
    /\ \A b \in ballots : b[2] <= term[b[1]] /\ b[2] <= term[b[3]]
    /\ \A a, b \in ballots : a[1] = b[1] /\ a[2] = b[2] => a[3] = b[3]
    /\ \A t \in Elected : \E s \in Servers : Voters(s, t) \in Quorums

(* While it stays in its term, a leader's log is the log of that term. *)
LeadersOwnTheirTerm ==
    \A s \in Servers : Leads(s) =>
        /\ log[s] = leaderLog[term[s]]
        /\ <<s, term[s], Len(log[s])>> \in acks

(* Every entry came from the leader of its term, with all that precedes it. *)
FromLeaders(l, t, leaders) ==
    \A i \in 1..Len(l) :
        /\ l[i].Term <= t /\ l[i].Term \in DOMAIN leaders
        /\ Agree(l, leaders[l[i].Term], i)

Ascending(l) == \A i, j \in 1..Len(l) : i <= j => l[i].Term <= l[j].Term

LogsFromLeaders ==
    /\ \A s \in Servers : FromLeaders(log[s], term[s], leaderLog)
    /\ \A t \in Elected :
          FromLeaders(leaderLog[t], t, leaderLog) /\ Ascending(leaderLog[t])

(* Who took a leader's log up to n still has it while in that term. *)
AcksSound ==
    \A a \in acks :
        /\ a[2] \in Elected /\ a[3] <= Len(leaderLog[a[2]]) /\ a[2] <= term[a[1]]
        /\ a[2] = term[a[1]] => Agree(log[a[1]], leaderLog[a[2]], a[3])

(* The entry n of the leader of t may still be committed: a quorum has taken
   it, or has not left t yet. *)
Choosable(t, n) ==
    /\ t \in Elected
    /\ n \in 1..Len(leaderLog[t]) /\ leaderLog[t][n].Term = t
    /\ {v \in Servers : Acked(v, t, n) \/ term[v] <= t} \in Quorums

(* Whoever took a choosable entry keeps it in all later terms, ... *)
HoldersKeep ==
    \A t \in Elected, v \in Servers : \A n \in 1..Len(leaderLog[t]) :
        Choosable(t, n) /\ Acked(v, t, n) => Agree(log[v], leaderLog[t], n)

(* ... votes only for candidates that have it, ... *)
VotesProtect ==
    \A b \in ballots, t \in Elected : \A n \in 1..Len(leaderLog[t]) :
        /\ t < b[2] /\ b[2] \notin Elected /\ term[b[3]] = b[2]
        /\ Choosable(t, n) /\ Acked(b[1], t, n)
        => \/ LastTerm(log[b[3]]) > t
           \/ LastTerm(log[b[3]]) = t /\ Len(log[b[3]]) >= n

(* ... and so every later leader has it. *)
LeadersHave ==
    \A t, u \in Elected : \A n \in 1..Len(leaderLog[t]) :
        t < u /\ Choosable(t, n) => Agree(leaderLog[u], leaderLog[t], n)

(* What is committed is part of the log of a term's leader that a quorum has
   taken, up to an entry of that term. *)
CommittedHeld ==
    \A p \in committed :
        /\ Len(p) > 0
        /\ LET t == p[Len(p)].Term
           IN /\ t \in Elected
              /\ Agree(p, leaderLog[t], Len(p))
              /\ Holders(t, Len(p)) \in Quorums

(* In term t the first n entries of the log l are known to be committed: they
   are part of what a leader of t or of an earlier term committed. *)
Learned(l, n, t) ==
    n = 0 \/ \E p \in committed : LastTerm(p) <= t /\ Agree(l, p, n)

Inv ==
    /\ TypeOK /\ BallotsBind /\ LeadersOwnTheirTerm /\ LogsFromLeaders /\ AcksSound
    /\ HoldersKeep /\ VotesProtect /\ LeadersHave /\ CommittedHeld
=============================================================================
