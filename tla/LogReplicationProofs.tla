------------------------- MODULE LogReplicationProofs -------------------------
(****************************************************************************)
(* The invariant of module LogReplication is inductive, for any number of  *)
(* servers and any system of quorums that meet.                            *)
(****************************************************************************)
EXTENDS LogReplication, TLAPS

-----------------------------------------------------------------------------
(* Logs                                                                    *)

(* The parts of the state have the types the proofs below rely on. *)
LEMMA LogTypes ==
    ASSUME TypeOK
    PROVE  /\ \A s \in Servers :
                 /\ term[s] \in Nat /\ log[s] \in Seq(Entry) /\ Len(log[s]) \in Nat
                 /\ \A i \in 1..Len(log[s]) : log[s][i].Term \in Nat
           /\ \A t \in Elected :
                 /\ t \in Nat /\ leaderLog[t] \in Seq(Entry) /\ Len(leaderLog[t]) \in Nat
                 /\ \A i \in 1..Len(leaderLog[t]) : leaderLog[t][i].Term \in Nat
           /\ \A b \in ballots : b[1] \in Servers /\ b[2] \in Nat /\ b[3] \in Servers
           /\ \A a \in acks : a[1] \in Servers /\ a[2] \in Nat /\ a[3] \in Nat
<1>1. ASSUME NEW l \in Seq(Entry)
      PROVE  Len(l) \in Nat /\ \A i \in 1..Len(l) : l[i].Term \in Nat
  <2>1. Len(l) \in Nat /\ \A i \in 1..Len(l) : l[i] \in Entry
    OBVIOUS
  <2>2. \A e \in Entry : e.Term \in Nat
    BY Zenon DEF Entry
  <2> QED BY Zenon, <2>1, <2>2
<1>2. ballots \subseteq Servers \X Nat \X Servers /\ acks \subseteq Servers \X Nat \X Nat
  BY Zenon DEF TypeOK
<1> QED BY Zenon, <1>1, <1>2 DEF TypeOK

(* A prefix of a log. *)
LEMMA PrefixOf ==
    ASSUME NEW l \in Seq(Entry), NEW n \in 0..Len(l)
    PROVE  /\ SubSeq(l, 1, n) \in Seq(Entry) /\ Len(SubSeq(l, 1, n)) = n
           /\ \A i \in 1..n : SubSeq(l, 1, n)[i] = l[i]
OBVIOUS

(* A log with one entry more. *)
LEMMA OneMore ==
    ASSUME NEW l \in Seq(Entry), NEW e \in Entry
    PROVE  /\ Append(l, e) \in Seq(Entry) /\ Len(Append(l, e)) = Len(l) + 1
           /\ \A i \in 1..Len(l) : Append(l, e)[i] = l[i]
           /\ Append(l, e)[Len(l) + 1] = e
OBVIOUS

(* Agreement is symmetric and passes from log to log. *)
LEMMA AgreeRules ==
    ASSUME NEW a \in Seq(Entry), NEW b \in Seq(Entry), NEW c \in Seq(Entry),
           NEW n \in Nat, NEW m \in Nat, n <= m, Agree(a, b, n),
           Agree(b, c, m) \/ Agree(c, b, m)
    PROVE  Agree(a, c, n) /\ Agree(c, a, n)
<1>1. n <= Len(a) /\ n <= Len(c)
  <2>1. Len(a) \in Nat /\ Len(c) \in Nat
    OBVIOUS
  <2> QED BY <2>1 DEF Agree
<1>2. ASSUME NEW i \in 1..n PROVE a[i] = c[i]
  BY DEF Agree
<1> QED BY Zenon, <1>1, <1>2 DEF Agree

(* Logs that agree up to an index agree up to the ones before it. *)
LEMMA AgreeShorter ==
    ASSUME NEW a \in Seq(Entry), NEW b \in Seq(Entry), NEW n \in Nat, NEW m \in Nat,
           n <= m, Agree(a, b, m)
    PROVE  Agree(a, b, n)
<1>1. Len(a) \in Nat /\ Len(b) \in Nat
  OBVIOUS
<1> QED BY <1>1 DEF Agree

(* A log that grows at its end keeps what it agrees on. *)
LEMMA AgreeGrown ==
    ASSUME NEW a \in Seq(Entry), NEW b \in Seq(Entry), NEW c \in Seq(Entry), NEW n \in Nat,
           Agree(a, b, n), Len(c) = Len(a) + 1, \A i \in 1..Len(a) : c[i] = a[i]
    PROVE  Agree(c, b, n)
<1>1. Len(a) \in Nat /\ Len(c) \in Nat
  OBVIOUS
<1> QED BY <1>1 DEF Agree

(* Entries that replace a missing or conflicting one leave what the two logs
   agree on. *)
LEMMA ReplaceKeeps ==
    ASSUME NEW l \in Seq(Entry), NEW m \in Seq(Entry), NEW k \in Nat, NEW n \in Nat,
           Agree(l, m, k),
           \/ n > Len(l)
           \/ \E i \in 1..n : i <= Len(l) /\ l[i].Term # m[i].Term
    PROVE  k <= n
<1>1. CASE n > Len(l)
  BY <1>1 DEF Agree
<1>2. CASE \E i \in 1..n : i <= Len(l) /\ l[i].Term # m[i].Term
  <2>1. PICK i \in 1..n : l[i].Term # m[i].Term
    BY Zenon, <1>2
  <2>2. ~(i \in 1..k)
    BY Zenon, <2>1 DEF Agree
  <2> QED BY <2>2
<1> QED BY Zenon, <1>1, <1>2

(* Logs in which every entry came from the leader of its term agree up to any
   entry of the same term: Raft's log matching. *)
LEMMA Matching ==
    ASSUME NEW l \in Seq(Entry), NEW m \in Seq(Entry), NEW t, NEW u, NEW L,
           FromLeaders(l, t, L), FromLeaders(m, u, L),
           NEW i \in 1..Len(l), i \in 1..Len(m), l[i].Term = m[i].Term
    PROVE  Agree(l, m, i)
BY DEF FromLeaders, Agree

(* Terms ascend in every server's log, since they do in every leader's. *)
LEMMA LogsAscend ==
    ASSUME TypeOK, LogsFromLeaders, NEW s \in Servers
    PROVE  Ascending(log[s])
<1> SUFFICES ASSUME NEW i \in 1..Len(log[s]), NEW j \in 1..Len(log[s]), i <= j
             PROVE  log[s][i].Term <= log[s][j].Term
  BY Zenon DEF Ascending
<1> DEFINE t == log[s][j].Term
<1>1. t \in Elected /\ Agree(log[s], leaderLog[t], j)
  BY Zenon DEF LogsFromLeaders, FromLeaders, Elected
<1>2. Ascending(leaderLog[t])
  BY Zenon, <1>1 DEF LogsFromLeaders
<1>3. Len(log[s]) \in Nat /\ Len(leaderLog[t]) \in Nat
  BY Zenon, <1>1, LogTypes
<1>4. /\ i \in 1..Len(leaderLog[t]) /\ j \in 1..Len(leaderLog[t])
      /\ log[s][i] = leaderLog[t][i] /\ log[s][j] = leaderLog[t][j]
  BY <1>1, <1>3 DEF Agree
<1> QED BY Zenon, <1>2, <1>4 DEF Ascending

(* The last term of a log that is not empty. *)
LEMMA LastTerms ==
    ASSUME TypeOK, LogsFromLeaders, NEW s \in Servers
    PROVE  /\ LastTerm(log[s]) \in Int /\ Len(log[s]) \in Nat
           /\ \A n \in 1..Len(log[s]) :
                 /\ log[s][n].Term \in Nat /\ log[s][n].Term <= LastTerm(log[s])
                 /\ LastTerm(log[s]) = log[s][Len(log[s])].Term
           /\ LastTerm(log[s]) >= 0 => Len(log[s]) > 0
BY LogTypes, LogsAscend DEF LastTerm, Ascending

-----------------------------------------------------------------------------
(* Elections                                                               *)

(* A term has one candidate with a quorum of votes. *)
LEMMA OneLeader ==
    ASSUME QuorumRules, BallotsBind, NEW s, NEW r, NEW t,
           Voters(s, t) \in Quorums, Voters(r, t) \in Quorums
    PROVE  s = r
<1>1. PICK v \in Servers : <<v, t, s>> \in ballots /\ <<v, t, r>> \in ballots
  BY Zenon DEF QuorumRules, Voters
<1> QED BY Zenon, <1>1 DEF BallotsBind

(* A server with a quorum of votes has reached the term of the election. *)
LEMMA ElectedReached ==
    ASSUME QuorumRules, TypeOK, BallotsBind, NEW s \in Servers, NEW t,
           Voters(s, t) \in Quorums
    PROVE  t <= term[s]
<1>1. PICK v \in Servers : <<v, t, s>> \in ballots
  BY Zenon DEF QuorumRules, Voters
<1> QED BY Zenon, <1>1 DEF BallotsBind

-----------------------------------------------------------------------------
(* What every step leaves standing                                         *)

(* Terms rise, logs of leaders grow, and nothing recorded is withdrawn; who
   takes a leader's log joins or is already in that leader's term. *)
GrowStep ==
    /\ \A v \in Servers : term'[v] >= term[v]
    /\ Elected \subseteq Elected'
    /\ \A t \in Elected : Agree(leaderLog'[t], leaderLog[t], Len(leaderLog[t]))
    /\ ballots \subseteq ballots' /\ acks \subseteq acks' /\ committed \subseteq committed'
    /\ \A a \in acks' : a \in acks \/ (term'[a[1]] = a[2] /\ term[a[1]] <= a[2])

(* A leader log that extends the one recorded before leaves the others alone. *)
LEMMA RecordGrows ==
    ASSUME TypeOK, NEW t \in Nat, NEW l \in Seq(Entry), Record(t, l),
           t \in Elected => Agree(l, leaderLog[t], Len(leaderLog[t]))
    PROVE  /\ Elected' = Elected \cup {t} /\ leaderLog'[t] = l
           /\ \A u \in Elected : u # t => leaderLog'[u] = leaderLog[u]
           /\ \A u \in Elected : Agree(leaderLog'[u], leaderLog[u], Len(leaderLog[u]))
           /\ leaderLog' \in [Elected' -> Seq(Entry)] /\ Elected' \subseteq Nat
<1>1. /\ Elected' = Elected \cup {t} /\ leaderLog'[t] = l
      /\ \A u \in Elected : u # t => leaderLog'[u] = leaderLog[u]
  BY Zenon DEF Record, Elected
<1>2. leaderLog' \in [Elected' -> Seq(Entry)] /\ Elected' \subseteq Nat
  BY Zenon, <1>1 DEF Record, TypeOK, Elected
<1>3. \A u \in Elected : Len(leaderLog[u]) \in Nat
  BY Zenon, LogTypes
<1>4. \A u \in Elected : Agree(leaderLog'[u], leaderLog[u], Len(leaderLog[u]))
  BY <1>1, <1>3 DEF Agree
<1> QED BY Zenon, <1>1, <1>2, <1>4

(* A winner records the log of a term that had none. *)
LEMMA WinGrows ==
    ASSUME TypeOK, NEW s \in Servers, Win(s)
    PROVE  /\ GrowStep /\ TypeOK'
           /\ Elected' = Elected \cup {term[s]} /\ leaderLog'[term[s]] = log[s]
           /\ \A u \in Elected : u # term[s] /\ leaderLog'[u] = leaderLog[u]
<1>1. term[s] \in Nat /\ log[s] \in Seq(Entry) /\ Len(log[s]) \in Nat
  BY Zenon, LogTypes
<1>2. /\ term[s] \notin Elected /\ Record(term[s], log[s])
      /\ acks' = acks \cup {<<s, term[s], Len(log[s])>>}
      /\ UNCHANGED <<term, log, ballots, committed>>
  BY Zenon DEF Win
<1>3. /\ Elected' = Elected \cup {term[s]} /\ leaderLog'[term[s]] = log[s]
      /\ \A u \in Elected : u # term[s] => leaderLog'[u] = leaderLog[u]
      /\ \A u \in Elected : Agree(leaderLog'[u], leaderLog[u], Len(leaderLog[u]))
      /\ leaderLog' \in [Elected' -> Seq(Entry)] /\ Elected' \subseteq Nat
  BY Zenon, <1>1, <1>2, RecordGrows
<1>4. TypeOK'
  BY <1>1, <1>2, <1>3 DEF TypeOK
<1>5. \A v \in Servers : term'[v] >= term[v]
  BY <1>2, LogTypes
<1>6. GrowStep
  BY <1>1, <1>2, <1>3, <1>5 DEF GrowStep
<1> QED BY Zenon, <1>2, <1>3, <1>4, <1>6

(* A leader's entry goes to its own log and to the one of its term. *)
LEMMA ExtendGrows ==
    ASSUME TypeOK, LeadersOwnTheirTerm, NEW s \in Servers, NEW c \in Commands, Extend(s, c)
    PROVE  /\ GrowStep /\ TypeOK'
           /\ Elected' = Elected /\ log'[s] = leaderLog'[term[s]]
           /\ \A u \in Elected : u # term[s] => leaderLog'[u] = leaderLog[u]
           /\ \A v \in Servers : v # s => log'[v] = log[v]
           /\ Len(log'[s]) = Len(log[s]) + 1 /\ log'[s][Len(log[s]) + 1].Term = term[s]
           /\ \A i \in 1..Len(log[s]) : log'[s][i] = log[s][i]
<1> DEFINE e == [Term |-> term[s], Command |-> c]
           l == Append(log[s], e)
<1>1. term[s] \in Nat /\ log[s] \in Seq(Entry) /\ Len(log[s]) \in Nat /\ e \in Entry
  BY Zenon, LogTypes DEF Entry
<1>2. /\ l \in Seq(Entry) /\ Len(l) = Len(log[s]) + 1 /\ l[Len(log[s]) + 1] = e
      /\ \A i \in 1..Len(log[s]) : l[i] = log[s][i]
  <2> HIDE DEF e
  <2> QED BY Zenon, <1>1, OneMore
<1>3. /\ term[s] \in Elected /\ log' = [log EXCEPT ![s] = l] /\ Record(term[s], l)
      /\ acks' = acks \cup {<<s, term[s], Len(log[s]) + 1>>}
      /\ UNCHANGED <<term, ballots, committed>>
  BY Zenon DEF Extend, Leads
<1>4. log[s] = leaderLog[term[s]] /\ e.Term = term[s]
  BY Zenon DEF Extend, LeadersOwnTheirTerm
<1> HIDE DEF e, l
<1>5. Agree(l, leaderLog[term[s]], Len(leaderLog[term[s]]))
  BY <1>1, <1>2, <1>4 DEF Agree
<1>6. /\ Elected' = Elected \cup {term[s]} /\ leaderLog'[term[s]] = l
      /\ \A u \in Elected : u # term[s] => leaderLog'[u] = leaderLog[u]
      /\ \A u \in Elected : Agree(leaderLog'[u], leaderLog[u], Len(leaderLog[u]))
      /\ leaderLog' \in [Elected' -> Seq(Entry)] /\ Elected' \subseteq Nat
  BY Zenon, <1>1, <1>2, <1>3, <1>5, RecordGrows
<1>7. TypeOK'
  <2>1. acks' \subseteq Servers \X Nat \X Nat
    BY <1>1, <1>3 DEF TypeOK
  <2>2. log' \in [Servers -> Seq(Entry)]
    BY Zenon, <1>2, <1>3 DEF TypeOK
  <2> QED BY Zenon, <1>3, <1>6, <2>1, <2>2 DEF TypeOK
<1>8. \A v \in Servers : term'[v] >= term[v]
  BY <1>3, LogTypes
<1>9. GrowStep
  BY <1>1, <1>3, <1>6, <1>8 DEF GrowStep
<1>10. log'[s] = l /\ \A v \in Servers : v # s => log'[v] = log[v]
  BY Zenon, <1>3 DEF TypeOK
<1> QED BY Zenon, <1>2, <1>3, <1>4, <1>6, <1>7, <1>9, <1>10

(* One server moves to a later term, or stays in its own. *)
LEMMA TermGrows ==
    ASSUME TypeOK, NEW v \in Servers, NEW t \in Nat, t >= term[v],
           term' = [term EXCEPT ![v] = t]
    PROVE  /\ term' \in [Servers -> Nat] /\ term'[v] = t
           /\ \A s \in Servers : s # v => term'[s] = term[s]
           /\ \A s \in Servers : term'[s] >= term[s]
BY DEF TypeOK

(* Nothing happens to the leader logs. *)
LEMMA SameLeaderLogs ==
    ASSUME TypeOK, leaderLog' = leaderLog
    PROVE  /\ Elected' = Elected /\ leaderLog' \in [Elected' -> Seq(Entry)]
           /\ Elected' \subseteq Nat
           /\ \A t \in Elected : Agree(leaderLog'[t], leaderLog[t], Len(leaderLog[t]))
BY LogTypes DEF TypeOK, Elected, Agree

(* Learning of a later term changes nothing else. *)
LEMMA LearnTermGrows ==
    ASSUME TypeOK, NEW v \in Servers, LearnTerm(v)
    PROVE  GrowStep /\ TypeOK' /\ Elected' = Elected
<1>1. PICK t \in Nat : t >= term[v] /\ term' = [term EXCEPT ![v] = t]
  BY LogTypes DEF LearnTerm
<1>2. UNCHANGED <<log, ballots, leaderLog, acks, committed>>
  BY Zenon DEF LearnTerm
<1>3. term' \in [Servers -> Nat] /\ \A s \in Servers : term'[s] >= term[s]
  BY Zenon, <1>1, TermGrows
<1> QED BY Zenon, <1>2, <1>3, SameLeaderLogs DEF GrowStep, TypeOK

(* A vote moves its voter to the term it is cast in. *)
LEMMA VoteGrows ==
    ASSUME TypeOK, NEW v \in Servers, NEW c \in Servers, NEW t, Vote(v, c, t)
    PROVE  /\ GrowStep /\ TypeOK' /\ Elected' = Elected /\ t \in Nat
           /\ term'[v] = t /\ \A s \in Servers : s # v => term'[s] = term[s]
<1>1. /\ t \in Nat /\ t >= term[v] /\ term' = [term EXCEPT ![v] = t]
      /\ ballots' = ballots \cup {<<v, t, c>>}
      /\ UNCHANGED <<log, leaderLog, acks, committed>>
  BY Zenon DEF Vote
<1>2. /\ term' \in [Servers -> Nat] /\ \A s \in Servers : term'[s] >= term[s]
      /\ term'[v] = t /\ \A s \in Servers : s # v => term'[s] = term[s]
  BY Zenon, <1>1, TermGrows
<1>3. ballots' \subseteq Servers \X Nat \X Servers
  BY <1>1 DEF TypeOK
<1> QED BY Zenon, <1>1, <1>2, <1>3, SameLeaderLogs DEF GrowStep, TypeOK

(* After Replicate(v, t, n), v has the first n entries of the leader of t. *)
LEMMA ReplicateGrows ==
    ASSUME TypeOK, NEW v \in Servers, NEW t, NEW n, Replicate(v, t, n)
    PROVE  /\ GrowStep /\ TypeOK' /\ Elected' = Elected /\ leaderLog' = leaderLog
           /\ t \in Elected /\ t \in Nat /\ t >= term[v] /\ n \in 0..Len(leaderLog[t])
           /\ term'[v] = t /\ \A s \in Servers : s # v => term'[s] = term[s] /\ log'[s] = log[s]
           /\ acks' = acks \cup {<<v, t, n>>}
           /\ Agree(log'[v], leaderLog[t], n)
           /\ \/ log'[v] = log[v]
              \/ /\ Len(log'[v]) = n
                 /\ \/ n > Len(log[v])
                    \/ \E i \in 1..n : /\ i <= Len(log[v])
                                       /\ log[v][i].Term # leaderLog[t][i].Term
<1>1. /\ t \in Elected /\ t >= term[v] /\ term' = [term EXCEPT ![v] = t]
      /\ n \in 0..Len(leaderLog[t])
      /\ acks' = acks \cup {<<v, t, n>>}
      /\ UNCHANGED <<ballots, leaderLog, committed>>
  BY Zenon DEF Replicate
<1>2. t \in Nat /\ leaderLog[t] \in Seq(Entry) /\ Len(leaderLog[t]) \in Nat /\ n \in Nat
  BY <1>1, LogTypes
<1>3. /\ term' \in [Servers -> Nat] /\ \A s \in Servers : term'[s] >= term[s]
      /\ term'[v] = t /\ \A s \in Servers : s # v => term'[s] = term[s]
  BY Zenon, <1>1, <1>2, TermGrows
<1>4. acks' \subseteq Servers \X Nat \X Nat
  BY <1>1, <1>2 DEF TypeOK
<1> DEFINE p == SubSeq(leaderLog[t], 1, n)
<1>5. /\ p \in Seq(Entry) /\ Len(p) = n /\ Agree(p, leaderLog[t], n)
  BY <1>1, <1>2, PrefixOf DEF Agree
<1> HIDE DEF p
<1>6. /\ log' \in [Servers -> Seq(Entry)]
      /\ \A s \in Servers : s # v => log'[s] = log[s]
      /\ Agree(log'[v], leaderLog[t], n)
      /\ \/ log'[v] = log[v]
         \/ /\ Len(log'[v]) = n
            /\ \/ n > Len(log[v])
               \/ \E i \in 1..n : /\ i <= Len(log[v])
                                  /\ log[v][i].Term # leaderLog[t][i].Term
  <2>1. CASE Agree(log[v], leaderLog[t], n) /\ UNCHANGED log
    BY Zenon, <2>1 DEF TypeOK
  <2>2. CASE /\ \/ n > Len(log[v])
                \/ \E i \in 1..n : /\ i <= Len(log[v])
                                   /\ log[v][i].Term # leaderLog[t][i].Term
             /\ log' = [log EXCEPT ![v] = p]
    BY Zenon, <2>2, <1>5 DEF TypeOK
  <2> QED BY Zenon, <2>1, <2>2 DEF Replicate, p
<1>7. TypeOK'
  BY Zenon, <1>1, <1>3, <1>4, <1>6, SameLeaderLogs DEF TypeOK
<1>8. GrowStep
  BY <1>1, <1>3, SameLeaderLogs DEF GrowStep
<1> QED BY Zenon, <1>1, <1>2, <1>3, <1>6, <1>7, <1>8, SameLeaderLogs

(* A commit records a prefix of the leader's log. *)
LEMMA CommitGrows ==
    ASSUME TypeOK, NEW s \in Servers, NEW n, Commit(s, n)
    PROVE  /\ GrowStep /\ TypeOK' /\ Elected' = Elected
           /\ n \in 1..Len(log[s]) /\ Len(SubSeq(log[s], 1, n)) = n
           /\ \A i \in 1..n : SubSeq(log[s], 1, n)[i] = log[s][i]
<1>1. /\ n \in 1..Len(log[s]) /\ committed' = committed \cup {SubSeq(log[s], 1, n)}
      /\ UNCHANGED <<term, log, ballots, leaderLog, acks>>
  BY Zenon DEF Commit
<1>2. /\ SubSeq(log[s], 1, n) \in Seq(Entry) /\ Len(SubSeq(log[s], 1, n)) = n
      /\ \A i \in 1..n : SubSeq(log[s], 1, n)[i] = log[s][i]
  BY <1>1, LogTypes, PrefixOf
<1>3. \A v \in Servers : term'[v] >= term[v]
  BY <1>1, LogTypes
<1> QED BY Zenon, <1>1, <1>2, <1>3, SameLeaderLogs DEF GrowStep, TypeOK

(* A quorum of votes stays one. *)
LEMMA VotersGrow ==
    ASSUME QuorumRules, GrowStep, NEW s, NEW t, Voters(s, t) \in Quorums
    PROVE  Voters(s, t)' \in Quorums
<1>1. Voters(s, t) \subseteq Voters(s, t)' /\ Voters(s, t)' \in SUBSET Servers
  BY Zenon DEF Voters, GrowStep
<1> QED BY Zenon, <1>1 DEF QuorumRules

(* A quorum that has taken an entry stays one. *)
LEMMA HoldersGrow ==
    ASSUME QuorumRules, GrowStep, NEW t, NEW n, Holders(t, n) \in Quorums
    PROVE  Holders(t, n)' \in Quorums
<1>1. Holders(t, n) \subseteq Holders(t, n)' /\ Holders(t, n)' \in SUBSET Servers
  BY Zenon DEF Holders, Acked, GrowStep
<1> QED BY Zenon, <1>1 DEF QuorumRules

(* No new entry becomes choosable but the one a leader has just appended. *)
LEMMA ChoosableShrinks ==
    ASSUME QuorumRules, TypeOK, TypeOK', GrowStep, NEW t \in Elected,
           NEW n \in 1..Len(leaderLog[t]), Choosable(t, n)'
    PROVE  Choosable(t, n)
<1> DEFINE P == {v \in Servers : Acked(v, t, n) \/ term[v] <= t}
           Q == {v \in Servers : Acked(v, t, n)' \/ term'[v] <= t}
<1>1. Q \in Quorums /\ leaderLog'[t][n].Term = t
  BY Zenon DEF Choosable
<1>2. leaderLog'[t][n] = leaderLog[t][n]
  BY Zenon, LogTypes DEF GrowStep, Agree
<1>3. \A v \in Servers : term[v] \in Nat /\ term'[v] \in Nat /\ term'[v] >= term[v]
  BY Zenon DEF TypeOK, GrowStep
<1>4. t \in Nat /\ n \in Nat
  BY LogTypes
<1>5. ASSUME NEW v \in Servers, Acked(v, t, n)'
      PROVE  Acked(v, t, n) \/ term[v] <= t
  BY Zenon, <1>5 DEF Acked, GrowStep
<1>6. Q \subseteq P
  BY <1>3, <1>4, <1>5
<1>7. P \in Quorums
  BY Zenon, <1>1, <1>6 DEF QuorumRules
<1> QED BY Zenon, <1>1, <1>2, <1>7 DEF Choosable

-----------------------------------------------------------------------------
(* The steps keep the invariant, one conjunct at a time                    *)

(* Whatever the step, nothing recorded is withdrawn. *)
LEMMA NextGrows ==
    ASSUME TypeOK, LeadersOwnTheirTerm, Next
    PROVE  GrowStep /\ TypeOK'
<1>1. PICK v \in Servers :
        \/ LearnTerm(v)
        \/ \E c \in Servers : Vote(v, c, term'[v])
        \/ Win(v)
        \/ \E c \in Commands : Extend(v, c)
        \/ \E t \in Elected : \E n \in 0..Len(leaderLog[t]) : Replicate(v, t, n)
        \/ \E n \in 1..Len(log[v]) : Commit(v, n)
  BY Zenon DEF Next
<1>2. CASE LearnTerm(v)
  BY Zenon, <1>2, LearnTermGrows
<1>3. CASE \E c \in Servers : Vote(v, c, term'[v])
  BY Zenon, <1>3, VoteGrows
<1>4. CASE Win(v)
  BY Zenon, <1>4, WinGrows
<1>5. CASE \E c \in Commands : Extend(v, c)
  BY Zenon, <1>5, ExtendGrows
<1>6. CASE \E t \in Elected : \E n \in 0..Len(leaderLog[t]) : Replicate(v, t, n)
  BY Zenon, <1>6, ReplicateGrows
<1>7. CASE \E n \in 1..Len(log[v]) : Commit(v, n)
  BY Zenon, <1>7, CommitGrows
<1> QED BY Zenon, <1>1, <1>2, <1>3, <1>4, <1>5, <1>6, <1>7

(* Each vote binds its voter, and each leader has been voted for. *)
LEMMA BallotsStep ==
    ASSUME QuorumRules, TypeOK, BallotsBind, TypeOK', GrowStep, Next
    PROVE  BallotsBind'
<1>1. \A v \in Servers : term[v] \in Nat /\ term'[v] \in Nat /\ term'[v] >= term[v]
  BY Zenon DEF TypeOK, GrowStep
<1>2. \A b \in ballots : b[1] \in Servers /\ b[2] \in Nat /\ b[3] \in Servers
  BY Zenon, LogTypes
<1>3. \A b \in ballots : b[2] <= term'[b[1]] /\ b[2] <= term'[b[3]]
  BY <1>1, <1>2 DEF BallotsBind
<1>4. \A t \in Elected : \E s \in Servers : Voters(s, t)' \in Quorums
  BY Zenon, VotersGrow DEF BallotsBind
<1>5. CASE \E v, c \in Servers : Vote(v, c, term'[v])
  <2>1. PICK v \in Servers, c \in Servers, t \in Nat : t = term'[v] /\ Vote(v, c, t)
    BY Zenon, <1>1, <1>5
  <2>2. /\ ballots' = ballots \cup {<<v, t, c>>} /\ t <= term'[c]
        /\ \A b \in ballots : b[1] = v /\ b[2] = t => b[3] = c
    BY Zenon, <2>1 DEF Vote
  <2>3. Elected' = Elected
    BY Zenon, <2>1, VoteGrows
  <2>4. \A b \in ballots' : b[2] <= term'[b[1]] /\ b[2] <= term'[b[3]]
    BY <1>1, <1>3, <2>1, <2>2
  <2>5. \A a, b \in ballots' : a[1] = b[1] /\ a[2] = b[2] => a[3] = b[3]
    BY <2>2 DEF BallotsBind
  <2> QED BY Zenon, <1>4, <2>3, <2>4, <2>5 DEF BallotsBind
<1>6. CASE ~\E v, c \in Servers : Vote(v, c, term'[v])
  <2>1. ballots' = ballots
    BY Zenon, <1>6 DEF Next, LearnTerm, Win, Extend, Replicate, Commit
  <2>2. ASSUME NEW t \in Elected' PROVE \E s \in Servers : Voters(s, t)' \in Quorums
    <3>1. CASE t \in Elected
      BY Zenon, <3>1, <1>4
    <3>2. CASE t \notin Elected
      <4>1. PICK s \in Servers : Win(s)
        BY Zenon, <3>2, <1>6, <2>2, LearnTermGrows, ReplicateGrows, CommitGrows, SameLeaderLogs
           DEF Next, Extend, Record, Leads, Elected
      <4>2. t = term[s] /\ Voters(s, term[s]) \in Quorums
        BY <4>1, <3>2, <2>2, WinGrows DEF Win
      <4> QED BY Zenon, <4>2, VotersGrow
    <3> QED BY Zenon, <3>1, <3>2
  <2> QED BY Zenon, <1>3, <2>1, <2>2 DEF BallotsBind
<1> QED BY Zenon, <1>5, <1>6

(* Nobody becomes the leader of a term but by winning its election. *)
LEMMA LeadsBefore ==
    ASSUME QuorumRules, TypeOK, BallotsBind, TypeOK', BallotsBind', GrowStep,
           NEW s \in Servers, Leads(s)'
    PROVE  \/ Leads(s) /\ term'[s] = term[s]
           \/ term'[s] \notin Elected
<1> SUFFICES ASSUME term'[s] \in Elected
             PROVE  Leads(s) /\ term'[s] = term[s]
  BY Zenon
<1>1. PICK t \in Nat : t = term'[s]
  BY Zenon, LogTypes
<1>2. PICK r \in Servers : Voters(r, t) \in Quorums
  BY Zenon, <1>1 DEF BallotsBind
<1>3. Voters(r, t)' \in Quorums /\ Voters(s, t)' \in Quorums
  BY Zenon, <1>1, <1>2, VotersGrow DEF Leads
<1>4. r = s
  <2>1. \E v \in Servers : <<v, t, s>> \in ballots' /\ <<v, t, r>> \in ballots'
    BY Zenon, <1>3 DEF QuorumRules, Voters
  <2> QED BY Zenon, <2>1 DEF BallotsBind
<1>5. t <= term[s]
  BY Zenon, <1>2, <1>4, ElectedReached
<1>6. term[s] = t
  BY <1>1, <1>5 DEF TypeOK, GrowStep
<1> QED BY Zenon, <1>1, <1>2, <1>4, <1>6 DEF Leads

(* No step takes a leader's log from under it while its term lasts. *)
LEMMA LeadersStep ==
    ASSUME QuorumRules, TypeOK, BallotsBind, LeadersOwnTheirTerm,
           TypeOK', BallotsBind', GrowStep, Next
    PROVE  LeadersOwnTheirTerm'
<1> SUFFICES ASSUME NEW s \in Servers, Leads(s)'
             PROVE  /\ log'[s] = leaderLog'[term'[s]]
                    /\ <<s, term'[s], Len(log'[s])>> \in acks'
  BY Zenon DEF LeadersOwnTheirTerm
<1>1. PICK t \in Nat : t = term'[s]
  BY Zenon, LogTypes DEF TypeOK
<1>2. Leads(s) /\ term[s] = t => log[s] = leaderLog[t] /\ <<s, t, Len(log[s])>> \in acks
  BY Zenon DEF LeadersOwnTheirTerm
<1>3. (Leads(s) /\ term[s] = t) \/ t \notin Elected
  BY Zenon, <1>1, LeadsBefore
<1>4. t \in Elected' /\ Voters(s, t)' \in Quorums
  BY Zenon, <1>1 DEF Leads
<1>5. PICK v \in Servers :
        \/ LearnTerm(v)
        \/ \E c \in Servers : Vote(v, c, term'[v])
        \/ Win(v)
        \/ \E c \in Commands : Extend(v, c)
        \/ \E u \in Elected : \E n \in 0..Len(leaderLog[u]) : Replicate(v, u, n)
        \/ \E n \in 1..Len(log[v]) : Commit(v, n)
  BY Zenon DEF Next
<1>6. CASE Elected' = Elected /\ UNCHANGED <<log, leaderLog, acks>>
  BY Zenon, <1>1, <1>2, <1>3, <1>4, <1>6
<1>7. CASE LearnTerm(v)
  BY Zenon, <1>6, <1>7, LearnTermGrows DEF LearnTerm
<1>8. CASE \E c \in Servers : Vote(v, c, term'[v])
  BY <1>6, <1>8, VoteGrows DEF Vote
<1>9. CASE Win(v)
  <2>1. /\ Elected' = Elected \cup {term[v]} /\ leaderLog'[term[v]] = log[v]
        /\ \A u \in Elected : u # term[v] /\ leaderLog'[u] = leaderLog[u]
    BY Zenon, <1>9, WinGrows
  <2>2. /\ acks' = acks \cup {<<v, term[v], Len(log[v])>>} /\ log' = log /\ term' = term
        /\ ballots' = ballots /\ Voters(v, term[v]) \in Quorums
    BY Zenon, <1>9 DEF Win
  <2>3. CASE t \in Elected
    BY Zenon, <1>1, <1>2, <1>3, <2>1, <2>2, <2>3
  <2>4. CASE t \notin Elected
    <3>1. t = term[v] /\ Voters(s, t) \in Quorums
      BY Zenon, <1>4, <2>1, <2>2, <2>4 DEF Voters
    <3>2. s = v
      BY Zenon, <2>2, <3>1, OneLeader
    <3> QED BY Zenon, <1>1, <2>1, <2>2, <3>1, <3>2
  <2> QED BY Zenon, <2>3, <2>4
<1>10. CASE \E c \in Commands : Extend(v, c)
  <2>1. PICK c \in Commands : Extend(v, c)
    BY Zenon, <1>10
  <2>2. /\ Elected' = Elected /\ log'[v] = leaderLog'[term[v]]
        /\ \A u \in Elected : u # term[v] => leaderLog'[u] = leaderLog[u]
        /\ \A r \in Servers : r # v => log'[r] = log[r]
        /\ Len(log'[v]) = Len(log[v]) + 1
    BY Zenon, <2>1, ExtendGrows
  <2>3. /\ acks' = acks \cup {<<v, term[v], Len(log[v]) + 1>>} /\ term' = term
        /\ term[v] \in Elected /\ Voters(v, term[v]) \in Quorums
    BY Zenon, <2>1 DEF Extend, Leads
  <2>4. CASE s = v
    BY Zenon, <1>1, <2>2, <2>3, <2>4
  <2>5. CASE s # v
    <3>1. term[s] # term[v]
      BY Zenon, <1>3, <1>4, <2>2, <2>3, <2>5, OneLeader DEF Leads
    <3> QED BY Zenon, <1>1, <1>2, <1>3, <1>4, <2>2, <2>3, <2>5, <3>1
  <2> QED BY Zenon, <2>4, <2>5
<1>11. CASE \E u \in Elected : \E n \in 0..Len(leaderLog[u]) : Replicate(v, u, n)
  <2>1. PICK u \in Elected, n \in Nat : Replicate(v, u, n)
    BY <1>11
  <2>2. /\ Elected' = Elected /\ leaderLog' = leaderLog /\ acks \subseteq acks'
        /\ n \in 0..Len(leaderLog[u]) /\ term'[v] = u
        /\ \A r \in Servers : r # v => log'[r] = log[r]
        /\ \/ log'[v] = log[v]
           \/ n > Len(log[v])
           \/ \E i \in 1..n : /\ i <= Len(log[v])
                              /\ log[v][i].Term # leaderLog[u][i].Term
    BY <2>1, ReplicateGrows
  <2>3. log'[s] = log[s]
    <3>1. s = v => t = u
      BY Zenon, <1>1, <2>2
    <3>2. s = v => log[v] = leaderLog[u]
      BY Zenon, <1>2, <1>3, <1>4, <2>2, <3>1
    <3> QED BY <2>2, <3>2, LogTypes
  <2> QED BY Zenon, <1>1, <1>2, <1>3, <1>4, <2>2, <2>3
<1>12. CASE \E n \in 1..Len(log[v]) : Commit(v, n)
  BY Zenon, <1>6, <1>12, CommitGrows DEF Commit
<1> QED BY Zenon, <1>5, <1>7, <1>8, <1>9, <1>10, <1>11, <1>12

(* What came from leaders still does when leaders' logs grow. *)
LEMMA FromLeadersGrows ==
    ASSUME TypeOK, TypeOK', GrowStep, NEW l \in Seq(Entry), NEW t \in Nat, NEW u \in Nat,
           FromLeaders(l, t, leaderLog), t <= u
    PROVE  FromLeaders(l, u, leaderLog')
<1> SUFFICES ASSUME NEW i \in 1..Len(l)
             PROVE  /\ l[i].Term <= u /\ l[i].Term \in Elected'
                    /\ Agree(l, leaderLog'[l[i].Term], i)
  BY Zenon DEF FromLeaders, Elected
<1>1. PICK w \in Elected : w = l[i].Term /\ w <= t /\ Agree(l, leaderLog[w], i)
  BY Zenon DEF FromLeaders, Elected
<1>2. /\ w \in Nat /\ leaderLog[w] \in Seq(Entry) /\ Len(leaderLog[w]) \in Nat
      /\ w \in Elected' /\ leaderLog'[w] \in Seq(Entry)
  <2>1. w \in Nat /\ leaderLog[w] \in Seq(Entry) /\ Len(leaderLog[w]) \in Nat
    BY Zenon, LogTypes
  <2>2. w \in Elected'
    BY Zenon DEF GrowStep
  <2> QED BY Zenon, <2>1, <2>2 DEF TypeOK
<1>3. Agree(leaderLog'[w], leaderLog[w], Len(leaderLog[w]))
  BY Zenon DEF GrowStep
<1>4. Agree(l, leaderLog'[w], i)
  <2>1. i \in Nat /\ i <= Len(leaderLog[w])
    BY <1>1 DEF Agree
  <2> QED BY Zenon, <1>1, <1>2, <1>3, <2>1, AgreeRules
<1> QED BY <1>1, <1>2, <1>4

(* A log that is a prefix of a leader's came from leaders. *)
LEMMA PrefixFromLeaders ==
    ASSUME NEW l \in Seq(Entry), NEW m \in Seq(Entry), NEW t, NEW L, NEW n \in Nat,
           FromLeaders(m, t, L), Agree(l, m, n), Len(l) = n
    PROVE  FromLeaders(l, t, L)
<1> SUFFICES ASSUME NEW i \in 1..Len(l)
             PROVE  /\ l[i].Term <= t /\ l[i].Term \in DOMAIN L
                    /\ Agree(l, L[l[i].Term], i)
  BY Zenon DEF FromLeaders
<1>1. i \in 1..Len(m) /\ l[i] = m[i] /\ \A j \in 1..i : l[j] = m[j]
  BY DEF Agree
<1>2. /\ m[i].Term <= t /\ m[i].Term \in DOMAIN L
      /\ Agree(m, L[m[i].Term], i)
  BY Zenon, <1>1 DEF FromLeaders
<1> QED BY <1>1, <1>2 DEF Agree

(* Entries come only from leaders, with all that precedes them. *)
LEMMA LogsStep ==
    ASSUME QuorumRules, TypeOK, LeadersOwnTheirTerm, LogsFromLeaders, TypeOK', GrowStep, Next
    PROVE  LogsFromLeaders'
<1>1. \A s \in Servers : FromLeaders(log[s], term'[s], leaderLog')
  BY Zenon, LogTypes, FromLeadersGrows DEF LogsFromLeaders, GrowStep, TypeOK
<1>2. \A t \in Elected : FromLeaders(leaderLog[t], t, leaderLog') /\ Ascending(leaderLog[t])
  BY LogTypes, FromLeadersGrows DEF LogsFromLeaders
<1>3. CASE log' = log /\ leaderLog' = leaderLog /\ Elected' = Elected
  BY Zenon, <1>1, <1>2, <1>3 DEF LogsFromLeaders
<1>4. PICK v \in Servers :
        \/ LearnTerm(v)
        \/ \E c \in Servers : Vote(v, c, term'[v])
        \/ Win(v)
        \/ \E c \in Commands : Extend(v, c)
        \/ \E u \in Elected : \E n \in 0..Len(leaderLog[u]) : Replicate(v, u, n)
        \/ \E n \in 1..Len(log[v]) : Commit(v, n)
  BY Zenon DEF Next
<1>5. CASE LearnTerm(v)
  BY Zenon, <1>3, <1>5, LearnTermGrows DEF LearnTerm
<1>6. CASE \E c \in Servers : Vote(v, c, term'[v])
  BY <1>3, <1>6, VoteGrows DEF Vote
<1>7. CASE Win(v)
  <2>1. /\ Elected' = Elected \cup {term[v]} /\ leaderLog'[term[v]] = log[v]
        /\ \A u \in Elected : leaderLog'[u] = leaderLog[u]
        /\ log' = log /\ term' = term
    BY Zenon, <1>7, WinGrows DEF Win
  <2>2. FromLeaders(log[v], term[v], leaderLog') /\ Ascending(log[v])
    BY Zenon, <1>1, <2>1, LogsAscend
  <2> QED BY Zenon, <1>1, <1>2, <2>1, <2>2 DEF LogsFromLeaders
<1>8. CASE \E c \in Commands : Extend(v, c)
  <2>1. PICK c \in Commands : Extend(v, c)
    BY Zenon, <1>8
  <2>2. /\ Elected' = Elected /\ log'[v] = leaderLog'[term[v]]
        /\ \A u \in Elected : u # term[v] => leaderLog'[u] = leaderLog[u]
        /\ \A r \in Servers : r # v => log'[r] = log[r]
        /\ Len(log'[v]) = Len(log[v]) + 1 /\ log'[v][Len(log[v]) + 1].Term = term[v]
        /\ \A i \in 1..Len(log[v]) : log'[v][i] = log[v][i]
    BY Zenon, <2>1, ExtendGrows
  <2>3. term' = term /\ term[v] \in Elected
    BY Zenon, <2>1 DEF Extend, Leads
  <2>4. PICK T \in Nat : T = term[v]
    BY Zenon, LogTypes
  <2>5. /\ Len(log[v]) \in Nat /\ FromLeaders(log[v], T, leaderLog')
        /\ \A i \in 1..Len(log[v]) : log[v][i].Term \in Nat
    BY Zenon, <1>1, <2>3, <2>4, LogTypes
  <2>6. FromLeaders(log'[v], T, leaderLog')
    <3> SUFFICES ASSUME NEW i \in 1..Len(log'[v])
                 PROVE  /\ log'[v][i].Term <= T /\ log'[v][i].Term \in Elected'
                        /\ Agree(log'[v], leaderLog'[log'[v][i].Term], i)
      BY Zenon DEF FromLeaders, Elected
    <3>1. CASE i = Len(log[v]) + 1
      BY <2>2, <2>3, <2>4, <2>5, <3>1 DEF Agree
    <3>2. CASE i \in 1..Len(log[v])
      <4>1. /\ log'[v][i] = log[v][i] /\ log[v][i].Term <= T
            /\ log[v][i].Term \in Elected' /\ Agree(log[v], leaderLog'[log[v][i].Term], i)
        BY Zenon, <2>2, <2>5, <3>2 DEF FromLeaders, Elected
      <4> QED BY <2>2, <2>5, <3>2, <4>1 DEF Agree
    <3> QED BY <2>2, <2>5, <3>1, <3>2
  <2>7. Ascending(log'[v])
    <3>1. Ascending(log[v]) /\ \A i \in 1..Len(log[v]) : log[v][i].Term <= T
      BY Zenon, <2>5, LogsAscend DEF FromLeaders
    <3>2. \A i \in 1..Len(log'[v]) : i \in 1..Len(log[v]) \/ i = Len(log[v]) + 1
      BY <2>2, <2>5
    <3> SUFFICES ASSUME NEW i \in 1..Len(log'[v]), NEW j \in 1..Len(log'[v]), i <= j
                 PROVE  log'[v][i].Term <= log'[v][j].Term
      BY Zenon DEF Ascending
    <3>3. CASE j = Len(log[v]) + 1
      <4>1. log'[v][j].Term = T
        BY Zenon, <2>2, <2>4, <3>3
      <4>2. CASE i \in 1..Len(log[v])
        BY Zenon, <2>2, <3>1, <4>1, <4>2
      <4>3. CASE i = Len(log[v]) + 1
        BY <3>3, <4>1, <4>3
      <4> QED BY Zenon, <3>2, <4>2, <4>3
    <3>4. CASE j \in 1..Len(log[v])
      <4>1. i \in 1..Len(log[v])
        BY <2>5, <3>2, <3>4
      <4> QED BY Zenon, <2>2, <3>1, <3>4, <4>1 DEF Ascending
    <3> QED BY Zenon, <3>2, <3>3, <3>4
  <2> QED BY Zenon, <1>1, <1>2, <2>2, <2>3, <2>4, <2>6, <2>7 DEF LogsFromLeaders
<1>9. CASE \E u \in Elected : \E n \in 0..Len(leaderLog[u]) : Replicate(v, u, n)
  <2>1. PICK u \in Elected, n \in Nat : Replicate(v, u, n)
    BY <1>9
  <2>2. /\ Elected' = Elected /\ leaderLog' = leaderLog /\ term'[v] = u
        /\ \A r \in Servers : r # v => log'[r] = log[r]
        /\ Agree(log'[v], leaderLog[u], n)
        /\ log'[v] = log[v] \/ Len(log'[v]) = n
    BY <2>1, ReplicateGrows
  <2>3. FromLeaders(log'[v], u, leaderLog')
    <3>1. CASE log'[v] = log[v]
      BY Zenon, <3>1, <1>1, <2>2
    <3>2. CASE Len(log'[v]) = n
      <4>1. log'[v] \in Seq(Entry) /\ leaderLog[u] \in Seq(Entry)
        BY Zenon, LogTypes DEF TypeOK
      <4> QED BY Zenon, <1>2, <2>2, <3>2, <4>1, PrefixFromLeaders
    <3> QED BY Zenon, <2>2, <3>1, <3>2
  <2> QED BY Zenon, <1>1, <1>2, <2>2, <2>3 DEF LogsFromLeaders
<1>10. CASE \E n \in 1..Len(log[v]) : Commit(v, n)
  BY Zenon, <1>3, <1>10, CommitGrows DEF Commit
<1> QED BY Zenon, <1>4, <1>5, <1>6, <1>7, <1>8, <1>9, <1>10

(* An acknowledgement lasts while its server stays in the term. *)
LEMMA AcksStep ==
    ASSUME QuorumRules, TypeOK, LeadersOwnTheirTerm, AcksSound, TypeOK', GrowStep, Next
    PROVE  AcksSound'
<1>1. \A a \in acks : a[1] \in Servers /\ a[2] \in Nat /\ a[3] \in Nat
  BY Zenon, LogTypes
<1>2. ASSUME NEW a \in acks, a[2] \in Elected, a[3] <= Len(leaderLog[a[2]])
      PROVE  a[2] \in Elected' /\ a[3] <= Len(leaderLog'[a[2]]) /\ leaderLog'[a[2]] \in Seq(Entry)
  <2>1. a[2] \in Elected' /\ Agree(leaderLog'[a[2]], leaderLog[a[2]], Len(leaderLog[a[2]]))
    BY Zenon, <1>2 DEF GrowStep
  <2>2. leaderLog'[a[2]] \in Seq(Entry) /\ Len(leaderLog[a[2]]) \in Nat
    BY Zenon, <1>2, <2>1, LogTypes DEF TypeOK
  <2>3. Len(leaderLog'[a[2]]) \in Nat
    BY <2>2
  <2> QED BY <1>1, <1>2, <2>1, <2>2, <2>3 DEF Agree
<1>3. \A s \in Servers : term[s] \in Nat /\ term'[s] \in Nat /\ term'[s] >= term[s]
  BY Zenon DEF TypeOK, GrowStep
<1>4. ASSUME NEW a \in acks
      PROVE  /\ a[2] \in Elected' /\ a[3] <= Len(leaderLog'[a[2]]) /\ a[2] <= term'[a[1]]
             /\ a[2] = term'[a[1]] => /\ a[2] = term[a[1]]
                                      /\ Agree(log[a[1]], leaderLog[a[2]], a[3])
                                      /\ Agree(log[a[1]], leaderLog'[a[2]], a[3])
  <2>1. /\ a[2] \in Elected /\ a[3] <= Len(leaderLog[a[2]]) /\ a[2] <= term[a[1]]
        /\ a[2] = term[a[1]] => Agree(log[a[1]], leaderLog[a[2]], a[3])
    BY Zenon DEF AcksSound
  <2>2. /\ a[2] \in Elected' /\ a[3] <= Len(leaderLog'[a[2]])
        /\ leaderLog'[a[2]] \in Seq(Entry)
    BY Zenon, <1>2, <2>1
  <2>3. a[2] <= term'[a[1]] /\ (a[2] = term'[a[1]] => a[2] = term[a[1]])
    BY <1>1, <1>3, <2>1
  <2>4. Agree(leaderLog'[a[2]], leaderLog[a[2]], Len(leaderLog[a[2]]))
    BY Zenon, <2>1 DEF GrowStep
  <2>5. /\ log[a[1]] \in Seq(Entry) /\ leaderLog[a[2]] \in Seq(Entry)
        /\ Len(leaderLog[a[2]]) \in Nat
    BY Zenon, <1>1, <2>1, LogTypes
  <2>6. Agree(log[a[1]], leaderLog[a[2]], a[3]) => Agree(log[a[1]], leaderLog'[a[2]], a[3])
    BY <1>1, <2>1, <2>2, <2>4, <2>5, AgreeRules
  <2> QED BY Zenon, <2>1, <2>2, <2>3, <2>6
<1>5. CASE acks' = acks /\ log' = log
  BY Zenon, <1>4, <1>5 DEF AcksSound
<1>6. PICK v \in Servers :
        \/ LearnTerm(v)
        \/ \E c \in Servers : Vote(v, c, term'[v])
        \/ Win(v)
        \/ \E c \in Commands : Extend(v, c)
        \/ \E u \in Elected : \E n \in 0..Len(leaderLog[u]) : Replicate(v, u, n)
        \/ \E n \in 1..Len(log[v]) : Commit(v, n)
  BY Zenon DEF Next
<1>7. CASE LearnTerm(v) \/ (\E c \in Servers : Vote(v, c, term'[v]))
           \/ (\E n \in 1..Len(log[v]) : Commit(v, n))
  BY Zenon, <1>5, <1>7 DEF LearnTerm, Vote, Commit
<1>8. CASE Win(v)
  <2>1. /\ Elected' = Elected \cup {term[v]} /\ leaderLog'[term[v]] = log[v]
        /\ log' = log /\ term' = term /\ acks' = acks \cup {<<v, term[v], Len(log[v])>>}
    BY Zenon, <1>8, WinGrows DEF Win
  <2>2. Len(log[v]) \in Nat /\ term[v] \in Nat
    BY Zenon, LogTypes
  <2>3. Agree(log'[v], leaderLog'[term[v]], Len(log[v])) /\ Len(log[v]) <= Len(leaderLog'[term[v]])
    BY <2>1, <2>2 DEF Agree
  <2>4. term[v] <= term'[v]
    BY <2>1, <2>2
  <2> QED BY <1>4, <2>1, <2>3, <2>4 DEF AcksSound
<1>9. CASE \E c \in Commands : Extend(v, c)
  <2>1. PICK c \in Commands : Extend(v, c)
    BY Zenon, <1>9
  <2>2. /\ Elected' = Elected /\ log'[v] = leaderLog'[term[v]]
        /\ \A r \in Servers : r # v => log'[r] = log[r]
        /\ Len(log'[v]) = Len(log[v]) + 1
    BY Zenon, <2>1, ExtendGrows
  <2>3. /\ acks' = acks \cup {<<v, term[v], Len(log[v]) + 1>>} /\ term' = term
        /\ term[v] \in Elected
    BY Zenon, <2>1 DEF Extend, Leads
  <2>4. PICK k \in Nat, t \in Nat : k = Len(log[v]) + 1 /\ t = term[v]
    BY LogTypes
  <2>5. \A n \in Nat : n <= k => Agree(log'[v], leaderLog'[t], n)
    BY Zenon, <2>2, <2>4 DEF Agree
  <2>6. ASSUME NEW a \in acks, a[2] = term'[a[1]]
        PROVE  Agree(log'[a[1]], leaderLog'[a[2]], a[3])
    <3>1. CASE a[1] = v
      <4>1. a[2] = t /\ a[3] <= Len(leaderLog'[t])
        BY Zenon, <1>4, <2>3, <2>4, <2>6, <3>1
      <4> QED BY <1>1, <2>2, <2>4, <2>5, <3>1, <4>1
    <3>2. CASE a[1] # v
      BY Zenon, <1>1, <1>4, <2>2, <2>6, <3>2
    <3> QED BY Zenon, <3>1, <3>2
  <2>7. t \in Elected' /\ k <= Len(leaderLog'[t]) /\ t <= term'[v] /\ Agree(log'[v], leaderLog'[t], k)
    BY <2>2, <2>3, <2>4, <2>5
  <2>8. acks' = acks \cup {<<v, t, k>>}
    BY Zenon, <2>3, <2>4
  <2> QED BY <1>4, <2>6, <2>7, <2>8 DEF AcksSound
<1>10. CASE \E u \in Elected : \E n \in 0..Len(leaderLog[u]) : Replicate(v, u, n)
  <2>1. PICK u \in Elected, n \in Nat : Replicate(v, u, n)
    BY <1>10
  <2>2. /\ Elected' = Elected /\ leaderLog' = leaderLog /\ term'[v] = u
        /\ \A r \in Servers : r # v => log'[r] = log[r] /\ term'[r] = term[r]
        /\ Agree(log'[v], leaderLog[u], n) /\ n <= Len(leaderLog[u]) /\ u \in Nat
        /\ acks' = acks \cup {<<v, u, n>>}
        /\ \/ log'[v] = log[v]
           \/ /\ Len(log'[v]) = n
              /\ \/ n > Len(log[v])
                 \/ \E i \in 1..n : /\ i <= Len(log[v])
                                    /\ log[v][i].Term # leaderLog[u][i].Term
    BY <2>1, ReplicateGrows
  <2>3. ASSUME NEW a \in acks, a[2] = term'[a[1]]
        PROVE  Agree(log'[a[1]], leaderLog'[a[2]], a[3])
    <3>1. CASE a[1] # v \/ log'[v] = log[v]
      BY Zenon, <1>1, <1>4, <2>2, <2>3, <3>1
    <3>2. CASE a[1] = v /\ log'[v] # log[v]
      <4>1. a[2] = u /\ Agree(log[v], leaderLog[u], a[3])
        BY Zenon, <1>4, <2>2, <2>3, <3>2
      <4>2. Len(log[v]) \in Nat /\ Len(leaderLog[u]) \in Nat /\ a[3] \in Nat
        BY Zenon, <1>1, LogTypes
      <4>3. a[3] <= n
        <5>1. \/ n > Len(log[v])
              \/ \E i \in 1..n : i <= Len(log[v]) /\ log[v][i].Term # leaderLog[u][i].Term
          BY Zenon, <2>2, <3>2
        <5>2. log[v] \in Seq(Entry) /\ leaderLog[u] \in Seq(Entry)
          BY Zenon, LogTypes
        <5> QED BY Zenon, <4>1, <4>2, <5>1, <5>2, ReplaceKeeps
      <4> QED BY <2>2, <3>2, <4>1, <4>2, <4>3 DEF Agree
    <3> QED BY Zenon, <3>1, <3>2
  <2>4. u \in Elected' /\ n <= Len(leaderLog'[u]) /\ u <= term'[v] /\ Agree(log'[v], leaderLog'[u], n)
    BY <2>2
  <2> QED BY <1>4, <2>2, <2>3, <2>4 DEF AcksSound
<1> QED BY Zenon, <1>6, <1>7, <1>8, <1>9, <1>10

-----------------------------------------------------------------------------
(* Committed entries stay                                                  *)

(* The entries a step adds to the logs of leaders: a winner adds a whole log
   that holds no entry of its own term, a leader one entry of its term. *)
LEMMA NewEntries ==
    ASSUME QuorumRules, TypeOK, BallotsBind, LeadersOwnTheirTerm, LogsFromLeaders,
           TypeOK', GrowStep, Next,
           NEW t \in Elected', NEW n \in 1..Len(leaderLog'[t]), Choosable(t, n)',
           t \in Elected => n \notin 1..Len(leaderLog[t])
    PROVE  \E s \in Servers, c \in Commands :
              Extend(s, c) /\ t = term[s] /\ n = Len(log[s]) + 1
<1>1. leaderLog'[t][n].Term = t
  BY Zenon DEF Choosable
<1>2. leaderLog' # leaderLog
  BY Zenon DEF Elected
<1>3. PICK s \in Servers : Win(s) \/ \E c \in Commands : Extend(s, c)
  BY Zenon, <1>2 DEF Next, LearnTerm, Vote, Replicate, Commit
<1>4. ~Win(s)
  <2> SUFFICES ASSUME Win(s) PROVE FALSE
    BY Zenon
  <2>1. /\ Elected' = Elected \cup {term[s]} /\ leaderLog'[term[s]] = log[s]
        /\ \A u \in Elected : u # term[s] /\ leaderLog'[u] = leaderLog[u]
    BY Zenon, WinGrows
  <2>2. t = term[s] /\ t \notin Elected
    BY Zenon, <2>1
  <2>3. log[s][n].Term \in Elected
    BY Zenon, <2>1, <2>2 DEF LogsFromLeaders, FromLeaders, Elected
  <2> QED BY Zenon, <1>1, <2>1, <2>2, <2>3
<1>5. PICK c \in Commands : Extend(s, c)
  BY Zenon, <1>3, <1>4
<1>6. /\ Elected' = Elected /\ log'[s] = leaderLog'[term[s]]
      /\ \A u \in Elected : u # term[s] => leaderLog'[u] = leaderLog[u]
      /\ Len(log'[s]) = Len(log[s]) + 1
  BY Zenon, <1>5, ExtendGrows
<1>7. t = term[s] /\ log[s] = leaderLog[t]
  BY Zenon, <1>5, <1>6 DEF LeadersOwnTheirTerm, Extend
<1>8. n = Len(log[s]) + 1
  BY <1>6, <1>7, LogTypes
<1> QED BY Zenon, <1>5, <1>7, <1>8

(* What a step may do to a log. *)
LEMMA LogChanges ==
    ASSUME TypeOK, LeadersOwnTheirTerm, Next, NEW s \in Servers, log'[s] # log[s]
    PROVE  \/ \E c \in Commands : Extend(s, c)
           \/ \E u \in Elected, n \in Nat : Replicate(s, u, n)
<1>1. PICK v \in Servers :
        \/ \E c \in Commands : Extend(v, c)
        \/ \E u \in Elected : \E n \in 0..Len(leaderLog[u]) : Replicate(v, u, n)
  BY Zenon DEF Next, LearnTerm, Vote, Win, Commit
<1>2. CASE \E c \in Commands : Extend(v, c)
  BY Zenon, <1>2, ExtendGrows
<1>3. CASE \E u \in Elected : \E n \in 0..Len(leaderLog[u]) : Replicate(v, u, n)
  <2>1. PICK u \in Elected, n \in Nat : Replicate(v, u, n)
    BY <1>3
  <2> QED BY <2>1, ReplicateGrows
<1> QED BY Zenon, <1>1, <1>2, <1>3

(* Who took a choosable entry keeps it: another leader's log holds it too. *)
LEMMA HoldersStep ==
    ASSUME QuorumRules, Inv, TypeOK', AcksSound', GrowStep, Next
    PROVE  HoldersKeep'
<1> USE DEF Inv
<1> SUFFICES ASSUME NEW t \in Elected', NEW v \in Servers, NEW n \in 1..Len(leaderLog'[t]),
                    Choosable(t, n)', Acked(v, t, n)'
             PROVE  Agree(log'[v], leaderLog'[t], n)
  BY Zenon DEF HoldersKeep
<1>1. PICK a \in acks' : a[1] = v /\ a[2] = t /\ a[3] >= n
  BY Zenon DEF Acked
<1>2. a[3] \in Nat /\ n \in Nat /\ t \in Nat /\ term[v] \in Nat
  BY LogTypes DEF TypeOK
<1>3. /\ log[v] \in Seq(Entry) /\ log'[v] \in Seq(Entry) /\ leaderLog'[t] \in Seq(Entry)
      /\ Len(log[v]) \in Nat /\ Len(log'[v]) \in Nat /\ Len(leaderLog'[t]) \in Nat
  <2>1. log[v] \in Seq(Entry) /\ log'[v] \in Seq(Entry) /\ leaderLog'[t] \in Seq(Entry)
    BY Zenon DEF TypeOK
  <2> QED BY <2>1
<1>4. CASE a \notin acks
  <2>1. Agree(log'[v], leaderLog'[t], a[3])
    BY Zenon, <1>1, <1>4 DEF AcksSound, GrowStep
  <2> QED BY <1>1, <1>2, <1>3, <2>1 DEF Agree
<1>5. CASE a \in acks
  <2>1. /\ t \in Elected /\ n \in 1..Len(leaderLog[t]) /\ t <= term[v]
        /\ leaderLog[t] \in Seq(Entry) /\ Len(leaderLog[t]) \in Nat
    BY <1>1, <1>2, <1>5, LogTypes DEF AcksSound
  <2>2. Choosable(t, n) /\ Acked(v, t, n)
    BY Zenon, <1>1, <1>5, <2>1, ChoosableShrinks DEF Acked
  <2>3. Agree(log[v], leaderLog[t], n)
    BY Zenon, <2>1, <2>2 DEF HoldersKeep
  <2>4. Agree(leaderLog'[t], leaderLog[t], n)
    <3>1. Agree(leaderLog'[t], leaderLog[t], Len(leaderLog[t]))
      BY Zenon, <2>1 DEF GrowStep
    <3>2. n <= Len(leaderLog[t])
      BY <2>1
    <3> QED BY Zenon, <1>2, <1>3, <2>1, <3>1, <3>2, AgreeShorter
  <2>5. Agree(log'[v], leaderLog[t], n) => Agree(log'[v], leaderLog'[t], n)
    BY <1>2, <1>3, <2>1, <2>4, AgreeRules
  <2>6. CASE log'[v] = log[v]
    BY Zenon, <2>3, <2>5, <2>6
  <2>7. CASE \E c \in Commands : Extend(v, c)
    <3>1. Len(log'[v]) = Len(log[v]) + 1 /\ \A i \in 1..Len(log[v]) : log'[v][i] = log[v][i]
      BY Zenon, <2>7, ExtendGrows
    <3>2. Agree(log'[v], leaderLog[t], n)
      BY Zenon, <1>2, <1>3, <2>1, <2>3, <3>1, AgreeGrown
    <3> QED BY Zenon, <2>5, <3>2
  <2>8. CASE log'[v] # log[v] /\ \E u \in Elected, k \in Nat : Replicate(v, u, k)
    <3>1. PICK u \in Elected, k \in Nat : Replicate(v, u, k)
      BY Zenon, <2>8
    <3>2. /\ u \in Nat /\ u >= term[v] /\ Agree(log'[v], leaderLog[u], k)
          /\ \/ k > Len(log[v])
             \/ \E i \in 1..k : i <= Len(log[v]) /\ log[v][i].Term # leaderLog[u][i].Term
      BY <2>8, <3>1, ReplicateGrows
    <3>3. leaderLog[u] \in Seq(Entry) /\ Len(leaderLog[u]) \in Nat
      BY Zenon, LogTypes
    <3>4. Agree(leaderLog[u], leaderLog[t], n)
      <4>1. CASE u = t
        BY <1>2, <2>1, <4>1 DEF Agree
      <4>2. CASE u # t
        <5>1. t < u
          BY <1>2, <2>1, <3>2, <4>2
        <5> QED BY Zenon, <2>1, <2>2, <5>1 DEF LeadersHave
      <4> QED BY Zenon, <4>1, <4>2
    <3>5. Agree(log[v], leaderLog[u], n)
      BY <1>2, <1>3, <2>1, <2>3, <3>3, <3>4, AgreeRules
    <3>6. n <= k
      BY Zenon, <1>2, <1>3, <3>2, <3>3, <3>5, ReplaceKeeps
    <3>7. Agree(log'[v], leaderLog[u], n)
      <4>1. k \in Nat
        BY <3>1
      <4> QED BY Zenon, <1>2, <1>3, <3>2, <3>3, <3>6, <4>1, AgreeShorter
    <3>8. Agree(log'[v], leaderLog[t], n)
      BY <1>2, <1>3, <2>1, <3>3, <3>4, <3>7, AgreeRules
    <3> QED BY Zenon, <2>5, <3>8
  <2> QED BY Zenon, <2>6, <2>7, <2>8, LogChanges
<1> QED BY Zenon, <1>4, <1>5

(* A voter with a choosable entry votes only for candidates that have it, or
   an entry of a later term. *)
LEMMA VotesStep ==
    ASSUME QuorumRules, Inv, TypeOK', BallotsBind', GrowStep, Next
    PROVE  VotesProtect'
<1> USE DEF Inv
<1> SUFFICES ASSUME NEW b \in ballots', NEW t \in Elected', NEW n \in 1..Len(leaderLog'[t]),
                    t < b[2], b[2] \notin Elected', term'[b[3]] = b[2],
                    Choosable(t, n)', Acked(b[1], t, n)'
             PROVE  \/ LastTerm(log'[b[3]]) > t
                    \/ LastTerm(log'[b[3]]) = t /\ Len(log'[b[3]]) >= n
  BY Zenon DEF VotesProtect
<1>1. PICK a \in acks' : a[1] = b[1] /\ a[2] = t /\ a[3] >= n
  BY Zenon DEF Acked
<1>2. /\ b[1] \in Servers /\ b[2] \in Nat /\ b[3] \in Servers /\ a[3] \in Nat
      /\ n \in Nat /\ t \in Nat
  <2>1. b \in Servers \X Nat \X Servers /\ a \in Servers \X Nat \X Nat /\ t \in Nat
    BY Zenon DEF TypeOK
  <2> QED BY <2>1
<1>3. /\ term[b[1]] \in Nat /\ term'[b[1]] \in Nat /\ term[b[3]] \in Nat
      /\ term'[b[3]] >= term[b[3]] /\ b[2] <= term'[b[1]]
  BY Zenon, <1>2 DEF TypeOK, BallotsBind, GrowStep
<1>4. a \in acks
  BY <1>1, <1>2, <1>3 DEF GrowStep
<1>5. t \in Elected /\ n \in 1..Len(leaderLog[t])
  BY <1>1, <1>2, <1>4, LogTypes DEF AcksSound
<1>6. Choosable(t, n) /\ Acked(b[1], t, n)
  BY Zenon, <1>1, <1>4, <1>5, ChoosableShrinks DEF Acked
<1>7. log'[b[3]] = log[b[3]]
  <2>1. ~\E c \in Commands : Extend(b[3], c)
    <3> SUFFICES ASSUME NEW c \in Commands, Extend(b[3], c) PROVE FALSE
      BY Zenon
    <3>1. Elected' = Elected
      BY Zenon, <1>2, ExtendGrows
    <3>2. term[b[3]] \in Elected /\ term' = term
      BY Zenon DEF Extend, Leads
    <3> QED BY Zenon, <3>1, <3>2
  <2>2. ~\E u \in Elected, k \in Nat : Replicate(b[3], u, k)
    BY <1>2, ReplicateGrows
  <2> QED BY Zenon, <1>2, <2>1, <2>2, LogChanges
<1>8. b[2] \notin Elected
  BY Zenon DEF GrowStep
<1>9. CASE b \in ballots
  <2>1. term[b[3]] = b[2]
    BY <1>2, <1>3, <1>9 DEF BallotsBind
  <2> QED BY Zenon, <1>5, <1>6, <1>7, <1>8, <1>9, <2>1 DEF VotesProtect
<1>10. CASE b \notin ballots
  <2>1. PICK v \in Servers, c \in Servers : Vote(v, c, term'[v]) /\ b = <<v, term'[v], c>>
    BY Zenon, <1>10 DEF Next, LearnTerm, Vote, Win, Extend, Replicate, Commit
  <2>2. UpToDate(log[c], log[v]) /\ b[1] = v /\ b[3] = c
    BY Zenon, <1>8, <2>1 DEF Vote
  <2>3. Agree(log[v], leaderLog[t], n) /\ leaderLog[t][n].Term = t
    BY Zenon, <1>5, <1>6, <2>2 DEF HoldersKeep, Choosable
  <2>4. n \in 1..Len(log[v]) /\ log[v][n].Term = t
    BY <1>2, <2>3, LogTypes DEF Agree
  <2>5. /\ LastTerm(log[v]) \in Int /\ LastTerm(log[c]) \in Int /\ Len(log[v]) \in Nat
        /\ Len(log[c]) \in Nat /\ LastTerm(log[v]) >= t
    BY Zenon, <1>2, <2>4, LastTerms
  <2> QED BY <1>2, <1>7, <2>2, <2>4, <2>5 DEF UpToDate
<1> QED BY Zenon, <1>9, <1>10

(* Every leader elected in a later term has what is choosable: one of its
   voters had it. *)
LEMMA LeadersHaveStep ==
    ASSUME QuorumRules, Inv, TypeOK', GrowStep, Next
    PROVE  LeadersHave'
<1> USE DEF Inv
<1> SUFFICES ASSUME NEW t \in Elected', NEW u \in Elected', NEW n \in 1..Len(leaderLog'[t]),
                    t < u, Choosable(t, n)'
             PROVE  Agree(leaderLog'[u], leaderLog'[t], n)
  BY Zenon DEF LeadersHave
<1>1. /\ t \in Nat /\ u \in Nat /\ n \in Nat
      /\ leaderLog'[t] \in Seq(Entry) /\ leaderLog'[u] \in Seq(Entry)
  BY DEF TypeOK
<1>2. t \in Elected /\ n \in 1..Len(leaderLog[t])
  <2> SUFFICES ASSUME t \in Elected => n \notin 1..Len(leaderLog[t]) PROVE FALSE
    BY Zenon
  <2>1. PICK s \in Servers, c \in Commands :
          Extend(s, c) /\ t = term[s] /\ n = Len(log[s]) + 1
    BY Zenon, NewEntries
  <2>2. u \in Elected /\ t \in Elected /\ term' = term /\ log[s] = leaderLog[t]
    BY Zenon, <2>1, ExtendGrows DEF LeadersOwnTheirTerm, Extend, Leads
  <2>3. PICK r \in Servers : Voters(r, u) \in Quorums
    BY Zenon, <2>2 DEF BallotsBind
  <2>4. {v \in Servers : Acked(v, t, n)' \/ term'[v] <= t} \in Quorums
    BY Zenon DEF Choosable
  <2>5. PICK v \in Servers : <<v, u, r>> \in ballots /\ (Acked(v, t, n)' \/ term'[v] <= t)
    BY Zenon, <2>3, <2>4 DEF QuorumRules, Voters
  <2>6. u <= term[v] /\ term[v] \in Nat
    BY Zenon, <2>5, LogTypes DEF BallotsBind
  <2>7. PICK a \in acks' : a[1] = v /\ a[2] = t /\ a[3] >= n
    BY <1>1, <2>2, <2>5, <2>6 DEF Acked
  <2>8. a \in acks
    BY <1>1, <2>2, <2>6, <2>7 DEF GrowStep
  <2>9. a[3] <= Len(leaderLog[t]) /\ a[3] \in Nat /\ Len(leaderLog[t]) \in Nat
    BY Zenon, <2>2, <2>7, <2>8, LogTypes DEF AcksSound
  <2> QED BY <2>1, <2>2, <2>7, <2>9
<1>3. Choosable(t, n)
  BY Zenon, <1>2, ChoosableShrinks
<1>4. leaderLog[t] \in Seq(Entry) /\ Len(leaderLog[t]) \in Nat
  BY Zenon, <1>2, LogTypes
<1>5. Agree(leaderLog'[t], leaderLog[t], n)
  <2>1. Len(leaderLog'[t]) \in Nat
    BY <1>1
  <2> QED BY <1>1, <1>2, <1>4, <2>1 DEF GrowStep, Agree
<1>6. CASE u \in Elected
  <2>1. Agree(leaderLog[u], leaderLog[t], n)
    BY Zenon, <1>2, <1>3, <1>6 DEF LeadersHave
  <2>2. leaderLog[u] \in Seq(Entry) /\ Len(leaderLog[u]) \in Nat /\ n <= Len(leaderLog[u])
    BY Zenon, <1>6, <2>1, LogTypes DEF Agree
  <2>3. Agree(leaderLog'[u], leaderLog[u], Len(leaderLog[u]))
    BY Zenon, <1>6 DEF GrowStep
  <2>4. Agree(leaderLog'[u], leaderLog[t], n)
    <3>1. Agree(leaderLog[t], leaderLog[u], n)
      BY Zenon, <2>1 DEF Agree
    <3> QED BY Zenon, <1>1, <1>4, <2>2, <2>3, <3>1, AgreeRules
  <2> QED BY <1>1, <1>4, <1>5, <2>4, AgreeRules
<1>7. CASE u \notin Elected
  <2>1. PICK s \in Servers : Win(s)
    BY Zenon, <1>7, LearnTermGrows, VoteGrows, ExtendGrows, ReplicateGrows, CommitGrows DEF Next
  <2>2. /\ u = term[s] /\ leaderLog'[u] = log[s] /\ Voters(s, u) \in Quorums
    BY <1>7, <2>1, WinGrows DEF Win
  <2>3. {v \in Servers : Acked(v, t, n) \/ term[v] <= t} \in Quorums /\ leaderLog[t][n].Term = t
    BY Zenon, <1>3 DEF Choosable
  <2>4. PICK v \in Servers : <<v, u, s>> \in ballots /\ (Acked(v, t, n) \/ term[v] <= t)
    BY Zenon, <2>2, <2>3 DEF QuorumRules, Voters
  <2>5. u <= term[v] /\ term[v] \in Nat
    BY Zenon, <2>4, LogTypes DEF BallotsBind
  <2>6. Acked(v, t, n)
    BY <1>1, <2>4, <2>5
  <2>7. \/ LastTerm(log[s]) > t
        \/ LastTerm(log[s]) = t /\ Len(log[s]) >= n
    BY Zenon, <1>2, <1>3, <1>7, <2>2, <2>4, <2>6 DEF VotesProtect
  <2>8. /\ LastTerm(log[s]) \in Int /\ Len(log[s]) \in Nat /\ Len(log[s]) > 0
        /\ LastTerm(log[s]) = log[s][Len(log[s])].Term
    BY <1>1, <2>7, LastTerms
  <2>9. PICK w \in Elected : /\ w = LastTerm(log[s])
                             /\ Agree(log[s], leaderLog[w], Len(log[s]))
    BY <2>8 DEF LogsFromLeaders, FromLeaders, Elected
  <2>10. /\ w \in Nat /\ leaderLog[w] \in Seq(Entry) /\ Len(leaderLog[w]) \in Nat
         /\ log[s] \in Seq(Entry)
    BY Zenon, LogTypes
  <2>11. Agree(leaderLog[w], leaderLog[t], n) /\ n <= Len(log[s])
    <3>1. CASE w = t
      BY <1>1, <1>2, <1>4, <2>7, <2>9, <3>1 DEF Agree
    <3>2. CASE w > t
      <4>1. Agree(leaderLog[w], leaderLog[t], n)
        BY Zenon, <1>2, <1>3, <3>2 DEF LeadersHave
      <4>2. SUFFICES ASSUME Len(log[s]) < n PROVE FALSE
        BY <1>1, <2>8, <4>1
      <4>3. leaderLog[w][n].Term = t /\ n \in 1..Len(leaderLog[w])
        BY <1>2, <2>3, <2>10, <4>1 DEF Agree
      <4>4. Len(log[s]) \in 1..Len(leaderLog[w]) /\ leaderLog[w][Len(log[s])].Term = w
        BY <2>8, <2>9, <2>10 DEF Agree
      <4>5. leaderLog[w][Len(log[s])].Term <= leaderLog[w][n].Term
        BY <1>1, <2>8, <4>2, <4>3, <4>4 DEF LogsFromLeaders, Ascending
      <4> QED BY <1>1, <2>10, <3>2, <4>3, <4>4, <4>5
    <3> QED BY Zenon, <1>1, <2>7, <2>9, <2>10, <3>1, <3>2
  <2>12. Agree(log[s], leaderLog[t], n)
    <3>1. Agree(leaderLog[t], leaderLog[w], n)
      BY Zenon, <2>11 DEF Agree
    <3> QED BY Zenon, <1>1, <1>4, <2>8, <2>9, <2>10, <2>11, <3>1, AgreeRules
  <2> QED BY <1>1, <1>4, <1>5, <2>2, <2>10, <2>12, AgreeRules
<1> QED BY Zenon, <1>6, <1>7

(* Only what a quorum has taken is committed. *)
LEMMA CommittedStep ==
    ASSUME QuorumRules, Inv, TypeOK', GrowStep, Next
    PROVE  CommittedHeld'
<1> USE DEF Inv
<1>1. ASSUME NEW p \in committed
      PROVE  /\ Len(p) > 0 /\ p[Len(p)].Term \in Elected'
             /\ Agree(p, leaderLog'[p[Len(p)].Term], Len(p))
             /\ Holders(p[Len(p)].Term, Len(p))' \in Quorums
  <2>1. PICK t \in Elected : t = p[Len(p)].Term
    BY Zenon DEF CommittedHeld
  <2>2. Len(p) > 0 /\ Agree(p, leaderLog[t], Len(p)) /\ Holders(t, Len(p)) \in Quorums
    BY Zenon, <2>1 DEF CommittedHeld
  <2>3. /\ p \in Seq(Entry) /\ leaderLog[t] \in Seq(Entry) /\ Len(leaderLog[t]) \in Nat
        /\ t \in Elected' /\ leaderLog'[t] \in Seq(Entry) /\ Len(p) \in Nat
    <3>1. p \in Seq(Entry) /\ leaderLog[t] \in Seq(Entry) /\ t \in Elected'
      BY Zenon, LogTypes DEF TypeOK, GrowStep
    <3> QED BY <3>1 DEF TypeOK
  <2>4. Agree(leaderLog'[t], leaderLog[t], Len(leaderLog[t])) /\ Len(p) <= Len(leaderLog[t])
    BY Zenon, <2>2 DEF GrowStep, Agree
  <2>5. Agree(p, leaderLog'[t], Len(p))
    BY Zenon, <2>2, <2>3, <2>4, AgreeRules
  <2>6. PICK k \in Nat : k = Len(p)
    BY Zenon, <2>3
  <2>7. Holders(t, k)' \in Quorums
    BY Zenon, <2>2, <2>6, HoldersGrow
  <2> QED BY Zenon, <2>1, <2>2, <2>3, <2>5, <2>6, <2>7
<1>2. CASE committed' = committed
  BY Zenon, <1>1, <1>2 DEF CommittedHeld
<1>3. CASE \E s \in Servers : \E n \in 1..Len(log[s]) : Commit(s, n)
  <2>1. PICK s \in Servers, n \in Nat : n \in 1..Len(log[s]) /\ Commit(s, n)
    BY <1>3, LogTypes
  <2>2. PICK t \in Elected : t = term[s]
    BY Zenon, <2>1 DEF Commit, Leads
  <2>3. PICK p \in Seq(Entry) : p = SubSeq(log[s], 1, n) /\ Len(p) = n
                                /\ \A i \in 1..n : p[i] = log[s][i]
    <3>1. log[s] \in Seq(Entry) /\ n \in 0..Len(log[s])
      BY <2>1, LogTypes
    <3> QED BY Zenon, <3>1, PrefixOf
  <2>4. /\ committed' = committed \cup {p} /\ leaderLog' = leaderLog /\ acks' = acks
        /\ log[s][n].Term = t /\ Holders(t, n) \in Quorums /\ Leads(s)
        /\ Elected' = Elected
    BY Zenon, <2>1, <2>2, <2>3, CommitGrows DEF Commit
  <2>5. log[s] = leaderLog[t] /\ Len(log[s]) \in Nat
    BY Zenon, <2>2, <2>4, LogTypes DEF LeadersOwnTheirTerm
  <2>6. Agree(p, leaderLog'[t], n) /\ p[n].Term = t /\ n > 0
    BY <2>1, <2>3, <2>4, <2>5 DEF Agree
  <2>7. Holders(t, n)' \in Quorums
    BY Zenon, <2>4, HoldersGrow
  <2>8. /\ Len(p) > 0 /\ p[Len(p)].Term \in Elected'
        /\ Agree(p, leaderLog'[p[Len(p)].Term], Len(p))
        /\ Holders(p[Len(p)].Term, Len(p))' \in Quorums
    BY Zenon, <2>3, <2>4, <2>6, <2>7
  <2> QED BY Zenon, <1>1, <2>4, <2>8 DEF CommittedHeld
<1> QED BY Zenon, <1>2, <1>3 DEF Next, LearnTerm, Vote, Win, Extend, Replicate

-----------------------------------------------------------------------------
(* Initially there are no leaders and no entries. *)
LEMMA InvInit ==
    ASSUME QuorumRules, Init
    PROVE  Inv
<1>1. Elected = {} /\ \A s \in Servers : log[s] = <<>>
  BY Zenon DEF Init, Elected
<1>2. TypeOK
  BY <1>1 DEF Init, TypeOK, Elected
<1>3. \A s \in Servers : \A t : FromLeaders(log[s], t, leaderLog)
  BY <1>1 DEF FromLeaders
<1>4. LeadersOwnTheirTerm
  BY Zenon, <1>1 DEF LeadersOwnTheirTerm, Leads
<1> QED BY Zenon, <1>1, <1>2, <1>3, <1>4
        DEF Inv, Init, BallotsBind, LogsFromLeaders, AcksSound, HoldersKeep, VotesProtect,
            LeadersHave, CommittedHeld

(* Every step keeps the invariant. *)
LEMMA InvStep ==
    ASSUME QuorumRules, Inv, [Next]_vars
    PROVE  Inv'
<1>1. CASE Next
  <2>1. TypeOK /\ BallotsBind /\ LeadersOwnTheirTerm /\ LogsFromLeaders /\ AcksSound
    BY Zenon DEF Inv
  <2>2. GrowStep /\ TypeOK'
    BY Zenon, <1>1, <2>1, NextGrows
  <2>3. BallotsBind'
    BY Zenon, <1>1, <2>1, <2>2, BallotsStep
  <2>4. LeadersOwnTheirTerm' /\ LogsFromLeaders' /\ AcksSound'
    BY Zenon, <1>1, <2>1, <2>2, <2>3, LeadersStep, LogsStep, AcksStep
  <2>5. HoldersKeep' /\ VotesProtect' /\ LeadersHave' /\ CommittedHeld'
    BY Zenon, <1>1, <2>2, <2>3, <2>4, HoldersStep, VotesStep, LeadersHaveStep, CommittedStep
  <2> QED BY Zenon, <2>2, <2>3, <2>4, <2>5 DEF Inv
<1>2. CASE UNCHANGED vars
  <2>1. /\ Elected' = Elected /\ \A s, t : Voters(s, t)' = Voters(s, t)
        /\ \A v, t, n : Acked(v, t, n)' = Acked(v, t, n)
    BY Zenon, <1>2 DEF vars, Elected, Voters, Acked
  <2>2. \A t, n : Holders(t, n)' = Holders(t, n) /\ Choosable(t, n)' = Choosable(t, n)
    BY Zenon, <1>2, <2>1 DEF vars, Holders, Choosable
  <2>3. \A s : Leads(s)' = Leads(s)
    BY Zenon, <1>2, <2>1 DEF vars, Leads
  <2>4. TypeOK' /\ BallotsBind' /\ LeadersOwnTheirTerm' /\ LogsFromLeaders' /\ AcksSound'
    BY Zenon, <1>2, <2>1, <2>3 DEF vars, Inv, TypeOK, BallotsBind, LeadersOwnTheirTerm,
                            LogsFromLeaders, AcksSound
  <2>5. HoldersKeep' /\ VotesProtect' /\ LeadersHave' /\ CommittedHeld'
    BY Zenon, <1>2, <2>1, <2>2 DEF vars, Inv, HoldersKeep, VotesProtect, LeadersHave, CommittedHeld
  <2> QED BY Zenon, <2>4, <2>5 DEF Inv
<1> QED BY Zenon, <1>1, <1>2

(* What is choosable in a term is in the log of every later leader, and what
   is committed was choosable: with quorums that meet, the leaders of all later
   terms hold what was committed. *)
THEOREM LogsSafe ==
    ASSUME QuorumRules
    PROVE  Spec => []Inv
BY InvInit, InvStep, PTL DEF Spec

-----------------------------------------------------------------------------
(* What the invariant says about committed entries                         *)

(* Leaders of the term a prefix was committed in, and of later ones, have it. *)
LEMMA LeadersHold ==
    ASSUME QuorumRules, Inv, NEW p \in committed, NEW t \in Elected, LastTerm(p) <= t
    PROVE  Agree(p, leaderLog[t], Len(p))
<1>1. PICK u \in Elected, k \in Nat : u = p[Len(p)].Term /\ k = Len(p)
  <2>1. p \in Seq(Entry) /\ p[Len(p)].Term \in Elected
    BY Zenon DEF Inv, CommittedHeld, TypeOK
  <2> QED BY <2>1
<1>2. /\ k > 0 /\ Agree(p, leaderLog[u], k) /\ Holders(u, k) \in Quorums
      /\ LastTerm(p) = u /\ p \in Seq(Entry)
  BY <1>1 DEF Inv, CommittedHeld, LastTerm, TypeOK
<1>3. /\ u \in Nat /\ t \in Nat /\ leaderLog[u] \in Seq(Entry) /\ leaderLog[t] \in Seq(Entry)
      /\ Len(leaderLog[u]) \in Nat
  BY Zenon, LogTypes DEF Inv
<1>4. CASE u = t
  BY Zenon, <1>1, <1>2, <1>4
<1>5. CASE u < t
  <2>1. k \in 1..Len(leaderLog[u]) /\ leaderLog[u][k].Term = u
    BY <1>1, <1>2, <1>3 DEF Agree
  <2>2. {v \in Servers : Acked(v, u, k) \/ term[v] <= u} \in Quorums
    BY Zenon, <1>2 DEF QuorumRules, Holders
  <2>3. Agree(leaderLog[t], leaderLog[u], k)
    BY Zenon, <1>5, <2>1, <2>2 DEF Inv, LeadersHave, Choosable
  <2> QED BY <1>1, <1>2, <1>3, <2>3, AgreeRules
<1> QED BY <1>2, <1>3, <1>4, <1>5

(* Of two committed prefixes one extends the other. *)
LEMMA CommitsAgree ==
    ASSUME QuorumRules, Inv, NEW p \in committed, NEW q \in committed, Len(p) <= Len(q)
    PROVE  Agree(p, q, Len(p))
<1>1. /\ p \in Seq(Entry) /\ q \in Seq(Entry) /\ Len(p) \in Nat /\ Len(q) \in Nat
      /\ LastTerm(p) \in Elected /\ LastTerm(q) \in Elected
  BY DEF Inv, CommittedHeld, LastTerm, TypeOK
<1>2. PICK t \in Elected : LastTerm(p) <= t /\ LastTerm(q) <= t
  BY <1>1, LogTypes DEF Inv
<1>3. Agree(p, leaderLog[t], Len(p)) /\ Agree(q, leaderLog[t], Len(q))
  BY Zenon, <1>2, LeadersHold
<1>4. leaderLog[t] \in Seq(Entry)
  BY Zenon, LogTypes DEF Inv
<1> QED BY Zenon, <1>1, <1>3, <1>4, AgreeRules

(* Entries known to be committed stay in a server's log, and stay known. *)
LEMMA LearnedStays ==
    ASSUME QuorumRules, Inv, [Next]_vars, NEW v \in Servers, NEW n \in Nat,
           Learned(log[v], n, term[v])
    PROVE  Learned(log[v], n, term[v])'
<1>1. CASE n = 0
  BY Zenon, <1>1 DEF Learned
<1>2. CASE n > 0
  <2>1. PICK p \in committed : LastTerm(p) <= term[v] /\ Agree(log[v], p, n)
    BY <1>2 DEF Learned
  <2>2. TypeOK /\ TypeOK' /\ committed \subseteq committed' /\ term[v] <= term'[v]
    <3>1. TypeOK /\ Inv'
      BY Zenon, InvStep DEF Inv
    <3>2. CASE Next
      BY Zenon, <3>1, <3>2, NextGrows DEF Inv, GrowStep
    <3>3. CASE UNCHANGED vars
      BY <3>1, <3>3, LogTypes DEF vars, Inv
    <3> QED BY Zenon, <3>2, <3>3
  <2>3. /\ p \in Seq(Entry) /\ LastTerm(p) \in Nat /\ term[v] \in Nat /\ term'[v] \in Nat
        /\ log[v] \in Seq(Entry) /\ log'[v] \in Seq(Entry)
    <3>1. p \in Seq(Entry) /\ LastTerm(p) \in Elected
      BY DEF Inv, CommittedHeld, LastTerm, TypeOK
    <3> QED BY Zenon, <2>2, <3>1, LogTypes DEF TypeOK
  <2>4. Agree(log'[v], p, n)
    <3>1. CASE log'[v] = log[v]
      BY Zenon, <2>1, <3>1
    <3>2. CASE \E c \in Commands : Extend(v, c)
      <4>1. PICK c \in Commands : Extend(v, c)
        BY Zenon, <3>2
      <4>2. PICK e \in Entry : log'[v] = Append(log[v], e)
        BY Zenon, <2>2, <2>3, <4>1 DEF Extend, Entry, TypeOK
      <4> QED BY <2>1, <2>3, <4>2, OneMore DEF Agree
    <3>3. CASE \E t \in Elected, k \in Nat : Replicate(v, t, k)
      <4>1. PICK t \in Elected, k \in Nat : k \in 0..Len(leaderLog[t]) /\ Replicate(v, t, k)
        BY Zenon, <3>3 DEF Replicate
      <4>2. leaderLog[t] \in Seq(Entry) /\ t >= term[v] /\ t \in Nat /\ Len(p) \in Nat
        BY <2>2, <2>3, <4>1, LogTypes DEF Replicate
      <4>3. Agree(p, leaderLog[t], Len(p)) /\ n <= Len(p)
        BY <2>1, <2>3, <4>2, LeadersHold DEF Agree
      <4>4. Agree(log[v], leaderLog[t], n)
        BY Zenon, <2>1, <2>3, <4>2, <4>3, AgreeRules
      <4>5. CASE log' = [log EXCEPT ![v] = SubSeq(leaderLog[t], 1, k)] /\ log'[v] # log[v]
        <5>1. k >= n
          BY Zenon, <2>3, <4>1, <4>2, <4>4, <4>5, ReplaceKeeps DEF Replicate
        <5>2. Agree(log'[v], leaderLog[t], n)
          BY <2>2, <4>1, <4>2, <4>5, <5>1, PrefixOf DEF TypeOK, Agree
        <5> QED BY Zenon, <2>1, <2>3, <4>2, <4>3, <5>2, AgreeRules
      <4> QED BY Zenon, <2>1, <4>1, <4>5 DEF Replicate
    <3>4. CASE UNCHANGED vars
      BY Zenon, <3>1, <3>4 DEF vars
    <3>5. CASE Next /\ log'[v] # log[v]
      <4>1. \/ \E c \in Commands : Extend(v, c)
            \/ \E t \in Elected, k \in Nat : Replicate(v, t, k)
        BY Zenon, <3>5, LogChanges DEF Inv
      <4> QED BY Zenon, <3>2, <3>3, <4>1
    <3> QED BY Zenon, <3>1, <3>4, <3>5
  <2> QED BY <2>1, <2>2, <2>3, <2>4 DEF Learned
<1> QED BY <1>1, <1>2

(* The same of a leader's log. *)
LEMMA LeaderLearnedStays ==
    ASSUME QuorumRules, Inv, [Next]_vars, NEW t \in Elected, NEW n \in Nat,
           Learned(leaderLog[t], n, t)
    PROVE  t \in Elected' /\ Learned(leaderLog[t], n, t)'
<1>1. CASE UNCHANGED vars
  BY Zenon, <1>1 DEF vars, Elected, Learned
<1>2. CASE Next
  <2>1. GrowStep /\ TypeOK' /\ TypeOK
    BY Zenon, <1>2, NextGrows DEF Inv
  <2>2. /\ t \in Elected' /\ Agree(leaderLog'[t], leaderLog[t], Len(leaderLog[t]))
        /\ leaderLog[t] \in Seq(Entry) /\ leaderLog'[t] \in Seq(Entry)
        /\ Len(leaderLog[t]) \in Nat /\ committed \subseteq Seq(Entry)
    BY Zenon, <2>1, LogTypes DEF GrowStep, TypeOK
  <2>3. committed \subseteq committed'
    BY Zenon, <1>2 DEF Next, LearnTerm, Vote, Win, Extend, Replicate, Commit
  <2>4. ASSUME NEW p \in committed, LastTerm(p) <= t, Agree(leaderLog[t], p, n)
        PROVE  Agree(leaderLog'[t], p, n)
    <3>1. Agree(p, leaderLog[t], n) /\ n <= Len(leaderLog[t]) /\ p \in Seq(Entry)
      BY Zenon, <2>2, <2>4 DEF Agree
    <3> QED BY Zenon, <2>2, <3>1, AgreeRules
  <2> QED BY Zenon, <2>2, <2>3, <2>4 DEF Learned
<1> QED BY Zenon, <1>1, <1>2

(* Who takes a leader's log up to k knows of what the leader knew, up to k. *)
LEMMA FollowerLearns ==
    ASSUME Inv, NEW v \in Servers, NEW t \in Elected, NEW k \in Nat, Replicate(v, t, k),
           NEW n \in Nat, n <= k, Learned(leaderLog[t], n, t)
    PROVE  Learned(log[v], n, term[v])' /\ k <= Len(log'[v])
<1>1. /\ TypeOK' /\ term'[v] = t /\ Agree(log'[v], leaderLog[t], k)
      /\ committed' = committed
  BY Zenon, ReplicateGrows DEF Inv, Replicate
<1>2. /\ log'[v] \in Seq(Entry) /\ Len(log'[v]) \in Nat
      /\ leaderLog[t] \in Seq(Entry) /\ Len(leaderLog[t]) \in Nat
      /\ committed \subseteq Seq(Entry)
  <2>1. log'[v] \in Seq(Entry) /\ committed \subseteq Seq(Entry)
    BY Zenon, <1>1 DEF Inv, TypeOK
  <2>2. leaderLog[t] \in Seq(Entry) /\ Len(leaderLog[t]) \in Nat
    BY Zenon, LogTypes DEF Inv
  <2> QED BY <2>1, <2>2
<1>3. ASSUME NEW p \in committed, LastTerm(p) <= t, Agree(leaderLog[t], p, n)
      PROVE  Agree(log'[v], p, n)
  <2>1. Agree(log'[v], leaderLog[t], n)
    BY <1>1, <1>2 DEF Agree
  <2>2. p \in Seq(Entry)
    BY Zenon, <1>2
  <2> QED BY <1>2, <1>3, <2>1, <2>2, AgreeRules
<1> QED BY Zenon, <1>1, <1>3 DEF Learned, Agree

(* A leader knows of what it commits. *)
LEMMA CommitterLearns ==
    ASSUME Inv, NEW s \in Servers, NEW n, Commit(s, n)
    PROVE  Learned(log[s], n, term[s])'
<1> DEFINE p == SubSeq(log[s], 1, n)
<1>1. /\ n \in 1..Len(log[s]) /\ Len(p) = n /\ \A i \in 1..n : p[i] = log[s][i]
  BY Zenon, CommitGrows DEF Inv
<1>2. /\ log'[s] = log[s] /\ term'[s] = term[s] /\ p \in committed'
      /\ log[s][n].Term = term[s] /\ Len(log[s]) \in Nat /\ term[s] \in Nat
  BY Zenon, LogTypes DEF Commit, Inv
<1> HIDE DEF p
<1>3. LastTerm(p) <= term[s] /\ Agree(log[s], p, n)
  BY <1>1, <1>2 DEF LastTerm, Agree
<1> QED BY Zenon, <1>2, <1>3 DEF Learned

-----------------------------------------------------------------------------
(* What an implementation may rely on                                      *)

(* A step, or none, keeps the invariant and withdraws nothing. *)
LEMMA StepGrows ==
    ASSUME QuorumRules, Inv, [Next]_vars
    PROVE  Inv' /\ GrowStep
<1>1. CASE Next
  BY Zenon, <1>1, InvStep, NextGrows DEF Inv
<1>2. CASE UNCHANGED vars
  BY <1>2, InvStep, LogTypes DEF vars, GrowStep, Agree, Elected, Inv
<1> QED BY Zenon, <1>1, <1>2

(* Without a new leader, whoever leads led before, in the same term. *)
LEMMA LeadsStays ==
    ASSUME QuorumRules, Inv, [Next]_vars, NEW s \in Servers, Leads(s)', Elected' = Elected
    PROVE  Leads(s) /\ term'[s] = term[s]
BY Zenon, StepGrows, LeadsBefore DEF Inv, Leads

(* A candidate's log does not change before its term has a leader. *)
LEMMA CandidateKeeps ==
    ASSUME QuorumRules, Inv, [Next]_vars, NEW s \in Servers, term'[s] \notin Elected'
    PROVE  log'[s] = log[s]
<1>1. GrowStep /\ TypeOK
  BY Zenon, StepGrows DEF Inv
<1>2. ASSUME NEW c \in Commands, Extend(s, c)
      PROVE  FALSE
  BY Zenon, <1>1, <1>2 DEF Extend, Leads, GrowStep
<1>3. ASSUME NEW u \in Elected, NEW n \in Nat, Replicate(s, u, n)
      PROVE  FALSE
  BY <1>1, <1>3, ReplicateGrows
<1> QED BY Zenon, <1>2, <1>3, LogChanges DEF Inv, vars
=============================================================================
