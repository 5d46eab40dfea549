------------------------------ MODULE Consensus -------------------------------
(***************************************************************************)
(* The raft package as the services above it see it: leaders that accept   *)
(* commands with Start, one log of committed commands, and elections that  *)
(* may leave several servers thinking they lead.  Module Raft is the       *)
(* protocol behind it: that committed entries stay (LeaderCompleteness)    *)
(* and are the same everywhere (StateMachineSafety) is shown there.  A     *)
(* service extends this module and composes its steps with these.          *)
(***************************************************************************)
EXTENDS Integers, Sequences, SequencesExt

CONSTANTS
    Servers,
    MaxTerm,     \* bound: no election beyond this term
    MaxIndex,    \* bound: no log index beyond this one
    Room         \* bound: the log length up to which leaders of a term take commands

ASSUME ConsensusAssumption ==
    MaxTerm \in Nat /\ MaxIndex \in Nat /\ Room \in [1..MaxTerm -> 0..MaxIndex]

VARIABLES
    term,        \* the term of the latest election
    ledTerm,     \* the term in which a server thinks it leads, or NotLeading
    entries,     \* the log of a server, as far as it has ever led
    chosen       \* the committed log

raftVars == <<term, ledTerm, entries, chosen>>

NotLeading == 0

RaftTypeOK(Commands) ==
    /\ term \in 0..MaxTerm
    /\ ledTerm \in [Servers -> 0..MaxTerm]
    /\ entries \in [Servers -> Seq([cmd : Commands, term : 1..MaxTerm])]
    /\ chosen \in Seq([cmd : Commands, term : 1..MaxTerm])

RaftInit ==
    /\ term = 0
    /\ ledTerm = [s \in Servers |-> NotLeading]
    /\ entries = [s \in Servers |-> <<>>]
    /\ chosen = <<>>

(* Start on a server that thinks it leads; StartIndex is where the command  *)
(* will be if it is ever committed.                                        *)
StartIndex(s) == Len(entries[s]) + 1

Start(s, cmd) ==
    /\ ledTerm[s] # NotLeading
    /\ Len(entries[s]) < Room[ledTerm[s]]
    /\ entries' = [entries EXCEPT ![s] = Append(@, [cmd |-> cmd, term |-> ledTerm[s]])]
    /\ UNCHANGED <<term, ledTerm, chosen>>

(* A server wins an election.  Its log holds every committed entry, and of  *)
(* the others those that some leader had replicated to it.                 *)
Elect(s) ==
    /\ term < MaxTerm /\ ledTerm[s] = NotLeading
    /\ term' = term + 1
    /\ ledTerm' = [ledTerm EXCEPT ![s] = term + 1]
    /\ \E t \in Servers : \E n \in Len(chosen)..Len(entries[t]) :
          /\ IsPrefix(chosen, entries[t])
          /\ entries' = [entries EXCEPT ![s] = SubSeq(entries[t], 1, n)]
    /\ UNCHANGED chosen

(* A leader hears of a newer term.                                         *)
StepDown(s) ==
    /\ ledTerm[s] \notin {NotLeading, term}
    /\ ledTerm' = [ledTerm EXCEPT ![s] = NotLeading]
    /\ UNCHANGED <<term, entries, chosen>>

(* A majority has an entry of the leader's own term: it is committed with   *)
(* everything before it, one entry after the other, and every later leader  *)
(* has it.                                                                 *)
Commit(s) ==
    LET upTo == SubSeq(entries[s], 1, Len(chosen) + 1) IN
    /\ \E n \in Len(chosen) + 1..Len(entries[s]) : entries[s][n].term = ledTerm[s]
    /\ IsPrefix(chosen, entries[s])
    /\ \A t \in Servers : ledTerm[t] > ledTerm[s] => IsPrefix(upTo, entries[t])
    /\ chosen' = upTo
    /\ UNCHANGED <<term, ledTerm, entries>>

(* A server is killed and started again: it follows.                       *)
Reboot(s) ==
    /\ ledTerm' = [ledTerm EXCEPT ![s] = NotLeading]
    /\ UNCHANGED <<term, entries, chosen>>
===============================================================================
