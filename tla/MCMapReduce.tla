------------------------------ MODULE MCMapReduce -----------------------------
(* Small instances of MapReduce for TLC.                                   *)
EXTENDS MapReduce

Job(m, r, i) == [mMap |-> m, nReduce |-> r, intervals |-> i]
MCJobs == {Job(2, 1, 2), Job(3, 1, 2), Job(1, 2, 1), Job(2, 2, 1)}
===============================================================================
