\* Two workers of which one may crash; jobs whose tasks fit the channel, and one
\* whose tasks do not; two timeouts after each other where there is
\* one reduce task.
CONSTANTS
    Workers = {w1, w2}
    Jobs <- MCJobs
    Crashes = 1
SPECIFICATION FairSpec
INVARIANTS MRInv NoTaskLost MapsBeforeReduces OutputsWritten
PROPERTIES JobEnds
CHECK_DEADLOCK FALSE
