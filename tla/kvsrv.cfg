\* Two clerks, two keys, each with two numbered Puts or Appends and any number of Gets.
CONSTANTS
    Clerks = {c1, c2}
    Keys = {k1, k2}
    MaxCount = 1
SPECIFICATION FairSpec
INVARIANTS CountInv
PROPERTIES Linearizable CallsReturn
