SPECIFICATION FairSpec
INVARIANTS StartInv WlanUp
PROPERTIES ShellComes
CHECK_DEADLOCK FALSE
