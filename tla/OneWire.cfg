SPECIFICATION FairSpec
CONSTANT TickMs = 10
INVARIANTS TypeOK InOrder OnlyLateBytesWrong ErrorsShown
PROPERTIES Returns
