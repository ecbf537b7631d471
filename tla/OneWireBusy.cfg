SPECIFICATION FairSpec
CONSTANT TickMs = 10
INVARIANT TrueScratchpad
