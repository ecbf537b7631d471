SPECIFICATION FairSpec
CONSTANTS
  lost = lost
  torn = torn
  MaxCount <- MCMaxCount
  Value <- MCValue
  Default <- MCDefault
  NCopies <- MCNCopies
  NvChoices <- MCNvChoices
  Lost <- lost
  Torn <- torn
INVARIANTS BootInv AttemptsPaid MountMatches GoodActive Redundant
PROPERTIES AttemptCost StoreRespected NeverForgets AtomicSpec
PROPERTY ComesBack
