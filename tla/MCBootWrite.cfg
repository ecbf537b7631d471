SPECIFICATION FairSpec
CONSTANTS
  lost = lost
  torn = torn
  MaxCount <- MCMaxCount
  Value <- MCValue
  Default <- MCDefault
  NCopies <- MCNCopies
  NvChoices <- MCNvChoices
  Lost <- lost
  Torn <- torn
PROPERTY WriteBoots
