SPECIFICATION FairSpec
CONSTANT WaitLimit = 5
INVARIANTS DebugsApp
PROPERTIES PromptComes
