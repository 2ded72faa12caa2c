SPECIFICATION Spec
CONSTANTS
  Requests = {r1, r2}
  PromptLen <- MCPromptLen
  MaxOutput = 2
  Slots = 2
  NumBlocks = 3
  BlockSize = 2
  MaxLen = 4
  Steps = 1
  Chunk = 2
  MaxAhead = 2
  MaxToggles = 1
CHECK_DEADLOCK FALSE
INVARIANTS
  CachesHoldPrefixes
  CountsAgree
