SPECIFICATION Spec
CONSTANTS
  N = 3
  PromptLen <- MCPromptLen
  MaxLen = 4
  Chunk = 2
  Configs <- MCConfigs
  FastSpecs = {1}
  MaxFused = 2
INVARIANTS
  StateKept
  TokensInPlace
  FastAgrees
