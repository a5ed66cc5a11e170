CONSTANTS
  Texts <- MCTexts
  Configs <- TightConfig
  Window = 3
SPECIFICATION FixedFairSpec
PROPERTIES
  Returns
CHECK_DEADLOCK FALSE
