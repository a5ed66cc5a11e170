CONSTANTS
  MaxRetries = 2
  Chunks = {c1, c2, c3, c4}
  TopK = 3
  Unknown = made_up
  MaxNamed = 3
  Configurations <- MCConfigurations
SPECIFICATION Spec
INVARIANTS
  ErrorsAreTyped
