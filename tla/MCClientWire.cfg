SPECIFICATION Spec
CONSTANTS
  Types <- MCTypes
  Encoders = {"generated", "minimal"}
  MaxParts = 2
INVARIANT ReadConformsToInterface
INVARIANT PartsAreMerged
INVARIANT OlderProgramKeepsFields
