CONSTANTS
  Passes = {"dummy"}
  N = 2
  Bodies <- MC_Bodies
  DummyBodies <- MC_DummyBodies
  Callees = {"ext", "life", "defn", "wrap", "hook"}
  Info <- MC_Info
  MaxArgs = 2
  MaxWidth = 2
  MaxDepth = 2
  MetadataBytes = 16
  DeepMetadata = FALSE
  DeepMetadataBytes = 8
  FixedCompression = FALSE
SPECIFICATION Spec
INVARIANT TrackerCallsResolve
CHECK_DEADLOCK FALSE
