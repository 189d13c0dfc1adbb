CONSTANTS
  Passes = {"midfat", "mask", "dummy"}
  N = 1
  Bodies <- MC_BodiesDivergent
  DummyBodies <- MC_DummyBodies
  Callees = {"ext", "life", "defn", "wrap", "hook"}
  Info <- MC_Info
  MaxArgs = 2
  MaxWidth = 2
  MaxDepth = 2
  MetadataBytes = 8
  DeepMetadata = FALSE
  DeepMetadataBytes = 8
  FixedCompression = FALSE
SPECIFICATION Spec
INVARIANT InstrumentedAsSpecified
CHECK_DEADLOCK FALSE
