CONSTANTS
  NThreads = 2
  First = 1
  Last = 7
  Grain = 2
  IndexMax = 7
  Signed = FALSE
  Alpha = 2
  Builds = {
    {"DISTRIB_BY_DEMAND"},
    {"GRAIN_FRACTION"},
    {"DISTRIB_BY_DEMAND", "GRAIN_LOG", "REDUCE_GRAIN_ON_STEAL"},
    {"GRAIN_LOG", "GRAIN_SMALLER_LITTLE", "NVIDIA_JETSON_TX2"},
    {"DISTRIB_BY_DEMAND", "GRAIN_FRACTION", "EXTRACT_THRESHOLD", "REDUCE_GRAIN_ON_STEAL"},
    {"STEAL_ONLY_FROM_LITTLE", "NVIDIA_JETSON_TX2"},
    {"STEAL_HALF"},
    {"STEAL_THRESHOLD_LITTLE", "ODROID_XU3_LITE"},
    {"REDUCE_GRAIN_ON_STEAL"},
    {"DISTRIB_BY_DEMAND", "REDUCE_GRAIN_ON_STEAL", "STEAL_HALF"}}
SPECIFICATION VariantFairSpec
INVARIANTS VariantTypeOK NeverOutdated NoEmptyChunk
PROPERTIES ImplementsLoop VariantsEndUnlessStealsForever
