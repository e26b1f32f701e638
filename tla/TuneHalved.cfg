SPECIFICATION Spec
CONSTANTS
  None = None
  Origins = {o1}
  Advertised <- MCAdvertised
  NoAdvert <- Sensible
  Configured <- MCConfigured
  Foreign <- MCForeign
  Hard <- MCHard
  HardBytes = 8
  Rates = {0, 2}
  Persistent = TRUE
PROPERTIES
  HalvedNotKept
