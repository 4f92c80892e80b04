\* A release with the old key, one with both and one with the new, and nothing
\* mixed up.
SPECIFICATION LiveSpec
CONSTANTS
  Collectors = {c1}
  Slots = {1}
  MaxKey = 2
  Series <- OneSeries
  MaxPatch = 3
  Legacy <- MCLegacy
  FirstFloor <- MCFloor
  Floors <- BridgeFloor
  MaxReleases = 3
  MaxMistakes = 0
  None = None
INVARIANT
  NoCollectorIsStranded
PROPERTY
  NamedIsInstalled
