\* Two workflows at once, a new series, files and rows mixed up by hand, and pages
\* that change while they are read.
SPECIFICATION Spec
CONSTANTS
  Collectors = {c1}
  Slots = {1, 2}
  MaxKey = 2
  Series <- BothSeries
  MaxPatch = 1
  Legacy <- MCLegacy
  FirstFloor <- MCFloor
  Floors <- AnyFloor
  MaxReleases = 2
  MaxMistakes = 1
  None = None
INVARIANT
  TypeOK
PROPERTIES
  VersionsOnlyRise
  InstallsTheNamedBuild
