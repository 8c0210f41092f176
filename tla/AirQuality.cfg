SPECIFICATION SampleSpec
CONSTANTS
  Temps <- MCTemps
  Hums <- MCHums
  Pm25s <- MCPm25s
  Pm10s <- MCPm10s
  Missing = Missing
INVARIANTS
  CategoryFitsIndex
  EverySampleScored
PROPERTIES
  AqiMonotone
  PollutionRaisesScore
  ScoreDipsAreSmall
