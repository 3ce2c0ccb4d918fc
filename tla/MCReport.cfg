SPECIFICATION Spec
CONSTANTS
  CountMod = 64
  ValueMax = 31
  NumRows = 2
  Directions <- MCDirections
  CpuTimes <- MCCpuTimes
  Percentiles <- MCPercentiles
INVARIANTS
  TypeOK
  TablesAddUp
  StdDevOfAll
  PercentilesExact
PROPERTIES
  ReportCompletes
