CONSTANTS
  Requests = {q1}
  Seats = {s1, s2}
  NoSeat = NoSeat
  MaxRuns = 2
  PipeLines = 1
SPECIFICATION FairSpec
INVARIANTS
  TypeOK
PROPERTIES
  AggregateAfterReports
  CycleReported
