CONSTANTS
  Seats = {s1, s2}
  Nobody = Nobody
  Widths <- EachWidth
  Retries = 1
  Transport = 1
  WorkerDeadline = 2
  CycleDeadline = 2
  MaxTime = 3
SPECIFICATION FairSpec
INVARIANTS
  TypeOK
  TransportEndsFirst
  CallsAccounted
  ReportsAgree
PROPERTIES
  OutcomeStands
  LostNeverRetried
  CycleEnds
