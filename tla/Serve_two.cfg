CONSTANTS
  Requests = {q1, q2}
  Seats = {s1}
  NoSeat = NoSeat
  MaxRuns = 2
  PipeLines = 1
SPECIFICATION Spec
INVARIANT OneCycle
