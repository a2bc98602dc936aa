------------------------------ MODULE Sessions ------------------------------
(***************************************************************************)
(* Market sessions as the chain adapter knows them: a weekly closed span    *)
(* inferred from the times the feeds published, and the open time between   *)
(* two instants.  Time is in ticks; a week is Week ticks long.              *)
(***************************************************************************)
EXTENDS Integers, FiniteSetsExt

CONSTANTS Week,          \* WEEK_S
          MondayOffset,  \* MONDAY_OFFSET_S
          Guard, Grid,   \* sessions.json: how far a proposed span is shrunk
          MinWeekends    \* sessions.json: complete weeks a proposal needs

ASSUME SessionsAssumption ==
  /\ Week \in Nat \ {0} /\ MondayOffset \in 0..(Week - 1)
  /\ Guard \in Nat \ {0} /\ Grid \in Nat \ {0} /\ MinWeekends \in Nat

WeekPosition(t) == (t - MondayOffset) % Week

MondayOf(t) == t - WeekPosition(t)

(***************************************************************************)
(* A closed span [start, end) in ticks after Monday; `end` may pass Week.   *)
(* A schedule with no inferred span has the empty one.                      *)
(***************************************************************************)
Closure == [start : 0..(Week - 1), end : 0..(2 * Week - 1)]

NoClosure == [start |-> 0, end |-> 0]

Within(c, t) ==
  LET p == WeekPosition(t)
  IN \/ c.start <= p /\ p < c.end
     \/ c.start <= p + Week /\ p + Week < c.end

\* closed_ms: the overlap of [since, until) with the span, week by week, from
\* the week before `since`.
ClosedTime(c, since, until) ==
  LET base(k) == MondayOf(since) + (k - 1) * Week
      overlap(k) == Max({0, Min({base(k) + c.end, until})
                             - Max({base(k) + c.start, since})})
      weeks == {k \in 0..((until - since) \div Week + 2) :
                  base(k) + c.start < until}
  IN IF until <= since THEN 0 ELSE MapThenSumSet(overlap, weeks)

OpenTime(c, since, until) == (until - since) - ClosedTime(c, since, until)

(***************************************************************************)
(* The span proposed for a schedule whose feeds published at `times`: the   *)
(* largest stretch of the week with no round in any week, shrunk by Guard   *)
(* and to Grid marks.  The later one wins among equals.                     *)
(***************************************************************************)
QuietSpan(times) ==
  LET positions == {WeekPosition(t) : t \in times}
      next(p) == IF \E q \in positions : q > p
                 THEN Min({q \in positions : q > p})
                 ELSE Min(positions) + Week
      after == CHOOSE p \in positions : \A q \in positions :
                 \/ next(p) - p > next(q) - q
                 \/ next(p) - p = next(q) - q /\ p >= q
  IN [after |-> after, before |-> next(after)]

\* A mutant: the span runs from the very round that precedes it.
Shrunk_NoGuard(quiet) ==
  LET start == (quiet.after \div Grid) * Grid
      end == ((quiet.before - Guard) \div Grid) * Grid
      shift == IF start >= Week THEN Week ELSE 0
  IN [start |-> start - shift, end |-> end - shift]

Shrunk(quiet) ==
  LET start == ((quiet.after + Guard + Grid - 1) \div Grid) * Grid
      end == ((quiet.before - Guard) \div Grid) * Grid
      shift == IF start >= Week THEN Week ELSE 0
  IN [start |-> start - shift, end |-> end - shift]

\* The weeks observed on both sides of the span.
CompleteWeekends(times, c) ==
  {m \in {MondayOf(Min(times)) + k * Week :
            k \in 0..((Max(times) - Min(times)) \div Week + 1)} :
     /\ m + c.start < Max(times)
     /\ \E t \in times : t < m + c.start
     /\ \E t \in times : t >= m + c.end}

\* The proposal a person reviews, or NoClosure when it is refused.
InferClosure(times) ==
  LET c == Shrunk(QuietSpan(times))
  IN IF \/ Cardinality(times) < 2
        \/ c.end <= c.start
        \/ Cardinality(CompleteWeekends(times, c)) < MinWeekends
     THEN NoClosure ELSE c

=============================================================================
