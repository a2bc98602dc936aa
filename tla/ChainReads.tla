----------------------------- MODULE ChainReads -----------------------------
(***************************************************************************)
(* The chain adapter: reads at one pinned block, the walk back over a       *)
(* feed's rounds, one close a day, and freshness in open-session time.      *)
(*                                                                         *)
(* The chain is a record `world`: the rounds each feed ever publishes, the  *)
(* tick from which a token's oracle is paused, balances and beacon slots.   *)
(* A read at a block sees what had happened by the block's time.  How the   *)
(* transport served a call is the argument `said`: "answered",              *)
(* "unavailable" (no endpoint answered) or "error" (a JSON-RPC error).      *)
(***************************************************************************)
EXTENDS Sessions, Sequences

CONSTANTS MaxRounds,    \* series_max_rounds
          Chunk,        \* multicall_chunk
          ScaleBreak,   \* series_scale_break_ratio
          Day, Days,    \* a day in ticks, and series_window_seconds in days
          Cut           \* series_daily_cut_utc_seconds

ASSUME ReadsAssumption ==
  /\ MaxRounds \in Nat \ {0} /\ Chunk \in Nat \ {0} /\ ScaleBreak \in Nat \ {0}
  /\ Day \in Nat \ {0} /\ Days \in Nat \ {0} /\ Cut \in 0..(Day - 1)

(***************************************************************************)
(* Three-valued verdicts, and observations: a value, or why there is none.  *)
(***************************************************************************)
Verdict == {"true", "false", "null"}

Judged(b) == IF b THEN "true" ELSE "false"

Ok(value) == [read |-> "ok", value |-> value]

Failed(said) ==
  [read |-> IF said = "unavailable" THEN "unreachable" ELSE "refused",
   value |-> 0]

Observe(said, value) == IF said = "answered" THEN Ok(value) ELSE Failed(said)

(***************************************************************************)
(* Feeds.  A round is when it was published, its answer, and whether it is  *)
(* complete and answered in its own round.                                  *)
(***************************************************************************)
Round == [at : Nat, answer : Int, complete : BOOLEAN]

\* round_problem, negated.
Sound(r) == r.answer > 0 /\ r.complete

\* The last round of feed f that the state at block time b holds.
HeadRound(world, f, b) ==
  Max({0} \cup {n \in DOMAIN world.rounds[f] : world.rounds[f][n].at <= b})

\* A mutant: a feed with no round yet answers its round zero.
LatestRound_NoRound(world, f, b, said) ==
  IF said # "answered" THEN Failed(said) ELSE Ok(HeadRound(world, f, b))

\* latestRoundData through one multicall.
LatestRound(world, f, b, said) ==
  LET n == HeadRound(world, f, b)
  IN IF said # "answered" THEN Failed(said)
     ELSE IF n = 0 \/ ~Sound(world.rounds[f][n]) THEN Failed("error")
     ELSE Ok(n)

SessionOf(cfg, feed) ==
  IF feed.hours \in DOMAIN cfg.sessions THEN cfg.sessions[feed.hours]
                                        ELSE NoClosure

\* Is the newest round fresh at the pinned block's time b?
Freshness(world, f, reading, b, feed, cfg) ==
  LET c == SessionOf(cfg, feed)
      at == world.rounds[f][reading.value].at
  IN IF reading.read # "ok" \/ Within(c, at) THEN "null"
     ELSE Judged(OpenTime(c, at, b) <= feed.heartbeat + cfg.margin)

(***************************************************************************)
(* The price series: rounds `oldest..head`, walked newest first in batches  *)
(* of Chunk; the batch numbered `broken` is not answered (0: all are).      *)
(***************************************************************************)
Batch(head, n) == (head - 1 - n) \div Chunk + 1

\* Whether round n may be put before round n + 1, or what stops the walk.
Link(rounds, head, n, broken) ==
  LET r == rounds[n]  newer == rounds[n + 1]
  IN IF Batch(head, n) = broken \/ ~Sound(r) \/ r.at > newer.at THEN "null"
     ELSE Judged(Max({r.answer, newer.answer})
                   < ScaleBreak * Min({r.answer, newer.answer}))

OldestWalked(rounds, head, start, broken) ==
  Min({n \in 1..head :
         /\ head - n + 1 <= MaxRounds
         /\ \A m \in n..(head - 1) : Link(rounds, head, m, broken) = "true"
         /\ \A m \in (n + 1)..head : rounds[m].at > start})

\* A mutant: a feed walked back to its first round covers any window.
Coverage_FirstRound(rounds, head, oldest, start, broken) ==
  IF rounds[oldest].at <= start \/ oldest = 1 THEN "true"
  ELSE IF head - oldest + 1 >= MaxRounds THEN "false"
  ELSE Link(rounds, head, oldest - 1, broken)

Coverage(rounds, head, oldest, start, broken) ==
  IF rounds[oldest].at <= start THEN "true"
  ELSE IF oldest = 1 \/ head - oldest + 1 >= MaxRounds THEN "false"
  ELSE Link(rounds, head, oldest - 1, broken)

NoSeries(read) == [read |-> read, points |-> {}, coverage |-> "null"]

PriceSeries(world, f, b, start, said, broken) ==
  LET latest == LatestRound(world, f, b, said)
      rounds == world.rounds[f]
      oldest == OldestWalked(rounds, latest.value, start, broken)
  IN IF latest.read # "ok" THEN NoSeries(latest.read)
     ELSE [read |-> "ok", points |-> oldest..latest.value,
           coverage |-> Coverage(rounds, latest.value, oldest, start, broken)]

(***************************************************************************)
(* Daily closes: the round in effect at each day's cut that is not inside   *)
(* the closed session, and the latest round.                                *)
(***************************************************************************)
Cuts(b) ==
  LET last == ((b - Cut) \div Day) * Day + Cut
  IN {last - k * Day : k \in 0..(Days - 1)}

OpenCuts(b, c) == {t \in Cuts(b) : ~Within(c, t)}

InEffect(rounds, points, t) == {n \in points : rounds[n].at <= t}

\* With every cut inside the closed session there is no first one to walk
\* back to: the adapter raises.
DailyCloses(world, f, b, c, said, broken) ==
  LET from == Max({0, Min(OpenCuts(b, c))})
      full == PriceSeries(world, f, b, from, said, broken)
      rounds == world.rounds[f]
      closes == {Max(InEffect(rounds, full.points, t)) :
                   t \in {u \in OpenCuts(b, c) :
                            InEffect(rounds, full.points, u) # {}}}
  IN IF OpenCuts(b, c) = {} THEN NoSeries("raised")
     ELSE IF full.read # "ok" THEN full
     ELSE [full EXCEPT !.points = closes \cup {Max(full.points)}]

\* Where the window opens, at the chain's first instant at the earliest.
WindowStart(b) == Max({0, b - Days * Day})

SeriesOf(world, f, b, feed, cfg, said, broken) ==
  LET c == SessionOf(cfg, feed)
  IN IF cfg.sampling = "daily_close"
     THEN DailyCloses(world, f, b, c, said, broken)
     ELSE PriceSeries(world, f, b, WindowStart(b), said, broken)

\* Freshness of a series: its newest point's, unless some point lies inside
\* the closed session inferred for the feed.
SeriesFreshness(world, f, series, b, feed, cfg) ==
  LET c == SessionOf(cfg, feed)
  IN IF \/ series.points = {}
        \/ \E n \in series.points : Within(c, world.rounds[f][n].at)
     THEN "null"
     ELSE Freshness(world, f, Ok(Max(series.points)), b, feed, cfg)

(***************************************************************************)
(* Tokens: the pause flag, balances, and the beacon slot.                   *)
(***************************************************************************)
Unpaused(world, a, b, said) ==
  IF said # "answered" \/ world.flag[a] = "none" THEN "null"
  ELSE Judged(b < world.pausedFrom[a])

\* The native balance is a call of its own, the rest one multicall.
Balances(world, tokens, native, said) ==
  [a \in tokens |-> Observe(IF a = native THEN said.native ELSE said.erc20,
                            world.balance[a])]

BeaconSlots(world, tokens, said) ==
  [a \in tokens |-> Observe(said[a], world.beacon[a])]

=============================================================================
