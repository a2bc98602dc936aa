--------------------------- MODULE EvidenceProofs ---------------------------
(***************************************************************************)
(* Proofs about Evidence, for any chain, market, wallet, registries and     *)
(* configuration, any reads that fail and any edit an owner makes.          *)
(***************************************************************************)
EXTENDS Evidence, FiniteSetTheorems, NaturalsInduction, WellFoundedInduction,
        TLAPS

-------------------------------------------------------------------------------
(* The build's shape: what is loaded and read when *)

Config ==
  [margin : Nat, maxImpact : Int, sessions : [DOMAIN Config0.sessions -> Spans],
   sampling : {"daily_close", "every_round"}]

Steps ==
  {"begin", "registry", "directory", "load", "pin", "latest", "paused",
   "series", "balances", "beacons", "gecko", "quotes", "seal", "assemble",
   "write", "replay", "done", "stopped"}

Unloaded == {"begin", "registry", "directory", "load"}

(* The four steps of loading the universe.                                  *)
Loads == Begin \/ LoadRegistry \/ LoadDirectory \/ Load

(* What the owner's files hold.                                             *)
FilesTyped ==
  /\ pins \in Pins /\ cfg \in Config
  /\ feedMap = [registry |-> feedMap.registry, directory |-> feedMap.directory,
                entries |-> feedMap.entries]
  /\ Marked \subseteq DOMAIN feedMap.entries
  /\ \A p \in plans : p.version \in DOMAIN Registries /\ p.removed \subseteq Stocks

HistoryTyped == known \subseteq Stocks /\ careless \in BOOLEAN /\ torn \in BOOLEAN

UsingTyped ==
  /\ using = [cfg |-> using.cfg, pins |-> using.pins, map |-> using.map,
              known |-> using.known]
  /\ using.cfg \in Config /\ using.pins \in Pins /\ using.known \subseteq Stocks

UniverseTyped ==
  /\ u = [registry |-> u.registry, carried |-> u.carried, feeds |-> u.feeds]
  /\ u.registry \in DOMAIN Registries /\ u.carried \subseteq Stocks
  /\ Marked \subseteq DOMAIN u.feeds
  /\ DOMAIN u.feeds \subseteq Listed(u.registry) \cup Marked
  /\ \A a \in DOMAIN u.feeds : u.feeds[a].heartbeat \in Nat

ReadsShape ==
  reads = [block |-> reads.block, latest |-> reads.latest,
           unpaused |-> reads.unpaused, series |-> reads.series,
           balances |-> reads.balances, slots |-> reads.slots,
           gecko |-> reads.gecko, order |-> reads.order,
           scripts |-> reads.scripts]

Shape ==
  /\ world \in World /\ FilesTyped
  /\ pc \in Steps
  /\ pc # "begin" => UsingTyped
  /\ pc \in Unloaded => u = Nothing /\ reads = NoReads
  /\ pc \notin Unloaded => (pc = "stopped" /\ u = Nothing) \/ UniverseTyped
  /\ ReadsShape
  /\ HistoryTyped

(* The outside is the same but for the budgets left.                        *)
Lasting ==
  <<world.now, world.sampling, world.rounds, world.flag, world.pausedFrom,
    world.balance, world.beacon, world.gecko, world.venue>>

-------------------------------------------------------------------------------
(* Greatest and least members *)

LEMMA LeastNumber ==
  ASSUME NEW S \in SUBSET Nat, S # {}
  PROVE  \E n \in S : \A m \in S : n <= m
<1>1. \E n \in S : \A m \in S : ~ (<<m, n>> \in OpToRel(<, Nat))
  BY NatLessThanWellFounded, WFMin
<1>2. PICK n \in S : \A m \in S : ~ (<<m, n>> \in OpToRel(<, Nat))
  BY <1>1
<1>3. \A m \in S : ~ (m < n)
  BY <1>2 DEF OpToRel
<1> QED BY <1>3

(* Of integers with a bound.                                                *)
Under(S, b) == \A y \in S : y <= b

Over(S, b) == \A y \in S : b <= y

LEMMA MaxOf ==
  ASSUME NEW S \in SUBSET Int, S # {}, NEW b \in Int, Under(S, b)
  PROVE  Max(S) \in S /\ Under(S, Max(S))
<1>u. \A y \in S : y <= b
  BY DEF Under
<1> DEFINE T == {k \in Nat : b - k \in S}
<1>1. T \in SUBSET Nat /\ T # {}
  <2>1. PICK y \in S : TRUE
    OBVIOUS
  <2>2. b - y \in Nat /\ b - (b - y) = y
    BY <1>u, <2>1
  <2> QED BY <2>1, <2>2
<1>2. PICK k \in T : \A j \in T : k <= j
  BY <1>1, LeastNumber
<1>3. ASSUME NEW y \in S PROVE y <= b - k
  <2>1. b - y \in Nat /\ b - (b - y) = y
    BY <1>u
  <2>2. b - y \in T
    BY <2>1
  <2>3. k <= b - y /\ k \in Nat
    BY <1>2, <2>2
  <2> QED BY <2>1, <2>3
<1>4. \E x \in S : \A y \in S : x >= y
  <2>1. b - k \in S /\ k \in Nat
    BY <1>2
  <2> QED BY <1>3, <2>1
<1>5. Max(S) \in S /\ \A y \in S : Max(S) >= y
  BY <1>4 DEF Max
<1> QED BY <1>5 DEF Under

LEMMA MinOf ==
  ASSUME NEW S \in SUBSET Int, S # {}, NEW b \in Int, Over(S, b)
  PROVE  Min(S) \in S /\ Over(S, Min(S))
<1>u. \A y \in S : b <= y
  BY DEF Over
<1> DEFINE T == {k \in Nat : b + k \in S}
<1>1. T \in SUBSET Nat /\ T # {}
  <2>1. PICK y \in S : TRUE
    OBVIOUS
  <2>2. y - b \in Nat /\ b + (y - b) = y
    BY <1>u, <2>1
  <2> QED BY <2>1, <2>2
<1>2. PICK k \in T : \A j \in T : k <= j
  BY <1>1, LeastNumber
<1>3. ASSUME NEW y \in S PROVE b + k <= y
  <2>1. y - b \in Nat /\ b + (y - b) = y
    BY <1>u
  <2>2. y - b \in T
    BY <2>1
  <2>3. k <= y - b /\ k \in Nat
    BY <1>2, <2>2
  <2> QED BY <2>1, <2>3
<1>4. \E x \in S : \A y \in S : x =< y
  <2>1. b + k \in S /\ k \in Nat
    BY <1>2
  <2> QED BY <1>3, <2>1
<1>5. Min(S) \in S /\ \A y \in S : Min(S) =< y
  BY <1>4 DEF Min
<1> QED BY <1>5 DEF Over

-------------------------------------------------------------------------------
(* Sessions *)

LEMMA Remainders ==
  \A a \in Int, n \in Nat \ {0} :
    a % n \in 0..(n - 1) /\ a \div n \in Int /\ a = n * (a \div n) + (a % n)
<1>1. \A a \in Int, n \in Nat \ {0} : a \div n \in Int /\ a % n \in Int
  OBVIOUS
<1>2. \A a \in Int, n \in Nat \ {0} : 0 <= a % n /\ a % n < n
  OBVIOUS
<1>3. \A a \in Int, n \in Nat \ {0} : a = n * (a \div n) + (a % n)
  OBVIOUS
<1> QED BY <1>1, <1>2, <1>3

LEMMA Position ==
  ASSUME NEW t \in Int
  PROVE  WeekPosition(t) \in 0..(Week - 1)
<1>1. Week \in Nat \ {0} /\ t - MondayOffset \in Int
  BY SessionsAssumption
<1> QED BY <1>1, Remainders DEF WeekPosition

LEMMA Multiple ==
  ASSUME NEW x \in Int, NEW n \in Nat \ {0}
  PROVE  /\ (x \div n) * n \in Int /\ (x \div n) * n <= x
         /\ x - n + 1 <= (x \div n) * n
<1>1. x % n \in 0..(n - 1) /\ x \div n \in Int /\ x = n * (x \div n) + (x % n)
  BY Remainders
<1>2. \A k \in Int : n * k = k * n /\ k * n \in Int
  OBVIOUS
<1> QED BY <1>1, <1>2

(* The position after p in a set of week positions, around the week.        *)
NextAfter(P, p) ==
  IF \E q \in P : q > p THEN Min({q \in P : q > p}) ELSE Min(P) + Week

LEMMA NextAfterIs ==
  ASSUME NEW P \in SUBSET (0..(Week - 1)), NEW p \in P
  PROVE  /\ NextAfter(P, p) \in Int /\ p < NextAfter(P, p)
         /\ NextAfter(P, p) <= p + Week
         /\ \A q \in P : /\ ~ (p < q /\ q < NextAfter(P, p))
                         /\ ~ (p < q + Week /\ q + Week < NextAfter(P, p))
<1>1. Week \in Nat \ {0} /\ P \in SUBSET Int /\ P # {} /\ \A q \in P : 0 <= q /\ q < Week
  BY SessionsAssumption
<1>2. CASE \E q \in P : q > p
  <2> DEFINE S == {q \in P : q > p}
  <2>a. \A q \in S : q \in Int /\ 0 <= q
    BY <1>1
  <2>b. S # {}
    BY <1>2
  <2>1. S \in SUBSET Int /\ S # {} /\ Over(S, 0) /\ 0 \in Int
    <3> HIDE DEF S
    <3> QED BY <2>a, <2>b DEF Over
  <2>2. Min(S) \in S /\ \A q \in S : Min(S) <= q
    BY <2>1, MinOf DEF Over
  <2>3. NextAfter(P, p) = Min(S)
    BY <1>2 DEF NextAfter
  <2> DEFINE m == Min(S)
  <2>4. m \in P /\ m > p /\ \A q \in P : q > p => m <= q
    BY <2>2
  <2> HIDE DEF m
  <2>5. m \in Int /\ 0 <= m /\ m < Week /\ p \in Int /\ 0 <= p
    BY <1>1, <2>4
  <2>6. ASSUME NEW q \in P PROVE ~ (p < q /\ q < m) /\ ~ (p < q + Week /\ q + Week < m)
    <3>1. q \in Int /\ 0 <= q /\ Week \in Int
      BY <1>1
    <3> QED BY <2>4, <2>5, <3>1
  <2>7. p < m /\ m <= p + Week
    BY <1>1, <2>4, <2>5
  <2> QED BY <2>3, <2>5, <2>6, <2>7 DEF m
<1>3. CASE ~ \E q \in P : q > p
  <2>1. Over(P, 0) /\ 0 \in Int
    BY <1>1 DEF Over
  <2>2. Min(P) \in P /\ \A q \in P : Min(P) <= q
    BY <1>1, <2>1, MinOf DEF Over
  <2>3. NextAfter(P, p) = Min(P) + Week
    BY <1>3 DEF NextAfter
  <2> DEFINE m == Min(P)
  <2>4. m \in P /\ \A q \in P : m <= q
    BY <2>2
  <2> HIDE DEF m
  <2>5. m \in Int /\ 0 <= m /\ m <= p /\ p \in Int /\ p < Week /\ Week \in Int
    BY <1>1, <2>4
  <2>6. ASSUME NEW q \in P
        PROVE  ~ (p < q /\ q < m + Week) /\ ~ (p < q + Week /\ q + Week < m + Week)
    <3>1. q \in Int /\ m <= q /\ ~ (q > p)
      BY <1>1, <1>3, <2>4
    <3> QED BY <2>5, <3>1
  <2>7. m + Week \in Int /\ p < m + Week /\ m + Week <= p + Week
    BY <2>5
  <2> QED BY <2>3, <2>6, <2>7 DEF m
<1> QED BY <1>2, <1>3

(* The longest of the gaps after the positions, the later of two as long.   *)
Longest(P, p) ==
  \A q \in P : \/ NextAfter(P, p) - p > NextAfter(P, q) - q
               \/ NextAfter(P, p) - p = NextAfter(P, q) - q /\ p >= q

LEMMA LongestExists ==
  ASSUME NEW P \in SUBSET (0..(Week - 1)), P # {}
  PROVE  \E p \in P : Longest(P, p)
<1> DEFINE gap(p) == NextAfter(P, p) - p
           G == {gap(p) : p \in P}
<1>1. Week \in Nat \ {0} /\ \A p \in P : gap(p) \in Int /\ gap(p) <= Week
  BY NextAfterIs, SessionsAssumption
<1>a. \A g \in G : g \in Int /\ g <= Week
  BY <1>1
<1>b. G # {}
  OBVIOUS
<1>2. G \in SUBSET Int /\ G # {} /\ Under(G, Week) /\ Week \in Int
  <2> HIDE DEF G
  <2> QED BY <1>1, <1>a, <1>b DEF Under
<1> DEFINE m == Max(G)
<1>3. m \in G /\ \A g \in G : g <= m
  <2> HIDE DEF G
  <2> QED BY <1>2, MaxOf DEF Under
<1> HIDE DEF m
<1> DEFINE L == {p \in P : gap(p) = m}
           top == Max(L)
<1>4. L \in SUBSET Int /\ L # {} /\ Under(L, Week)
  <2>1. \E p \in P : gap(p) = m
    BY <1>3
  <2>2. \A p \in P : p \in Int /\ p <= Week
    BY <1>1
  <2> QED BY <2>1, <2>2 DEF Under
<1>5. top \in L /\ \A p \in L : p <= top
  <2> HIDE DEF L
  <2> QED BY <1>2, <1>4, MaxOf DEF Under
<1> HIDE DEF top
<1>6. ASSUME NEW q \in P PROVE gap(q) < m \/ (gap(q) = m /\ q \in L)
  <2>1. gap(q) \in G /\ gap(q) \in Int
    BY <1>1
  <2>2. gap(q) <= m /\ m \in Int
    BY <1>2, <1>3, <2>1
  <2>3. gap(q) = m => q \in L
    OBVIOUS
  <2> HIDE DEF L
  <2> QED BY <2>1, <2>2, <2>3
<1>7. top \in P /\ gap(top) = m
  BY <1>5
<1>8. ASSUME NEW q \in P
      PROVE  gap(top) > gap(q) \/ (gap(top) = gap(q) /\ top >= q)
  <2>1. gap(q) \in Int /\ m \in Int
    BY <1>1, <1>2, <1>3
  <2> HIDE DEF gap, L
  <2> QED BY <1>5, <1>6, <1>7, <2>1
<1>9. Longest(P, top)
  BY <1>8 DEF Longest
<1> QED BY <1>7, <1>9

(* No time falls in the quiet span, in whatever week.                       *)
Avoids(quiet, t) ==
  /\ ~ (quiet.after < WeekPosition(t) /\ WeekPosition(t) < quiet.before)
  /\ ~ (quiet.after < WeekPosition(t) + Week /\ WeekPosition(t) + Week < quiet.before)

LEMMA QuietSpanIs ==
  ASSUME NEW times \in SUBSET Int, times # {}
  PROVE  /\ QuietSpan(times).after \in 0..(Week - 1)
         /\ QuietSpan(times).before \in Int
         /\ QuietSpan(times).before <= QuietSpan(times).after + Week
         /\ \A t \in times : Avoids(QuietSpan(times), t)
<1> DEFINE P == {WeekPosition(t) : t \in times}
           p == CHOOSE x \in P : Longest(P, x)
<1>1. P \in SUBSET (0..(Week - 1)) /\ P # {}
  BY Position
<1>2. p \in P
  BY <1>1, LongestExists
<1>3. QuietSpan(times) = [after |-> p, before |-> NextAfter(P, p)]
  BY DEF QuietSpan, Longest, NextAfter
<1> HIDE DEF p
<1>4. /\ NextAfter(P, p) \in Int /\ NextAfter(P, p) <= p + Week
      /\ \A q \in P : /\ ~ (p < q /\ q < NextAfter(P, p))
                      /\ ~ (p < q + Week /\ q + Week < NextAfter(P, p))
  BY <1>1, <1>2, NextAfterIs
<1>5. \A t \in times : WeekPosition(t) \in P
  OBVIOUS
<1> HIDE DEF P
<1>6. ASSUME NEW t \in times PROVE Avoids(QuietSpan(times), t)
  BY <1>3, <1>4, <1>5 DEF Avoids
<1> QED BY <1>1, <1>2, <1>3, <1>4, <1>6

(* Shrunk, a span lies inside the quiet one, and holds no time.             *)
LEMMA ShrunkInside ==
  ASSUME NEW times \in SUBSET Int, times # {},
         Shrunk(QuietSpan(times)).start < Shrunk(QuietSpan(times)).end
  PROVE  /\ Shrunk(QuietSpan(times)) \in Spans
         /\ \A t \in times : ~ Within(Shrunk(QuietSpan(times)), t)
<1> DEFINE quiet == QuietSpan(times)
           up == quiet.after + Guard + Grid - 1
           down == quiet.before - Guard
           start == (up \div Grid) * Grid
           end == (down \div Grid) * Grid
           shift == IF start >= Week THEN Week ELSE 0
           c == Shrunk(quiet)
<1>1. /\ Week \in Nat \ {0} /\ Guard \in Nat \ {0} /\ Grid \in Nat \ {0}
  BY SessionsAssumption
<1>2. /\ quiet.after \in 0..(Week - 1) /\ quiet.before \in Int
      /\ quiet.before <= quiet.after + Week
      /\ \A t \in times : Avoids(quiet, t)
  BY QuietSpanIs
<1>3. c = [start |-> start - shift, end |-> end - shift] /\ c.start < c.end
  BY DEF Shrunk
<1> HIDE DEF quiet, c
<1>4. up \in Int /\ down \in Int
  BY <1>1, <1>2
<1>5. /\ start \in Int /\ up - Grid + 1 <= start
      /\ end \in Int /\ end <= down
  <2> HIDE DEF up, down
  <2> QED BY <1>1, <1>4, Multiple
<1>6. quiet.after + Guard <= start /\ end <= quiet.before - Guard
  <2> HIDE DEF start, end
  <2> QED BY <1>1, <1>2, <1>5
<1> HIDE DEF up, down, start, end
<1>7. start < end
  BY <1>1, <1>3, <1>5
<1>8. /\ quiet.after < start /\ end < quiet.before /\ end <= 2 * Week - 1
      /\ 0 <= start /\ start < 2 * Week /\ end < start + Week
  BY <1>1, <1>2, <1>5, <1>6, <1>7
<1>9. c \in Spans
  BY <1>1, <1>3, <1>5, <1>7, <1>8 DEF Spans, Closure
<1>10. ASSUME NEW t \in times, Within(c, t) PROVE FALSE
  <2> DEFINE p == WeekPosition(t)
  <2>1. p \in Int /\ 0 <= p /\ p < Week
    BY <1>1, Position
  <2>2. /\ ~ (quiet.after < p /\ p < quiet.before)
        /\ ~ (quiet.after < p + Week /\ p + Week < quiet.before)
    BY <1>2 DEF Avoids
  <2>3. \/ (c.start <= p /\ p < c.end)
        \/ (c.start <= p + Week /\ p + Week < c.end)
    BY <1>10 DEF Within
  <2> HIDE DEF p
  <2> QED BY <1>1, <1>2, <1>3, <1>5, <1>8, <2>1, <2>2, <2>3
<1> QED BY <1>9, <1>10 DEF c, quiet

(* What is proposed is a span of one week that no time falls in.            *)
LEMMA ClosureProposed ==
  ASSUME NEW times \in SUBSET Int
  PROVE  /\ InferClosure(times) \in Spans
         /\ InferClosure(times) # NoClosure =>
              \A t \in times : ~ Within(InferClosure(times), t)
<1> DEFINE c == Shrunk(QuietSpan(times))
<1>1. NoClosure \in Spans
  BY DEF Spans
<1>2. CASE InferClosure(times) = NoClosure
  BY <1>1, <1>2
<1>3. CASE InferClosure(times) # NoClosure
  <2>1. ~ (Cardinality(times) < 2) /\ ~ (c.end <= c.start) /\ InferClosure(times) = c
    BY <1>3 DEF InferClosure
  <2>2. times # {}
    BY <2>1, FS_EmptySet
  <2>3. c.start \in Int /\ c.end \in Int
    <3> DEFINE q == QuietSpan(times)
    <3>1. q.after \in Int /\ q.before \in Int
      BY <2>2, QuietSpanIs, SessionsAssumption
    <3> HIDE DEF q
    <3>2. c = Shrunk(q)
      BY DEF q
    <3> DEFINE start == ((q.after + Guard + Grid - 1) \div Grid) * Grid
               end == ((q.before - Guard) \div Grid) * Grid
    <3>3. start \in Int /\ end \in Int
      <4> DEFINE up == q.after + Guard + Grid - 1
                 down == q.before - Guard
      <4>1. up \in Int /\ down \in Int /\ Grid \in Nat \ {0}
        BY <3>1, SessionsAssumption
      <4> HIDE DEF up, down
      <4>2. (up \div Grid) * Grid \in Int /\ (down \div Grid) * Grid \in Int
        BY <4>1, Multiple
      <4> QED BY <4>2 DEF up, down
    <3>4. \/ (c.start = start /\ c.end = end)
          \/ (c.start = start - Week /\ c.end = end - Week)
      BY <3>2, <3>3, SessionsAssumption DEF Shrunk
    <3> HIDE DEF start, end
    <3> QED BY <3>3, <3>4, SessionsAssumption
  <2>4. c.start < c.end
    BY <2>1, <2>3
  <2> QED BY <2>1, <2>2, <2>4, ShrunkInside
<1> QED BY <1>2, <1>3

-------------------------------------------------------------------------------
(* What one step changes *)

LEMMA SpendKeeps ==
  ASSUME world \in World, Spend
  PROVE  world' \in World /\ UNCHANGED Lasting
<1>1. world.edits - 1 \in Nat
  BY DEF World, Spend
<1> QED BY <1>1 DEF World, Spend, Lasting

LEMMA WentKeeps ==
  ASSUME world \in World, NEW fine, Went(fine)
  PROVE  world' \in World /\ UNCHANGED Lasting
<1>1. CASE world' = world
  BY <1>1 DEF Lasting
<1>2. CASE world' # world
  <2>1. world.faults > 0 /\ world' = [world EXCEPT !.faults = @ - 1]
    BY <1>2 DEF Went
  <2>2. world.faults - 1 \in Nat
    BY <2>1 DEF World
  <2> QED BY <2>1, <2>2 DEF World, Lasting
<1> QED BY <1>1, <1>2

(* The build and the owner each leave the other's part alone.               *)
LEMMA OwnerKeeps ==
  ASSUME world \in World, Owner
  PROVE  UNCHANGED build /\ world' \in World /\ UNCHANGED Lasting
<1> USE DEF build
<1>1. ASSUME NEW v, Plan(v) PROVE Spend /\ UNCHANGED build
  BY <1>1 DEF Plan
<1>2. ASSUME NEW p, NEW h, NEW k, Accept(p, h, k) PROVE Spend /\ UNCHANGED build
  BY <1>2 DEF Accept
<1>3. ASSUME NEW v, AcceptDirectory(v) PROVE Spend /\ UNCHANGED build
  BY <1>3 DEF AcceptDirectory
<1>4. ASSUME NEW v, Review(v) PROVE Spend /\ UNCHANGED build
  BY <1>4 DEF Review
<1>5. ASSUME Rederive \/ EditMargin PROVE Spend /\ UNCHANGED build
  BY <1>5 DEF Rederive, EditMargin
<1>6. Spend /\ UNCHANGED build
  BY <1>1, <1>2, <1>3, <1>4, <1>5 DEF Owner
<1> QED BY <1>6, SpendKeeps

LEMMA CommandKeeps ==
  ASSUME world \in World, Command
  PROVE  /\ UNCHANGED <<config, plans, history>>
         /\ world' \in World /\ UNCHANGED Lasting
<1> USE DEF Build, config, history
<1>1. ASSUME Begin \/ LoadRegistry \/ LoadDirectory \/ Load \/ Seal \/ Assemble
             \/ WriteCapture \/ Replay
      PROVE  UNCHANGED <<config, plans, history, world>>
  BY <1>1 DEF Begin, LoadRegistry, LoadDirectory, Load, Seal, Assemble, WriteCapture, Replay
<1>2. ASSUME PinBlock \/ ReadLatest \/ ReadPaused \/ ReadSeries \/ ReadBalances
             \/ ReadBeacons \/ ReadGecko \/ ReadQuote
      PROVE  UNCHANGED <<config, plans, history>> /\ \E fine : Went(fine)
  BY <1>2 DEF PinBlock, ReadLatest, ReadPaused, ReadSeries, ReadBalances,
              ReadBeacons, ReadGecko, ReadQuote
<1>3. CASE UNCHANGED world
  BY <1>3, <1>1, <1>2 DEF Command, Lasting
<1>4. CASE ~ UNCHANGED world
  BY <1>4, <1>1, <1>2, WentKeeps DEF Command
<1> QED BY <1>3, <1>4

-------------------------------------------------------------------------------
(* The owner's files, and the history *)

LEMMA WorldTyped ==
  ASSUME world \in World
  PROVE  /\ world.now \in Nat /\ world.edits \in Nat
         /\ world.sampling \in {"daily_close", "every_round"}
         /\ world.registry \in DOMAIN Registries
         /\ world.directory \in DOMAIN Directories /\ world.carried \subseteq Stocks
         /\ world.rounds \in [Assets -> Seq(Round)]
         /\ world.balance \in [Assets -> Nat]
BY DEF World

LEMMA ListedStocks ==
  ASSUME NEW v \in DOMAIN Registries PROVE Listed(v) \subseteq Stocks
BY DEF Stocks

LEMMA ReviewedMarks ==
  ASSUME NEW r, NEW d
  PROVE  /\ Reviewed(r, d) = [registry |-> Reviewed(r, d).registry,
                              directory |-> Reviewed(r, d).directory,
                              entries |-> Reviewed(r, d).entries]
         /\ Marked \subseteq DOMAIN Reviewed(r, d).entries
BY DEF Reviewed

LEMMA EvidencedTimes ==
  ASSUME world \in World
  PROVE  Evidenced \in SUBSET Nat /\ \A t \in Evidenced : t <= world.now
<1>1. ASSUME NEW t \in Evidenced PROVE t \in Nat /\ t <= world.now
  <2>1. t <= world.now /\ \E a \in Stocks : t \in {r.at : r \in Range(world.rounds[a])}
    BY DEF Evidenced
  <2>2. PICK a \in Stocks : t \in {r.at : r \in Range(world.rounds[a])}
    BY <2>1
  <2>3. PICK r \in Range(world.rounds[a]) : t = r.at
    BY <2>2
  <2>4. world.rounds[a] \in Seq(Round)
    BY WorldTyped DEF Assets
  <2>5. r \in Round
    BY <2>3, <2>4 DEF Range
  <2> QED BY <2>1, <2>3, <2>5 DEF Round
<1> QED BY <1>1

LEMMA InitFiles ==
  ASSUME Init PROVE world \in World /\ FilesTyped /\ HistoryTyped
<1>1. world \in World
  BY EvidenceAssumption DEF Init
<1>2. pins \in Pins
  BY <1>1, WorldTyped DEF Init, Pins
<1>3. cfg \in Config
  BY <1>1, WorldTyped, EvidenceAssumption DEF Init, Config
<1>4. /\ feedMap = [registry |-> feedMap.registry, directory |-> feedMap.directory,
                   entries |-> feedMap.entries]
      /\ Marked \subseteq DOMAIN feedMap.entries
  BY ReviewedMarks DEF Init
<1>5. plans = {} /\ HistoryTyped
  BY <1>1, WorldTyped, ListedStocks DEF Init, HistoryTyped
<1> QED BY <1>1, <1>2, <1>3, <1>4, <1>5 DEF FilesTyped

LEMMA OwnerFiles ==
  ASSUME world \in World, FilesTyped, HistoryTyped, Owner
  PROVE  FilesTyped' /\ HistoryTyped'
<1>f. /\ pins \in Pins /\ cfg \in Config
      /\ \A p \in plans : p.version \in DOMAIN Registries /\ p.removed \subseteq Stocks
  BY DEF FilesTyped
<1>p. /\ pins.registry \in DOMAIN Registries /\ pins.carried \subseteq Stocks
      /\ pins.directory \in DOMAIN Directories
  BY <1>f DEF Pins
<1>1. ASSUME NEW v \in DOMAIN Registries, Plan(v) PROVE FilesTyped' /\ HistoryTyped'
  <2>1. plans' = plans \cup {PlanRefresh(pins, v)} /\ UNCHANGED <<config, history>>
    BY <1>1 DEF Plan
  <2>2. PlanRefresh(pins, v).version = v /\ PlanRefresh(pins, v).removed \subseteq Stocks
    BY <1>p, ListedStocks DEF PlanRefresh
  <2> QED BY <1>f, <2>1, <2>2 DEF FilesTyped, HistoryTyped, config, history
<1>2. ASSUME NEW p \in plans, NEW h \in {{}, HeldByWallet}, NEW k, Accept(p, h, k)
      PROVE FilesTyped' /\ HistoryTyped'
  <2>1. /\ pins' = Accepted(pins, p, h) /\ plans' = plans \ {p}
        /\ known' = known \cup Listed(p.version) /\ UNCHANGED <<feedMap, cfg>>
        /\ careless' \in BOOLEAN /\ torn' \in BOOLEAN
    BY <1>2 DEF Accept, HistoryTyped
  <2>2. Listed(p.version) \subseteq Stocks /\ p.version \in DOMAIN Registries
        /\ p.removed \subseteq Stocks
    BY <1>f, ListedStocks
  <2>3. pins' \in Pins
    BY <1>f, <1>p, <2>1, <2>2 DEF Accepted, Dropped, Pins
  <2> QED BY <1>f, <2>1, <2>2, <2>3 DEF FilesTyped, HistoryTyped
<1>3. ASSUME NEW v \in DOMAIN Directories, AcceptDirectory(v)
      PROVE FilesTyped' /\ HistoryTyped'
  <2>1. /\ pins' = [pins EXCEPT !.directory = v]
        /\ UNCHANGED <<feedMap, cfg, plans, history>>
    BY <1>3 DEF AcceptDirectory, AcceptedDirectory
  <2>2. pins' \in Pins
    BY <1>f, <1>3, <2>1 DEF Pins
  <2> QED BY <1>f, <2>1, <2>2 DEF FilesTyped, HistoryTyped, history
<1>4. ASSUME NEW v, Review(v) PROVE FilesTyped' /\ HistoryTyped'
  <2>1. feedMap' = Reviewed(v, pins.directory) /\ UNCHANGED <<pins, cfg, plans, history>>
    BY <1>4 DEF Review
  <2>2. /\ feedMap' = [registry |-> feedMap'.registry, directory |-> feedMap'.directory,
                       entries |-> feedMap'.entries]
        /\ Marked \subseteq DOMAIN feedMap'.entries
    BY <2>1, ReviewedMarks
  <2> QED BY <1>f, <2>1, <2>2 DEF FilesTyped, HistoryTyped, history
<1>5. ASSUME Rederive PROVE FilesTyped' /\ HistoryTyped'
  <2>1. /\ cfg' = [cfg EXCEPT !.sessions = [h \in DOMAIN @ |-> InferClosure(Evidenced)]]
        /\ UNCHANGED <<pins, feedMap, plans, history>>
    BY <1>5 DEF Rederive
  <2>2. InferClosure(Evidenced) \in Spans
    BY EvidencedTimes, ClosureProposed
  <2>3. cfg' \in Config
    BY <1>f, <2>1, <2>2 DEF Config
  <2> QED BY <1>f, <2>1, <2>3 DEF FilesTyped, HistoryTyped, history
<1>6. ASSUME EditMargin PROVE FilesTyped' /\ HistoryTyped'
  <2>1. /\ cfg' = [cfg EXCEPT !.margin = @ + 1]
        /\ UNCHANGED <<pins, feedMap, plans, history>>
    BY <1>6 DEF EditMargin
  <2>2. cfg' \in Config
    BY <1>f, <2>1 DEF Config
  <2> QED BY <1>f, <2>1, <2>2 DEF FilesTyped, HistoryTyped, history
<1> QED BY <1>1, <1>2, <1>3, <1>4, <1>5, <1>6 DEF Owner

-------------------------------------------------------------------------------
(* The build *)

(* Where each field of `reads` is set.                                      *)
LEMMA ReadsFrame ==
  ASSUME ReadsShape, Command
  PROVE  /\ ReadsShape'
         /\ PinBlock \/ (reads'.block = reads.block /\ reads'.order = reads.order)
         /\ ReadLatest \/ reads'.latest = reads.latest
         /\ ReadPaused \/ reads'.unpaused = reads.unpaused
         /\ ReadSeries \/ reads'.series = reads.series
         /\ ReadBalances \/ reads'.balances = reads.balances
         /\ ReadBeacons \/ reads'.slots = reads.slots
         /\ ReadGecko \/ reads'.gecko = reads.gecko
         /\ ReadQuote \/ reads'.scripts = reads.scripts
<1> USE DEF ReadsShape
<1>1. CASE Loads \/ Seal \/ Assemble \/ WriteCapture \/ Replay
  <2>1. UNCHANGED reads
    BY <1>1 DEF Loads, Begin, LoadRegistry, LoadDirectory, Load, Seal, Assemble, WriteCapture, Replay
  <2> QED BY <2>1
<1>2. CASE PinBlock
  <2>1. \E b, o : reads' = [reads EXCEPT !.block = b, !.order = o]
    BY <1>2 DEF PinBlock
  <2>2. PICK b, o : reads' = [reads EXCEPT !.block = b, !.order = o]
    BY <2>1
  <2> QED BY <1>2, <2>2
<1>3. CASE ReadLatest
  <2>1. \E x : reads' = [reads EXCEPT !.latest = x]
    BY <1>3 DEF ReadLatest
  <2> QED BY <1>3, <2>1
<1>4. CASE ReadPaused
  <2>1. \E x : reads' = [reads EXCEPT !.unpaused = x]
    BY <1>4 DEF ReadPaused
  <2> QED BY <1>4, <2>1
<1>5. CASE ReadSeries
  <2>1. \E x : reads' = [reads EXCEPT !.series = x]
    BY <1>5 DEF ReadSeries
  <2> QED BY <1>5, <2>1
<1>6. CASE ReadBalances
  <2>1. \E x : reads' = [reads EXCEPT !.balances = x]
    BY <1>6 DEF ReadBalances
  <2> QED BY <1>6, <2>1
<1>7. CASE ReadBeacons
  <2>1. \E x : reads' = [reads EXCEPT !.slots = x]
    BY <1>7 DEF ReadBeacons
  <2> QED BY <1>7, <2>1
<1>8. CASE ReadGecko
  <2>1. \E x : reads' = [reads EXCEPT !.gecko = x]
    BY <1>8 DEF ReadGecko
  <2> QED BY <1>8, <2>1
<1>9. CASE ReadQuote
  <2>1. \E x : reads' = [reads EXCEPT !.scripts = x]
    BY <1>9 DEF ReadQuote
  <2> QED BY <1>9, <2>1
<1> QED BY <1>1, <1>2, <1>3, <1>4, <1>5, <1>6, <1>7, <1>8, <1>9 DEF Command, Loads

(* Where everything else of the build is.                                   *)
LEMMA BuildFrame ==
  ASSUME Command
  PROVE  /\ Loads \/ UNCHANGED using
         /\ Load \/ UNCHANGED u
         /\ Assemble \/ UNCHANGED doc
         /\ Seal \/ WriteCapture \/ UNCHANGED capture
         /\ Replay \/ UNCHANGED rebuilt
BY DEF Command, Loads, Begin, LoadRegistry, LoadDirectory, Load, Seal, Assemble,
       WriteCapture, Replay, PinBlock, ReadLatest, ReadPaused, ReadSeries, ReadBalances, ReadBeacons, ReadGecko,
       ReadQuote

(* Where each action leaves from and goes to.                               *)
LEMMA Steering ==
  ASSUME Command
  PROVE  /\ Begin => pc = "begin" /\ pc' = "registry"
         /\ LoadRegistry => pc = "registry" /\ pc' = "directory"
         /\ LoadDirectory => pc = "directory" /\ pc' = "load"
         /\ Load => pc = "load" /\ pc' \in {"pin", "stopped"}
         /\ PinBlock => pc = "pin" /\ pc' \in {"latest", "stopped"}
         /\ ReadLatest => pc = "latest" /\ pc' = "paused"
         /\ ReadPaused => pc = "paused" /\ pc' = "series"
         /\ ReadSeries => pc = "series" /\ pc' \in {"series", "balances", "stopped"}
         /\ ReadBalances => pc = "balances" /\ pc' = "beacons"
         /\ ReadBeacons => pc = "beacons" /\ pc' \in {"gecko", "stopped"}
         /\ ReadGecko => pc = "gecko" /\ pc' = "quotes"
         /\ ReadQuote => pc = "quotes" /\ pc' \in {"quotes", "seal"}
         /\ Seal => pc = "seal" /\ pc' = "assemble"
         /\ Assemble => pc = "assemble" /\ pc' \in {"write", "stopped"}
         /\ WriteCapture => pc = "write" /\ pc' \in {"replay", "stopped"}
         /\ Replay => pc = "replay" /\ pc' = "done"
<1> USE DEF Build
<1>1. /\ Begin => pc = "begin" /\ pc' = "registry"
      /\ LoadRegistry => pc = "registry" /\ pc' = "directory"
      /\ LoadDirectory => pc = "directory" /\ pc' = "load"
      /\ Load => pc = "load" /\ pc' \in {"pin", "stopped"}
      /\ PinBlock => pc = "pin" /\ pc' \in {"latest", "stopped"}
      /\ ReadLatest => pc = "latest" /\ pc' = "paused"
      /\ ReadPaused => pc = "paused" /\ pc' = "series"
  BY DEF Begin, LoadRegistry, LoadDirectory, Load, PinBlock, ReadLatest, ReadPaused
<1>2. ReadSeries => pc = "series" /\ pc' \in {"series", "balances", "stopped"}
  BY DEF ReadSeries
<1>3. /\ ReadBalances => pc = "balances" /\ pc' = "beacons"
      /\ ReadBeacons => pc = "beacons" /\ pc' \in {"gecko", "stopped"}
      /\ ReadGecko => pc = "gecko" /\ pc' = "quotes"
      /\ ReadQuote => pc = "quotes" /\ pc' \in {"quotes", "seal"}
  BY DEF ReadBalances, ReadBeacons, ReadGecko, ReadQuote
<1>4. /\ Seal => pc = "seal" /\ pc' = "assemble"
      /\ Assemble => pc = "assemble" /\ pc' \in {"write", "stopped"}
      /\ WriteCapture => pc = "write" /\ pc' \in {"replay", "stopped"}
      /\ Replay => pc = "replay" /\ pc' = "done"
  BY DEF Seal, Assemble, WriteCapture, Replay
<1> QED BY <1>1, <1>2, <1>3, <1>4

LEMMA LoadedTyped ==
  ASSUME FilesTyped, NEW held \in Pins, FeedMapOk(feedMap, held),
         u' = Loaded(held, feedMap)
  PROVE  UniverseTyped'
<1> DEFINE v == Loaded(held, feedMap)
<1>1. /\ held.registry \in DOMAIN Registries /\ held.directory \in DOMAIN Directories
      /\ held.carried \subseteq Stocks /\ Marked \subseteq DOMAIN feedMap.entries
  BY DEF FilesTyped, Pins
<1>2. /\ DOMAIN feedMap.entries \subseteq Listed(held.registry) \cup Marked
      /\ Range(feedMap.entries) \subseteq DOMAIN Directories[held.directory]
  BY DEF FeedMapOk
<1>3. /\ v = [registry |-> v.registry, carried |-> v.carried, feeds |-> v.feeds]
      /\ v.registry = held.registry /\ v.carried = held.carried
      /\ v.feeds = [a \in DOMAIN feedMap.entries |->
                      Directories[held.directory][feedMap.entries[a]]]
  BY DEF Loaded
<1> HIDE DEF v
<1>4. ASSUME NEW a \in DOMAIN v.feeds PROVE v.feeds[a].heartbeat \in Nat
  <2>1. a \in DOMAIN feedMap.entries
    BY <1>3
  <2>2. feedMap.entries[a] \in DOMAIN Directories[held.directory]
    BY <1>2, <2>1 DEF Range
  <2>3. v.feeds[a] = Directories[held.directory][feedMap.entries[a]]
    BY <1>3, <2>1
  <2> QED BY <1>1, <2>2, <2>3, EvidenceAssumption
<1>5. u' = v
  BY DEF v
<1> QED BY <1>1, <1>2, <1>3, <1>4, <1>5 DEF UniverseTyped

(* What the loading has of the pins, so far, are pins.                      *)
LEMMA UsingLoads ==
  ASSUME FilesTyped, HistoryTyped, pc # "begin" => UsingTyped, Loads
  PROVE  UsingTyped'
<1>1. pins \in Pins /\ cfg \in Config /\ known \subseteq Stocks
  BY DEF FilesTyped, HistoryTyped
<1>2. CASE Begin
  <2>1. using' = [cfg |-> cfg, pins |-> pins, map |-> feedMap, known |-> known]
    BY <1>2 DEF Begin
  <2> QED BY <1>1, <2>1 DEF UsingTyped
<1>3. CASE LoadRegistry
  <2>1. UsingTyped /\ using' = [using EXCEPT !.pins.registry = pins.registry]
    BY <1>3 DEF LoadRegistry, Build
  <2>2. [using.pins EXCEPT !.registry = pins.registry] \in Pins
    BY <1>1, <2>1 DEF UsingTyped, Pins
  <2> QED BY <2>1, <2>2 DEF UsingTyped
<1>4. CASE LoadDirectory
  <2>1. UsingTyped /\ using' = [using EXCEPT !.pins.directory = pins.directory]
    BY <1>4 DEF LoadDirectory, Build
  <2>2. [using.pins EXCEPT !.directory = pins.directory] \in Pins
    BY <1>1, <2>1 DEF UsingTyped, Pins
  <2> QED BY <2>1, <2>2 DEF UsingTyped
<1>5. CASE Load
  <2>1. UsingTyped /\ using' = [using EXCEPT !.map = feedMap]
    BY <1>5 DEF Load, Build
  <2> QED BY <2>1 DEF UsingTyped
<1> QED BY <1>2, <1>3, <1>4, <1>5 DEF Loads

LEMMA InitShape == Init => Shape
<1>1. Init => ReadsShape
  BY DEF Init, NoReads, ReadsShape
<1> QED BY <1>1, InitFiles DEF Init, Shape, Steps, Unloaded

LEMMA OwnerShape ==
  ASSUME Shape, Owner PROVE Shape'
<1>1. /\ UNCHANGED <<pc, u, using, reads>> /\ world' \in World
  BY OwnerKeeps DEF Shape, build
<1>2. FilesTyped' /\ HistoryTyped'
  BY OwnerFiles DEF Shape
<1> QED BY <1>1, <1>2 DEF Shape, UsingTyped, UniverseTyped, ReadsShape

LEMMA CommandShape ==
  ASSUME Shape, Command PROVE Shape'
<1>1. /\ UNCHANGED <<pins, feedMap, cfg, plans, known, careless, torn>>
      /\ world' \in World
  BY CommandKeeps DEF Shape, config, history
<1>2. FilesTyped' /\ HistoryTyped'
  BY <1>1 DEF Shape, FilesTyped, HistoryTyped
<1>3. ReadsShape'
  BY ReadsFrame DEF Shape
<1>4. pc' \in Steps
  BY Steering DEF Command, Steps
<1>5. UsingTyped'
  <2>1. CASE Loads
    BY <2>1, UsingLoads DEF Shape
  <2>2. CASE ~ Loads
    <3>1. UNCHANGED using /\ pc # "begin"
      BY <2>2, BuildFrame, Steering DEF Command, Loads
    <3> QED BY <3>1 DEF Shape, UsingTyped
  <2> QED BY <2>1, <2>2
<1>6. CASE Begin \/ LoadRegistry \/ LoadDirectory
  <2>1. /\ pc' \in Unloaded \ {"begin"} /\ UNCHANGED <<u, reads>>
        /\ u = Nothing /\ reads = NoReads
    BY <1>6, Steering DEF Begin, LoadRegistry, LoadDirectory, Shape, Unloaded
  <2> QED BY <1>1, <1>2, <1>3, <1>4, <1>5, <2>1 DEF Shape
<1>7. CASE Load
  <2>1. /\ pc = "load" /\ UNCHANGED reads /\ reads = NoReads
        /\ pc' = IF FeedMapOk(feedMap, using.pins) THEN "pin" ELSE "stopped"
        /\ u' = IF FeedMapOk(feedMap, using.pins)
                THEN Loaded(using.pins, feedMap) ELSE Nothing
    BY <1>7 DEF Load, Build, Shape, Unloaded
  <2>2. CASE FeedMapOk(feedMap, using.pins)
    <3>1. using.pins \in Pins
      BY <2>1 DEF Shape, UsingTyped
    <3>2. UniverseTyped'
      BY <2>1, <2>2, <3>1, LoadedTyped DEF Shape
    <3> QED BY <1>1, <1>2, <1>3, <1>4, <1>5, <2>1, <2>2, <3>2 DEF Shape, Unloaded
  <2>3. CASE ~ FeedMapOk(feedMap, using.pins)
    BY <1>1, <1>2, <1>3, <1>4, <1>5, <2>1, <2>3 DEF Shape, Unloaded
  <2> QED BY <2>2, <2>3
<1>8. CASE ~ Loads
  <2>1. UNCHANGED u /\ pc \notin Unloaded /\ pc' \notin Unloaded /\ pc # "stopped"
    BY <1>8, BuildFrame, Steering DEF Command, Unloaded, Loads
  <2>2. UniverseTyped'
    BY <2>1 DEF Shape, UniverseTyped
  <2> QED BY <1>1, <1>2, <1>3, <1>4, <1>5, <2>1, <2>2 DEF Shape
<1> QED BY <1>6, <1>7, <1>8 DEF Loads

LEMMA StutterShape ==
  ASSUME Shape, UNCHANGED vars PROVE Shape'
BY DEF Shape, vars, config, build, history, FilesTyped, UsingTyped, UniverseTyped,
       ReadsShape, HistoryTyped

LEMMA ShapeAlways == Spec => []Shape
<1>1. Shape /\ [Next]_vars => Shape'
  BY OwnerShape, CommandShape, StutterShape DEF Next
<1> QED BY InitShape, <1>1, PTL DEF Spec

-------------------------------------------------------------------------------
(* How far the build has read *)

PastReplay == {"done"}
PastWrite == {"replay"} \cup PastReplay
PastAssemble == {"write"} \cup PastWrite
PastSeal == {"assemble"} \cup PastAssemble
PastQuotes == {"seal"} \cup PastSeal
PastGecko == {"quotes"} \cup PastQuotes
PastBeacons == {"gecko"} \cup PastGecko
PastBalances == {"beacons"} \cup PastBeacons
PastSeries == {"balances"} \cup PastBalances
PastPaused == {"series"} \cup PastSeries
PastLatest == {"paused"} \cup PastPaused
PastPin == {"latest"} \cup PastLatest

Pinned == reads.block = world.now /\ reads.order = Sorted(Candidates(u))

GotLatest == DOMAIN reads.latest = DOMAIN u.feeds
GotPaused == DOMAIN reads.unpaused = Candidates(u)
GotSeries == DOMAIN reads.series = Candidates(u)
GotBalances == DOMAIN reads.balances = Tokens(u)
GotGecko == DOMAIN reads.gecko = Candidates(u)
GotQuotes == DOMAIN reads.scripts = Candidates(u)

Everything ==
  /\ UniverseTyped /\ Pinned /\ GotLatest /\ GotPaused /\ GotSeries
  /\ GotBalances /\ GotGecko /\ GotQuotes

(* The first n of the order, and how far a walk through it has come.        *)
Firsts(order, n) == {order[i] : i \in 1..n}

SoFar(order, S) == \E n \in 0..Len(order) : S = Firsts(order, n)

Progress ==
  /\ pc \in PastPin => Pinned
  /\ pc \in PastLatest => GotLatest
  /\ pc \in PastPaused => GotPaused
  /\ pc \in {"pin", "latest", "paused"} => reads.series = <<>>
  /\ pc = "series" => SoFar(reads.order, DOMAIN reads.series)
  /\ pc \in PastSeries => GotSeries
  /\ pc \in PastBalances => GotBalances
  /\ pc \in PastGecko => GotGecko
  /\ pc \in ({"pin"} \cup PastPin) \ PastGecko => reads.scripts = <<>>
  /\ pc = "quotes" => SoFar(reads.order, DOMAIN reads.scripts)
  /\ pc \in PastQuotes => GotQuotes
  /\ doc # Nothing => Everything /\ pc \in PastAssemble \cup {"stopped"}
  /\ pc \in PastAssemble => doc # Nothing

LEMMA OrderIs ==
  ASSUME UniverseTyped, Pinned
  PROVE  /\ Candidates(u) \subseteq Stocks
         /\ reads.order \in Seq(Candidates(u)) /\ Len(reads.order) \in Nat
         /\ DOMAIN reads.order = 1..Len(reads.order)
         /\ Firsts(reads.order, Len(reads.order)) = Candidates(u)
         /\ \A i, j \in DOMAIN reads.order : reads.order[i] = reads.order[j] => i = j
<1>1. Candidates(u) \in SUBSET Stocks
  BY ListedStocks DEF Candidates, Records, UniverseTyped, Listed
<1>2. /\ reads.order \in Seq(Candidates(u)) /\ Range(reads.order) = Candidates(u)
      /\ IsInjective(reads.order)
  BY <1>1, EvidenceAssumption DEF Pinned
<1>3. DOMAIN reads.order = 1..Len(reads.order) /\ Len(reads.order) \in Nat
  BY <1>2
<1> QED BY <1>1, <1>2, <1>3 DEF Range, IsInjective, Firsts

(* The first n are n.                                                       *)
LEMMA FirstsCount ==
  ASSUME NEW s, NEW n \in Nat, \A i, j \in 1..n : s[i] = s[j] => i = j
  PROVE  IsFiniteSet(Firsts(s, n)) /\ Cardinality(Firsts(s, n)) = n
<1> DEFINE f == [i \in 1..n |-> s[i]]
<1>1. IsFiniteSet(1..n) /\ Cardinality(1..n) = n
  BY FS_Interval
<1>2. f \in Bijection(1..n, Firsts(s, n))
  BY DEF Bijection, Injection, Surjection, IsInjective, Firsts
<1>3. ExistsBijection(1..n, Firsts(s, n))
  BY <1>2 DEF ExistsBijection
<1> QED BY <1>1, <1>3, FS_Bijection

(* What each read leaves behind.                                            *)
LEMMA ReadsNews ==
  ASSUME ReadsShape, Command
  PROVE  /\ PinBlock => /\ reads'.block \in {world.now, 0}
                        /\ (pc' = "latest" => reads'.block = world.now)
                        /\ reads'.order = Sorted(Candidates(u))
         /\ ReadLatest => GotLatest'
         /\ ReadPaused => GotPaused'
         /\ ReadBalances => GotBalances'
         /\ ReadGecko => DOMAIN reads'.gecko = Range(reads.order)
<1> USE DEF ReadsShape
<1>u. Load \/ UNCHANGED u
  BY BuildFrame
<1>1. ASSUME PinBlock
      PROVE  /\ reads'.block \in {world.now, 0}
             /\ (pc' = "latest" => reads'.block = world.now)
             /\ reads'.order = Sorted(Candidates(u))
  BY <1>1 DEF PinBlock, Build
<1>2. ASSUME ReadLatest PROVE GotLatest'
  <2>1. PICK said \in Said : reads' = [reads EXCEPT !.latest =
           [a \in DOMAIN u.feeds |-> LatestRound(world, a, reads.block, said)]]
    BY <1>2 DEF ReadLatest
  <2>2. UNCHANGED u
    BY <1>2 DEF ReadLatest
  <2> QED BY <2>1, <2>2 DEF GotLatest
<1>3. ASSUME ReadPaused PROVE GotPaused'
  <2>1. PICK said \in Said : reads' = [reads EXCEPT !.unpaused =
           [a \in Candidates(u) |-> Unpaused(world, a, reads.block, said)]]
    BY <1>3 DEF ReadPaused
  <2>2. UNCHANGED u
    BY <1>3 DEF ReadPaused
  <2> QED BY <2>1, <2>2 DEF GotPaused
<1>4. ASSUME ReadBalances PROVE GotBalances'
  <2>1. PICK said : reads' = [reads EXCEPT !.balances =
                                Balances(world, Tokens(u), Gas, said)]
    BY <1>4 DEF ReadBalances
  <2>2. UNCHANGED u
    BY <1>4 DEF ReadBalances
  <2> QED BY <2>1, <2>2 DEF GotBalances, Balances
<1>5. ASSUME ReadGecko PROVE DOMAIN reads'.gecko = Range(reads.order)
  <2>1. PICK said : reads' = [reads EXCEPT !.gecko =
                                Corroborations(world, reads.order, said)]
    BY <1>5 DEF ReadGecko
  <2> QED BY <2>1 DEF Corroborations
<1> QED BY <1>1, <1>2, <1>3, <1>4, <1>5

(* One more of the order.                                                   *)
LEMMA OneMore ==
  ASSUME UniverseTyped, Pinned, NEW f, SoFar(reads.order, DOMAIN f), NEW v,
         NEW k, k = Cardinality(DOMAIN f) + 1, k \in DOMAIN reads.order
  PROVE  /\ SoFar(reads.order, DOMAIN With(f, reads.order[k], v))
         /\ reads.order[k] \in Candidates(u) /\ reads.order[k] \notin DOMAIN f
         /\ k = Len(reads.order) =>
              DOMAIN With(f, reads.order[k], v) = Candidates(u)
<1> DEFINE o == reads.order
<1>1. /\ Len(o) \in Nat /\ DOMAIN o = 1..Len(o)
      /\ Firsts(o, Len(o)) = Candidates(u) /\ o \in Seq(Candidates(u))
      /\ \A i, j \in DOMAIN o : o[i] = o[j] => i = j
  BY OrderIs
<1> HIDE DEF o
<1>2. PICK n \in 0..Len(o) : DOMAIN f = Firsts(o, n)
  BY DEF SoFar, o
<1>3. n \in Nat /\ \A i, j \in 1..n : o[i] = o[j] => i = j
  BY <1>1, <1>2
<1>4. Cardinality(DOMAIN f) = n
  BY <1>2, <1>3, FirstsCount
<1>5. k = n + 1 /\ k \in 0..Len(o) /\ k \in DOMAIN o
  BY <1>1, <1>2, <1>4 DEF o
<1>6. DOMAIN With(f, o[k], v) = Firsts(o, n) \cup {o[k]}
  BY <1>2 DEF With
<1>7. Firsts(o, n) \cup {o[k]} = Firsts(o, k)
  <2>1. \A i \in 1..k : i \in 1..n \/ i = k
    BY <1>3, <1>5
  <2>2. \A i \in 1..n : i \in 1..k
    BY <1>3, <1>5
  <2>3. k \in 1..k
    BY <1>3, <1>5
  <2> QED BY <2>1, <2>2, <2>3 DEF Firsts
<1>8. SoFar(o, DOMAIN With(f, o[k], v))
  BY <1>5, <1>6, <1>7 DEF SoFar
<1>9. o[k] \notin DOMAIN f
  <2>1. \A i \in 1..n : i \in DOMAIN o /\ i # k
    BY <1>1, <1>2, <1>3, <1>5
  <2> QED BY <1>1, <1>2, <1>5, <2>1 DEF Firsts
<1>10. k = Len(o) => DOMAIN With(f, o[k], v) = Candidates(u)
  BY <1>1, <1>6, <1>7
<1>11. o[k] \in Candidates(u)
  BY <1>1, <1>5
<1> QED BY <1>8, <1>9, <1>10, <1>11 DEF o

(* One stock's series, of a stock that had none.                            *)
SeriesStep(a, said, broken) ==
  LET s == SeriesOf(world, a, reads.block, u.feeds[a], using.cfg, said, broken)
  IN /\ a \in Candidates(u) /\ a \notin DOMAIN reads.series
     /\ said \in Said /\ broken \in Nat
     /\ reads'.series = With(reads.series, a, s)
     /\ s.read = "raised" => pc' = "stopped"

LEMMA SeriesNews ==
  ASSUME ReadsShape, UniverseTyped, Pinned, SoFar(reads.order, DOMAIN reads.series),
         ReadSeries
  PROVE  /\ \E a, said, broken : SeriesStep(a, said, broken)
         /\ pc' = "series" => SoFar(reads.order, DOMAIN reads'.series)
         /\ pc' = "balances" => DOMAIN reads'.series = Candidates(u)
<1> DEFINE k == Cardinality(DOMAIN reads.series) + 1
           a == reads.order[k]
<1>1. PICK said \in Said, broken \in 0..((MaxRounds - 1) \div Chunk + 1) :
        LET s == SeriesOf(world, a, reads.block, u.feeds[a], using.cfg, said, broken)
            end == k = Len(reads.order) \/ s.read = "raised"
        IN /\ k \in DOMAIN reads.order
           /\ pc' = IF s.read = "raised" THEN "stopped"
                    ELSE IF end THEN "balances" ELSE "series"
           /\ reads' = [reads EXCEPT !.series = With(@, a, s)]
  BY DEF ReadSeries, Build
<1> DEFINE s == SeriesOf(world, a, reads.block, u.feeds[a], using.cfg, said, broken)
<1>2. /\ k \in DOMAIN reads.order
      /\ pc' = IF s.read = "raised" THEN "stopped"
               ELSE IF k = Len(reads.order) \/ s.read = "raised"
                    THEN "balances" ELSE "series"
      /\ reads'.series = With(reads.series, a, s)
  BY <1>1 DEF ReadsShape
<1>3. broken \in Nat
  <2>1. (MaxRounds - 1) \div Chunk + 1 \in Int
    BY ReadsAssumption
  <2> QED BY <2>1
<1> HIDE DEF s
<1>4. /\ SoFar(reads.order, DOMAIN With(reads.series, a, s))
      /\ a \in Candidates(u) /\ a \notin DOMAIN reads.series
      /\ k = Len(reads.order) =>
           DOMAIN With(reads.series, a, s) = Candidates(u)
  BY <1>2, OneMore
<1>5. SeriesStep(a, said, broken)
  BY <1>2, <1>3, <1>4 DEF SeriesStep, s
<1>6. pc' = "balances" => k = Len(reads.order)
  BY <1>2
<1> HIDE DEF k, a
<1> QED BY <1>2, <1>4, <1>5, <1>6

(* One stock's quote, of a stock that was asked for none.                   *)
QuoteStep(a, script) ==
  /\ a \in Candidates(u) /\ a \notin DOMAIN reads.scripts
  /\ script \in Scripts \cup {Fine}
  /\ reads'.scripts = With(reads.scripts, a, script)

LEMMA QuoteNews ==
  ASSUME ReadsShape, UniverseTyped, Pinned, SoFar(reads.order, DOMAIN reads.scripts),
         ReadQuote
  PROVE  /\ \E a, script : QuoteStep(a, script)
         /\ pc' = "quotes" => SoFar(reads.order, DOMAIN reads'.scripts)
         /\ pc' = "seal" => DOMAIN reads'.scripts = Candidates(u)
<1> DEFINE k == Cardinality(DOMAIN reads.scripts) + 1
           a == reads.order[k]
<1>1. PICK script \in Scripts \cup {Fine} :
        /\ k \in DOMAIN reads.order
        /\ pc' = IF k = Len(reads.order) THEN "seal" ELSE "quotes"
        /\ reads' = [reads EXCEPT !.scripts = With(@, a, script)]
  BY DEF ReadQuote, Build
<1>2. reads'.scripts = With(reads.scripts, a, script)
  BY <1>1 DEF ReadsShape
<1>3. /\ SoFar(reads.order, DOMAIN With(reads.scripts, a, script))
      /\ a \in Candidates(u) /\ a \notin DOMAIN reads.scripts
      /\ k = Len(reads.order) =>
           DOMAIN With(reads.scripts, a, script) = Candidates(u)
  BY <1>1, OneMore
<1>4. QuoteStep(a, script)
  BY <1>1, <1>2, <1>3 DEF QuoteStep
<1>5. pc' = "seal" => k = Len(reads.order)
  BY <1>1
<1> HIDE DEF k, a
<1> QED BY <1>2, <1>3, <1>4, <1>5

LEMMA InitProgress == Init => Progress
BY DEF Init, Progress, PastPin, PastLatest, PastPaused, PastSeries, PastBalances,
       PastBeacons, PastGecko, PastQuotes, PastSeal, PastAssemble, PastWrite, PastReplay

LEMMA QuietProgress ==
  ASSUME Progress, UNCHANGED build, UNCHANGED Lasting PROVE Progress'
<1>1. UNCHANGED <<pc, u, using, reads, doc>> /\ world'.now = world.now
  BY DEF build, Lasting
<1>2. /\ (Pinned => Pinned') /\ (GotLatest => GotLatest') /\ (GotPaused => GotPaused')
      /\ (GotSeries => GotSeries') /\ (GotBalances => GotBalances')
      /\ (GotGecko => GotGecko') /\ (GotQuotes => GotQuotes') /\ (UniverseTyped => UniverseTyped')
  BY <1>1 DEF Pinned, GotLatest, GotPaused, GotSeries, GotBalances, GotGecko, GotQuotes,
              UniverseTyped
<1>3. Everything => Everything'
  BY <1>2 DEF Everything
<1>4. /\ pc \in {"pin", "latest", "paused"} => reads.series = <<>>
      /\ pc = "series" => SoFar(reads.order, DOMAIN reads.series)
      /\ pc \in ({"pin"} \cup PastPin) \ PastGecko => reads.scripts = <<>>
      /\ pc = "quotes" => SoFar(reads.order, DOMAIN reads.scripts)
  BY DEF Progress
<1>5. /\ pc' \in {"pin", "latest", "paused"} => reads'.series = <<>>
      /\ pc' = "series" => SoFar(reads'.order, DOMAIN reads'.series)
      /\ pc' \in ({"pin"} \cup PastPin) \ PastGecko => reads'.scripts = <<>>
      /\ pc' = "quotes" => SoFar(reads'.order, DOMAIN reads'.scripts)
  BY <1>1, <1>4
<1> QED BY <1>1, <1>2, <1>3, <1>5 DEF Progress

(* What a command that reaches so far comes from.                           *)
LEMMA Moves ==
  ASSUME Command
  PROVE  /\ pc' \in PastPin =>
              ~ Load /\ ((PinBlock /\ pc' = "latest") \/ (~ PinBlock /\ pc \in PastPin))
         /\ pc' \in PastLatest => ~ PinBlock /\ (ReadLatest \/ (~ ReadLatest /\ pc \in PastLatest))
         /\ pc' \in PastPaused => ReadPaused \/ (~ ReadPaused /\ pc \in PastPaused)
         /\ pc' \in {"pin", "latest", "paused"} => ~ ReadSeries /\ (Load \/ pc \in {"pin", "latest", "paused"})
         /\ pc' = "series" => pc \in {"paused", "series"} /\ ~ Load /\ ~ PinBlock
         /\ pc' \in PastSeries => (ReadSeries /\ pc' = "balances") \/ (~ ReadSeries /\ pc \in PastSeries)
         /\ pc' \in PastBalances => ReadBalances \/ (~ ReadBalances /\ pc \in PastBalances)
         /\ pc' \in PastGecko => ReadGecko \/ (~ ReadGecko /\ pc \in PastGecko)
         /\ pc' \in ({"pin"} \cup PastPin) \ PastGecko =>
              ~ ReadQuote /\ (Load \/ pc \in ({"pin"} \cup PastPin) \ PastGecko)
         /\ pc' = "quotes" => ~ Load /\ ~ PinBlock /\ pc \in {"gecko", "quotes"}
         /\ pc' \in PastQuotes => (ReadQuote /\ pc' = "seal") \/ (~ ReadQuote /\ pc \in PastQuotes)
         /\ pc' \in PastAssemble => (Assemble /\ pc' = "write") \/ (~ Assemble /\ pc \in PastAssemble)
         /\ pc \in {"assemble"} \cup PastAssemble =>
              pc' \in PastAssemble \cup {"stopped"} /\ UNCHANGED reads /\ ~ Load
         /\ pc \notin {"stopped", "done"}
<1> USE DEF PastPin, PastLatest, PastPaused, PastSeries, PastBalances,
            PastBeacons, PastGecko, PastQuotes, PastSeal, PastAssemble, PastWrite, PastReplay
<1>1. /\ pc' \in PastPin =>
              ~ Load /\ ((PinBlock /\ pc' = "latest") \/ (~ PinBlock /\ pc \in PastPin))
      /\ pc' \in PastLatest => ~ PinBlock /\ (ReadLatest \/ (~ ReadLatest /\ pc \in PastLatest))
      /\ pc' \in PastPaused => ReadPaused \/ (~ ReadPaused /\ pc \in PastPaused)
      /\ pc' \in {"pin", "latest", "paused"} => ~ ReadSeries /\ (Load \/ pc \in {"pin", "latest", "paused"})
      /\ pc' = "series" => pc \in {"paused", "series"} /\ ~ Load /\ ~ PinBlock
  BY Steering, SMTT(40) DEF Command
<1>2. /\ pc' \in PastSeries => (ReadSeries /\ pc' = "balances") \/ (~ ReadSeries /\ pc \in PastSeries)
      /\ pc' \in PastBalances => ReadBalances \/ (~ ReadBalances /\ pc \in PastBalances)
      /\ pc' \in PastGecko => ReadGecko \/ (~ ReadGecko /\ pc \in PastGecko)
      /\ pc' \in ({"pin"} \cup PastPin) \ PastGecko =>
              ~ ReadQuote /\ (Load \/ pc \in ({"pin"} \cup PastPin) \ PastGecko)
  BY Steering, SMTT(40) DEF Command
<1>3. /\ pc' = "quotes" => ~ Load /\ ~ PinBlock /\ pc \in {"gecko", "quotes"}
      /\ pc' \in PastQuotes => (ReadQuote /\ pc' = "seal") \/ (~ ReadQuote /\ pc \in PastQuotes)
      /\ pc' \in PastAssemble => (Assemble /\ pc' = "write") \/ (~ Assemble /\ pc \in PastAssemble)
      /\ pc \notin {"stopped", "done"}
  BY Steering, SMTT(40) DEF Command
<1>4. pc \in {"assemble"} \cup PastAssemble =>
        (Assemble \/ WriteCapture \/ Replay) /\ pc' \in PastAssemble \cup {"stopped"} /\ ~ Load
  BY Steering, SMTT(40) DEF Command
<1>5. Assemble \/ WriteCapture \/ Replay => UNCHANGED reads
  BY DEF Assemble, WriteCapture, Replay
<1>6. pc \in {"assemble"} \cup PastAssemble =>
              pc' \in PastAssemble \cup {"stopped"} /\ UNCHANGED reads /\ ~ Load
  BY <1>4, <1>5
<1> QED BY <1>1, <1>2, <1>3, <1>6

(* A document is something.                                                 *)
LEMMA DocumentMade ==
  ASSUME NEW w, NEW v, NEW c, NEW r, NEW named, NEW replayed
  PROVE  Document(w, v, c, r, named, replayed) # Nothing
<1>1. \A a, b, d, e, f, g, h :
        [block |-> a, builtAt |-> b, registry |-> d, named |-> e, entries |-> f,
         outside |-> g, holdings |-> h] # [made |-> FALSE]
  OBVIOUS
<1> QED BY <1>1, Zenon DEF Document, Nothing

LEMMA CommandProgress ==
  ASSUME Shape, Progress, Command PROVE Progress'
<1>w. world'.now = world.now
  BY CommandKeeps DEF Shape, Lasting
<1>r. ReadsShape
  BY DEF Shape
<1>f. /\ PinBlock \/ (reads'.block = reads.block /\ reads'.order = reads.order)
      /\ ReadLatest \/ reads'.latest = reads.latest
      /\ ReadPaused \/ reads'.unpaused = reads.unpaused
      /\ ReadSeries \/ reads'.series = reads.series
      /\ ReadBalances \/ reads'.balances = reads.balances
      /\ ReadGecko \/ reads'.gecko = reads.gecko
      /\ ReadQuote \/ reads'.scripts = reads.scripts
      /\ Load \/ UNCHANGED u
  BY <1>r, ReadsFrame, BuildFrame
<1>n. /\ PinBlock => (pc' = "latest" => reads'.block = world.now)
                     /\ reads'.order = Sorted(Candidates(u))
      /\ ReadLatest => GotLatest'
      /\ ReadPaused => GotPaused'
      /\ ReadBalances => GotBalances'
      /\ ReadGecko => DOMAIN reads'.gecko = Range(reads.order)
  BY <1>r, ReadsNews
<1>z. Load => reads = NoReads
  BY Steering DEF Shape, Unloaded
<1>u. pc \in {"pin"} \cup PastPin => UniverseTyped
  BY DEF Shape, Unloaded, PastPin, PastLatest, PastPaused, PastSeries, PastBalances,
         PastBeacons, PastGecko, PastQuotes, PastSeal, PastAssemble, PastWrite, PastReplay
<1>p. /\ PastLatest \subseteq PastPin /\ PastPaused \subseteq PastPin
      /\ PastSeries \subseteq PastPin /\ PastBalances \subseteq PastPin
      /\ PastGecko \subseteq PastPin /\ PastQuotes \subseteq PastPin
      /\ PastAssemble \subseteq PastPin /\ "series" \in PastPin /\ "quotes" \in PastPin
      /\ "gecko" \in PastPin /\ "assemble" \in PastQuotes \cap PastGecko
      /\ "assemble" \in PastSeries \cap PastBalances
      /\ "assemble" \in PastLatest \cap PastPaused
      /\ Unloaded \cap PastPin = {}
  BY DEF Unloaded, PastPin, PastLatest, PastPaused, PastSeries, PastBalances,
         PastBeacons, PastGecko, PastQuotes, PastSeal, PastAssemble, PastWrite, PastReplay
<1>1. pc' \in PastPin => Pinned'
  BY <1>w, <1>f, <1>n, Moves DEF Progress, Pinned
<1>2. pc' \in PastLatest => GotLatest'
  <2>1. pc' \in PastLatest /\ ~ ReadLatest => UNCHANGED u /\ pc \in PastLatest
    BY <1>f, <1>p, Moves
  <2> QED BY <1>f, <1>n, <2>1 DEF Progress, GotLatest
<1>3. pc' \in PastPaused => GotPaused'
  <2>1. pc' \in PastPaused /\ ~ ReadPaused => UNCHANGED u /\ pc \in PastPaused
    BY <1>f, <1>p, Moves
  <2> QED BY <1>f, <1>n, <2>1 DEF Progress, GotPaused
<1>4. pc' \in {"pin", "latest", "paused"} => reads'.series = <<>>
  BY <1>f, <1>z, Moves DEF Progress, NoReads
<1>5. pc' = "series" => SoFar(reads'.order, DOMAIN reads'.series)
  <2>1. CASE pc' = "series" /\ pc = "paused"
    <3>1. Pinned' /\ UNCHANGED u /\ UniverseTyped /\ ~ ReadSeries
      BY <1>1, <1>f, <1>u, <1>p, <2>1, Moves, Steering
    <3>2. reads'.series = <<>> /\ UNCHANGED <<reads.order>> /\ Pinned
      BY <1>f, <2>1, <3>1, Moves, <1>p DEF Progress, PastPin, PastLatest
    <3>3. Len(reads.order) \in Nat
      BY <3>1, <3>2, OrderIs
    <3>4. DOMAIN (<<>>) = Firsts(reads'.order, 0) /\ 0 \in 0..Len(reads'.order)
      BY <3>2, <3>3 DEF Firsts
    <3> QED BY <3>2, <3>4 DEF SoFar
  <2>2. CASE pc' = "series" /\ pc = "series"
    <3>1. /\ UniverseTyped /\ Pinned /\ SoFar(reads.order, DOMAIN reads.series)
          /\ ReadSeries /\ reads'.order = reads.order
      BY <1>f, <1>u, <1>p, <2>2, Moves, Steering DEF Progress, Command
    <3> QED BY <1>r, <2>2, <3>1, SeriesNews
  <2> QED BY <2>1, <2>2, Moves
<1>6. pc' \in PastSeries => GotSeries'
  <2>1. CASE pc' \in PastSeries /\ ReadSeries
    <3>1. /\ UniverseTyped /\ Pinned /\ SoFar(reads.order, DOMAIN reads.series)
          /\ pc' = "balances" /\ UNCHANGED u
      BY <1>f, <1>u, <1>p, <2>1, Moves, Steering DEF Progress
    <3> QED BY <1>r, <2>1, <3>1, SeriesNews DEF GotSeries
  <2>2. CASE pc' \in PastSeries /\ ~ ReadSeries
    BY <1>f, <1>p, <2>2, Moves DEF Progress, GotSeries
  <2> QED BY <2>1, <2>2
<1>7. pc' \in PastBalances => GotBalances'
  <2>1. pc' \in PastBalances /\ ~ ReadBalances => UNCHANGED u /\ pc \in PastBalances
    BY <1>f, <1>p, Moves
  <2> QED BY <1>f, <1>n, <2>1 DEF Progress, GotBalances
<1>8. pc' \in PastGecko => GotGecko'
  <2>1. CASE pc' \in PastGecko /\ ReadGecko
    <3>1. UniverseTyped /\ Pinned /\ UNCHANGED u
      BY <1>f, <1>u, <1>p, <2>1, Moves, Steering DEF Progress
    <3>2. Candidates(u) \in SUBSET Stocks
      BY <3>1, OrderIs
    <3>3. Range(reads.order) = Candidates(u)
      BY <3>1, <3>2, EvidenceAssumption DEF Pinned
    <3> QED BY <1>n, <2>1, <3>1, <3>3 DEF GotGecko
  <2>2. CASE pc' \in PastGecko /\ ~ ReadGecko
    BY <1>f, <1>p, <2>2, Moves DEF Progress, GotGecko
  <2> QED BY <2>1, <2>2
<1>9. pc' \in ({"pin"} \cup PastPin) \ PastGecko => reads'.scripts = <<>>
  BY <1>f, <1>z, Moves DEF Progress, NoReads
<1>10. pc' = "quotes" => SoFar(reads'.order, DOMAIN reads'.scripts)
  <2>1. CASE pc' = "quotes" /\ pc = "gecko"
    <3>1. UniverseTyped /\ ~ ReadQuote /\ ~ PinBlock /\ Pinned
      BY <1>f, <1>u, <1>p, <2>1, Moves, Steering DEF Progress
    <3>2. reads'.scripts = <<>> /\ UNCHANGED <<reads.order>>
      BY <1>f, <1>p, <2>1, <3>1 DEF Progress, PastGecko, PastQuotes, PastSeal, PastAssemble,
                                    PastWrite, PastReplay
    <3>3. Len(reads.order) \in Nat
      BY <3>1, <3>2, OrderIs
    <3>4. DOMAIN (<<>>) = Firsts(reads'.order, 0) /\ 0 \in 0..Len(reads'.order)
      BY <3>2, <3>3 DEF Firsts
    <3> QED BY <3>2, <3>4 DEF SoFar
  <2>2. CASE pc' = "quotes" /\ pc = "quotes"
    <3>1. /\ UniverseTyped /\ Pinned /\ SoFar(reads.order, DOMAIN reads.scripts)
          /\ ReadQuote /\ reads'.order = reads.order
      BY <1>f, <1>u, <1>p, <2>2, Moves, Steering DEF Progress, Command
    <3> QED BY <1>r, <2>2, <3>1, QuoteNews
  <2> QED BY <2>1, <2>2, Moves
<1>11. pc' \in PastQuotes => GotQuotes'
  <2>1. CASE pc' \in PastQuotes /\ ReadQuote
    <3>1. /\ UniverseTyped /\ Pinned /\ SoFar(reads.order, DOMAIN reads.scripts)
          /\ pc' = "seal" /\ UNCHANGED u
      BY <1>f, <1>u, <1>p, <2>1, Moves, Steering DEF Progress
    <3> QED BY <1>r, <2>1, <3>1, QuoteNews DEF GotQuotes
  <2>2. CASE pc' \in PastQuotes /\ ~ ReadQuote
    BY <1>f, <1>p, <2>2, Moves DEF Progress, GotQuotes
  <2> QED BY <2>1, <2>2
<1>12. doc' # Nothing => Everything' /\ pc' \in PastAssemble \cup {"stopped"}
  <2>1. CASE doc' # Nothing /\ Assemble
    <3>1. pc = "assemble"
      BY <2>1, Steering
    <3>2. Everything
      BY <1>u, <1>p, <3>1 DEF Progress, Everything
    <3>3. UNCHANGED <<u, reads>> /\ pc' \in PastAssemble \cup {"stopped"}
      BY <1>f, <3>1, Moves
    <3>4. Everything'
      BY <1>w, <3>2, <3>3 DEF Everything, UniverseTyped, Pinned, GotLatest, GotPaused, GotSeries,
           GotBalances, GotGecko, GotQuotes
    <3> QED BY <3>3, <3>4
  <2>2. CASE doc' # Nothing /\ ~ Assemble
    <3>1. doc # Nothing
      BY <2>2, BuildFrame
    <3>2. Everything /\ pc \in PastAssemble
      BY <3>1, Moves DEF Progress
    <3>3. UNCHANGED <<u, reads>> /\ pc' \in PastAssemble \cup {"stopped"}
      BY <1>f, <3>2, Moves
    <3>4. Everything'
      BY <1>w, <3>2, <3>3 DEF Everything, UniverseTyped, Pinned, GotLatest, GotPaused, GotSeries,
           GotBalances, GotGecko, GotQuotes
    <3> QED BY <3>3, <3>4
  <2> QED BY <2>1, <2>2
<1>13. pc' \in PastAssemble => doc' # Nothing
  <2>1. CASE Assemble /\ pc' = "write"
    <3>1. doc' = Document(world, u, using.cfg, reads, Files, FALSE)
      BY <2>1 DEF Assemble, Build
    <3> QED BY <3>1, DocumentMade
  <2> QED BY <2>1, Moves, BuildFrame DEF Progress
<1> QED BY <1>1, <1>2, <1>3, <1>4, <1>5, <1>6, <1>7, <1>8, <1>9, <1>10, <1>11, <1>12, <1>13
        DEF Progress

LEMMA ProgressAlways == Spec => [](Shape /\ Progress)
<1>1. Shape /\ Progress /\ [Next]_vars => Progress'
  <2>1. ASSUME Shape, Progress, Owner PROVE Progress'
    BY <2>1, OwnerKeeps, QuietProgress DEF Shape
  <2>2. ASSUME Shape, Progress, UNCHANGED vars PROVE Progress'
    <3>1. UNCHANGED build /\ UNCHANGED Lasting
      BY <2>2 DEF vars, Lasting
    <3> QED BY <2>2, <3>1, QuietProgress
  <2> QED BY <2>1, <2>2, CommandProgress DEF Next
<1> QED BY ShapeAlways, InitProgress, <1>1, PTL DEF Spec

-------------------------------------------------------------------------------
(* The closed sessions *)

(* A span is the one the owner began with, or the one the rounds propose.   *)
SpansFounded ==
  \A h \in DOMAIN cfg.sessions :
    \/ cfg.sessions[h] = Config0.sessions[h]
    \/ /\ InferClosure(Evidenced) # NoClosure
       /\ cfg.sessions[h] = InferClosure(Evidenced)

LEMMA EvidencedKept ==
  ASSUME UNCHANGED Lasting PROVE Evidenced' = Evidenced
<1>1. UNCHANGED <<world.rounds, world.now>>
  BY DEF Lasting
<1> QED BY <1>1 DEF Evidenced

LEMMA FoundedKept ==
  ASSUME SpansFounded, UNCHANGED cfg, UNCHANGED Lasting PROVE SpansFounded'
BY EvidencedKept DEF SpansFounded

LEMMA OwnerFounded ==
  ASSUME world \in World, FilesTyped, SpansFounded, Owner PROVE SpansFounded'
<1>1. UNCHANGED Lasting
  BY OwnerKeeps
<1>2. CASE Rederive
  <2>1. /\ cfg' = [cfg EXCEPT !.sessions = [h \in DOMAIN @ |-> InferClosure(Evidenced)]]
        /\ InferClosure(Evidenced) # NoClosure
    BY <1>2 DEF Rederive
  <2>2. cfg'.sessions = [h \in DOMAIN cfg.sessions |-> InferClosure(Evidenced)]
    BY <2>1 DEF FilesTyped, Config
  <2> QED BY <1>1, <2>1, <2>2, EvidencedKept DEF SpansFounded
<1>3. CASE EditMargin
  <2>1. cfg'.sessions = cfg.sessions
    BY <1>3 DEF EditMargin
  <2> QED BY <1>1, <2>1, EvidencedKept DEF SpansFounded
<1>4. CASE ~ Rederive /\ ~ EditMargin
  <2>1. UNCHANGED cfg
    BY <1>4 DEF Owner, Plan, Accept, AcceptDirectory, Review, config
  <2> QED BY <1>1, <2>1, FoundedKept
<1> QED BY <1>2, <1>3, <1>4

LEMMA FoundedQuiet ==
  ASSUME world \in World, SpansFounded PROVE ClosedIsQuiet
<1>1. Evidenced \in SUBSET Int
  BY EvidencedTimes
<1>2. InferClosure(Evidenced) # NoClosure =>
        \A t \in Evidenced : ~ Within(InferClosure(Evidenced), t)
  BY <1>1, ClosureProposed
<1> QED BY <1>2 DEF SpansFounded, ClosedIsQuiet

(* A closed session proposed from the feeds' rounds holds none of them, in  *)
(* whatever week: the largest quiet stretch, shrunk by the guard and to the *)
(* grid, lies strictly between two positions of the week at which a feed    *)
(* published, and the world those rounds are read from does not move.       *)
THEOREM ClosedTheorem == Spec => []ClosedIsQuiet
<1>1. Init => SpansFounded
  BY DEF Init, SpansFounded
<1>2. Shape /\ SpansFounded /\ [Next]_vars => SpansFounded'
  <2>1. ASSUME Shape, SpansFounded, Command PROVE SpansFounded'
    <3>1. UNCHANGED Lasting /\ UNCHANGED cfg
      BY <2>1, CommandKeeps DEF Shape, config
    <3> QED BY <2>1, <3>1, FoundedKept
  <2>2. ASSUME SpansFounded, UNCHANGED vars PROVE SpansFounded'
    <3>1. UNCHANGED Lasting /\ UNCHANGED cfg
      BY <2>2 DEF vars, config, Lasting
    <3> QED BY <2>2, <3>1, FoundedKept
  <2> QED BY <2>1, <2>2, OwnerFounded DEF Next, Shape
<1>3. Shape /\ SpansFounded => ClosedIsQuiet
  BY FoundedQuiet DEF Shape
<1> QED BY ShapeAlways, <1>1, <1>2, <1>3, PTL DEF Spec

-------------------------------------------------------------------------------
(* The document *)

(* It is what the reads say of a world that lasts as this one does.         *)
Alike(w) ==
  <<w.now, w.sampling, w.rounds, w.flag, w.pausedFrom, w.balance, w.beacon,
    w.gecko, w.venue>> = Lasting

(* Nothing in it is replayed.                                               *)
Live == FALSE

Assembled ==
  doc # Nothing =>
    \E w \in World : /\ Alike(w)
                     /\ doc = Document(w, u, using.cfg, reads, doc.named, Live)

(* The parts of a document.                                                 *)
EntriesOf(w, v, c, r, replayed) ==
  [a \in Candidates(v) |-> Entry(v, StockInputs(w, v, c, r, a, replayed))]

LEMMA DocumentIs ==
  ASSUME NEW w, NEW v, NEW c, NEW r, NEW named, NEW replayed
  PROVE  Document(w, v, c, r, named, replayed) =
           [block |-> r.block, builtAt |-> BuiltAt(r.order, r.scripts),
            registry |-> v.registry, named |-> named,
            entries |-> EntriesOf(w, v, c, r, replayed),
            outside |-> DOMAIN Records(v) \ DOMAIN v.feeds,
            holdings |-> Holdings(w, v, c, r, EntriesOf(w, v, c, r, replayed))]
BY DEF Document, EntriesOf

LEMMA DocumentNamed ==
  ASSUME NEW w, NEW v, NEW c, NEW r, NEW named, NEW replayed
  PROVE  Document(w, v, c, r, named, replayed).named = named
BY DocumentIs

LEMMA DocumentEntries ==
  ASSUME NEW w, NEW v, NEW c, NEW r, NEW named, NEW replayed
  PROVE  Document(w, v, c, r, named, replayed).entries = EntriesOf(w, v, c, r, replayed)
BY DocumentIs

LEMMA DocumentHoldings ==
  ASSUME NEW w, NEW v, NEW c, NEW r, NEW named, NEW replayed
  PROVE  Document(w, v, c, r, named, replayed).holdings
           = Holdings(w, v, c, r, EntriesOf(w, v, c, r, replayed))
BY DocumentIs

LEMMA AssembledKept ==
  ASSUME Assembled, UNCHANGED Lasting, UNCHANGED doc,
         doc # Nothing => UNCHANGED <<u, using, reads>>
  PROVE  Assembled'
<1>1. \A w : Alike(w) => Alike(w)'
  BY DEF Alike
<1>2. CASE doc # Nothing
  <2>1. PICK w \in World : Alike(w) /\ doc = Document(w, u, using.cfg, reads, doc.named, Live)
    BY <1>2 DEF Assembled
  <2>2. Document(w, u, using.cfg, reads, doc.named, Live)'
          = Document(w, u, using.cfg, reads, doc.named, Live)
    BY <1>2
  <2>3. Alike(w)' /\ doc' = Document(w, u, using.cfg, reads, doc.named, Live)'
    BY <1>1, <2>1, <2>2
  <2> QED BY <2>3 DEF Assembled
<1>3. CASE doc = Nothing
  BY <1>3 DEF Assembled
<1> QED BY <1>2, <1>3

LEMMA AssembledAlways == Spec => []Assembled
<1>1. Init => Assembled
  BY DEF Init, Assembled
<1>2. Shape /\ Progress /\ Assembled /\ [Next]_vars => Assembled'
  <2>1. ASSUME Shape, Progress, Assembled, Command PROVE Assembled'
    <3>1. UNCHANGED Lasting /\ world \in World /\ world' \in World
      BY <2>1, CommandKeeps DEF Shape
    <3>2. CASE Assemble
      <4>1. CASE doc' = Nothing
        BY <4>1 DEF Assembled
      <4>2. CASE doc' # Nothing
        <5>1. /\ doc' = Document(world, u, using.cfg, reads, Files, Live)
              /\ UNCHANGED <<u, using, reads>>
          BY <3>2, <4>2 DEF Assemble, Live
        <5>2. Document(world, u, using.cfg, reads, Files, Live).named = Files
          BY DocumentNamed
        <5>3. PICK w \in World : w = world
          BY <3>1
        <5>4. Alike(w)'
          BY <3>1, <5>3 DEF Alike, Lasting
        <5>5. doc' = Document(w, u', using'.cfg, reads', doc'.named, Live)
          BY <5>1, <5>2, <5>3
        <5> QED BY <5>4, <5>5 DEF Assembled
      <4> QED BY <4>1, <4>2
    <3>3. CASE ~ Assemble
      <4>1. UNCHANGED doc
        BY <2>1, <3>3, BuildFrame
      <4>2. doc # Nothing => pc \in PastAssemble
        BY <2>1, Moves DEF Progress
      <4>3. doc # Nothing => UNCHANGED <<u, using, reads>>
        <5>1. doc # Nothing => UNCHANGED reads /\ ~ Load
          BY <2>1, <4>2, Moves
        <5>2. doc # Nothing => ~ Loads
          BY <2>1, <4>2, Steering DEF Loads, PastAssemble, PastWrite, PastReplay
        <5> QED BY <2>1, <5>1, <5>2, BuildFrame
      <4> QED BY <2>1, <3>1, <4>1, <4>3, AssembledKept
    <3> QED BY <3>2, <3>3
  <2>2. ASSUME Shape, Assembled, Owner PROVE Assembled'
    <3>1. UNCHANGED build /\ UNCHANGED Lasting
      BY <2>2, OwnerKeeps DEF Shape
    <3> QED BY <2>2, <3>1, AssembledKept DEF build
  <2>3. ASSUME Assembled, UNCHANGED vars PROVE Assembled'
    <3>1. UNCHANGED build /\ UNCHANGED Lasting
      BY <2>3 DEF vars, Lasting
    <3> QED BY <2>3, <3>1, AssembledKept DEF build
  <2> QED BY <2>1, <2>2, <2>3 DEF Next
<1> QED BY ProgressAlways, <1>1, <1>2, PTL DEF Spec

-------------------------------------------------------------------------------
(* What is held is never lost *)

Stakes(S) == {a \in S : world.balance[a] > 0}

(* Whatever the wallet holds of what was ever listed is listed or carried:  *)
(* by the pins, by the universe while it loads, and by the one loaded.      *)
PinsCover ==
  ~ careless => Stakes(known) \subseteq Listed(pins.registry) \cup pins.carried

LoadingWhole ==
  /\ pc = "registry" /\ ~ torn =>
       using.pins.carried = pins.carried /\ using.known = known
  /\ pc \in {"directory", "load"} /\ ~ careless /\ ~ torn =>
       Stakes(using.known) \subseteq Listed(using.pins.registry) \cup using.pins.carried

UniverseCovers ==
  u # Nothing /\ ~ careless /\ ~ torn =>
    Stakes(using.known) \subseteq Listed(u.registry) \cup u.carried

(* No balance that is there was read as zero.                               *)
BalancesTold ==
  \A a \in DOMAIN reads.balances :
    world.balance[a] > 0 => Owned(reads.balances[a]) # "false"

Carrying == PinsCover /\ LoadingWhole /\ UniverseCovers /\ BalancesTold

LEMMA OwnedTold ==
  ASSUME NEW said, NEW n, n > 0 PROVE Owned(Observe(said, n)) # "false"
<1>1. CASE said = "answered"
  <2>1. Observe(said, n) = [read |-> "ok", value |-> n]
    BY <1>1 DEF Observe, Ok
  <2> QED BY <2>1 DEF Owned, Judged
<1>2. CASE said # "answered"
  <2>1. Observe(said, n).read # "ok"
    BY <1>2 DEF Observe, Failed
  <2> QED BY <2>1 DEF Owned
<1> QED BY <1>1, <1>2

(* Accepting a plan on the present diff, naming what is held, loses none.   *)
LEMMA AcceptCovers ==
  ASSUME known \subseteq Stocks, PinsCover, NEW p,
         p.removed = Listed(pins.registry) \ Listed(p.version),
         pins' = Accepted(pins, p, HeldByWallet), pins \in Pins,
         known' = known \cup Listed(p.version), ~ careless, UNCHANGED Lasting
  PROVE  PinsCover'
<1>1. /\ pins'.registry = p.version
      /\ pins'.carried = (pins.carried \cup (HeldByWallet \cap p.removed)) \ Listed(p.version)
  BY DEF Accepted, Dropped, Pins
<1>2. world'.balance = world.balance
  BY DEF Lasting
<1>3. ASSUME NEW a \in known', world.balance[a] > 0
      PROVE  a \in Listed(pins'.registry) \cup pins'.carried
  <2>1. CASE a \in Listed(p.version)
    BY <1>1, <2>1
  <2>2. CASE a \notin Listed(p.version)
    <3>1. a \in known /\ a \in HeldByWallet
      BY <1>3, <2>2 DEF HeldByWallet
    <3>2. a \in Listed(pins.registry) \cup pins.carried
      BY <1>3, <3>1 DEF PinsCover, Stakes
    <3> QED BY <1>1, <2>2, <3>1, <3>2
  <2> QED BY <2>1, <2>2
<1> QED BY <1>2, <1>3 DEF PinsCover, Stakes

LEMMA OwnerCarrying ==
  ASSUME Shape, Carrying, Owner PROVE Carrying'
<1>1. UNCHANGED Lasting /\ UNCHANGED <<pc, u, using, reads>>
  BY OwnerKeeps DEF Shape, build
<1>2. world'.balance = world.balance
  BY <1>1 DEF Lasting
<1>3. BalancesTold'
  BY <1>1, <1>2 DEF Carrying, BalancesTold
<1>4. \/ UNCHANGED <<pins, known, careless, torn>>
      \/ \E p \in plans, h \in {{}, HeldByWallet}, k \in BOOLEAN : Accept(p, h, k)
      \/ \E v : AcceptDirectory(v)
  BY DEF Owner, Plan, Review, Rederive, EditMargin, config, history
<1>5. CASE UNCHANGED <<pins, known, careless, torn>>
  <2>1. /\ PinsCover'
        /\ LoadingWhole'
        /\ UniverseCovers'
    BY <1>1, <1>2, <1>5 DEF Carrying, PinsCover, LoadingWhole, UniverseCovers, Stakes
  <2> QED BY <1>3, <2>1 DEF Carrying
<1>6. ASSUME NEW p \in plans, NEW h \in {{}, HeldByWallet}, NEW k \in BOOLEAN, Accept(p, h, k)
      PROVE  Carrying'
  <2>1. /\ pins' = Accepted(pins, p, h) /\ known' = known \cup Listed(p.version)
        /\ (~ careless' => ~ careless /\ h = HeldByWallet
                           /\ p.removed = PlanRefresh(pins, p.version).removed)
        /\ (~ torn' => ~ torn /\ pc # "registry")
    BY <1>6 DEF Accept, Shape, HistoryTyped
  <2>2. PinsCover'
    <3>1. CASE careless'
      BY <3>1 DEF PinsCover
    <3>2. CASE ~ careless'
      <4>1. p.removed = Listed(pins.registry) \ Listed(p.version)
        BY <2>1, <3>2 DEF PlanRefresh
      <4> QED BY <1>1, <2>1, <3>2, <4>1, AcceptCovers
              DEF Carrying, Shape, HistoryTyped, FilesTyped
    <3> QED BY <3>1, <3>2
  <2>3. LoadingWhole'
    BY <1>1, <1>2, <2>1 DEF Carrying, LoadingWhole, Stakes
  <2>4. UniverseCovers'
    BY <1>1, <1>2, <2>1 DEF Carrying, UniverseCovers, Stakes
  <2> QED BY <1>3, <2>2, <2>3, <2>4 DEF Carrying
<1>7. ASSUME NEW v, AcceptDirectory(v) PROVE Carrying'
  <2>1. pins' = [pins EXCEPT !.directory = v] /\ UNCHANGED <<known, careless, torn>>
    BY <1>7 DEF AcceptDirectory, AcceptedDirectory, history
  <2>2. pins'.registry = pins.registry /\ pins'.carried = pins.carried
    BY <2>1 DEF Shape, FilesTyped, Pins
  <2>3. PinsCover' /\ UniverseCovers'
    BY <1>1, <1>2, <2>1, <2>2 DEF Carrying, PinsCover, UniverseCovers, Stakes
  <2>4. LoadingWhole'
    BY <1>1, <1>2, <2>1, <2>2 DEF Carrying, LoadingWhole, Stakes
  <2> QED BY <1>3, <2>3, <2>4 DEF Carrying
<1> QED BY <1>4, <1>5, <1>6, <1>7

LEMMA CommandCarrying ==
  ASSUME Shape, Carrying, Command PROVE Carrying'
<1>1. /\ UNCHANGED Lasting /\ UNCHANGED <<pins, known, careless, torn>>
  BY CommandKeeps DEF Shape, config, history
<1>2. world'.balance = world.balance
  BY <1>1 DEF Lasting
<1>3. PinsCover'
  BY <1>1, <1>2 DEF Carrying, PinsCover, Stakes
<1>4. BalancesTold'
  <2>1. CASE ReadBalances
    <3>1. PICK said : reads' = [reads EXCEPT !.balances =
                                  Balances(world, Tokens(u), Gas, said)]
      BY <2>1 DEF ReadBalances
    <3>2. reads'.balances = Balances(world, Tokens(u), Gas, said)
      BY <3>1 DEF Shape, ReadsShape
    <3>3. ASSUME NEW a \in DOMAIN reads'.balances
          PROVE  \E s : reads'.balances[a] = Observe(s, world.balance[a])
      BY <3>2 DEF Balances
    <3>4. ASSUME NEW a \in DOMAIN reads'.balances, world'.balance[a] > 0
          PROVE  Owned(reads'.balances[a]) # "false"
      <4>1. PICK s : reads'.balances[a] = Observe(s, world.balance[a])
        BY <3>3
      <4> QED BY <1>2, <3>4, <4>1, OwnedTold
    <3>5. \A a : Owned(reads.balances[a])' = Owned(reads'.balances[a])
      BY DEF Owned
    <3> QED BY <3>4, <3>5 DEF BalancesTold
  <2>2. CASE ~ ReadBalances
    <3>1. reads'.balances = reads.balances
      BY <2>2, ReadsFrame DEF Shape
    <3> QED BY <1>2, <3>1 DEF Carrying, BalancesTold
  <2> QED BY <2>1, <2>2
<1>u. pc # "begin" => UsingTyped
  BY DEF Shape
<1>5. LoadingWhole'
  <2>1. CASE Begin
    <3>1. using' = [cfg |-> cfg, pins |-> pins, map |-> feedMap, known |-> known]
          /\ pc' = "registry"
      BY <2>1, Steering DEF Begin
    <3> QED BY <1>1, <3>1 DEF LoadingWhole
  <2>2. CASE LoadRegistry
    <3>1. /\ using' = [using EXCEPT !.pins.registry = pins.registry]
          /\ pc = "registry" /\ pc' = "directory"
      BY <2>2, Steering DEF LoadRegistry
    <3>2. /\ using'.pins.registry = pins.registry
          /\ using'.pins.carried = using.pins.carried /\ using'.known = using.known
      BY <1>u, <3>1 DEF UsingTyped, Pins
    <3>3. ~ careless /\ ~ torn =>
            Stakes(using'.known) \subseteq Listed(using'.pins.registry) \cup using'.pins.carried
      BY <3>1, <3>2 DEF Carrying, PinsCover, LoadingWhole
    <3> QED BY <1>1, <1>2, <3>1, <3>3 DEF LoadingWhole, Stakes
  <2>3. CASE LoadDirectory
    <3>1. /\ using' = [using EXCEPT !.pins.directory = pins.directory]
          /\ pc = "directory" /\ pc' = "load"
      BY <2>3, Steering DEF LoadDirectory
    <3>2. /\ using'.pins.registry = using.pins.registry
          /\ using'.pins.carried = using.pins.carried /\ using'.known = using.known
      BY <1>u, <3>1 DEF UsingTyped, Pins
    <3> QED BY <1>1, <1>2, <3>1, <3>2 DEF Carrying, LoadingWhole, Stakes
  <2>4. CASE ~ Begin /\ ~ LoadRegistry /\ ~ LoadDirectory
    <3>1. pc' \notin {"registry", "directory", "load"}
      BY <2>4, Steering DEF Command
    <3> QED BY <3>1 DEF LoadingWhole
  <2> QED BY <2>1, <2>2, <2>3, <2>4
<1>6. UniverseCovers'
  <2>1. CASE Begin \/ LoadRegistry \/ LoadDirectory
    <3>1. u' = Nothing
      BY <2>1, Steering DEF Begin, LoadRegistry, LoadDirectory, Shape, Unloaded
    <3> QED BY <3>1 DEF UniverseCovers
  <2>2. CASE Load
    <3>1. /\ pc = "load" /\ using' = [using EXCEPT !.map = feedMap]
          /\ u' # Nothing => u' = Loaded(using.pins, feedMap)
      BY <2>2, Steering DEF Load
    <3>2. using'.known = using.known
      BY <1>u, <3>1 DEF UsingTyped
    <3>3. u' # Nothing => u'.registry = using.pins.registry /\ u'.carried = using.pins.carried
      BY <3>1 DEF Loaded
    <3>4. ~ careless /\ ~ torn =>
            Stakes(using.known) \subseteq Listed(using.pins.registry) \cup using.pins.carried
      BY <3>1 DEF Carrying, LoadingWhole
    <3> QED BY <1>1, <1>2, <3>2, <3>3, <3>4 DEF UniverseCovers, Stakes
  <2>3. CASE ~ Loads
    <3>1. UNCHANGED <<u, using>>
      BY <2>3, BuildFrame DEF Loads
    <3> QED BY <1>1, <1>2, <3>1 DEF Carrying, UniverseCovers, Stakes
  <2> QED BY <2>1, <2>2, <2>3 DEF Loads
<1> QED BY <1>3, <1>4, <1>5, <1>6 DEF Carrying

LEMMA CarryingKept ==
  ASSUME Shape, Progress, Assembled, Carrying PROVE HoldingKept
<1>1. SUFFICES ASSUME doc # Nothing, ~ careless, ~ torn,
                      NEW a \in using.known, world.balance[a] > 0
               PROVE  a \in DOMAIN doc.holdings
  BY DEF HoldingKept
<1>2. PICK w \in World : doc = Document(w, u, using.cfg, reads, doc.named, Live)
  BY <1>1 DEF Assembled
<1>3. doc.holdings = Holdings(w, u, using.cfg, reads, EntriesOf(w, u, using.cfg, reads, Live))
  BY <1>2, DocumentHoldings
<1>4. DOMAIN doc.holdings = Marked \cup Held(reads)
  BY <1>3 DEF Holdings
<1>5. UniverseTyped /\ DOMAIN reads.balances = Tokens(u)
  BY <1>1 DEF Progress, Everything, GotBalances
<1>6. u # Nothing
  <2>1. "registry" \in DOMAIN u /\ "registry" \notin DOMAIN Nothing
    BY <1>5 DEF UniverseTyped, Nothing
  <2> QED BY <2>1
<1>7. a \in Listed(u.registry) \cup u.carried
  BY <1>1, <1>6 DEF Carrying, UniverseCovers, Stakes
<1>8. a \in DOMAIN reads.balances
  BY <1>5, <1>7 DEF Tokens, Records, Listed
<1>9. Owned(reads.balances[a]) # "false"
  BY <1>1, <1>8 DEF Carrying, BalancesTold
<1> QED BY <1>4, <1>8, <1>9 DEF Held

(* A holding never leaves the book because its asset left the registry: the *)
(* pins, and the universe loaded from them in two looks, list or carry all  *)
(* that is held of what was ever listed; no failed read of a balance makes  *)
(* it zero; and the document has a row for each balance not known to be.    *)
THEOREM HoldingKeptTheorem == Spec => []HoldingKept
<1>1. Init => Carrying
  <2>1. ASSUME Init PROVE Carrying
    <3>1. /\ pins = [registry |-> world.registry, directory |-> world.directory,
                     carried |-> world.carried]
          /\ known = Listed(world.registry) \cup world.carried
          /\ pc = "begin" /\ u = Nothing /\ reads.balances = <<>>
      BY <2>1 DEF Init, NoReads
    <3>2. PinsCover /\ LoadingWhole /\ UniverseCovers
      BY <3>1 DEF PinsCover, LoadingWhole, UniverseCovers, Stakes
    <3>3. BalancesTold
      BY <3>1 DEF BalancesTold
    <3> QED BY <3>2, <3>3 DEF Carrying
  <2> QED BY <2>1
<1>2. Shape /\ Carrying /\ [Next]_vars => Carrying'
  <2>1. ASSUME Carrying, UNCHANGED vars PROVE Carrying'
    <3>1. UNCHANGED <<world, pins, known, careless, torn, pc, u, using, reads>>
      BY <2>1 DEF vars, config, build, history
    <3>2. PinsCover' /\ LoadingWhole' /\ UniverseCovers'
      BY <2>1, <3>1 DEF Carrying, PinsCover, LoadingWhole, UniverseCovers, Stakes
    <3>3. BalancesTold'
      BY <2>1, <3>1 DEF Carrying, BalancesTold
    <3> QED BY <3>2, <3>3 DEF Carrying
  <2> QED BY <2>1, OwnerCarrying, CommandCarrying DEF Next
<1>3. Shape /\ Progress /\ Assembled /\ Carrying => HoldingKept
  BY CarryingKept
<1> QED BY ProgressAlways, AssembledAlways, <1>1, <1>2, <1>3, PTL DEF Spec

-------------------------------------------------------------------------------
(* What every read says is true of the world, or that it failed *)

LatestFrom(r, a) ==
  /\ UniverseTyped /\ a \in DOMAIN u.feeds
  /\ \E w \in World, said \in Said : Alike(w) /\ r = LatestRound(w, a, w.now, said)

PausedFrom(r, a) ==
  \E w \in World, said \in Said : Alike(w) /\ r = Unpaused(w, a, w.now, said)

SeriesFrom(s, a) ==
  /\ UniverseTyped /\ a \in Candidates(u)
  /\ \E w \in World, said \in Said, broken \in Nat :
       /\ Alike(w)
       /\ s = SeriesOf(w, a, w.now, u.feeds[a], using.cfg, said, broken)

BalanceFrom(r, a) == \E said : r = Observe(said, world.balance[a])

SlotFrom(r, a) == \E said : r = Observe(said, world.beacon[a])

GeckoFrom(r, a) ==
  \E w \in World : \E said : Alike(w) /\ r = Listing(w, a, said)

LatestTold == \A a \in DOMAIN reads.latest : LatestFrom(reads.latest[a], a)
PausedTold == \A a \in DOMAIN reads.unpaused : PausedFrom(reads.unpaused[a], a)
SeriesTold == \A a \in DOMAIN reads.series : SeriesFrom(reads.series[a], a)
BalanceTold == \A a \in DOMAIN reads.balances : BalanceFrom(reads.balances[a], a)
SlotsTold == \A a \in DOMAIN reads.slots : SlotFrom(reads.slots[a], a)
GeckoTold == \A a \in DOMAIN reads.gecko : GeckoFrom(reads.gecko[a], a)
ScriptsTold == \A a \in DOMAIN reads.scripts : reads.scripts[a] \in Scripts \cup {Fine}

Told ==
  /\ LatestTold /\ PausedTold /\ SeriesTold /\ BalanceTold /\ SlotsTold
  /\ GeckoTold /\ ScriptsTold

LEMMA AlikeKept ==
  ASSUME UNCHANGED Lasting
  PROVE  /\ \A w : Alike(w) => Alike(w)'
         /\ UNCHANGED <<world.now, world.rounds, world.balance, world.beacon>>
BY DEF Alike, Lasting

(* Each reading stays as true as it was.                                    *)
LEMMA FromKept ==
  ASSUME UNCHANGED Lasting, UNCHANGED <<u, using>>, NEW r, NEW a
  PROVE  /\ LatestFrom(r, a) => LatestFrom(r, a)'
         /\ PausedFrom(r, a) => PausedFrom(r, a)'
         /\ SeriesFrom(r, a) => SeriesFrom(r, a)'
         /\ BalanceFrom(r, a) => BalanceFrom(r, a)'
         /\ SlotFrom(r, a) => SlotFrom(r, a)'
         /\ GeckoFrom(r, a) => GeckoFrom(r, a)'
<1>1. /\ \A w : Alike(w) => Alike(w)'
      /\ UNCHANGED <<world.balance, world.beacon>>
  BY AlikeKept
<1>2. UniverseTyped => UniverseTyped'
  BY DEF UniverseTyped
<1> QED BY <1>1, <1>2 DEF LatestFrom, PausedFrom, SeriesFrom, BalanceFrom, SlotFrom, GeckoFrom

LEMMA InitTold == Init => Told
BY DEF Init, NoReads, Told, LatestTold, PausedTold, SeriesTold, BalanceTold,
       SlotsTold, GeckoTold, ScriptsTold

(* A field that was not read says what it said.                             *)
LEMMA FieldKept ==
  ASSUME UNCHANGED Lasting, UNCHANGED <<u, using>>
  PROVE  /\ reads'.latest = reads.latest /\ LatestTold => LatestTold'
         /\ reads'.unpaused = reads.unpaused /\ PausedTold => PausedTold'
         /\ reads'.series = reads.series /\ SeriesTold => SeriesTold'
         /\ reads'.balances = reads.balances /\ BalanceTold => BalanceTold'
         /\ reads'.slots = reads.slots /\ SlotsTold => SlotsTold'
         /\ reads'.gecko = reads.gecko /\ GeckoTold => GeckoTold'
         /\ reads'.scripts = reads.scripts /\ ScriptsTold => ScriptsTold'
<1>1. reads'.latest = reads.latest /\ LatestTold => LatestTold'
  BY FromKept DEF LatestTold
<1>2. reads'.unpaused = reads.unpaused /\ PausedTold => PausedTold'
  BY FromKept DEF PausedTold
<1>3. reads'.series = reads.series /\ SeriesTold => SeriesTold'
  BY FromKept DEF SeriesTold
<1>4. reads'.balances = reads.balances /\ BalanceTold => BalanceTold'
  BY FromKept DEF BalanceTold
<1>5. reads'.slots = reads.slots /\ SlotsTold => SlotsTold'
  BY FromKept DEF SlotsTold
<1>6. reads'.gecko = reads.gecko /\ GeckoTold => GeckoTold'
  BY FromKept DEF GeckoTold
<1>7. reads'.scripts = reads.scripts /\ ScriptsTold => ScriptsTold'
  BY DEF ScriptsTold
<1> QED BY <1>1, <1>2, <1>3, <1>4, <1>5, <1>6, <1>7

(* What each read adds.                                                     *)
LEMMA ToldLatest ==
  ASSUME ReadsShape, UniverseTyped, Pinned, world \in World, ReadLatest,
         UNCHANGED Lasting
  PROVE  LatestTold'
<1>1. PICK said \in Said : reads' = [reads EXCEPT !.latest =
           [a \in DOMAIN u.feeds |-> LatestRound(world, a, reads.block, said)]]
  BY DEF ReadLatest
<1>2. reads'.latest = [a \in DOMAIN u.feeds |-> LatestRound(world, a, world.now, said)]
  BY <1>1 DEF ReadsShape, Pinned
<1>3. PICK w \in World : w = world
  OBVIOUS
<1>4. UNCHANGED u
  BY DEF ReadLatest
<1>5. Alike(w)' /\ UniverseTyped'
  BY <1>3, <1>4 DEF Alike, Lasting, UniverseTyped
<1>6. ASSUME NEW a, NEW r, a \in DOMAIN reads'.latest, r = reads'.latest[a]
      PROVE  LatestFrom(r, a)'
  <2>1. a \in DOMAIN u'.feeds /\ r = LatestRound(w, a, w.now, said)
    BY <1>2, <1>3, <1>4, <1>6
  <2> QED BY <1>5, <2>1 DEF LatestFrom
<1> QED BY <1>6 DEF LatestTold

LEMMA ToldPaused ==
  ASSUME ReadsShape, Pinned, world \in World, ReadPaused, UNCHANGED Lasting
  PROVE  PausedTold'
<1>1. PICK said \in Said : reads' = [reads EXCEPT !.unpaused =
           [a \in Candidates(u) |-> Unpaused(world, a, reads.block, said)]]
  BY DEF ReadPaused
<1>2. reads'.unpaused = [a \in Candidates(u) |-> Unpaused(world, a, world.now, said)]
  BY <1>1 DEF ReadsShape, Pinned
<1>3. PICK w \in World : w = world
  OBVIOUS
<1>5. Alike(w)'
  BY <1>3 DEF Alike, Lasting
<1>6. ASSUME NEW a, NEW r, a \in DOMAIN reads'.unpaused, r = reads'.unpaused[a]
      PROVE  PausedFrom(r, a)'
  <2>1. r = Unpaused(w, a, w.now, said)
    BY <1>2, <1>3, <1>6
  <2> QED BY <1>5, <2>1 DEF PausedFrom
<1> QED BY <1>6 DEF PausedTold

LEMMA ToldSeries ==
  ASSUME ReadsShape, UniverseTyped, Pinned, world \in World, ReadSeries,
         UNCHANGED Lasting, SoFar(reads.order, DOMAIN reads.series), SeriesTold
  PROVE  SeriesTold'
<1>1. PICK b, said, broken : SeriesStep(b, said, broken)
  BY SeriesNews
<1> DEFINE s == SeriesOf(world, b, reads.block, u.feeds[b], using.cfg, said, broken)
<1>2. /\ b \in Candidates(u) /\ said \in Said /\ broken \in Nat
      /\ reads'.series = With(reads.series, b, s)
  BY <1>1 DEF SeriesStep
<1>3. PICK w \in World : w = world
  OBVIOUS
<1>4. UNCHANGED <<u, using>>
  BY DEF ReadSeries
<1>5. Alike(w)' /\ UniverseTyped'
  BY <1>3, <1>4 DEF Alike, Lasting, UniverseTyped
<1>6. s = SeriesOf(w, b, w.now, u'.feeds[b], using'.cfg, said, broken)
  BY <1>3, <1>4 DEF Pinned
<1>7. Candidates(u)' = Candidates(u)
  BY <1>4 DEF Candidates, Records
<1> HIDE DEF s
<1>8. ASSUME NEW a, NEW r, a \in DOMAIN reads'.series, r = reads'.series[a]
      PROVE  SeriesFrom(r, a)'
  <2>1. CASE a = b
    <3>1. r = s
      BY <1>2, <1>8, <2>1 DEF With
    <3>2. a \in Candidates(u)'
      BY <1>2, <1>7, <2>1
    <3>3. r = SeriesOf(w, a, w.now, u'.feeds[a], using'.cfg, said, broken)
      BY <1>6, <2>1, <3>1
    <3> QED BY <1>2, <1>5, <3>2, <3>3 DEF SeriesFrom
  <2>2. CASE a # b
    <3>1. a \in DOMAIN reads.series /\ r = reads.series[a]
      BY <1>2, <1>8, <2>2 DEF With
    <3>2. SeriesFrom(r, a)
      BY <3>1 DEF SeriesTold
    <3> QED BY <1>4, <3>2, FromKept
  <2> QED BY <2>1, <2>2
<1> QED BY <1>8 DEF SeriesTold

LEMMA ToldBalances ==
  ASSUME ReadsShape, ReadBalances, UNCHANGED Lasting
  PROVE  BalanceTold'
<1>1. PICK said : reads' = [reads EXCEPT !.balances =
                                  Balances(world, Tokens(u), Gas, said)]
  BY DEF ReadBalances
<1>2. reads'.balances = Balances(world, Tokens(u), Gas, said)
  BY <1>1 DEF ReadsShape
<1>3. world'.balance = world.balance
  BY DEF Lasting
<1>4. ASSUME NEW a, NEW r, a \in DOMAIN reads'.balances, r = reads'.balances[a]
      PROVE  BalanceFrom(r, a)'
  <2>1. \E s : r = Observe(s, world.balance[a])
    BY <1>2, <1>4 DEF Balances
  <2> QED BY <1>3, <2>1 DEF BalanceFrom
<1> QED BY <1>4 DEF BalanceTold

LEMMA ToldSlots ==
  ASSUME ReadsShape, ReadBeacons, UNCHANGED Lasting
  PROVE  SlotsTold' /\ (pc' = "gecko" => Disagree(reads'.slots) = {})
<1>1. PICK said : /\ reads' = [reads EXCEPT !.slots =
                                 BeaconSlots(world, DOMAIN said, said)]
                  /\ pc' = IF Disagree(BeaconSlots(world, DOMAIN said, said)) = {}
                           THEN "gecko" ELSE "stopped"
  BY DEF ReadBeacons, Build
<1>2. reads'.slots = BeaconSlots(world, DOMAIN said, said)
  BY <1>1 DEF ReadsShape
<1>3. world'.beacon = world.beacon
  BY DEF Lasting
<1>4. ASSUME NEW a, NEW r, a \in DOMAIN reads'.slots, r = reads'.slots[a]
      PROVE  SlotFrom(r, a)'
  <2>1. \E s : r = Observe(s, world.beacon[a])
    BY <1>2, <1>4 DEF BeaconSlots
  <2> QED BY <1>3, <2>1 DEF SlotFrom
<1>5. SlotsTold'
  BY <1>4 DEF SlotsTold
<1> QED BY <1>1, <1>2, <1>5

LEMMA ToldGecko ==
  ASSUME ReadsShape, world \in World, ReadGecko, UNCHANGED Lasting
  PROVE  GeckoTold'
<1>1. PICK said : reads' = [reads EXCEPT !.gecko =
                              Corroborations(world, reads.order, said)]
  BY DEF ReadGecko
<1>2. reads'.gecko = Corroborations(world, reads.order, said)
  BY <1>1 DEF ReadsShape
<1>3. PICK w \in World : w = world
  OBVIOUS
<1>5. Alike(w)'
  BY <1>3 DEF Alike, Lasting
<1>6. ASSUME NEW a, NEW r, a \in DOMAIN reads'.gecko, r = reads'.gecko[a]
      PROVE  GeckoFrom(r, a)'
  <2>1. \E s : r = Listing(w, a, s)
    BY <1>2, <1>3, <1>6 DEF Corroborations
  <2> QED BY <1>5, <2>1 DEF GeckoFrom
<1> QED BY <1>6 DEF GeckoTold

LEMMA ToldScripts ==
  ASSUME ReadsShape, UniverseTyped, Pinned, ReadQuote, ScriptsTold,
         SoFar(reads.order, DOMAIN reads.scripts)
  PROVE  ScriptsTold'
<1>1. PICK b, script : QuoteStep(b, script)
  BY QuoteNews
<1> QED BY <1>1 DEF QuoteStep, With, ScriptsTold

LEMMA CommandTold ==
  ASSUME Shape, Progress, Told, Command PROVE Told'
<1>1. UNCHANGED Lasting /\ world \in World /\ ReadsShape
  BY CommandKeeps DEF Shape
<1>2. CASE Loads
  <2>1. reads = NoReads /\ UNCHANGED reads
    BY <1>2, Steering DEF Shape, Unloaded, Loads, Begin, LoadRegistry, LoadDirectory, Load
  <2> QED BY <2>1 DEF NoReads, Told, LatestTold, PausedTold, SeriesTold, BalanceTold,
                      SlotsTold, GeckoTold, ScriptsTold
<1>3. CASE ~ Loads
  <2>1. UNCHANGED <<u, using>>
    BY <1>3, BuildFrame DEF Loads
  <2>2. pc \in PastPin => UniverseTyped /\ Pinned
    BY DEF Shape, Progress, Unloaded, PastPin, PastLatest, PastPaused, PastSeries, PastBalances,
         PastBeacons, PastGecko, PastQuotes, PastSeal, PastAssemble, PastWrite, PastReplay
  <2>3. {"latest", "paused", "series", "balances", "beacons", "gecko", "quotes"} \subseteq PastPin
    BY DEF PastPin, PastLatest, PastPaused, PastSeries, PastBalances,
         PastBeacons, PastGecko, PastQuotes
  <2>4. LatestTold' /\ PausedTold'
    BY <1>1, <2>1, <2>2, <2>3, Steering, ReadsFrame, FieldKept, ToldLatest, ToldPaused DEF Told
  <2>5. SeriesTold'
    BY <1>1, <2>1, <2>2, <2>3, Steering, ReadsFrame, FieldKept, ToldSeries DEF Told, Progress
  <2>6. BalanceTold' /\ SlotsTold' /\ GeckoTold'
    BY <1>1, <2>1, Steering, ReadsFrame, FieldKept, ToldBalances, ToldSlots, ToldGecko DEF Told
  <2>7. ScriptsTold'
    BY <1>1, <2>1, <2>2, <2>3, Steering, ReadsFrame, FieldKept, ToldScripts DEF Told, Progress
  <2> QED BY <2>4, <2>5, <2>6, <2>7 DEF Told
<1> QED BY <1>2, <1>3

LEMMA ToldAlways == Spec => []Told
<1>1. Shape /\ Progress /\ Told /\ [Next]_vars => Told'
  <2>1. ASSUME Shape, Told, (Owner \/ UNCHANGED vars) PROVE Told'
    <3>1. UNCHANGED Lasting /\ UNCHANGED <<u, using, reads>>
      BY <2>1, OwnerKeeps DEF Shape, build, vars, Lasting
    <3> QED BY <2>1, <3>1, FieldKept DEF Told
  <2> QED BY <2>1, CommandTold DEF Next
<1> QED BY ProgressAlways, InitTold, <1>1, PTL DEF Spec

-------------------------------------------------------------------------------
(* Types *)

(* The newest round a block's time has seen, or none.                       *)
Seen(w, a, b) == {n \in DOMAIN w.rounds[a] : w.rounds[a][n].at <= b}

LEMMA HeadRoundIs ==
  ASSUME NEW w \in World, NEW a \in Assets, NEW b
  PROVE  /\ HeadRound(w, a, b) \in {0} \cup Seen(w, a, b)
         /\ \A n \in Seen(w, a, b) : n <= HeadRound(w, a, b)
         /\ HeadRound(w, a, b) \in Nat
         /\ Seen(w, a, b) \subseteq 1..Len(w.rounds[a])
         /\ DOMAIN w.rounds[a] = 1..Len(w.rounds[a]) /\ Len(w.rounds[a]) \in Nat
<1> DEFINE S == {0} \cup Seen(w, a, b)
<1>1. w.rounds[a] \in Seq(Round)
  BY DEF World
<1>2. /\ DOMAIN w.rounds[a] = 1..Len(w.rounds[a]) /\ Len(w.rounds[a]) \in Nat
  BY <1>1
<1>3. Seen(w, a, b) \subseteq 1..Len(w.rounds[a])
  BY <1>2 DEF Seen
<1>4. S \in SUBSET Int /\ S # {} /\ Under(S, Len(w.rounds[a]))
  BY <1>2, <1>3 DEF Under
<1>5. Max(S) \in S /\ Under(S, Max(S))
  <2> HIDE DEF S
  <2> QED BY <1>2, <1>4, MaxOf
<1>6. HeadRound(w, a, b) = Max(S)
  BY DEF HeadRound, Seen
<1>7. \A n \in S : n <= Max(S)
  BY <1>5 DEF Under
<1>8. /\ HeadRound(w, a, b) \in {0} \cup Seen(w, a, b)
      /\ \A n \in Seen(w, a, b) : n <= HeadRound(w, a, b)
  BY <1>5, <1>6, <1>7
<1> HIDE DEF S
<1>9. HeadRound(w, a, b) \in Nat
  BY <1>2, <1>3, <1>8
<1> QED BY <1>2, <1>3, <1>8, <1>9

LEMMA LatestRoundIs ==
  ASSUME NEW w \in World, NEW a \in Assets, NEW b, NEW said,
         LatestRound(w, a, b, said).read = "ok"
  PROVE  /\ LatestRound(w, a, b, said) = Ok(HeadRound(w, a, b))
         /\ HeadRound(w, a, b) \in Seen(w, a, b)
         /\ Sound(w.rounds[a][HeadRound(w, a, b)])
<1> DEFINE n == HeadRound(w, a, b)
<1>1. \A s : Failed(s).read # "ok"
  BY DEF Failed
<1>2. said = "answered" /\ n # 0 /\ Sound(w.rounds[a][n]) /\ LatestRound(w, a, b, said) = Ok(n)
  BY <1>1 DEF LatestRound
<1>3. n \in {0} \cup Seen(w, a, b)
  BY HeadRoundIs
<1> QED BY <1>2, <1>3

LEMMA AlikeNow ==
  ASSUME NEW w, Alike(w) PROVE w.now = world.now /\ w.rounds = world.rounds
                               /\ w.venue = world.venue /\ w.balance = world.balance
BY DEF Alike, Lasting

LEMMA FeedAssets ==
  ASSUME UniverseTyped PROVE DOMAIN u.feeds \subseteq Assets /\ Candidates(u) \subseteq Assets
BY ListedStocks DEF UniverseTyped, Assets, Candidates

(* What was read of a feed is its newest round at the block, and sound.     *)
LatestRead(r, a) ==
  r.read = "ok" =>
    /\ r.value = HeadRound(world, a, world.now)
    /\ r.value \in Seen(world, a, world.now)
    /\ Sound(world.rounds[a][r.value])

LEMMA LatestIs ==
  ASSUME UniverseTyped, NEW r, NEW a, LatestFrom(r, a) PROVE LatestRead(r, a)
<1>1. PICK w \in World, said \in Said : Alike(w) /\ r = LatestRound(w, a, w.now, said)
  BY DEF LatestFrom
<1>2. a \in Assets
  BY FeedAssets DEF LatestFrom
<1>3. HeadRound(w, a, w.now) = HeadRound(world, a, world.now)
  BY <1>1, AlikeNow DEF HeadRound
<1>4. Seen(w, a, w.now) = Seen(world, a, world.now)
  BY <1>1, AlikeNow DEF Seen
<1>5. w.rounds[a] = world.rounds[a]
  BY <1>1, AlikeNow
<1> QED BY <1>1, <1>2, <1>3, <1>4, <1>5, LatestRoundIs DEF LatestRead, Ok

(* A mark that stands rests on every rule.                                  *)
LEMMA MarkStands ==
  ASSUME NEW asset, NEW reading, NEW unpaused, NEW fresh,
         MarkVerdict(asset, reading, unpaused, fresh) = "true"
  PROVE  /\ MarkRule(asset, reading, unpaused, fresh) = "none"
         /\ asset.markability = "true" /\ reading.read = "ok" /\ fresh = "true"
         /\ asset.kind = "stock" => unpaused = "true"
BY DEF MarkVerdict, MarkRule

(* Then it has the price of the newest round, and a positive one.           *)
LEMMA MarkPriced ==
  ASSUME NEW w \in World, Alike(w), NEW asset, NEW reading, NEW unpaused, NEW fresh,
         MarkOf(w, asset, reading, unpaused, fresh).verdict = "true",
         LatestRead(reading, asset.id), asset.id \in Assets
  PROVE  /\ MarkOf(w, asset, reading, unpaused, fresh).price
              = world.rounds[asset.id][HeadRound(world, asset.id, world.now)].answer
         /\ MarkOf(w, asset, reading, unpaused, fresh).price \in Nat \ {0}
<1> DEFINE m == MarkOf(w, asset, reading, unpaused, fresh)
           n == HeadRound(world, asset.id, world.now)
<1>1. MarkVerdict(asset, reading, unpaused, fresh) = "true"
  BY DEF MarkOf
<1>2. MarkRule(asset, reading, unpaused, fresh) = "none" /\ reading.read = "ok"
  BY <1>1, MarkStands
<1>3. m.price = w.rounds[asset.id][reading.value].answer
  BY <1>2 DEF MarkOf
<1>4. reading.value = n /\ w.rounds = world.rounds /\ Sound(world.rounds[asset.id][n])
      /\ n \in Seen(world, asset.id, world.now)
  BY <1>2, AlikeNow DEF LatestRead
<1>5. world.rounds[asset.id] \in Seq(Round) /\ n \in DOMAIN world.rounds[asset.id]
  BY <1>4 DEF World, Seen
<1>6. world.rounds[asset.id][n] \in Round
  BY <1>5
<1>7. world.rounds[asset.id][n].answer \in Nat \ {0}
  BY <1>4, <1>6 DEF Round, Sound
<1> QED BY <1>3, <1>4, <1>7

LEMMA SeriesVerdict ==
  ASSUME NEW w, NEW a, NEW b, NEW feed, NEW c, NEW said, NEW broken
  PROVE  SeriesOf(w, a, b, feed, c, said, broken).coverage \in Verdict
<1>1. \A rs, h, n, k : Link(rs, h, n, k) \in Verdict
  BY DEF Link, Verdict, Judged
<1>2. \A rs, h, o, s, k : Coverage(rs, h, o, s, k) \in Verdict
  BY <1>1 DEF Coverage, Verdict
<1>3. \A r : NoSeries(r).coverage \in Verdict
  BY DEF NoSeries, Verdict
<1>4. ASSUME NEW s PROVE /\ PriceSeries(w, a, b, s, said, broken).coverage \in Verdict
                         /\ PriceSeries(w, a, b, s, said, broken) =
                              [read |-> PriceSeries(w, a, b, s, said, broken).read,
                               points |-> PriceSeries(w, a, b, s, said, broken).points,
                               coverage |-> PriceSeries(w, a, b, s, said, broken).coverage]
  BY <1>2, <1>3 DEF PriceSeries, NoSeries
<1>5. ASSUME NEW k PROVE DailyCloses(w, a, b, k, said, broken).coverage \in Verdict
  <2> DEFINE from == Max({0, Min(OpenCuts(b, k))})
             full == PriceSeries(w, a, b, from, said, broken)
  <2>1. \E points : DailyCloses(w, a, b, k, said, broken) \in
                      {NoSeries("raised"), full, [full EXCEPT !.points = points]}
    BY DEF DailyCloses
  <2>2. full.coverage \in Verdict /\ full = [read |-> full.read, points |-> full.points,
                                             coverage |-> full.coverage]
    BY <1>4
  <2> HIDE DEF full, from
  <2>3. \A points : [full EXCEPT !.points = points].coverage = full.coverage
    BY <2>2
  <2> QED BY <1>3, <2>1, <2>2, <2>3
<1> QED BY <1>4, <1>5 DEF SeriesOf

(* The parts of an entry.                                                   *)
LEMMA EntryParts ==
  ASSUME NEW w, NEW v, NEW c, NEW r, NEW replayed, NEW a \in Candidates(v)
  PROVE  /\ EntriesOf(w, v, c, r, replayed)[a].status
              = Judge(v, StockInputs(w, v, c, r, a, replayed))
         /\ EntriesOf(w, v, c, r, replayed)[a].mark
              = MarkOf(w, Stock(v, a, BeaconOf(r, a)), r.latest[a], r.unpaused[a],
                       FreshOf(w, v, c, r, a))
         /\ DOMAIN EntriesOf(w, v, c, r, replayed) = Candidates(v)
<1> DEFINE s == StockInputs(w, v, c, r, a, replayed)
<1>1. s.mark = MarkOf(w, Stock(v, a, BeaconOf(r, a)), r.latest[a], r.unpaused[a],
                      FreshOf(w, v, c, r, a))
  BY DEF StockInputs
<1>2. EntriesOf(w, v, c, r, replayed)[a] = Entry(v, s)
  BY DEF EntriesOf
<1> HIDE DEF s
<1>3. Entry(v, s).status = Judge(v, s) /\ Entry(v, s).mark = s.mark
  BY DEF Entry
<1>4. DOMAIN EntriesOf(w, v, c, r, replayed) = Candidates(v)
  BY DEF EntriesOf
<1> QED BY <1>1, <1>2, <1>3, <1>4 DEF s

LEMMA JudgeStatus ==
  ASSUME NEW v, NEW s PROVE Judge(v, s).value \in Status
<1>1. \A r : AdmissionStatus(r) \in Status /\ CrossStatus(r) \in Status
  BY DEF AdmissionStatus, CrossStatus, Status
<1> QED BY <1>1 DEF Judge, Status

LEMMA Products == \A m, n \in Nat : m * n \in Nat
OBVIOUS

(* A value is a balance that was read, at a mark that stands.               *)
LEMMA ValueTyped ==
  ASSUME NEW said, NEW n \in Nat, NEW mark, mark.verdict = "true" => mark.price \in Nat
  PROVE  ValueOf(Observe(said, n), mark) \in Nat \cup {None}
<1>1. CASE said = "answered" /\ mark.verdict = "true"
  <2>1. Observe(said, n) = [read |-> "ok", value |-> n]
    BY <1>1 DEF Observe, Ok
  <2>2. ValueOf(Observe(said, n), mark) = n * mark.price
    BY <1>1, <2>1 DEF ValueOf
  <2> QED BY <1>1, <2>2, Products
<1>2. CASE ~ (said = "answered" /\ mark.verdict = "true")
  <2>1. said # "answered" => Observe(said, n).read # "ok"
    BY DEF Observe, Failed
  <2> QED BY <1>2, <2>1 DEF ValueOf
<1> QED BY <1>1, <1>2

LEMMA RowParts ==
  ASSUME NEW balance, NEW mark, NEW status, NEW a
  PROVE  Row(balance, mark, status, a).value = ValueOf(balance, mark)
         /\ Row(balance, mark, status, a).status = status
BY DEF Row

LEMMA BalanceNumber ==
  ASSUME world \in World, UniverseTyped, Told, GotBalances
  PROVE  \A a \in DOMAIN reads.balances :
           \E said : \E n \in Nat : reads.balances[a] = Observe(said, n)
<1>1. Tokens(u) \subseteq Assets
  BY ListedStocks DEF UniverseTyped, Tokens, Records, Assets, Listed
<1>2. ASSUME NEW a \in DOMAIN reads.balances
      PROVE  \E said : \E n \in Nat : reads.balances[a] = Observe(said, n)
  <2>1. PICK said : reads.balances[a] = Observe(said, world.balance[a])
    BY DEF Told, BalanceTold, BalanceFrom
  <2>2. world.balance[a] \in Nat
    BY <1>1 DEF GotBalances, World
  <2> QED BY <2>1, <2>2
<1> QED BY <1>2

LEMMA RowTyped ==
  ASSUME NEW balance, \E said : \E n \in Nat : balance = Observe(said, n),
         NEW mark, mark.verdict = "true" => mark.price \in Nat,
         NEW status, status.value \in Status, NEW a
  PROVE  /\ Row(balance, mark, status, a).status.value \in Status
         /\ Row(balance, mark, status, a).value \in Nat \cup {None}
BY ValueTyped, RowParts

LEMMA HoldingTyped ==
  ASSUME world \in World, Everything, Told, NEW w \in World, Alike(w), NEW E,
         E = EntriesOf(w, u, using.cfg, reads, Live),
         NEW a \in DOMAIN Holdings(w, u, using.cfg, reads, E)
  PROVE  /\ Holdings(w, u, using.cfg, reads, E)[a].status.value \in Status
         /\ Holdings(w, u, using.cfg, reads, E)[a].value \in Nat \cup {None}
<1> DEFINE h == Holdings(w, u, using.cfg, reads, E)[a]
           b == reads.balances[a]
<1>1. a \in Marked \cup Held(reads) /\ UniverseTyped
  BY DEF Holdings, Everything
<1>2. \E said : \E n \in Nat : b = Observe(said, n)
  <2>1. a \in DOMAIN reads.balances
    BY <1>1 DEF Held, Everything, GotBalances, Tokens
  <2> QED BY <2>1, BalanceNumber DEF Everything
<1>3. a \in DOMAIN u.feeds => LatestRead(reads.latest[a], a) /\ a \in Assets
  BY <1>1, LatestIs, FeedAssets DEF Everything, GotLatest, Told, LatestTold
<1>4. CASE a \in Marked
  <2> DEFINE m == MarkOf(w, CashOrGas(u, a), reads.latest[a], "unread",
                         FreshOf(w, u, using.cfg, reads, a))
             s == [value |-> "not_a_stock", rule |-> "none"]
  <2>1. h = Row(b, m, s, a)
    BY <1>4 DEF Holdings, MarkedRow
  <2>2. CashOrGas(u, a).id = a /\ a \in DOMAIN u.feeds
    BY <1>1, <1>4 DEF CashOrGas, UniverseTyped
  <2>3. m.verdict = "true" => m.price \in Nat
    BY <1>3, <2>2, MarkPriced
  <2>4. s.value \in Status
    BY DEF Status
  <2> HIDE DEF m, s
  <2> QED BY <1>2, <2>1, <2>3, <2>4, RowTyped
<1>5. CASE a \notin Marked /\ a \in Candidates(u)
  <2> DEFINE m == MarkOf(w, Stock(u, a, BeaconOf(reads, a)), reads.latest[a],
                         reads.unpaused[a], FreshOf(w, u, using.cfg, reads, a))
             s == Judge(u, StockInputs(w, u, using.cfg, reads, a, Live))
  <2>1. E[a].mark = m /\ E[a].status = s /\ a \in DOMAIN E
    BY <1>5, EntryParts
  <2>2. h = Row(b, m, s, a)
    BY <1>1, <1>5, <2>1 DEF Holdings
  <2>3. Stock(u, a, BeaconOf(reads, a)).id = a /\ a \in DOMAIN u.feeds
    BY <1>5 DEF Stock, Candidates
  <2>4. m.verdict = "true" => m.price \in Nat
    BY <1>3, <2>3, MarkPriced
  <2>5. s.value \in Status
    BY JudgeStatus
  <2> HIDE DEF m, s
  <2> QED BY <1>2, <2>2, <2>4, <2>5, RowTyped
<1>6. CASE a \notin Marked /\ a \notin Candidates(u)
  <2> DEFINE asset == HeldAsset(u, a, BeaconOf(reads, a))
             rule == AdmissionRule(u, asset)
             m == [rule |-> "markability", verdict |-> asset.markability, price |-> None]
             s == [value |-> IF rule = "none" THEN "unmarkable"
                             ELSE AdmissionStatus(rule), rule |-> rule]
  <2>1. a \notin DOMAIN E
    BY <1>6 DEF EntriesOf
  <2>2. h = OutsideRow(w, u, reads, a)
    BY <1>1, <1>6, <2>1 DEF Holdings
  <2>3. h = Row(b, m, s, a)
    BY <2>2 DEF OutsideRow
  <2>4. asset.markability = "false"
    BY <1>6 DEF HeldAsset, Stock, Markability, Judged, Candidates
  <2>5. m.verdict # "true"
    BY <2>4
  <2>6. s.value \in Status
    BY DEF AdmissionStatus, Status
  <2> HIDE DEF m, s
  <2> QED BY <1>2, <2>3, <2>5, <2>6, RowTyped
<1> QED BY <1>4, <1>5, <1>6

LEMMA ShapeTypes ==
  ASSUME Shape, Progress, Assembled, Told PROVE TypeOK
<1>1. pins \in Pins
  BY DEF Shape, FilesTyped
<1>2. \A h \in DOMAIN cfg.sessions : cfg.sessions[h] \in Closure
  <2>1. NoClosure \in Closure
    BY SessionsAssumption DEF NoClosure, Closure
  <2> QED BY <2>1 DEF Shape, FilesTyped, Config, Spans
<1>3. ASSUME NEW a \in DOMAIN reads.latest, reads.latest[a].read = "ok"
      PROVE  reads.latest[a].value \in DOMAIN world.rounds[a]
  <2>1. LatestFrom(reads.latest[a], a)
    BY DEF Told, LatestTold
  <2>2. UniverseTyped
    BY <2>1 DEF LatestFrom
  <2> QED BY <1>3, <2>1, <2>2, LatestIs DEF LatestRead, Seen
<1>4. \A a \in DOMAIN reads.series : reads.series[a].coverage \in Verdict
  BY SeriesVerdict DEF Told, SeriesTold, SeriesFrom
<1>5. ASSUME doc # Nothing
      PROVE  /\ DOMAIN doc.entries \subseteq DOMAIN Records(u)
             /\ \A a \in DOMAIN doc.entries : doc.entries[a].status.value \in Status
             /\ \A a \in DOMAIN doc.holdings :
                  /\ doc.holdings[a].status.value \in Status
                  /\ doc.holdings[a].value \in Nat \cup {None}
  <2>1. PICK w \in World : Alike(w) /\ doc = Document(w, u, using.cfg, reads, doc.named, Live)
    BY <1>5 DEF Assembled
  <2> DEFINE E == EntriesOf(w, u, using.cfg, reads, Live)
  <2>2. doc.entries = E /\ doc.holdings = Holdings(w, u, using.cfg, reads, E)
    BY <2>1, DocumentEntries, DocumentHoldings
  <2>3. DOMAIN E = Candidates(u)
    BY DEF EntriesOf
  <2>4. \A a \in DOMAIN E : E[a].status.value \in Status
    BY <2>3, EntryParts, JudgeStatus
  <2>5. \A a \in DOMAIN Holdings(w, u, using.cfg, reads, E) :
          /\ Holdings(w, u, using.cfg, reads, E)[a].status.value \in Status
          /\ Holdings(w, u, using.cfg, reads, E)[a].value \in Nat \cup {None}
    <3>1. world \in World /\ Everything
      BY <1>5 DEF Shape, Progress
    <3> QED BY <2>1, <3>1, HoldingTyped
  <2> HIDE DEF E
  <2> QED BY <2>2, <2>3, <2>4, <2>5 DEF Candidates
<1> QED BY <1>1, <1>2, <1>3, <1>4, <1>5 DEF TypeOK

(* The configuration keeps its types under every edit and refresh, what was *)
(* read of a feed is a round of that feed, and every candidate and holding  *)
(* has a status, and a value that is a number or none at all.               *)
THEOREM TypesTheorem == Spec => []TypeOK
<1>1. Shape /\ Progress /\ Assembled /\ Told => TypeOK
  BY ShapeTypes
<1> QED BY ProgressAlways, AssembledAlways, ToldAlways, <1>1, PTL

-------------------------------------------------------------------------------
(* A replay makes the same tries *)

Replayed == TRUE

LEMMA DivMonotone ==
  ASSUME NEW n \in Nat \ {0}, NEW x \in Int, NEW y \in Int, x <= y
  PROVE  x \div n \in Int /\ y \div n \in Int /\ x \div n <= y \div n
<1> DEFINE p == x \div n
           q == y \div n
<1>1. /\ p \in Int /\ x = n * p + (x % n) /\ x % n \in 0..(n - 1)
      /\ q \in Int /\ y = n * q + (y % n) /\ y % n \in 0..(n - 1)
  BY Remainders
<1>2. \A i, j \in Int : i >= j + 1 => n * i >= n * j + n
  OBVIOUS
<1>3. \A i \in Int : n * i \in Int
  OBVIOUS
<1> HIDE DEF p, q
<1>4. ~ (p >= q + 1)
  <2>1. ASSUME p >= q + 1 PROVE FALSE
    <3>1. n * p >= n * q + n
      BY <1>1, <1>2, <2>1
    <3>2. n * p \in Int /\ n * q \in Int /\ x % n >= 0 /\ y % n <= n - 1
          /\ x % n \in Int /\ y % n \in Int
      BY <1>1, <1>3
    <3> DEFINE np == n * p
               nq == n * q
               rx == x % n
               ry == y % n
    <3>3. x = np + rx /\ y = nq + ry
      BY <1>1
    <3> HIDE DEF np, nq, rx, ry
    <3> QED BY <3>1, <3>2, <3>3 DEF np, nq, rx, ry
  <2> QED BY <2>1
<1>5. p <= q
  BY <1>1, <1>4
<1> QED BY <1>1, <1>5 DEF p, q

LEMMA EarlierPass ==
  ASSUME NEW i \in Nat, NEW j \in Nat, PassOf(j) < PassOf(i) PROVE j < i
<1>1. Endpoints \in Nat \ {0}
  BY ClientAssumption
<1>2. ASSUME i <= j PROVE FALSE
  <2>1. /\ (i - 1) \div Endpoints <= (j - 1) \div Endpoints
        /\ (i - 1) \div Endpoints \in Int /\ (j - 1) \div Endpoints \in Int
    BY <1>1, <1>2, DivMonotone
  <2> QED BY <2>1 DEF PassOf
<1> QED BY <1>2

(* A replay is never told to wait longer, so it makes every try again.      *)
LEMMA TriesKept ==
  ASSUME NEW script PROVE Tries(script, Live) \subseteq Tries(script, Replayed)
<1>1. \A o : TooLong(o, Replayed) => TooLong(o, Live)
  BY DEF TooLong, Live, Replayed
<1>2. ASSUME NEW i \in Tries(script, Live) PROVE i \in Tries(script, Replayed)
  <2>1. /\ i \in DOMAIN script /\ \A j \in 1..(i - 1) : ~ Taken(script[j])
        /\ Begun(script, PassOf(i), Live)
    BY DEF Tries
  <2>2. Begun(script, PassOf(i), Replayed)
    BY <1>1, <2>1 DEF Begun
  <2> QED BY <2>1, <2>2 DEF Tries
<1> QED BY <1>2

(* Without a date among the tries made, it makes no other.                  *)
LEMMA TriesAgain ==
  ASSUME NEW script, DOMAIN script = 1..(Attempts * Endpoints),
         \A i \in Tries(script, Live) : script[i].hint # "dated"
  PROVE  Tries(script, Replayed) = Tries(script, Live)
<1>2. \A o : TooLong(o, Live) /\ o.hint # "dated" => TooLong(o, Replayed)
  BY DEF TooLong, Live, Replayed
<1>3. Attempts * Endpoints \in Nat /\ DOMAIN script \subseteq Nat
  BY ClientAssumption, Products
<1>5. ASSUME NEW i \in Tries(script, Replayed), i \notin Tries(script, Live) PROVE FALSE
  <2>1. /\ i \in DOMAIN script /\ \A j \in 1..(i - 1) : ~ Taken(script[j])
        /\ Begun(script, PassOf(i), Replayed)
    BY DEF Tries
  <2>2. ~ Begun(script, PassOf(i), Live)
    BY <1>5, <2>1 DEF Tries
  <2> DEFINE S == {j \in DOMAIN script : PassOf(j) < PassOf(i) /\ TooLong(script[j], Live)}
  <2>3. S # {} /\ S \in SUBSET Nat
    BY <1>3, <2>2 DEF Begun
  <2>4. PICK j \in S : \A k \in S : j <= k
    BY <2>3, LeastNumber
  <2>5. i \in Nat /\ j \in Nat /\ j < i
    BY <1>3, <2>1, <2>4, EarlierPass
  <2>6. ASSUME NEW k \in DOMAIN script, PassOf(k) < PassOf(j) PROVE ~ TooLong(script[k], Live)
    <3>1. k < j /\ k \in Nat
      BY <1>3, <2>5, <2>6, EarlierPass
    <3>2. PassOf(k) < PassOf(i)
      <4>1. \A m \in Nat : PassOf(m) \in Int
        <5>1. ASSUME NEW m \in Nat PROVE PassOf(m) \in Int
          <6>1. (m - 1) \div Endpoints \in Int
            BY ClientAssumption, Remainders
          <6> QED BY <6>1 DEF PassOf
        <5> QED BY <5>1
      <4> QED BY <2>4, <2>5, <2>6, <3>1, <4>1
    <3>3. k \notin S
      <4> HIDE DEF S
      <4> QED BY <2>4, <2>5, <3>1
    <3> QED BY <3>2, <3>3
  <2>7. j \in Tries(script, Live)
    <3>1. Begun(script, PassOf(j), Live)
      BY <2>6 DEF Begun
    <3>2. \A k \in 1..(j - 1) : k \in 1..(i - 1)
      BY <2>5
    <3> QED BY <2>1, <2>4, <3>1, <3>2 DEF Tries
  <2>8. TooLong(script[j], Replayed)
    BY <1>2, <2>4, <2>7
  <2> QED BY <2>1, <2>4, <2>8 DEF Begun
<1> QED BY <1>5, TriesKept

(* A sequence, whatever of.                                                 *)
Ordered(order) == Len(order) \in Nat /\ DOMAIN order = 1..Len(order)

(* A replay makes every request's tries again, and no other.                *)
SameTries(order, scripts) ==
  \A k \in DOMAIN order :
    Tries(scripts[order[k]], Replayed) = Tries(scripts[order[k]], Live)

(* And no reply came after its request was given up.                        *)
Timely(order, scripts) ==
  /\ SameTries(order, scripts)
  /\ \A k \in DOMAIN order : \A i \in Tries(scripts[order[k]], Live) :
       scripts[order[k]][i].late = "never"

(* Then no reply lands late, live or replayed.                              *)
LEMMA NothingLands ==
  ASSUME NEW order, Ordered(order),
         NEW scripts, Timely(order, scripts), NEW k \in DOMAIN order
  PROVE  /\ Landed(order, scripts, k, Live) = {}
         /\ Landed(order, scripts, k, Replayed) = {}
<1>1. ASSUME NEW x \in Hangs(order, scripts, Live)
      PROVE  scripts[order[x[1]]][x[2]].late = "never"
  <2>1. x[1] \in DOMAIN order /\ x[2] \in Tries(scripts[order[x[1]]], Live)
    BY DEF Hangs, Ordered
  <2> QED BY <2>1 DEF Timely
<1>2. ASSUME NEW x \in Hangs(order, scripts, Replayed)
      PROVE  scripts[order[x[1]]][x[2]].late = "never"
  <2>1. x[1] \in DOMAIN order /\ x[2] \in Tries(scripts[order[x[1]]], Replayed)
    BY DEF Hangs, Ordered
  <2>2. x[2] \in Tries(scripts[order[x[1]]], Live)
    BY <2>1 DEF Timely, SameTries
  <2> QED BY <2>1, <2>2 DEF Timely
<1>3. k # 0
  BY DEF Ordered
<1>4. \A x \in Hangs(order, scripts, Live) : LandsLive(order, scripts, x) = 0
  BY <1>1 DEF LandsLive
<1>5. \A x \in Hangs(order, scripts, Replayed) : LandsReplayed(order, scripts, x) = 0
  BY <1>2 DEF LandsReplayed
<1>6. Landed(order, scripts, k, Live) = {}
  BY <1>3, <1>4 DEF Landed, Live
<1>7. Landed(order, scripts, k, Replayed) = {}
  BY <1>3, <1>5 DEF Landed, Replayed
<1> QED BY <1>6, <1>7

LEMMA QuoteAgain ==
  ASSUME NEW order, Ordered(order),
         NEW scripts, Timely(order, scripts), NEW k \in DOMAIN order,
         NEW w, NEW v, w.venue = v.venue, NEW size
  PROVE  Quote(w, order, scripts, k, size, Live) = Quote(v, order, scripts, k, size, Replayed)
<1>1. Tries(scripts[order[k]], Replayed) = Tries(scripts[order[k]], Live)
  BY DEF Timely, SameTries
<1>2. Served(scripts[order[k]], Live) = Served(scripts[order[k]], Replayed)
  BY <1>1 DEF Served
<1>3. Refusals(scripts[order[k]], Live) = Refusals(scripts[order[k]], Replayed)
  BY <1>1 DEF Refusals
<1>4. Landed(order, scripts, k, Live) = Landed(order, scripts, k, Replayed)
  BY NothingLands
<1>5. LastRefusal(order, scripts, k, Live) = LastRefusal(order, scripts, k, Replayed)
  BY <1>3, <1>4 DEF LastRefusal
<1> QED BY <1>2, <1>5 DEF Quote

(* Whatever came late, a quote that was read is the same, and one that      *)
(* failed fails.                                                            *)
LEMMA QuoteAlike ==
  ASSUME NEW order, NEW scripts, SameTries(order, scripts), NEW k \in DOMAIN order,
         NEW w, NEW v, w.venue = v.venue, NEW size, NEW p, NEW q,
         p = Quote(w, order, scripts, k, size, Live),
         q = Quote(v, order, scripts, k, size, Replayed)
  PROVE  p = q \/ (p.read # "ok" /\ q.read # "ok")
<1>1. Tries(scripts[order[k]], Replayed) = Tries(scripts[order[k]], Live)
  BY DEF SameTries
<1>2. Served(scripts[order[k]], Live) = Served(scripts[order[k]], Replayed)
  BY <1>1 DEF Served
<1> QED BY <1>2 DEF Quote

-------------------------------------------------------------------------------
(* A document depends on the feeds and the venue alone *)

LEMMA SameFresh ==
  ASSUME NEW w, NEW v, w.rounds = v.rounds, NEW x, NEW c, NEW r, NEW a
  PROVE  FreshOf(w, x, c, r, a) = FreshOf(v, x, c, r, a)
<1>1. \A f, reading, b, feed : Freshness(w, f, reading, b, feed, c)
                                 = Freshness(v, f, reading, b, feed, c)
  BY DEF Freshness
<1>2. \A f, s, b, feed : SeriesFreshness(w, f, s, b, feed, c)
                           = SeriesFreshness(v, f, s, b, feed, c)
  BY <1>1 DEF SeriesFreshness
<1> QED BY <1>1, <1>2 DEF FreshOf

LEMMA SameMark ==
  ASSUME NEW w, NEW v, w.rounds = v.rounds, NEW asset, NEW reading, NEW unpaused, NEW fresh
  PROVE  MarkOf(w, asset, reading, unpaused, fresh) = MarkOf(v, asset, reading, unpaused, fresh)
BY DEF MarkOf

LEMMA SameSize ==
  ASSUME NEW w, NEW v, w.rounds = v.rounds, NEW x, NEW c, NEW r
  PROVE  QuoteSize(w, x, c, r) = QuoteSize(v, x, c, r)
<1>1. \A f, reading, b, feed : Freshness(w, f, reading, b, feed, c)
                                 = Freshness(v, f, reading, b, feed, c)
  BY DEF Freshness
<1>2. CashMark(w, x, c, r) = CashMark(v, x, c, r)
  BY <1>1, SameMark DEF CashMark
<1> QED BY <1>2 DEF QuoteSize

LEMMA SameInputs ==
  ASSUME NEW w, NEW v, w.rounds = v.rounds, w.venue = v.venue, NEW x, NEW c, NEW r,
         Ordered(r.order), Timely(r.order, r.scripts), NEW a, \E k \in DOMAIN r.order : r.order[k] = a
  PROVE  StockInputs(w, x, c, r, a, Live) = StockInputs(v, x, c, r, a, Replayed)
<1> DEFINE k == CHOOSE i \in DOMAIN r.order : r.order[i] = a
           size == QuoteSize(w, x, c, r)
<1>1. k \in DOMAIN r.order
  OBVIOUS
<1> HIDE DEF k
<1>2. Quote(w, r.order, r.scripts, k, size, Live) = Quote(v, r.order, r.scripts, k, size, Replayed)
  <2> HIDE DEF size
  <2> QED BY <1>1, QuoteAgain
<1>3. size = QuoteSize(v, x, c, r)
  BY SameSize
<1>4. FreshOf(w, x, c, r, a) = FreshOf(v, x, c, r, a)
  BY SameFresh
<1>5. \A asset, reading, unpaused, fresh :
        MarkOf(w, asset, reading, unpaused, fresh) = MarkOf(v, asset, reading, unpaused, fresh)
  BY SameMark
<1> HIDE DEF size
<1> QED BY <1>2, <1>3, <1>4, <1>5 DEF StockInputs, k, size

LEMMA SameHoldings ==
  ASSUME NEW w, NEW v, w.rounds = v.rounds, NEW x, NEW c, NEW r, NEW E
  PROVE  Holdings(w, x, c, r, E) = Holdings(v, x, c, r, E)
<1>1. \A a : MarkedRow(w, x, c, r, a) = MarkedRow(v, x, c, r, a)
  <2>1. ASSUME NEW a PROVE MarkedRow(w, x, c, r, a) = MarkedRow(v, x, c, r, a)
    <3>1. FreshOf(w, x, c, r, a) = FreshOf(v, x, c, r, a)
      BY SameFresh
    <3>2. \A asset, reading, unpaused, fresh :
            MarkOf(w, asset, reading, unpaused, fresh) = MarkOf(v, asset, reading, unpaused, fresh)
      BY SameMark
    <3> QED BY <3>1, <3>2 DEF MarkedRow
  <2> QED BY <2>1
<1>2. \A a : OutsideRow(w, x, r, a) = OutsideRow(v, x, r, a)
  BY DEF OutsideRow
<1> QED BY <1>1, <1>2 DEF Holdings

LEMMA DocumentAgain ==
  ASSUME NEW w, NEW v, w.rounds = v.rounds, w.venue = v.venue, NEW x, NEW c, NEW r,
         Ordered(r.order), Timely(r.order, r.scripts), NEW named,
         \A a \in Candidates(x) : \E k \in DOMAIN r.order : r.order[k] = a
  PROVE  Document(w, x, c, r, named, Live) = Document(v, x, c, r, named, Replayed)
<1>1. ASSUME NEW a \in Candidates(x)
      PROVE  StockInputs(w, x, c, r, a, Live) = StockInputs(v, x, c, r, a, Replayed)
  BY SameInputs
<1>2. EntriesOf(w, x, c, r, Live) = EntriesOf(v, x, c, r, Replayed)
  BY <1>1 DEF EntriesOf
<1>3. \A E : Holdings(w, x, c, r, E) = Holdings(v, x, c, r, E)
  BY SameHoldings
<1> QED BY <1>2, <1>3, DocumentIs

(* What a stock is judged on: the same, or two quotes that both failed.     *)
SameBarQuote(s, t) ==
  /\ s.asset = t.asset /\ s.mark = t.mark /\ s.series = t.series
  /\ s.corroboration = t.corroboration /\ s.closed = t.closed
  /\ \/ /\ s.quote = t.quote /\ s.tradeRule = t.tradeRule
        /\ s.tradeable = t.tradeable
     \/ /\ s.quote.read # "ok" /\ t.quote.read # "ok"
        /\ s.tradeRule = "quote" /\ t.tradeRule = "quote"
        /\ s.tradeable # "true" /\ t.tradeable # "true"

(* A quote that failed is untradeable by the rule of its quote.             *)
LEMMA FailedQuote ==
  ASSUME NEW quote, quote.read # "ok", NEW size, NEW asOf, NEW c
  PROVE  TradeRule(quote, size, asOf, c) = "quote"
         /\ TradeVerdict(quote, size, asOf, c) # "true"
<1>1. TradeRule(quote, size, asOf, c) = "quote"
  BY DEF TradeRule
<1> QED BY <1>1, Zenon DEF TradeVerdict

LEMMA InputsAlike ==
  ASSUME NEW w, NEW v, w.rounds = v.rounds, w.venue = v.venue, NEW x, NEW c, NEW r,
         SameTries(r.order, r.scripts), NEW a, \E k \in DOMAIN r.order : r.order[k] = a
  PROVE  SameBarQuote(StockInputs(w, x, c, r, a, Live), StockInputs(v, x, c, r, a, Replayed))
<1> DEFINE k == CHOOSE i \in DOMAIN r.order : r.order[i] = a
           size == QuoteSize(w, x, c, r)
           asOf == BuiltAt(r.order, r.scripts)
<1>1. k \in DOMAIN r.order
  OBVIOUS
<1>2. PICK p : p = Quote(w, r.order, r.scripts, k, size, Live)
  OBVIOUS
<1>3. PICK q : q = Quote(v, r.order, r.scripts, k, size, Replayed)
  OBVIOUS
<1> HIDE DEF k
<1>4. p = q \/ (p.read # "ok" /\ q.read # "ok")
  <2> HIDE DEF size
  <2> QED BY <1>1, <1>2, <1>3, QuoteAlike
<1>5. size = QuoteSize(v, x, c, r)
  BY SameSize
<1>6. FreshOf(w, x, c, r, a) = FreshOf(v, x, c, r, a)
  BY SameFresh
<1>7. \A asset, reading, unpaused, fresh :
        MarkOf(w, asset, reading, unpaused, fresh) = MarkOf(v, asset, reading, unpaused, fresh)
  BY SameMark
<1> DEFINE s == StockInputs(w, x, c, r, a, Live)
           t == StockInputs(v, x, c, r, a, Replayed)
<1>8. /\ s.quote = p /\ s.tradeRule = TradeRule(p, size, asOf, c)
      /\ s.tradeable = TradeVerdict(p, size, asOf, c)
  BY <1>2 DEF StockInputs, k
<1>9. /\ t.quote = q /\ t.tradeRule = TradeRule(q, size, asOf, c)
      /\ t.tradeable = TradeVerdict(q, size, asOf, c)
  BY <1>3, <1>5 DEF StockInputs, k
<1>10. /\ s.asset = t.asset /\ s.mark = t.mark /\ s.series = t.series
       /\ s.corroboration = t.corroboration /\ s.closed = t.closed
  BY <1>6, <1>7 DEF StockInputs
<1> HIDE DEF s, t, size, asOf
<1>11. SameBarQuote(s, t)
  <2>1. CASE p = q
    BY <1>8, <1>9, <1>10, <2>1, Zenon DEF SameBarQuote
  <2>2. CASE p.read # "ok" /\ q.read # "ok"
    <3>1. /\ s.tradeRule = "quote" /\ t.tradeRule = "quote"
          /\ s.tradeable # "true" /\ t.tradeable # "true"
      BY <1>8, <1>9, <2>2, FailedQuote
    <3>2. s.quote.read # "ok" /\ t.quote.read # "ok"
      BY <1>8, <1>9, <2>2
    <3> QED BY <1>10, <3>1, <3>2, Zenon DEF SameBarQuote
  <2> QED BY <1>4, <2>1, <2>2
<1> QED BY <1>11 DEF s, t

(* So its entry is the same but for how its quote failed.                   *)
LEMMA EntryAlike ==
  ASSUME NEW x, NEW s, NEW t, SameBarQuote(s, t)
  PROVE  /\ Entry(x, s).status = Entry(x, t).status
         /\ Entry(x, s).mark = Entry(x, t).mark
         /\ BarFailure(Entry(x, s)) = BarFailure(Entry(x, t))
<1>1. Judge(x, s) = Judge(x, t)
  BY DEF Judge, SameBarQuote
<1>2. CASE s.quote = t.quote
  <2>1. Entry(x, s) = Entry(x, t)
    BY <1>1, <1>2 DEF Entry, SameBarQuote
  <2> QED BY <2>1
<1>3. CASE s.quote.read # "ok" /\ t.quote.read # "ok"
  <2>1. /\ Entry(x, s).quote = s.quote /\ Entry(x, t).quote = t.quote
        /\ Entry(x, s).status = Judge(x, s) /\ Entry(x, t).status = Judge(x, t)
        /\ Entry(x, s).mark = s.mark /\ Entry(x, t).mark = t.mark
    BY DEF Entry
  <2>2. /\ BarFailure(Entry(x, s)) = [Entry(x, s) EXCEPT !.quote = Nothing]
        /\ BarFailure(Entry(x, t)) = [Entry(x, t) EXCEPT !.quote = Nothing]
    BY <1>3, <2>1 DEF BarFailure
  <2>3. [Entry(x, s) EXCEPT !.quote = Nothing] = [Entry(x, t) EXCEPT !.quote = Nothing]
    BY <1>1 DEF Entry, SameBarQuote
  <2> QED BY <1>1, <2>1, <2>2, <2>3 DEF SameBarQuote
<1> QED BY <1>2, <1>3 DEF SameBarQuote

(* And so are the holdings, which rest on entries' marks and statuses.      *)
LEMMA HoldingsAlike ==
  ASSUME NEW w, NEW x, NEW c, NEW r, NEW D, NEW E, DOMAIN D = DOMAIN E,
         \A a \in DOMAIN D : D[a].mark = E[a].mark /\ D[a].status = E[a].status
  PROVE  Holdings(w, x, c, r, D) = Holdings(w, x, c, r, E)
BY DEF Holdings

(* A document but for its entries' failed quotes.                           *)
LEMMA BarredIs ==
  ASSUME NEW w, NEW v, NEW c, NEW r, NEW named, NEW replayed, NEW E,
         E = EntriesOf(w, v, c, r, replayed)
  PROVE  BarFailures(Document(w, v, c, r, named, replayed)) =
           [block |-> r.block, builtAt |-> BuiltAt(r.order, r.scripts),
            registry |-> v.registry, named |-> named,
            entries |-> [a \in DOMAIN E |-> BarFailure(E[a])],
            outside |-> DOMAIN Records(v) \ DOMAIN v.feeds,
            holdings |-> Holdings(w, v, c, r, E)]
<1>1. Document(w, v, c, r, named, replayed) =
        [block |-> r.block, builtAt |-> BuiltAt(r.order, r.scripts),
         registry |-> v.registry, named |-> named, entries |-> E,
         outside |-> DOMAIN Records(v) \ DOMAIN v.feeds,
         holdings |-> Holdings(w, v, c, r, E)]
  BY DocumentIs
<1>2. BarFailures([block |-> r.block, builtAt |-> BuiltAt(r.order, r.scripts),
                   registry |-> v.registry, named |-> named, entries |-> E,
                   outside |-> DOMAIN Records(v) \ DOMAIN v.feeds,
                   holdings |-> Holdings(w, v, c, r, E)])
        = [block |-> r.block, builtAt |-> BuiltAt(r.order, r.scripts),
           registry |-> v.registry, named |-> named,
           entries |-> [a \in DOMAIN E |-> BarFailure(E[a])],
           outside |-> DOMAIN Records(v) \ DOMAIN v.feeds,
           holdings |-> Holdings(w, v, c, r, E)]
  BY DEF BarFailures
<1> QED BY <1>1, <1>2, Zenon

LEMMA DocumentAlike ==
  ASSUME NEW w, NEW v, w.rounds = v.rounds, w.venue = v.venue, NEW x, NEW c, NEW r,
         SameTries(r.order, r.scripts), NEW named,
         \A a \in Candidates(x) : \E k \in DOMAIN r.order : r.order[k] = a
  PROVE  BarFailures(Document(w, x, c, r, named, Live))
           = BarFailures(Document(v, x, c, r, named, Replayed))
<1>1. PICK D : D = EntriesOf(w, x, c, r, Live)
  OBVIOUS
<1>2. PICK E : E = EntriesOf(v, x, c, r, Replayed)
  OBVIOUS
<1>3. DOMAIN D = Candidates(x) /\ DOMAIN E = Candidates(x)
  BY <1>1, <1>2 DEF EntriesOf
<1>4. ASSUME NEW a \in Candidates(x)
      PROVE  D[a].mark = E[a].mark /\ D[a].status = E[a].status
             /\ BarFailure(D[a]) = BarFailure(E[a])
  <2>1. PICK s : s = StockInputs(w, x, c, r, a, Live)
    OBVIOUS
  <2>2. PICK t : t = StockInputs(v, x, c, r, a, Replayed)
    OBVIOUS
  <2>3. SameBarQuote(s, t)
    BY <2>1, <2>2, InputsAlike
  <2>4. D[a] = Entry(x, s) /\ E[a] = Entry(x, t)
    BY <1>1, <1>2, <2>1, <2>2 DEF EntriesOf
  <2> QED BY <2>3, <2>4, EntryAlike
<1>5. Holdings(w, x, c, r, D) = Holdings(v, x, c, r, E)
  <2>1. Holdings(w, x, c, r, D) = Holdings(w, x, c, r, E)
    BY <1>3, <1>4, HoldingsAlike
  <2> QED BY <2>1, SameHoldings
<1>6. [a \in DOMAIN D |-> BarFailure(D[a])] = [a \in DOMAIN E |-> BarFailure(E[a])]
  BY <1>3, <1>4
<1>7. BarFailures(Document(w, x, c, r, named, Live)) =
        [block |-> r.block, builtAt |-> BuiltAt(r.order, r.scripts),
         registry |-> x.registry, named |-> named,
         entries |-> [a \in DOMAIN D |-> BarFailure(D[a])],
         outside |-> DOMAIN Records(x) \ DOMAIN x.feeds,
         holdings |-> Holdings(w, x, c, r, D)]
  BY <1>1, BarredIs
<1>8. BarFailures(Document(v, x, c, r, named, Replayed)) =
        [block |-> r.block, builtAt |-> BuiltAt(r.order, r.scripts),
         registry |-> x.registry, named |-> named,
         entries |-> [a \in DOMAIN E |-> BarFailure(E[a])],
         outside |-> DOMAIN Records(x) \ DOMAIN x.feeds,
         holdings |-> Holdings(v, x, c, r, E)]
  BY <1>2, BarredIs
<1> QED BY <1>5, <1>6, <1>7, <1>8, Zenon

-------------------------------------------------------------------------------
(* The capture *)

(* Written, it holds the files the document names; and nothing is rebuilt   *)
(* before the end.                                                          *)
CaptureTrue ==
  /\ pc \in {"assemble", "write"} \cup PastWrite =>
       capture = [made |-> capture.made, files |-> capture.files]
  /\ pc \in PastWrite => doc.named = capture.files
  /\ rebuilt # Nothing => pc = "done"

LEMMA CommandCapture ==
  ASSUME CaptureTrue, Command PROVE CaptureTrue'
<1> USE DEF PastWrite, PastReplay
<1>1. CASE Seal
  <2>1. capture' = [made |-> FALSE, files |-> Files] /\ UNCHANGED rebuilt
    BY <1>1 DEF Seal
  <2> QED BY <1>1, <2>1, Steering DEF CaptureTrue
<1>2. CASE WriteCapture
  <2>1. /\ capture' = [capture EXCEPT !.made = ~ (doc.named # capture.files)]
        /\ UNCHANGED <<doc, rebuilt>> /\ pc = "write"
        /\ pc' = IF doc.named # capture.files THEN "stopped" ELSE "replay"
    BY <1>2 DEF WriteCapture, Build
  <2>2. capture = [made |-> capture.made, files |-> capture.files]
    BY <2>1 DEF CaptureTrue
  <2>3. capture'.files = capture.files /\ capture' = [made |-> capture'.made, files |-> capture'.files]
    BY <2>1, <2>2
  <2> QED BY <2>1, <2>3 DEF CaptureTrue
<1>3. CASE Replay
  <2>1. UNCHANGED <<doc, capture>> /\ pc = "replay" /\ pc' = "done"
    BY <1>3, Steering DEF Replay
  <2> QED BY <2>1 DEF CaptureTrue
<1>4. CASE Assemble
  <2>1. UNCHANGED <<capture, rebuilt>> /\ pc = "assemble" /\ pc' \in {"write", "stopped"}
    BY <1>4, BuildFrame, Steering DEF Assemble
  <2> QED BY <2>1 DEF CaptureTrue
<1>5. CASE ~ Seal /\ ~ WriteCapture /\ ~ Replay /\ ~ Assemble
  <2>1. UNCHANGED <<capture, rebuilt, doc>>
    BY <1>5, BuildFrame
  <2>2. pc' \notin {"assemble", "write"} \cup PastWrite /\ pc # "done"
    BY <1>5, Steering DEF Command
  <2> QED BY <2>1, <2>2 DEF CaptureTrue
<1> QED BY <1>1, <1>2, <1>3, <1>4, <1>5

LEMMA CaptureAlways == Spec => []CaptureTrue
<1>1. Init => CaptureTrue
  BY DEF Init, CaptureTrue, PastWrite, PastReplay
<1>2. Shape /\ CaptureTrue /\ [Next]_vars => CaptureTrue'
  <2>1. ASSUME Shape, CaptureTrue, (Owner \/ UNCHANGED vars) PROVE CaptureTrue'
    <3>1. UNCHANGED <<pc, doc, capture, rebuilt>>
      BY <2>1, OwnerKeeps DEF Shape, build, vars
    <3> QED BY <2>1, <3>1 DEF CaptureTrue
  <2> QED BY <2>1, CommandCapture DEF Next
<1> QED BY ShapeAlways, <1>1, <1>2, PTL DEF Spec

LEMMA OrderWhole ==
  ASSUME UniverseTyped, Pinned
  PROVE  /\ Ordered(reads.order)
         /\ \A a \in Candidates(u) : \E k \in DOMAIN reads.order : reads.order[k] = a
         /\ \A k \in DOMAIN reads.order : reads.order[k] \in Candidates(u)
<1>1. /\ reads.order \in Seq(Candidates(u)) /\ Len(reads.order) \in Nat
      /\ DOMAIN reads.order = 1..Len(reads.order)
      /\ Firsts(reads.order, Len(reads.order)) = Candidates(u)
  BY OrderIs
<1> QED BY <1>1 DEF Ordered, Firsts

LEMMA ScriptDomain ==
  ASSUME NEW s \in Scripts \cup {Fine} PROVE DOMAIN s = 1..(Attempts * Endpoints)
BY EvidenceAssumption DEF Script, Fine

(* The universe is that of the files loaded, which fit one another.         *)
UniverseLoaded ==
  u # Nothing =>
    u = Loaded(using.pins, using.map) /\ FeedMapOk(using.map, using.pins)

LEMMA CommandLoaded ==
  ASSUME Shape, UniverseLoaded, Command PROVE UniverseLoaded'
<1>1. CASE Begin \/ LoadRegistry \/ LoadDirectory
  <2>1. u' = Nothing
    BY <1>1, Steering DEF Begin, LoadRegistry, LoadDirectory, Shape, Unloaded
  <2> QED BY <2>1 DEF UniverseLoaded
<1>2. CASE Load
  <2>1. /\ pc = "load" /\ using' = [using EXCEPT !.map = feedMap]
        /\ u' # Nothing => u' = Loaded(using.pins, feedMap) /\ FeedMapOk(feedMap, using.pins)
    BY <1>2, Steering DEF Load
  <2>2. using'.map = feedMap /\ using'.pins = using.pins
    BY <2>1 DEF Shape, UsingTyped
  <2>3. u' # Nothing =>
          u' = Loaded(using'.pins, using'.map) /\ FeedMapOk(using'.map, using'.pins)
    BY <2>1, <2>2
  <2> QED BY <2>3 DEF UniverseLoaded, Loaded, FeedMapOk
<1>3. CASE ~ Loads
  <2>1. UNCHANGED <<u, using>>
    BY <1>3, BuildFrame DEF Loads
  <2> QED BY <2>1 DEF UniverseLoaded, Loaded, FeedMapOk
<1> QED BY <1>1, <1>2, <1>3 DEF Loads

LEMMA LoadedAlways == Spec => []UniverseLoaded
<1>1. Init => UniverseLoaded
  BY DEF Init, UniverseLoaded
<1>2. Shape /\ UniverseLoaded /\ [Next]_vars => UniverseLoaded'
  <2>1. ASSUME Shape, UniverseLoaded, (Owner \/ UNCHANGED vars) PROVE UniverseLoaded'
    <3>1. UNCHANGED <<u, using>>
      BY <2>1, OwnerKeeps DEF Shape, build, vars
    <3> QED BY <2>1, <3>1 DEF UniverseLoaded, Loaded, FeedMapOk
  <2> QED BY <2>1, CommandLoaded DEF Next
<1> QED BY ShapeAlways, <1>1, <1>2, PTL DEF Spec

(* Over the files that were loaded a replay asks the same questions.        *)
Missed == \E a \in DOMAIN reads.scripts : ReplayMisses(reads.scripts[a])
AllUsed == \A a \in DOMAIN reads.scripts : ReplayLeaves(reads.scripts[a]) = {}

LEMMA SameFiles ==
  ASSUME UniverseTyped, UniverseLoaded, SealedAsLoaded, Replay
  PROVE  rebuilt' =
           IF Missed THEN Ended
           ELSE [made |-> TRUE, used |-> AllUsed,
                 doc |-> Document(world, u, using.cfg, reads, capture.files, Replayed)]
<1>1. u # Nothing
  <2>1. "registry" \in DOMAIN u /\ "registry" \notin DOMAIN Nothing
    BY DEF UniverseTyped, Nothing
  <2> QED BY <2>1
<1>2. /\ capture.files.pins = using.pins /\ capture.files.map = using.map
      /\ capture.files.cfg = using.cfg
  BY DEF SealedAsLoaded
<1>3. Reload(capture.files) = u /\ FeedMapOk(capture.files.map, capture.files.pins)
  BY <1>1, <1>2 DEF UniverseLoaded, Reload
<1>4. SameQuestions(u, using.cfg)
  BY DEF SameQuestions
<1> DEFINE remade == [made |-> TRUE, used |-> AllUsed,
                      doc |-> Document(world, u, using.cfg, reads, capture.files, TRUE)]
<1>5. Replays(capture.files) = IF Missed THEN {Ended} ELSE {remade}
  <2>1. SameQuestions(Reload(capture.files), capture.files.cfg)
    BY <1>2, <1>3, <1>4
  <2>2. PICK made : made = Document(world, Reload(capture.files), capture.files.cfg, reads, capture.files, TRUE)
    OBVIOUS
  <2>3. Replays(capture.files) =
          IF Missed THEN {Ended} ELSE {[made |-> TRUE, used |-> AllUsed, doc |-> made]}
    BY <1>2, <1>3, <2>1, <2>2, Zenon DEF Replays, Missed, AllUsed
  <2>4. remade.doc = made
    BY <1>2, <1>3, <2>2
  <2> QED BY <2>3, <2>4
<1>6. rebuilt' = IF Missed THEN Ended ELSE remade
  <2> HIDE DEF remade
  <2> QED BY <1>5 DEF Replay
<1> QED BY <1>6 DEF Replayed

LEMMA ScriptsKnown ==
  ASSUME Told, DOMAIN reads.scripts = Candidates(u), NEW a \in Candidates(u)
  PROVE  DOMAIN reads.scripts[a] = 1..(Attempts * Endpoints)
BY ScriptDomain DEF Told, ScriptsTold

(* It ends early only where a wait was dated, and leaves nothing over.      *)
LEMMA MissDated ==
  ASSUME Told, DOMAIN reads.scripts = Candidates(u), Missed PROVE DatedWait
<1>1. PICK a \in Candidates(u) : ReplayMisses(reads.scripts[a])
  BY DEF Missed
<1>2. PICK s : s = reads.scripts[a]
  OBVIOUS
<1>3. DOMAIN s = 1..(Attempts * Endpoints)
  BY <1>1, <1>2, ScriptsKnown
<1>4. Tries(s, Replayed) # Tries(s, Live)
  BY <1>1, <1>2 DEF ReplayMisses, Recorded, Replayed, Live
<1>5. PICK i \in Tries(s, Live) : s[i].hint = "dated"
  BY <1>3, <1>4, TriesAgain
<1> QED BY <1>1, <1>2, <1>5 DEF DatedWait, Recorded, Live

LEMMA NoneLeft == AllUsed
BY TriesKept DEF AllUsed, ReplayLeaves, Recorded, Replayed, Live

LEMMA TriesSame ==
  ASSUME UniverseTyped, Pinned, DOMAIN reads.scripts = Candidates(u), ~ Missed
  PROVE  SameTries(reads.order, reads.scripts)
<1>1. ASSUME NEW a \in Candidates(u)
      PROVE  Tries(reads.scripts[a], Replayed) = Tries(reads.scripts[a], Live)
  <2>1. Tries(reads.scripts[a], Replayed) \subseteq Tries(reads.scripts[a], Live)
    BY DEF Missed, ReplayMisses, Recorded, Replayed, Live
  <2> QED BY <2>1, TriesKept
<1> QED BY <1>1, OrderWhole DEF SameTries

LEMMA ReplaySame ==
  ASSUME Shape, Progress, Assembled, Told, CaptureTrue, UniverseLoaded, Replay,
         SealedAsLoaded
  PROVE  /\ Missed => rebuilt' = Ended /\ DatedWait
         /\ ~ Missed => /\ rebuilt'.made = TRUE /\ rebuilt'.used = TRUE
                        /\ BarFailures(rebuilt'.doc) = BarFailures(doc)
                        /\ ~ LateReply => rebuilt'.doc = doc
<1>1. pc = "replay" /\ doc # Nothing
  BY Steering DEF Command, Progress, PastAssemble, PastWrite
<1>2. Everything /\ UniverseTyped /\ Pinned /\ DOMAIN reads.scripts = Candidates(u)
  BY <1>1 DEF Progress, Everything, GotQuotes
<1>3. PICK w \in World : Alike(w) /\ doc = Document(w, u, using.cfg, reads, doc.named, Live)
  BY <1>1 DEF Assembled
<1>4. doc.named = capture.files
  BY <1>1 DEF CaptureTrue, PastWrite
<1>5. w.rounds = world.rounds /\ w.venue = world.venue
  BY <1>3, AlikeNow
<1>6. PICK again : again = Document(world, u, using.cfg, reads, capture.files, Replayed)
  OBVIOUS
<1>7. rebuilt' = IF Missed THEN Ended ELSE [made |-> TRUE, used |-> AllUsed, doc |-> again]
  BY <1>2, <1>6, SameFiles
<1>8. CASE Missed
  BY <1>2, <1>7, <1>8, MissDated
<1>9. CASE ~ Missed
  <2>1. SameTries(reads.order, reads.scripts)
    BY <1>2, <1>9, TriesSame
  <2>2. BarFailures(again) = BarFailures(doc)
    BY <1>2, <1>3, <1>4, <1>5, <1>6, <2>1, OrderWhole, DocumentAlike
  <2>3. ASSUME ~ LateReply PROVE again = doc
    <3>1. \A a \in Candidates(u) : \A i \in Tries(reads.scripts[a], Live) :
            reads.scripts[a][i].late = "never"
      BY <1>2, <2>3 DEF LateReply, Recorded, Live
    <3>2. Timely(reads.order, reads.scripts)
      BY <1>2, <2>1, <3>1, OrderWhole DEF Timely
    <3> QED BY <1>2, <1>3, <1>4, <1>5, <1>6, <3>2, OrderWhole, DocumentAgain
  <2>4. AllUsed = TRUE
    BY NoneLeft DEF AllUsed
  <2>5. /\ rebuilt'.made = TRUE /\ rebuilt'.used = TRUE /\ rebuilt'.doc = again
    BY <1>7, <1>9, <2>4
  <2> QED BY <1>9, <2>2, <2>3, <2>5
<1> QED BY <1>8, <1>9

LEMMA ReplayHolds ==
  ASSUME Shape, Progress, Assembled, Told, CaptureTrue, UniverseLoaded, ReplayAgrees,
         [Next]_vars
  PROVE  ReplayAgrees'
<1>1. CASE Replay
  <2>1. UNCHANGED <<u, using, reads, doc, capture>>
    BY <1>1 DEF Replay
  <2>2. (SealedAsLoaded' <=> SealedAsLoaded) /\ (LateReply' <=> LateReply)
        /\ (DatedWait' <=> DatedWait)
    BY <2>1 DEF SealedAsLoaded, LateReply, DatedWait, Recorded
  <2>3. CASE ~ SealedAsLoaded
    BY <2>2, <2>3 DEF ReplayAgrees
  <2>4. CASE SealedAsLoaded /\ Missed
    <3>1. rebuilt' = Ended /\ DatedWait
      BY <1>1, <2>4, ReplaySame
    <3> QED BY <2>2, <3>1 DEF ReplayAgrees, Ended
  <2>5. CASE SealedAsLoaded /\ ~ Missed
    <3>1. /\ rebuilt'.made = TRUE /\ rebuilt'.used = TRUE
          /\ BarFailures(rebuilt'.doc) = BarFailures(doc)
          /\ ~ LateReply => rebuilt'.doc = doc
      BY <1>1, <2>5, ReplaySame
    <3>2. BarFailures(rebuilt.doc)' = BarFailures(doc)'
      BY <2>1, <3>1 DEF BarFailures, BarFailure
    <3> QED BY <2>1, <2>2, <3>1, <3>2 DEF ReplayAgrees
  <2> QED BY <2>3, <2>4, <2>5
<1>2. CASE ~ Replay
  <2>1. UNCHANGED rebuilt
    BY <1>2, OwnerKeeps, BuildFrame DEF Next, Shape, build, vars
  <2>2. CASE rebuilt = Nothing
    BY <2>1, <2>2 DEF ReplayAgrees
  <2>3. CASE rebuilt # Nothing
    <3>1. pc = "done" /\ ~ Command
      BY <2>3, Moves DEF CaptureTrue
    <3>2. UNCHANGED build
      BY <3>1, OwnerKeeps DEF Next, Shape, build, vars
    <3> QED BY <3>2 DEF ReplayAgrees, SealedAsLoaded, LateReply, DatedWait, BarFailures,
                        BarFailure, Recorded, build
  <2> QED BY <2>2, <2>3
<1> QED BY <1>1, <1>2

(* A replay over the files the build had loaded reloads its universe, makes *)
(* the tries of every request again, and more only where a wait was dated;  *)
(* so it uses every answer, and its document is the same in all but how     *)
(* failed quotes failed, and the very same when no reply came late.         *)
THEOREM ReplayTheorem == Spec => []ReplayAgrees
<1>1. Init => ReplayAgrees
  BY DEF Init, ReplayAgrees
<1>2. /\ Shape /\ Progress /\ Assembled /\ Told /\ CaptureTrue /\ UniverseLoaded
      /\ ReplayAgrees /\ [Next]_vars
      => ReplayAgrees'
  BY ReplayHolds
<1> QED BY ProgressAlways, AssembledAlways, ToldAlways, CaptureAlways, LoadedAlways,
           <1>1, <1>2, PTL DEF Spec

-------------------------------------------------------------------------------
(* The walk back over a feed's rounds *)

LEMMA MaxOfTwo ==
  ASSUME NEW x \in Int, NEW y \in Int
  PROVE  Max({x, y}) \in {x, y} /\ x <= Max({x, y}) /\ y <= Max({x, y})
<1> DEFINE b == IF x <= y THEN y ELSE x
           S == {x, y}
<1>1. b \in Int /\ x <= b /\ y <= b
  OBVIOUS
<1>2. S \in SUBSET Int /\ S # {} /\ Under(S, b)
  BY <1>1 DEF Under
<1>3. Max(S) \in S /\ Under(S, Max(S))
  <2> HIDE DEF S, b
  <2> QED BY <1>1, <1>2, MaxOf
<1> QED BY <1>3 DEF Under

LEMMA MinOfTwo ==
  ASSUME NEW x \in Int, NEW y \in Int
  PROVE  Min({x, y}) \in {x, y} /\ Min({x, y}) <= x /\ Min({x, y}) <= y
<1> DEFINE b == IF x <= y THEN x ELSE y
           S == {x, y}
<1>1. b \in Int /\ b <= x /\ b <= y
  OBVIOUS
<1>2. S \in SUBSET Int /\ S # {} /\ Over(S, b)
  BY <1>1 DEF Over
<1>3. Min(S) \in S /\ Over(S, Min(S))
  <2> HIDE DEF S, b
  <2> QED BY <1>1, <1>2, MinOf
<1> QED BY <1>3 DEF Over

(* Round n is one a walk from the head may reach.                           *)
Reached(R, head, start, broken, n) ==
  /\ n \in 1..head /\ head - n + 1 <= MaxRounds
  /\ \A m \in n..(head - 1) : Link(R, head, m, broken) = "true"
  /\ \A m \in (n + 1)..head : R[m].at > start

LEMMA OldestIs ==
  ASSUME NEW R, NEW head \in Nat \ {0}, NEW start, NEW broken
  PROVE  /\ Reached(R, head, start, broken, OldestWalked(R, head, start, broken))
         /\ \A n : Reached(R, head, start, broken, n) =>
                     OldestWalked(R, head, start, broken) <= n
<1> DEFINE S == {n \in 1..head : Reached(R, head, start, broken, n)}
<1>1. S = {n \in 1..head :
             /\ head - n + 1 <= MaxRounds
             /\ \A m \in n..(head - 1) : Link(R, head, m, broken) = "true"
             /\ \A m \in (n + 1)..head : R[m].at > start}
  BY DEF Reached
<1>2. OldestWalked(R, head, start, broken) = Min(S)
  BY <1>1 DEF OldestWalked
<1>3. Reached(R, head, start, broken, head)
  <2>1. head \in 1..head /\ head - head + 1 <= MaxRounds
    BY ReadsAssumption
  <2>2. head..(head - 1) = {} /\ (head + 1)..head = {}
    OBVIOUS
  <2> QED BY <2>1, <2>2 DEF Reached
<1>4. S \in SUBSET Int /\ S # {} /\ Over(S, 1)
  <2>1. head \in S /\ \A n \in S : n \in Int /\ 1 <= n
    BY <1>3
  <2> HIDE DEF S
  <2> QED BY <2>1 DEF Over
<1>5. \A n : Reached(R, head, start, broken, n) => n \in S
  BY DEF Reached
<1>6. \A n \in S : Reached(R, head, start, broken, n)
  OBVIOUS
<1> HIDE DEF S
<1>7. Min(S) \in S /\ Over(S, Min(S))
  BY <1>4, MinOf
<1> QED BY <1>2, <1>5, <1>6, <1>7 DEF Over

(* A link holds no earlier time after, and no break in the units.           *)
LEMMA LinkIs ==
  ASSUME NEW R \in Seq(Round), NEW m, m \in DOMAIN R, m + 1 \in DOMAIN R,
         NEW head, NEW broken, Link(R, head, m, broken) = "true"
  PROVE  /\ R[m].at <= R[m + 1].at
         /\ R[m].answer < ScaleBreak * R[m + 1].answer
         /\ R[m + 1].answer < ScaleBreak * R[m].answer
<1> DEFINE r == R[m]
           newer == R[m + 1]
           x == r.answer
           y == newer.answer
<1>1. r \in Round /\ newer \in Round
  OBVIOUS
<1>2. ~ (r.at > newer.at) /\ Max({x, y}) < ScaleBreak * Min({x, y})
  <2>1. ~ (r.at > newer.at) /\ Judged(Max({x, y}) < ScaleBreak * Min({x, y})) = "true"
    BY DEF Link
  <2>2. Max({x, y}) < ScaleBreak * Min({x, y})
    BY <2>1 DEF Judged
  <2> QED BY <2>1, <2>2
<1>3. r.at <= newer.at
  BY <1>1, <1>2 DEF Round
<1>4. x \in Int /\ y \in Int
  BY <1>1 DEF Round
<1> HIDE DEF x, y, r, newer
<1>5. /\ Max({x, y}) \in Int /\ x <= Max({x, y}) /\ y <= Max({x, y})
      /\ Min({x, y}) \in Int /\ Min({x, y}) <= x /\ Min({x, y}) <= y
  BY <1>4, MaxOfTwo, MinOfTwo
<1>6. \A n \in Nat, i, j \in Int : i <= j => n * i <= n * j /\ n * i \in Int /\ n * j \in Int
  OBVIOUS
<1>7. ScaleBreak * Min({x, y}) <= ScaleBreak * x /\ ScaleBreak * Min({x, y}) <= ScaleBreak * y
      /\ ScaleBreak * Min({x, y}) \in Int /\ ScaleBreak * x \in Int /\ ScaleBreak * y \in Int
  BY <1>4, <1>5, <1>6, ReadsAssumption
<1>8. x < ScaleBreak * y /\ y < ScaleBreak * x
  <2> DEFINE p == ScaleBreak * x
             q == ScaleBreak * y
             z == ScaleBreak * Min({x, y})
             t == Max({x, y})
  <2>1. p \in Int /\ q \in Int /\ z \in Int /\ t \in Int /\ z <= p /\ z <= q
        /\ x <= t /\ y <= t /\ t < z
    BY <1>2, <1>5, <1>7
  <2> HIDE DEF p, q, z, t
  <2>2. x < q /\ y < p
    BY <1>4, <2>1
  <2> QED BY <2>2 DEF p, q
<1> QED BY <1>3, <1>8 DEF x, y, r, newer

(* So the times climb to the head's.                                        *)
LEMMA TimesClimb ==
  ASSUME NEW R \in Seq(Round), NEW head \in DOMAIN R, NEW start, NEW broken, NEW o,
         Reached(R, head, start, broken, o)
  PROVE  \A n \in o..head : R[n].at <= R[head].at
<1> DEFINE S == {n \in o..head : ~ (R[n].at <= R[head].at)}
<1>1. head \in Nat /\ o \in 1..head /\ DOMAIN R = 1..Len(R) /\ Len(R) \in Nat
  BY DEF Reached
<1>2. SUFFICES ASSUME S # {} PROVE FALSE
  OBVIOUS
<1>3. S \in SUBSET Int /\ Under(S, head)
  BY <1>1 DEF Under
<1>4. PICK n \in S : Under(S, n)
  <2>1. S # {}
    BY <1>2
  <2> HIDE DEF S
  <2>2. Max(S) \in S /\ Under(S, Max(S))
    BY <1>1, <1>3, <2>1, MaxOf
  <2> QED BY <2>2
<1>5. n \in o..head /\ ~ (R[n].at <= R[head].at)
  BY <1>4
<1>6. \A k \in 1..head : R[k].at \in Int
  <2>1. \A k \in 1..head : k \in 1..Len(R)
    BY <1>1
  <2>2. \A k \in 1..Len(R) : R[k] \in Round
    BY <1>1
  <2> QED BY <2>1, <2>2 DEF Round
<1>7. n < head
  BY <1>1, <1>5, <1>6
<1>8. n + 1 \in o..head /\ n \in o..(head - 1) /\ n \in DOMAIN R /\ n + 1 \in DOMAIN R
  BY <1>1, <1>5, <1>7
<1>9. R[n].at <= R[n + 1].at
  BY <1>8, LinkIs DEF Reached
<1>10. n + 1 \notin S
  <2> HIDE DEF S
  <2>1. n \in Int
    BY <1>1, <1>5
  <2> QED BY <1>4, <2>1 DEF Under
<1>11. R[n + 1].at <= R[head].at
  BY <1>8, <1>10
<1>12. R[n].at \in Int /\ R[n + 1].at \in Int /\ R[head].at \in Int
  BY <1>1, <1>6, <1>8
<1> QED BY <1>5, <1>9, <1>11, <1>12

(* A walk that says it covers its window reached a round in effect then.    *)
LEMMA Covered ==
  ASSUME NEW R \in Seq(Round), NEW head \in DOMAIN R, NEW start \in Int, NEW broken,
         Coverage(R, head, OldestWalked(R, head, start, broken), start, broken) = "true"
  PROVE  R[OldestWalked(R, head, start, broken)].at <= start
<1> DEFINE o == OldestWalked(R, head, start, broken)
<1>1. head \in Nat \ {0} /\ DOMAIN R = 1..Len(R) /\ Len(R) \in Nat
  OBVIOUS
<1>2. /\ Reached(R, head, start, broken, o)
      /\ \A n : Reached(R, head, start, broken, n) => o <= n
  BY <1>1, OldestIs
<1>3. SUFFICES ASSUME ~ (R[o].at <= start) PROVE FALSE
  OBVIOUS
<1>4. /\ ~ (o = 1 \/ head - o + 1 >= MaxRounds)
      /\ Link(R, head, o - 1, broken) = "true"
  BY <1>3 DEF Coverage
<1> HIDE DEF o
<1>5. /\ o \in 1..head /\ head - o + 1 <= MaxRounds
      /\ \A m \in o..(head - 1) : Link(R, head, m, broken) = "true"
      /\ \A m \in (o + 1)..head : R[m].at > start
  BY <1>2 DEF Reached
<1>6. R[o].at \in Int
  <2>1. o \in 1..Len(R)
    BY <1>1, <1>5
  <2>2. R[o] \in Round
    BY <1>1, <2>1
  <2> QED BY <2>2 DEF Round
<1>7. o - 1 \in 1..head /\ head - (o - 1) + 1 <= MaxRounds
  BY <1>1, <1>4, <1>5, ReadsAssumption
<1>8. \A m \in (o - 1)..(head - 1) : m = o - 1 \/ m \in o..(head - 1)
  BY <1>1, <1>5
<1>9. \A m \in (o - 1 + 1)..head : m = o \/ m \in (o + 1)..head
  BY <1>1, <1>5
<1>10. Reached(R, head, start, broken, o - 1)
  BY <1>3, <1>4, <1>5, <1>6, <1>7, <1>8, <1>9, SMTT(40) DEF Reached
<1>11. o <= o - 1
  BY <1>2, <1>10
<1> QED BY <1>1, <1>5, <1>11

(* The round in effect at t among those a block's time has seen.            *)
EffectAt(w, a, b, t) == Max({0} \cup {n \in Seen(w, a, b) : w.rounds[a][n].at <= t})

Walked(w, a, b, start, broken) ==
  OldestWalked(w.rounds[a], HeadRound(w, a, b), start, broken)

(* A stretch of sound rounds up to the newest seen, linked one to the next. *)
Stretch(w, a, b, o) ==
  /\ HeadRound(w, a, b) \in Seen(w, a, b) /\ o \in 1..HeadRound(w, a, b)
  /\ \A n \in o..HeadRound(w, a, b) : n \in Seen(w, a, b)
  /\ \A n \in o..(HeadRound(w, a, b) - 1) :
       /\ w.rounds[a][n].answer < ScaleBreak * w.rounds[a][n + 1].answer
       /\ w.rounds[a][n + 1].answer < ScaleBreak * w.rounds[a][n].answer

LEMMA WalkedIs ==
  ASSUME NEW w \in World, NEW a \in Assets, NEW b \in Nat, NEW start \in Int, NEW broken,
         HeadRound(w, a, b) \in Seen(w, a, b)
  PROVE  /\ Stretch(w, a, b, Walked(w, a, b, start, broken))
         /\ \A m \in (Walked(w, a, b, start, broken) + 1)..HeadRound(w, a, b) :
              w.rounds[a][m].at > start
<1> DEFINE R == w.rounds[a]
           head == HeadRound(w, a, b)
           o == Walked(w, a, b, start, broken)
<1>1. R \in Seq(Round) /\ head \in DOMAIN R /\ DOMAIN R = 1..Len(R) /\ Len(R) \in Nat
      /\ R[head].at <= b
  BY DEF World, Seen
<1>2. Seen(w, a, b) = {n \in DOMAIN R : R[n].at <= b} /\ head \in Seen(w, a, b)
  BY DEF Seen
<1>3. o = OldestWalked(R, head, start, broken)
  BY DEF Walked
<1> HIDE DEF R, head, o
<1>4. head \in Nat \ {0}
  BY <1>1
<1>5. Reached(R, head, start, broken, o)
  BY <1>3, <1>4, OldestIs
<1>6. o \in 1..head /\ \A m \in (o + 1)..head : R[m].at > start
  BY <1>5 DEF Reached
<1>7. \A n \in o..head : R[n].at <= R[head].at
  BY <1>1, <1>5, TimesClimb
<1>8. \A n \in o..head : n \in 1..Len(R) /\ R[n].at \in Int
  <2>1. \A n \in o..head : n \in 1..Len(R)
    BY <1>1, <1>6
  <2>2. \A n \in 1..Len(R) : R[n] \in Round
    BY <1>1
  <2> QED BY <2>1, <2>2 DEF Round
<1>9. \A n \in o..head : n \in Seen(w, a, b)
  <2>1. head \in o..head
    BY <1>4, <1>6
  <2>2. \A n \in o..head : R[n].at <= b
    BY <1>1, <1>7, <1>8, <2>1
  <2> QED BY <1>1, <1>2, <1>8, <2>2
<1>10. ASSUME NEW n \in o..(head - 1)
       PROVE  R[n].answer < ScaleBreak * R[n + 1].answer
              /\ R[n + 1].answer < ScaleBreak * R[n].answer
  <2>1. n \in o..head /\ n + 1 \in o..head
    BY <1>4, <1>6
  <2>2. Link(R, head, n, broken) = "true"
    BY <1>5 DEF Reached
  <2> QED BY <1>1, <1>8, <2>1, <2>2, LinkIs
<1> QED BY <1>2, <1>6, <1>9, <1>10 DEF Stretch, R, head, o

LEMMA PriceSeriesIs ==
  ASSUME NEW w \in World, NEW a \in Assets, NEW b, NEW start, NEW said, NEW broken,
         \/ PriceSeries(w, a, b, start, said, broken).points # {}
         \/ PriceSeries(w, a, b, start, said, broken).read = "ok"
  PROVE  /\ HeadRound(w, a, b) \in Seen(w, a, b)
         /\ PriceSeries(w, a, b, start, said, broken) =
              [read |-> "ok",
               points |-> Walked(w, a, b, start, broken)..HeadRound(w, a, b),
               coverage |-> Coverage(w.rounds[a], HeadRound(w, a, b),
                                     Walked(w, a, b, start, broken), start, broken)]
<1>1. \A r : NoSeries(r).points = {} /\ NoSeries(r).read = r
  BY DEF NoSeries
<1>2. LatestRound(w, a, b, said).read = "ok"
  BY <1>1 DEF PriceSeries
<1>3. LatestRound(w, a, b, said).value = HeadRound(w, a, b) /\ HeadRound(w, a, b) \in Seen(w, a, b)
  BY <1>2, LatestRoundIs DEF Ok
<1> QED BY <1>2, <1>3 DEF PriceSeries, Walked

(* The newest of the stretch in effect at t is the one in effect.           *)
LEMMA InEffectIs ==
  ASSUME NEW w \in World, NEW a \in Assets, NEW b \in Nat, NEW o, Stretch(w, a, b, o),
         NEW t \in Int, InEffect(w.rounds[a], o..HeadRound(w, a, b), t) # {}
  PROVE  /\ Max(InEffect(w.rounds[a], o..HeadRound(w, a, b), t)) = EffectAt(w, a, b, t)
         /\ EffectAt(w, a, b, t) \in o..HeadRound(w, a, b)
         /\ w.rounds[a][EffectAt(w, a, b, t)].at <= t
<1> DEFINE R == w.rounds[a]
           head == HeadRound(w, a, b)
           E == InEffect(R, o..head, t)
           T == {0} \cup {n \in Seen(w, a, b) : R[n].at <= t}
           e == Max(E)
           f == Max(T)
<1>1. head \in Nat /\ o \in 1..head /\ (\A n \in o..head : n \in Seen(w, a, b))
      /\ (\A n \in Seen(w, a, b) : n \in Nat /\ n <= head)
  <2>1. Len(w.rounds[a]) \in Nat /\ Seen(w, a, b) \subseteq 1..Len(w.rounds[a])
    BY HeadRoundIs
  <2> QED BY <2>1, HeadRoundIs DEF Stretch
<1>2. f = EffectAt(w, a, b, t)
  BY DEF EffectAt
<1>3. (\A n \in E : n \in o..head /\ R[n].at <= t) /\ (\A n \in o..head : R[n].at <= t => n \in E)
  BY DEF InEffect
<1>4. (\A n \in T : n = 0 \/ (n \in Seen(w, a, b) /\ R[n].at <= t))
      /\ (\A n \in Seen(w, a, b) : R[n].at <= t => n \in T) /\ 0 \in T
  OBVIOUS
<1>5. E # {}
  OBVIOUS
<1> HIDE DEF R, head, E, T
<1>6. E \in SUBSET Int /\ Under(E, head)
  BY <1>1, <1>3 DEF Under
<1>7. e \in E /\ \A n \in E : n <= e
  <2>1. Max(E) \in E /\ Under(E, Max(E))
    BY <1>1, <1>5, <1>6, MaxOf
  <2> QED BY <2>1 DEF Under
<1>8. T \in SUBSET Int /\ Under(T, head) /\ T # {}
  BY <1>1, <1>4 DEF Under
<1>9. f \in T /\ \A n \in T : n <= f
  <2>1. Max(T) \in T /\ Under(T, Max(T))
    BY <1>1, <1>8, MaxOf
  <2> QED BY <2>1 DEF Under
<1> HIDE DEF e, f
<1>10. e \in o..head /\ e \in T /\ e <= f
  BY <1>1, <1>3, <1>4, <1>7, <1>9
<1>11. f \in o..head /\ R[f].at <= t
  <2>1. o \in Int /\ o >= 1 /\ e \in Int /\ o <= e /\ f \in Int
    BY <1>1, <1>8, <1>9, <1>10
  <2>2. f # 0 /\ o <= f
    BY <2>1, <1>10
  <2>3. f \in Seen(w, a, b) /\ R[f].at <= t
    BY <2>2, <1>4, <1>9
  <2>4. f <= head
    BY <2>3, <1>1
  <2> QED BY <2>1, <2>2, <2>3, <2>4, <1>1
<1>12. f <= e
  BY <1>3, <1>7, <1>11
<1>13. e = f
  BY <1>1, <1>10, <1>11, <1>12
<1> QED BY <1>2, <1>11, <1>13 DEF R, head, E, e

(* The greatest and the least of points that end at the newest round.       *)
LEMMA PointsIn ==
  ASSUME NEW o \in Int, NEW head \in Int, NEW S, S \subseteq o..head, head \in S
  PROVE  Max(S) = head /\ Min(S) \in S /\ o <= Min(S) /\ (o \in S => Min(S) = o)
<1>1. S \in SUBSET Int /\ S # {} /\ Under(S, head) /\ Over(S, o)
  BY DEF Under, Over
<1>2. Max(S) \in S /\ Under(S, Max(S))
  BY <1>1, MaxOf
<1>3. Min(S) \in S /\ Over(S, Min(S))
  BY <1>1, MinOf
<1>4. head <= Max(S) /\ Max(S) \in o..head
  BY <1>2 DEF Under
<1>5. Min(S) \in o..head /\ (o \in S => Min(S) <= o)
  BY <1>3 DEF Over
<1> QED BY <1>3, <1>4, <1>5

LEMMA NewestSeen ==
  ASSUME NEW w \in World, NEW a \in Assets, NEW b, HeadRound(w, a, b) \in Seen(w, a, b)
  PROVE  Max(Seen(w, a, b)) = HeadRound(w, a, b) /\ HeadRound(w, a, b) \in Nat \ {0}
<1>1. /\ \A n \in Seen(w, a, b) : n <= HeadRound(w, a, b)
      /\ Seen(w, a, b) \subseteq 1..Len(w.rounds[a]) /\ Len(w.rounds[a]) \in Nat
      /\ HeadRound(w, a, b) \in Nat
  BY HeadRoundIs
<1>2. Seen(w, a, b) \subseteq 1..HeadRound(w, a, b)
  BY <1>1
<1>3. Max(Seen(w, a, b)) = HeadRound(w, a, b)
  <2>1. 1 \in Int /\ HeadRound(w, a, b) \in Int
    BY <1>1
  <2> QED BY <1>2, <2>1, PointsIn
<1> QED BY <1>1, <1>2, <1>3

(* Between the first point and the last no round changes the units.         *)
Unbroken(w, a, S) ==
  \A n \in Min(S)..(Max(S) - 1), m \in {0, 1} :
    w.rounds[a][n + m].answer < ScaleBreak * w.rounds[a][n + 1 - m].answer

LEMMA StretchUnbroken ==
  ASSUME NEW w, NEW a, NEW b, NEW o, Stretch(w, a, b, o), HeadRound(w, a, b) \in Nat,
         NEW S, S \subseteq o..HeadRound(w, a, b), HeadRound(w, a, b) \in S
  PROVE  Unbroken(w, a, S)
<1> DEFINE head == HeadRound(w, a, b)
           R == w.rounds[a]
<1>1. o \in Int /\ head \in Int /\ \A n \in o..(head - 1) :
        R[n].answer < ScaleBreak * R[n + 1].answer /\ R[n + 1].answer < ScaleBreak * R[n].answer
  BY DEF Stretch
<1>2. Max(S) = head /\ Min(S) \in o..head
  BY <1>1, PointsIn
<1> HIDE DEF head, R
<1>3. ASSUME NEW n \in Min(S)..(Max(S) - 1)
      PROVE  n \in o..(head - 1) /\ n + 0 = n /\ n + 1 - 0 = n + 1 /\ n + 1 - 1 = n
  BY <1>1, <1>2
<1>4. ASSUME NEW n \in Min(S)..(Max(S) - 1), NEW m \in {0, 1}
      PROVE  R[n + m].answer < ScaleBreak * R[n + 1 - m].answer
  <2>1. CASE m = 0
    BY <1>1, <1>3, <2>1
  <2>2. CASE m = 1
    BY <1>1, <1>3, <2>2
  <2> QED BY <2>1, <2>2
<1> QED BY <1>4 DEF Unbroken, R

(* Every round, back to the one in effect when the window opens.            *)
LEMMA EveryRoundIs ==
  ASSUME NEW w \in World, NEW a \in Assets, NEW b \in Nat, NEW start \in Int, NEW said, NEW broken,
         NEW s, s = PriceSeries(w, a, b, start, said, broken), s.points # {}
  PROVE  /\ Max(s.points) = Max(Seen(w, a, b))
         /\ Unbroken(w, a, s.points)
         /\ s.coverage = "true" => s.points = EffectAt(w, a, b, start)..Max(Seen(w, a, b))
<1> DEFINE R == w.rounds[a]
           head == HeadRound(w, a, b)
           o == Walked(w, a, b, start, broken)
<1>1. /\ head \in Seen(w, a, b) /\ s.points = o..head
      /\ s.coverage = Coverage(R, head, o, start, broken)
  BY PriceSeriesIs
<1>2. Stretch(w, a, b, o) /\ \A m \in (o + 1)..head : R[m].at > start
  BY <1>1, WalkedIs
<1>3. Max(Seen(w, a, b)) = head /\ head \in Nat
  BY <1>1, NewestSeen
<1>4. R \in Seq(Round) /\ head \in DOMAIN R
  BY <1>1 DEF World, Seen
<1>5. o \in 1..head
  BY <1>2 DEF Stretch
<1>6. Max(s.points) = head
  <2>1. o \in Int /\ head \in Int /\ s.points \subseteq o..head /\ head \in s.points
    BY <1>1, <1>3, <1>5
  <2> QED BY <2>1, PointsIn
<1>7. Unbroken(w, a, s.points)
  <2>1. s.points \subseteq o..head /\ head \in s.points
    BY <1>1, <1>3, <1>5
  <2> QED BY <1>2, <1>3, <2>1, StretchUnbroken
<1>8. ASSUME s.coverage = "true" PROVE o = EffectAt(w, a, b, start)
  <2>1. R[o].at <= start
    BY <1>1, <1>4, <1>8, Covered DEF Walked
  <2>2. o \in InEffect(R, o..head, start)
    BY <1>3, <1>5, <2>1 DEF InEffect
  <2> DEFINE e == EffectAt(w, a, b, start)
  <2>3. e \in o..head /\ R[e].at <= start
    BY <1>2, <2>2, InEffectIs
  <2> HIDE DEF e, o, head, R
  <2>4. o \in Int /\ e \in Int
    BY <1>3, <1>5, <2>3
  <2>5. R[e].at \in Int
    <3>1. e \in DOMAIN R
      BY <1>3, <1>4, <1>5, <2>3
    <3>2. R[e] \in Round
      BY <1>4, <3>1
    <3> QED BY <3>2 DEF Round
  <2>6. ~ (e \in (o + 1)..head)
    BY <1>2, <2>3, <2>5
  <2>7. e = o
    BY <1>3, <2>3, <2>4, <2>6
  <2> QED BY <2>7 DEF e, o
<1> QED BY <1>1, <1>3, <1>6, <1>7, <1>8

(* The days' cuts have a first one among those the session is open at.      *)
LEMMA FirstOpen ==
  ASSUME NEW b \in Nat, NEW c, OpenCuts(b, c) # {}
  PROVE  /\ OpenCuts(b, c) \subseteq Int
         /\ Max({0, Min(OpenCuts(b, c))}) \in Nat
         /\ \A t \in OpenCuts(b, c) : t >= 0 => Max({0, Min(OpenCuts(b, c))}) <= t
<1> DEFINE S == OpenCuts(b, c)
           last == ((b - Cut) \div Day) * Day + Cut
           low == last - Days * Day
<1>1. Day \in Nat \ {0} /\ Days \in Nat \ {0} /\ Cut \in Int
  BY ReadsAssumption
<1>2. last \in Int /\ low \in Int
  <2>1. \A x \in Int, d \in Nat \ {0} : (x \div d) \in Int
    OBVIOUS
  <2>2. \A x, y \in Int : x * y \in Int
    OBVIOUS
  <2>3. (b - Cut) \div Day \in Int
    BY <1>1, <2>1
  <2>4. ((b - Cut) \div Day) * Day \in Int /\ Days * Day \in Int
    BY <1>1, <2>2, <2>3
  <2> QED BY <1>1, <2>4
<1>3. \A k \in 0..(Days - 1) : k * Day \in Int /\ k * Day <= Days * Day
  <2>1. \A k, n, d \in Nat : k <= n => k * d <= n * d /\ k * d \in Int
    OBVIOUS
  <2> QED BY <1>1, <2>1
<1>4. \A t \in S : \E k \in 0..(Days - 1) : t = last - k * Day
  BY DEF OpenCuts, Cuts
<1>5. S # {}
  OBVIOUS
<1> HIDE DEF S, last
<1>6. \A t \in S : t \in Int /\ low <= t
  <2>1. Days * Day \in Int
    BY <1>1
  <2> QED BY <1>2, <1>3, <1>4, <2>1
<1>7. Min(S) \in S /\ Over(S, Min(S))
  <2>1. S \in SUBSET Int /\ Over(S, low)
    BY <1>6 DEF Over
  <2> QED BY <1>2, <1>5, <2>1, MinOf
<1>8. Min(S) \in Int
  BY <1>6, <1>7
<1>9. Max({0, Min(S)}) \in {0, Min(S)} /\ 0 <= Max({0, Min(S)})
  <2> HIDE DEF low
  <2>1. \A y \in Int : Max({0, y}) \in {0, y} /\ 0 <= Max({0, y}) /\ y <= Max({0, y})
    BY MaxOfTwo
  <2> QED BY <1>8, <2>1
<1>10. \A t \in S : Min(S) <= t
  BY <1>7 DEF Over
<1>11. Max({0, Min(S)}) \in Nat
  BY <1>8, <1>9
<1>12. \A t \in S : t >= 0 => Max({0, Min(S)}) <= t
  BY <1>6, <1>9, <1>10
<1> QED BY <1>6, <1>11, <1>12 DEF S

(* The cuts of the days the session is open, from the first instant.        *)
OpenAt(b, c) == {t \in Cuts(b) : t >= 0 /\ ~ Within(c, t)}

LEMMA OpenAtIs ==
  ASSUME NEW b, NEW c
  PROVE  \A t : t \in OpenAt(b, c) <=> t \in OpenCuts(b, c) /\ t >= 0
BY DEF OpenAt, OpenCuts

Effects(w, a, b, S) == {EffectAt(w, a, b, t) : t \in S}

(* The newest of the stretch from o at each open day's cut.                 *)
Lit(w, a, b, o, t) == InEffect(w.rounds[a], o..HeadRound(w, a, b), t)

Closes(w, a, b, c, o) ==
  {Max(Lit(w, a, b, o, t)) : t \in {x \in OpenCuts(b, c) : Lit(w, a, b, o, x) # {}}}

(* One close a day: what its points are, before which they are is asked.    *)
LEMMA DailyPoints ==
  ASSUME NEW w \in World, NEW a \in Assets, NEW b \in Nat, NEW c, NEW said, NEW broken,
         NEW s, s = DailyCloses(w, a, b, c, said, broken), s.points # {},
         NEW start, start = Max({0, Min(OpenCuts(b, c))}),
         NEW o, o = Walked(w, a, b, start, broken)
  PROVE  /\ OpenCuts(b, c) # {} /\ start \in Int
         /\ HeadRound(w, a, b) \in Seen(w, a, b) /\ Stretch(w, a, b, o)
         /\ s.coverage = Coverage(w.rounds[a], HeadRound(w, a, b), o, start, broken)
         /\ s.points = Closes(w, a, b, c, o) \cup {HeadRound(w, a, b)}
<1> DEFINE full == PriceSeries(w, a, b, start, said, broken)
           head == HeadRound(w, a, b)
           R == w.rounds[a]
           closes == {Max(InEffect(R, full.points, t)) :
                        t \in {x \in OpenCuts(b, c) : InEffect(R, full.points, x) # {}}}
<1>1. \A r : NoSeries(r).points = {}
  BY DEF NoSeries
<1>2. s = IF OpenCuts(b, c) = {} THEN NoSeries("raised")
          ELSE IF full.read # "ok" THEN full
          ELSE [full EXCEPT !.points = closes \cup {Max(full.points)}]
  BY DEF DailyCloses
<1>3. OpenCuts(b, c) # {}
  BY <1>1, <1>2
<1>4. start \in Int
  BY <1>3, FirstOpen
<1>5. full.read = "ok"
  <2>1. full.read # "ok" => full.points = {}
    BY <1>1 DEF PriceSeries
  <2> HIDE DEF full
  <2> QED BY <1>2, <1>3, <2>1
<1>6. /\ head \in Seen(w, a, b)
      /\ full = [read |-> "ok", points |-> o..head,
                 coverage |-> Coverage(R, head, o, start, broken)]
  BY <1>5, PriceSeriesIs
<1>7. Stretch(w, a, b, o)
  BY <1>4, <1>6, WalkedIs
<1>8. Max(o..head) = head
  <2>1. head \in Nat /\ o \in 1..head
    BY <1>6, <1>7, NewestSeen DEF Stretch
  <2>2. o \in Int /\ head \in Int /\ o..head \subseteq o..head /\ head \in o..head
    BY <2>1
  <2> QED BY <2>2, PointsIn, ZenonT(40)
<1>9. full.points = o..head /\ full.coverage = Coverage(R, head, o, start, broken)
  <2> HIDE DEF full
  <2> QED BY <1>6
<1>10. s.points = closes \cup {head} /\ s.coverage = full.coverage
  <2>1. s = [full EXCEPT !.points = closes \cup {Max(full.points)}]
    BY <1>2, <1>3, <1>5
  <2> HIDE DEF closes
  <2>2. s.points = closes \cup {Max(full.points)} /\ s.coverage = full.coverage
    BY <1>6, <2>1
  <2> QED BY <1>8, <1>9, <2>2
<1>11. closes = Closes(w, a, b, c, o)
  BY <1>9 DEF Closes, Lit
<1> HIDE DEF closes
<1> QED BY <1>3, <1>4, <1>6, <1>7, <1>9, <1>10, <1>11

(* What one close a day promises.                                           *)
OneADay(w, a, b, c, s) ==
  /\ Max(s.points) = Max(Seen(w, a, b))
  /\ Unbroken(w, a, s.points)
  /\ s.coverage = "true" =>
       s.points = Effects(w, a, b, OpenAt(b, c)) \cup {Max(Seen(w, a, b))}
  /\ \A n \in s.points \ {Max(Seen(w, a, b))} :
       \E t \in OpenAt(b, c) : n = EffectAt(w, a, b, t)

LEMMA DailyIs ==
  ASSUME NEW w \in World, NEW a \in Assets, NEW b \in Nat, NEW c, NEW said, NEW broken,
         NEW s, s = DailyCloses(w, a, b, c, said, broken), s.points # {},
         NEW start, start = Max({0, Min(OpenCuts(b, c))}),
         NEW o, o = Walked(w, a, b, start, broken)
  PROVE  OneADay(w, a, b, c, s)
<1> DEFINE R == w.rounds[a]
           head == HeadRound(w, a, b)
           days == {x \in OpenCuts(b, c) : Lit(w, a, b, o, x) # {}}
<1>1. /\ OpenCuts(b, c) # {} /\ start \in Int
      /\ head \in Seen(w, a, b) /\ Stretch(w, a, b, o)
      /\ s.coverage = Coverage(R, head, o, start, broken)
      /\ s.points = Closes(w, a, b, c, o) \cup {head}
  BY DailyPoints
<1>2. head \in Nat \ {0} /\ Max(Seen(w, a, b)) = head
  BY <1>1, NewestSeen
<1>3. R \in Seq(Round) /\ head \in DOMAIN R /\ DOMAIN R = 1..Len(R) /\ Len(R) \in Nat
  BY <1>1 DEF World, Seen
<1>4. o \in 1..head
  BY <1>1 DEF Stretch
<1>5. ASSUME NEW t \in days
      PROVE  /\ Max(Lit(w, a, b, o, t)) = EffectAt(w, a, b, t) /\ EffectAt(w, a, b, t) \in o..head
             /\ t \in OpenAt(b, c)
  <2>1. t \in OpenCuts(b, c) /\ Lit(w, a, b, o, t) # {} /\ t \in Int
    BY <1>1, FirstOpen
  <2>2. /\ Max(Lit(w, a, b, o, t)) = EffectAt(w, a, b, t) /\ EffectAt(w, a, b, t) \in o..head
        /\ R[EffectAt(w, a, b, t)].at <= t
    <3>1. Stretch(w, a, b, o) /\ t \in Int
      BY <1>1, <2>1
    <3>2. InEffect(w.rounds[a], o..HeadRound(w, a, b), t) # {}
      BY <2>1 DEF Lit
    <3> QED BY <3>1, <3>2, InEffectIs DEF Lit
  <2>3. R[EffectAt(w, a, b, t)].at \in Nat
    <3>1. EffectAt(w, a, b, t) \in DOMAIN R
      BY <1>3, <1>4, <2>2
    <3>2. R[EffectAt(w, a, b, t)] \in Round
      BY <1>3, <3>1
    <3> QED BY <3>2 DEF Round
  <2>4. t >= 0
    BY <2>1, <2>2, <2>3
  <2> QED BY <2>1, <2>2, <2>4, OpenAtIs
<1>c. Closes(w, a, b, c, o) = {Max(Lit(w, a, b, o, t)) : t \in days}
  BY DEF Closes
<1> HIDE DEF days
<1>6. s.points \subseteq o..head /\ head \in s.points
  BY <1>1, <1>2, <1>4, <1>5, <1>c, SMTT(40)
<1>7. Max(s.points) = head
  <2>1. o \in Int /\ head \in Int
    BY <1>2, <1>4
  <2> QED BY <1>6, <2>1, PointsIn
<1>8. Unbroken(w, a, s.points)
  BY <1>1, <1>2, <1>6, StretchUnbroken
<1>9. \A n \in s.points \ {head} : \E t \in OpenAt(b, c) : n = EffectAt(w, a, b, t)
  BY <1>1, <1>5, <1>c
<1>10. ASSUME s.coverage = "true", NEW t \in OpenAt(b, c) PROVE t \in days
  <2>1. t \in OpenCuts(b, c) /\ t >= 0
    BY OpenAtIs
  <2>2. start <= t /\ t \in Int
    BY <1>1, <2>1, FirstOpen
  <2>3. R[o].at <= start
    BY <1>1, <1>3, <1>10, Covered DEF Walked
  <2>4. R[o].at \in Int
    <3>1. o \in DOMAIN R
      BY <1>3, <1>4
    <3>2. R[o] \in Round
      BY <1>3, <3>1
    <3> QED BY <3>2 DEF Round
  <2> HIDE DEF R, head
  <2>5. R[o].at <= t
    BY <1>1, <2>2, <2>3, <2>4
  <2>6. o \in o..head
    BY <1>2, <1>4
  <2>7. o \in Lit(w, a, b, o, t)
    BY <2>5, <2>6 DEF Lit, InEffect, R, head
  <2> QED BY <2>1, <2>7 DEF days
<1>11. ASSUME s.coverage = "true"
       PROVE  s.points = Effects(w, a, b, OpenAt(b, c)) \cup {head}
  <2>1. OpenAt(b, c) = days
    BY <1>5, <1>10, <1>11
  <2>e. Effects(w, a, b, days) = {EffectAt(w, a, b, t) : t \in days}
    BY DEF Effects
  <2>2. Closes(w, a, b, c, o) = {EffectAt(w, a, b, t) : t \in days}
    BY <1>5, <1>c
  <2> QED BY <1>1, <2>1, <2>e, <2>2
<1> QED BY <1>2, <1>7, <1>8, <1>9, <1>11 DEF OneADay

(* What the property asks of one series, of a world and a block.            *)
Historic(w, a, b, c, daily, s) ==
  /\ Max(s.points) = Max(Seen(w, a, b))
  /\ Unbroken(w, a, s.points)
  /\ s.coverage = "true" /\ ~ daily =>
       s.points = EffectAt(w, a, b, WindowStart(b))..Max(Seen(w, a, b))
  /\ s.coverage = "true" /\ daily =>
       s.points = Effects(w, a, b, OpenAt(b, c)) \cup {Max(Seen(w, a, b))}
  /\ daily => \A n \in s.points \ {Max(Seen(w, a, b))} :
                \E t \in OpenAt(b, c) : n = EffectAt(w, a, b, t)

LEMMA SeriesHistoric ==
  ASSUME NEW w \in World, NEW a \in Assets, NEW b \in Nat, NEW feed, NEW v, NEW said, NEW broken,
         NEW s, s = SeriesOf(w, a, b, feed, v, said, broken), s.points # {}
  PROVE  Historic(w, a, b, SessionOf(v, feed), v.sampling = "daily_close", s)
<1> DEFINE c == SessionOf(v, feed)
<1>1. CASE v.sampling = "daily_close"
  <2>1. s = DailyCloses(w, a, b, c, said, broken)
    BY <1>1 DEF SeriesOf
  <2>2. PICK start : start = Max({0, Min(OpenCuts(b, c))})
    OBVIOUS
  <2>3. PICK o : o = Walked(w, a, b, start, broken)
    OBVIOUS
  <2> HIDE DEF c
  <2>4. OneADay(w, a, b, c, s)
    BY <2>1, <2>2, <2>3, DailyIs
  <2> QED BY <1>1, <2>4 DEF Historic, OneADay, c
<1>2. CASE v.sampling # "daily_close"
  <2>1. s = PriceSeries(w, a, b, WindowStart(b), said, broken)
    BY <1>2 DEF SeriesOf
  <2>2. WindowStart(b) \in Int
    <3>1. \A d, n \in Nat : d * n \in Int
      OBVIOUS
    <3>2. b - Days * Day \in Int
      BY <3>1, ReadsAssumption
    <3> DEFINE x == b - Days * Day
    <3>3. x \in Int
      BY <3>2
    <3> HIDE DEF x
    <3>4. Max({0, x}) \in {0, x}
      <4>1. 0 \in Int
        OBVIOUS
      <4> QED BY <3>3, <4>1, MaxOfTwo
    <3>5. Max({0, x}) \in Int
      BY <3>3, <3>4
    <3> QED BY <3>5 DEF WindowStart, x
  <2>3. /\ Max(s.points) = Max(Seen(w, a, b))
        /\ Unbroken(w, a, s.points)
        /\ s.coverage = "true" =>
             s.points = EffectAt(w, a, b, WindowStart(b))..Max(Seen(w, a, b))
    BY <2>1, <2>2, EveryRoundIs
  <2> QED BY <1>2, <2>3 DEF Historic
<1> QED BY <1>1, <1>2

LEMMA HistoryTold ==
  ASSUME Told PROVE SeriesIsHistory
<1>1. ASSUME NEW a \in DOMAIN reads.series, reads.series[a].points # {}
      PROVE  LET s == reads.series[a]
                 c == SessionOf(using.cfg, u.feeds[a])
                 open == OpenDays(c)
                 daily == using.cfg.sampling = "daily_close"
             IN /\ Max(s.points) = Max(Visible(a))
                /\ \A n \in Min(s.points)..(Max(s.points) - 1), m \in {0, 1} :
                     world.rounds[a][n + m].answer
                       < ScaleBreak * world.rounds[a][n + 1 - m].answer
                /\ s.coverage = "true" /\ ~daily =>
                     s.points = Prevailing(a, WindowStart(world.now))..Max(Visible(a))
                /\ s.coverage = "true" /\ daily =>
                     s.points = {Prevailing(a, t) : t \in open} \cup {Max(Visible(a))}
                /\ daily => \A n \in s.points \ {Max(Visible(a))} :
                              \E t \in open : n = Prevailing(a, t)
  <2>1. SeriesFrom(reads.series[a], a)
    BY DEF Told, SeriesTold
  <2>2. UniverseTyped /\ a \in Candidates(u)
    BY <2>1 DEF SeriesFrom
  <2>3. PICK w \in World, said \in Said, broken \in Nat :
          /\ Alike(w)
          /\ reads.series[a] = SeriesOf(w, a, w.now, u.feeds[a], using.cfg, said, broken)
    BY <2>1 DEF SeriesFrom
  <2>4. a \in Assets
    BY <2>2, FeedAssets
  <2>5. PICK b \in Nat : b = world.now /\ b = w.now
    BY <2>3, AlikeNow DEF World
  <2>6. w.rounds = world.rounds
    BY <2>3, AlikeNow
  <2> DEFINE c == SessionOf(using.cfg, u.feeds[a])
  <2>7. Historic(w, a, b, c, using.cfg.sampling = "daily_close", reads.series[a])
    BY <1>1, <2>3, <2>4, <2>5, SeriesHistoric
  <2>8. Visible(a) = Seen(w, a, b)
    BY <2>5, <2>6 DEF Visible, At, Seen
  <2>9. \A t : Prevailing(a, t) = EffectAt(w, a, b, t)
    BY <2>6, <2>8 DEF Prevailing, At, EffectAt
  <2>10. OpenDays(c) = OpenAt(b, c)
    BY <2>5 DEF OpenDays, OpenAt
  <2> HIDE DEF c
  <2>11. {Prevailing(a, t) : t \in OpenDays(c)} = Effects(w, a, b, OpenAt(b, c))
    BY <2>9, <2>10 DEF Effects
  <2>12. \A n \in Min(reads.series[a].points)..(Max(reads.series[a].points) - 1), m \in {0, 1} :
           world.rounds[a][n + m].answer < ScaleBreak * world.rounds[a][n + 1 - m].answer
    BY <2>6, <2>7 DEF Historic, Unbroken
  <2> QED BY <2>5, <2>7, <2>8, <2>9, <2>10, <2>11, <2>12 DEF Historic, c
<1> QED BY <1>1 DEF SeriesIsHistory

(* A price series read in a build is the feed's own history: it ends at the *)
(* newest round of the block, no round in it breaks the units, and one that *)
(* says it covers its window is every round from the one in effect when the *)
(* window opens, or the round in effect at each open day's cut; a close is  *)
(* never taken from another day.  However many rounds a walk may fetch, in  *)
(* batches of any size, whichever batch fails.                              *)
THEOREM SeriesTheorem == Spec => []SeriesIsHistory
<1>1. Told => SeriesIsHistory
  BY HistoryTold
<1> QED BY ToldAlways, <1>1, PTL

-------------------------------------------------------------------------------
(* Sums over sets of numbers: what MapThenSumSet chooses, step by step *)

(* g weighs every set of the first n numbers, each number x by f[x].        *)
Weighs(g, f, n) ==
  /\ g[{}] = 0
  /\ \A d \in SUBSET (0..(n - 1)) : g[d] \in Int
  /\ \A d \in SUBSET (0..(n - 1)) : \A x \in d : g[d] = f[x] + g[d \ {x}]

LEMMA WeightExists ==
  ASSUME NEW f, \A x \in Nat : f[x] \in Int, NEW n \in Nat
  PROVE  \E g : Weighs(g, f, n)
<1> DEFINE Missing == {k \in Nat : ~ \E g : Weighs(g, f, k)}
<1>1. SUFFICES ASSUME Missing # {} PROVE FALSE
  OBVIOUS
<1>2. PICK k \in Missing : \A m \in Missing : k <= m
  BY <1>1, LeastNumber
<1>3. CASE k = 0
  <2> DEFINE g == [d \in SUBSET (0..(0 - 1)) |-> 0]
  <2>1. \A d \in SUBSET (0..(0 - 1)) : d = {}
    OBVIOUS
  <2>2. {} \in SUBSET (0..(0 - 1))
    OBVIOUS
  <2>3. g[{}] = 0
    BY <2>2
  <2> HIDE DEF g
  <2>4. \A d \in SUBSET (0..(0 - 1)) : g[d] \in Int
    <3>1. \A d \in SUBSET (0..(0 - 1)) : g[d] = 0
      BY <2>1, <2>3
    <3> QED BY <3>1
  <2>5. \A d \in SUBSET (0..(0 - 1)) : \A x \in d : g[d] = f[x] + g[d \ {x}]
    BY <2>1
  <2>6. Weighs(g, f, 0)
    BY <2>3, <2>4, <2>5 DEF Weighs
  <2> QED BY <1>2, <1>3, <2>6
<1>4. CASE k # 0
  <2> DEFINE m == k - 1
  <2>1. m \in Nat /\ k = m + 1 /\ 0..(k - 1) = 0..(m - 1) \cup {m} /\ m \notin 0..(m - 1)
    BY <1>4
  <2>2. PICK g : Weighs(g, f, m)
    BY <1>2, <2>1
  <2> DEFINE h == [d \in SUBSET (0..(k - 1)) |->
                     IF m \in d THEN f[m] + g[d \ {m}] ELSE g[d]]
  <2>3. \A d \in SUBSET (0..(k - 1)) : d \ {m} \in SUBSET (0..(m - 1))
    BY <2>1
  <2>4. \A d \in SUBSET (0..(k - 1)) : m \notin d => d \in SUBSET (0..(m - 1))
    BY <2>1
  <2>5. f[m] \in Int /\ \A x \in 0..(k - 1) : f[x] \in Int
    BY <2>1
  <2>6. h[{}] = 0
    BY <2>2 DEF Weighs
  <2>7. ASSUME NEW d \in SUBSET (0..(k - 1)) PROVE h[d] \in Int
    BY <2>2, <2>3, <2>4, <2>5 DEF Weighs
  <2>8. ASSUME NEW d \in SUBSET (0..(k - 1)), NEW x \in d
        PROVE  h[d] = f[x] + h[d \ {x}]
    <3>1. d \ {x} \in SUBSET (0..(k - 1)) /\ f[x] \in Int
      BY <2>5
    <3>2. CASE x = m
      <4>1. h[d] = f[m] + g[d \ {m}] /\ h[d \ {m}] = g[d \ {m}]
        BY <3>1, <3>2
      <4> QED BY <3>2, <4>1
    <3>3. CASE x # m /\ m \in d
      <4>1. h[d] = f[m] + g[d \ {m}]
        BY <3>3
      <4>2. h[d \ {x}] = f[m] + g[(d \ {x}) \ {m}]
        BY <3>1, <3>3
      <4>3. g[d \ {m}] = f[x] + g[(d \ {m}) \ {x}]
        BY <2>2, <2>3, <3>3 DEF Weighs
      <4>4. (d \ {m}) \ {x} = (d \ {x}) \ {m}
        OBVIOUS
      <4>5. g[(d \ {x}) \ {m}] \in Int
        BY <2>2, <2>3, <3>1 DEF Weighs
      <4> HIDE DEF h, m
      <4> QED BY <2>5, <3>1, <4>1, <4>2, <4>3, <4>4, <4>5
    <3>4. CASE x # m /\ m \notin d
      <4>1. h[d] = g[d] /\ h[d \ {x}] = g[d \ {x}]
        BY <3>1, <3>4
      <4>2. g[d] = f[x] + g[d \ {x}]
        BY <2>2, <2>4, <3>4 DEF Weighs
      <4> QED BY <4>1, <4>2
    <3> QED BY <3>2, <3>3, <3>4
  <2>9. Weighs(h, f, k)
    <3> HIDE DEF h
    <3> QED BY <2>6, <2>7, <2>8 DEF Weighs
  <2> QED BY <1>2, <2>9
<1> QED BY <1>3, <1>4

(* c takes the sum over the subsets of S one chosen member at a time.       *)
Sums(c, f, S) ==
  \A d \in SUBSET S :
    c[d] = IF d = {} THEN 0
           ELSE f[CHOOSE x \in d : TRUE] + c[d \ {CHOOSE x \in d : TRUE}]

LEMMA SumIs ==
  ASSUME NEW f, NEW g, NEW n \in Nat, Weighs(g, f, n), NEW S \in SUBSET (0..(n - 1)),
         NEW c, Sums(c, f, S)
  PROVE  c[S] = g[S]
<1> DEFINE Differ == {k \in Nat : \E d \in SUBSET S : Cardinality(d) = k /\ c[d] # g[d]}
<1>1. SUFFICES ASSUME c[S] # g[S] PROVE FALSE
  OBVIOUS
<1>2. ASSUME NEW d \in SUBSET S PROVE IsFiniteSet(d) /\ Cardinality(d) \in Nat
  <2>1. IsFiniteSet(0..(n - 1)) /\ d \in SUBSET (0..(n - 1))
    BY FS_Interval
  <2>2. IsFiniteSet(d)
    BY <2>1, FS_Subset
  <2> QED BY <2>2, FS_CardinalityType
<1>3. Differ # {} /\ Differ \in SUBSET Nat
  BY <1>1, <1>2
<1>4. PICK k \in Differ : \A m \in Differ : k <= m
  BY <1>3, LeastNumber
<1>5. PICK d \in SUBSET S : Cardinality(d) = k /\ c[d] # g[d]
  BY <1>4
<1> DEFINE x == CHOOSE y \in d : TRUE
<1>6. d # {}
  BY <1>5 DEF Sums, Weighs
<1>7. x \in d
  BY <1>6
<1>8. c[d] = f[x] + c[d \ {x}]
  BY <1>6 DEF Sums
<1>9. g[d] = f[x] + g[d \ {x}]
  BY <1>7 DEF Weighs
<1> HIDE DEF x
<1>10. Cardinality(d \ {x}) = k - 1 /\ k \in Nat /\ d \ {x} \in SUBSET S
  BY <1>2, <1>4, <1>5, <1>7, FS_RemoveElement
<1>11. c[d \ {x}] # g[d \ {x}]
  BY <1>5, <1>8, <1>9
<1>12. Cardinality(d \ {x}) \in Nat
  BY <1>2, <1>10
<1>13. k - 1 \in Differ
  BY <1>10, <1>11, <1>12
<1>14. k <= k - 1
  BY <1>4, <1>13
<1> QED BY <1>10, <1>14

\* f says how long each request of S held the caller.
HeldFor(order, scripts, S, f) == \A j \in S : f[j] = Elapsed(scripts[order[j]])

LEMMA WaitedIs ==
  ASSUME NEW order, NEW scripts, NEW S, NEW f, HeldFor(order, scripts, S, f), NEW g,
         NEW n \in Nat, Weighs(g, f, n), S \in SUBSET (0..(n - 1))
  PROVE  Waited(order, scripts, S) = g[S]
<1> DEFINE taken(c) ==
             c = [d \in SUBSET S |->
                    IF d = {} THEN 0
                    ELSE Elapsed(scripts[order[CHOOSE x \in d : TRUE]])
                           + c[d \ {CHOOSE x \in d : TRUE}]]
<1>1. Waited(order, scripts, S) = (CHOOSE c : taken(c))[S]
  BY DEF Waited, MapThenSumSet, MapThenFoldSet
<1>2. \A d \in SUBSET S : d # {} => (CHOOSE x \in d : TRUE) \in d
  OBVIOUS
<1>3. taken([d \in SUBSET S |-> g[d]])
  <2> DEFINE k == [d \in SUBSET S |-> g[d]]
  <2>1. ASSUME NEW d \in SUBSET S, NEW x, x = CHOOSE y \in d : TRUE
        PROVE  k[d] = IF d = {} THEN 0 ELSE Elapsed(scripts[order[x]]) + k[d \ {x}]
    <3>1. CASE d = {}
      BY <3>1 DEF Weighs
    <3>2. CASE d # {}
      <4>1. x \in d /\ d \in SUBSET (0..(n - 1)) /\ d \ {x} \in SUBSET S
        BY <1>2, <2>1, <3>2
      <4>2. g[d] = f[x] + g[d \ {x}] /\ f[x] = Elapsed(scripts[order[x]])
        BY <4>1 DEF Weighs, HeldFor
      <4> QED BY <3>2, <4>1, <4>2
    <3> QED BY <3>1, <3>2
  <2>2. k = [d \in SUBSET S |-> k[d]]
    OBVIOUS
  <2> HIDE DEF k
  <2>3. taken(k)
    BY <2>1, <2>2
  <2> QED BY <2>3 DEF k
<1>4. taken(CHOOSE c : taken(c))
  <2> DEFINE k == [d \in SUBSET S |-> g[d]]
  <2>1. taken(k)
    BY <1>3
  <2> HIDE DEF taken
  <2> QED BY <2>1
<1>5. ASSUME NEW c, taken(c) PROVE c[S] = g[S]
  <2>1. Sums(c, f, S)
    BY <1>2, <1>5 DEF Sums, HeldFor
  <2> QED BY <2>1, SumIs
<1> HIDE DEF taken
<1> QED BY <1>1, <1>4, <1>5

(* The first m weigh as the first k and the rest.                           *)
LEMMA FirstAndRest ==
  ASSUME NEW f, NEW g, NEW n \in Nat, Weighs(g, f, n), NEW k \in 0..(n - 1), NEW m \in k..(n - 1),
         \A x \in Nat : f[x] \in Int
  PROVE  g[1..m] = g[1..k] + g[(k + 1)..m]
<1> DEFINE Bad == {j \in Nat : j \in k..(n - 1) /\ g[1..j] # g[1..k] + g[(k + 1)..j]}
<1>1. SUFFICES ASSUME Bad # {} PROVE FALSE
  BY DEF Bad
<1>2. PICK j \in Bad : \A i \in Bad : j <= i
  BY <1>1, LeastNumber
<1>3. j \in k..(n - 1) /\ j \in Nat /\ k \in Nat /\ g[1..j] # g[1..k] + g[(k + 1)..j]
  BY <1>2
<1>4. \A i \in 0..(n - 1) : 1..i \in SUBSET (0..(n - 1)) /\ (k + 1)..i \in SUBSET (0..(n - 1))
  OBVIOUS
<1>5. \A d \in SUBSET (0..(n - 1)) : g[d] \in Int /\ \A x \in d : g[d] = f[x] + g[d \ {x}]
  BY DEF Weighs
<1>6. g[1..k] \in Int
  BY <1>4, <1>5
<1>7. j # k
  <2>1. (k + 1)..k = {}
    OBVIOUS
  <2>2. g[(k + 1)..k] = 0
    BY <2>1 DEF Weighs
  <2> QED BY <1>3, <1>6, <2>2
<1>8. /\ j - 1 \in k..(n - 1) /\ j - 1 \in Nat /\ ~ (j <= j - 1)
      /\ 1..(j - 1) = (1..j) \ {j} /\ (k + 1)..(j - 1) = ((k + 1)..j) \ {j}
      /\ j \in 1..j /\ j \in (k + 1)..j /\ j \in 0..(n - 1)
  BY <1>3, <1>7
<1>9. g[1..(j - 1)] = g[1..k] + g[(k + 1)..(j - 1)]
  BY <1>2, <1>8
<1>10. g[1..j] = f[j] + g[1..(j - 1)] /\ g[(k + 1)..j] = f[j] + g[(k + 1)..(j - 1)]
  BY <1>4, <1>5, <1>8, ZenonT(40)
<1>11. f[j] \in Int /\ g[(k + 1)..(j - 1)] \in Int
  <2>1. (k + 1)..(j - 1) \in SUBSET (0..(n - 1))
    BY <1>4, <1>8
  <2> QED BY <1>3, <1>5, <2>1
<1> QED BY <1>3, <1>6, <1>9, <1>10, <1>11

-------------------------------------------------------------------------------
(* Open time is the instants the session is open *)

(* The closed span of the k-th week from the one before `since`.            *)
SpanFrom(c, since, k) == MondayOf(since) + (k - 1) * Week + c.start
SpanTo(c, since, k) == MondayOf(since) + (k - 1) * Week + c.end

OverlapOf(c, since, until, k) ==
  Max({0, Min({SpanTo(c, since, k), until}) - Max({SpanFrom(c, since, k), since})})

WeeksOf(c, since, until) ==
  {k \in 0..((until - since) \div Week + 2) : SpanFrom(c, since, k) < until}

LEMMA ClosedTimeIs ==
  ASSUME NEW c, NEW since, NEW until, ~ (until <= since),
         NEW S, S = WeeksOf(c, since, until),
         NEW f, \A k \in S : f[k] = OverlapOf(c, since, until, k),
         NEW g, NEW n \in Nat, Weighs(g, f, n), S \in SUBSET (0..(n - 1))
  PROVE  ClosedTime(c, since, until) = g[S]
<1> DEFINE taken(h) ==
             h = [d \in SUBSET S |->
                    IF d = {} THEN 0
                    ELSE OverlapOf(c, since, until, CHOOSE x \in d : TRUE)
                           + h[d \ {CHOOSE x \in d : TRUE}]]
<1>1. ClosedTime(c, since, until) = (CHOOSE h : taken(h))[S]
  BY DEF ClosedTime, MapThenSumSet, MapThenFoldSet, WeeksOf, OverlapOf, SpanFrom, SpanTo
<1>2. \A d \in SUBSET S : d # {} => (CHOOSE x \in d : TRUE) \in d
  OBVIOUS
<1>3. taken([d \in SUBSET S |-> g[d]])
  <2> DEFINE k == [d \in SUBSET S |-> g[d]]
  <2>1. ASSUME NEW d \in SUBSET S, NEW x, x = CHOOSE y \in d : TRUE
        PROVE  k[d] = IF d = {} THEN 0 ELSE OverlapOf(c, since, until, x) + k[d \ {x}]
    <3>1. CASE d = {}
      BY <3>1 DEF Weighs
    <3>2. CASE d # {}
      <4>1. x \in d /\ d \in SUBSET (0..(n - 1)) /\ d \ {x} \in SUBSET S
        BY <1>2, <2>1, <3>2
      <4>2. g[d] = f[x] + g[d \ {x}] /\ f[x] = OverlapOf(c, since, until, x)
        BY <4>1 DEF Weighs
      <4> QED BY <3>2, <4>1, <4>2
    <3> QED BY <3>1, <3>2
  <2>2. k = [d \in SUBSET S |-> k[d]]
    OBVIOUS
  <2> HIDE DEF k
  <2>3. \A d \in SUBSET S :
          k[d] = IF d = {} THEN 0
                 ELSE OverlapOf(c, since, until, CHOOSE x \in d : TRUE)
                        + k[d \ {CHOOSE x \in d : TRUE}]
    BY <2>1, ZenonT(40)
  <2>4. taken(k)
    BY <2>2, <2>3
  <2> QED BY <2>4 DEF k
<1>4. taken(CHOOSE h : taken(h))
  <2> DEFINE k == [d \in SUBSET S |-> g[d]]
  <2>1. taken(k)
    BY <1>3
  <2> HIDE DEF taken
  <2> QED BY <2>1
<1>5. ASSUME NEW h, taken(h) PROVE h[S] = g[S]
  <2>1. Sums(h, f, S)
    BY <1>2, <1>5 DEF Sums
  <2> QED BY <2>1, SumIs
<1> HIDE DEF taken
<1> QED BY <1>1, <1>4, <1>5

(* A span holds whole instants only, and no week's reaches the next.        *)
Proper(c) == c \in Closure /\ c.end < c.start + Week

LEMMA SpansProper ==
  ASSUME NEW c \in Spans PROVE Proper(c)
BY SessionsAssumption DEF Spans, Proper, NoClosure, Closure

InWeek(c, since, until, k) ==
  {t \in since..(until - 1) : SpanFrom(c, since, k) <= t /\ t < SpanTo(c, since, k)}

LEMMA SpanTyped ==
  ASSUME NEW c, Proper(c), NEW since \in Int, NEW k \in Int
  PROVE  /\ SpanFrom(c, since, k) \in Int /\ SpanTo(c, since, k) \in Int
         /\ SpanTo(c, since, k) = SpanFrom(c, since, k) + c.end - c.start
         /\ SpanFrom(c, since, k + 1) = SpanFrom(c, since, k) + Week
         /\ c.start \in Nat /\ c.end \in Nat /\ c.start < Week /\ c.end < 2 * Week
         /\ Week \in Nat \ {0} /\ MondayOf(since) \in Int
<1>1. Week \in Nat \ {0}
  BY SessionsAssumption
<1>2. c.start \in Nat /\ c.end \in Nat /\ c.start < Week /\ c.end < 2 * Week
  BY <1>1 DEF Proper, Closure
<1>3. MondayOf(since) \in Int
  BY <1>1, Position DEF MondayOf
<1>4. \A w \in Int : (k - 1) * w \in Int /\ (k + 1 - 1) * w = (k - 1) * w + w
  OBVIOUS
<1>5. (k - 1) * Week \in Int /\ (k + 1 - 1) * Week = (k - 1) * Week + Week
  BY <1>1, <1>4
<1> DEFINE x == (k - 1) * Week
           y == (k + 1 - 1) * Week
<1>6. SpanFrom(c, since, k) = MondayOf(since) + x + c.start
      /\ SpanTo(c, since, k) = MondayOf(since) + x + c.end
      /\ SpanFrom(c, since, k + 1) = MondayOf(since) + y + c.start
  BY DEF SpanFrom, SpanTo
<1>7. x \in Int /\ y = x + Week
  BY <1>5
<1> HIDE DEF x, y
<1> QED BY <1>1, <1>2, <1>3, <1>6, <1>7

(* A week's overlap counts the instants of its span.                        *)
LEMMA WeekCount ==
  ASSUME NEW c, Proper(c), NEW since \in Int, NEW until \in Int, NEW k \in Int
  PROVE  /\ IsFiniteSet(InWeek(c, since, until, k))
         /\ Cardinality(InWeek(c, since, until, k)) = OverlapOf(c, since, until, k)
         /\ OverlapOf(c, since, until, k) \in Int
<1> DEFINE x == SpanFrom(c, since, k)
           y == SpanTo(c, since, k)
           low == Max({x, since})
           high == Min({y, until})
<1>1. x \in Int /\ y \in Int
  BY SpanTyped
<1>2. InWeek(c, since, until, k) = {t \in since..(until - 1) : x <= t /\ t < y}
  BY DEF InWeek
<1>3. OverlapOf(c, since, until, k) = Max({0, high - low})
  BY DEF OverlapOf
<1> HIDE DEF x, y
<1>4. low \in {x, since} /\ x <= low /\ since <= low
  BY <1>1, MaxOfTwo
<1>5. high \in {y, until} /\ high <= y /\ high <= until
  BY <1>1, MinOfTwo
<1> HIDE DEF low, high
<1>6. low \in Int /\ high \in Int
  BY <1>1, <1>4, <1>5
<1>7. {t \in since..(until - 1) : x <= t /\ t < y} = low..(high - 1)
  BY <1>1, <1>4, <1>5, <1>6
<1>8. /\ IsFiniteSet(low..(high - 1))
      /\ Cardinality(low..(high - 1)) = IF low > high - 1 THEN 0 ELSE high - 1 - low + 1
  BY <1>6, FS_Interval
<1>9. Max({0, high - low}) \in {0, high - low} /\ 0 <= Max({0, high - low})
      /\ high - low <= Max({0, high - low})
  <2>1. \A z \in Int : Max({0, z}) \in {0, z} /\ 0 <= Max({0, z}) /\ z <= Max({0, z})
    BY MaxOfTwo
  <2> QED BY <1>6, <2>1
<1>10. Max({0, high - low}) = IF low > high - 1 THEN 0 ELSE high - 1 - low + 1
  BY <1>6, <1>9
<1>11. Max({0, high - low}) \in Int
  BY <1>6, <1>9
<1> QED BY <1>2, <1>3, <1>7, <1>8, <1>10, <1>11

(* Two instants' weeks are whole weeks apart.                               *)
LEMMA WeeksApart ==
  ASSUME NEW since \in Int, NEW t \in Int
  PROVE  \E j \in Int :
           /\ t = MondayOf(since) + j * Week + WeekPosition(t)
           /\ since <= t => j \in 0..((t - since) \div Week + 1)
<1>1. Week \in Nat \ {0} /\ MondayOffset \in Int
  BY SessionsAssumption
<1> DEFINE x == t - MondayOffset
           y == since - MondayOffset
           j == x \div Week - y \div Week
           d == (t - since) \div Week
<1>2. /\ x % Week \in 0..(Week - 1) /\ x \div Week \in Int /\ x = Week * (x \div Week) + (x % Week)
      /\ y % Week \in 0..(Week - 1) /\ y \div Week \in Int /\ y = Week * (y \div Week) + (y % Week)
  BY <1>1, Remainders
<1>3. (t - since) % Week \in 0..(Week - 1) /\ d \in Int /\ t - since = Week * d + ((t - since) % Week)
  BY <1>1, Remainders
<1>4. \A k, l, w \in Int : (k - l) * w = w * k - w * l /\ w * k \in Int
  OBVIOUS
<1>5. j \in Int /\ j * Week = Week * (x \div Week) - Week * (y \div Week)
      /\ Week * (x \div Week) \in Int /\ Week * (y \div Week) \in Int /\ Week * d \in Int
  BY <1>1, <1>2, <1>3, <1>4
<1>6. WeekPosition(t) = x % Week /\ MondayOf(since) = since - (y % Week)
  BY DEF MondayOf, WeekPosition
<1>7. t = MondayOf(since) + j * Week + WeekPosition(t)
  <2> DEFINE q == Week * (x \div Week)
             r == Week * (y \div Week)
             e == x % Week
             f == y % Week
             z == j * Week
  <2>1. x = q + e /\ y = r + f /\ q \in Int /\ r \in Int /\ e \in Int /\ f \in Int /\ z = q - r
    BY <1>2, <1>5
  <2>2. x = t - MondayOffset /\ y = since - MondayOffset
    OBVIOUS
  <2>3. WeekPosition(t) = e /\ MondayOf(since) = since - f
    BY <1>6
  <2> HIDE DEF q, r, e, f, z, x, y
  <2>4. t = MondayOf(since) + z + WeekPosition(t)
    BY <1>1, <2>1, <2>2, <2>3
  <2> QED BY <2>4 DEF z
<1>8. \A k, w \in Int : /\ w > 0 /\ k * w > -w => k >= 0
  <2>1. ASSUME NEW k \in Int, NEW w \in Int, w > 0, k * w > -w PROVE k >= 0
    <3>1. k <= -1 => k * w <= -w
      BY <2>1
    <3> QED BY <2>1, <3>1
  <2> QED BY <2>1
<1>9. \A k, l \in Int, w \in Int : w > 0 /\ k * w < w * l + w + w => k <= l + 1
  <2>1. ASSUME NEW k \in Int, NEW l \in Int, NEW w \in Int, w > 0, k * w < w * l + w + w
        PROVE  k <= l + 1
    <3>1. k >= l + 2 => k * w >= (l + 2) * w
      BY <2>1
    <3>2. (l + 2) * w = w * l + w + w
      OBVIOUS
    <3> QED BY <2>1, <3>1, <3>2
  <2> QED BY <2>1
<1>10. ASSUME since <= t PROVE j \in 0..(d + 1)
  <2> DEFINE z == j * Week
             v == Week * d
             e == (t - since) % Week
             f == x % Week
             h == y % Week
             q == Week * (x \div Week)
             r == Week * (y \div Week)
  <2>1. z = q - r /\ q \in Int /\ r \in Int /\ v \in Int /\ t - since = v + e
        /\ e \in 0..(Week - 1) /\ f \in 0..(Week - 1) /\ h \in 0..(Week - 1)
        /\ x = q + f /\ y = r + h
    BY <1>2, <1>3, <1>5
  <2>2. x - y = t - since /\ x \in Int /\ y \in Int
    BY <1>1
  <2>3. j \in Int /\ d \in Int
    BY <1>3, <1>5
  <2> HIDE DEF v, e, f, h, q, r, x, y
  <2>4. z > -Week /\ z < v + Week + Week
    <3> HIDE DEF z
    <3> QED BY <1>1, <1>10, <2>1, <2>2
  <2> HIDE DEF j, d
  <2>5. j >= 0
    BY <1>1, <1>8, <2>3, <2>4
  <2>6. j <= d + 1
    BY <1>1, <1>9, <2>3, <2>4 DEF v
  <2> QED BY <2>3, <2>5, <2>6
<1> HIDE DEF j
<1> QED BY <1>5, <1>7, <1>10

(* An instant the session is closed at lies in the span of some week, one   *)
(* of those counted, and an instant in a span is one the session is closed  *)
(* at.                                                                      *)
LEMMA ClosedInSpan ==
  ASSUME NEW c, Proper(c), NEW since \in Int, NEW until \in Int,
         NEW t \in since..(until - 1), Within(c, t)
  PROVE  \E k \in WeeksOf(c, since, until) : t \in InWeek(c, since, until, k)
<1>1. c.start \in Nat /\ c.end \in Nat /\ Week \in Nat \ {0} /\ MondayOf(since) \in Int
  BY SpanTyped
<1> DEFINE p == WeekPosition(t)
           d == (t - since) \div Week
           e == (until - since) \div Week
<1>2. p \in 0..(Week - 1) /\ t \in Int
  BY Position
<1>3. PICK j \in Int : t = MondayOf(since) + j * Week + p /\ j \in 0..(d + 1)
  <2>1. t \in Int /\ since <= t
    BY <1>2
  <2> QED BY <2>1, WeeksApart
<1>4. d \in Int /\ e \in Int /\ d <= e
  <2>1. t - since \in Int /\ until - since \in Int /\ t - since <= until - since
    BY <1>2
  <2> QED BY <1>1, <2>1, DivMonotone
<1>5. \A w \in Int : (j + 1 - 1) * w = j * w /\ (j - 1) * w = j * w - w /\ j * w \in Int
  OBVIOUS
<1> DEFINE z == j * Week
           y == (j + 1 - 1) * Week
           x == (j - 1) * Week
<1>6. z \in Int /\ y = z /\ x = z - Week
  BY <1>1, <1>5
<1>7. /\ SpanFrom(c, since, j + 1) = MondayOf(since) + y + c.start
      /\ SpanTo(c, since, j + 1) = MondayOf(since) + y + c.end
      /\ SpanFrom(c, since, j) = MondayOf(since) + x + c.start
      /\ SpanTo(c, since, j) = MondayOf(since) + x + c.end
  BY DEF SpanFrom, SpanTo
<1>8. t = MondayOf(since) + z + p
  BY <1>3
<1>9. \/ c.start <= p /\ p < c.end
      \/ c.start <= p + Week /\ p + Week < c.end
  BY DEF Within
<1> HIDE DEF p, d, e, x, y, z
<1>10. j \in 0..(e + 2) /\ j + 1 \in 0..(e + 2)
  BY <1>3, <1>4
<1>11. CASE c.start <= p /\ p < c.end
  <2>1. SpanFrom(c, since, j + 1) <= t /\ t < SpanTo(c, since, j + 1)
        /\ SpanFrom(c, since, j + 1) < until
    BY <1>1, <1>2, <1>6, <1>7, <1>8, <1>11
  <2> QED BY <1>10, <2>1 DEF WeeksOf, InWeek, e
<1>12. CASE c.start <= p + Week /\ p + Week < c.end
  <2>1. SpanFrom(c, since, j) <= t /\ t < SpanTo(c, since, j)
        /\ SpanFrom(c, since, j) < until
    BY <1>1, <1>2, <1>6, <1>7, <1>8, <1>12
  <2> QED BY <1>10, <2>1 DEF WeeksOf, InWeek, e
<1> QED BY <1>9, <1>11, <1>12

LEMMA InSpanClosed ==
  ASSUME NEW c, Proper(c), NEW since \in Int, NEW until \in Int, NEW k \in Int,
         NEW t \in InWeek(c, since, until, k)
  PROVE  Within(c, t)
<1>1. /\ c.start \in Nat /\ c.end \in Nat /\ Week \in Nat \ {0} /\ MondayOf(since) \in Int
      /\ c.end < 2 * Week
  BY SpanTyped
<1> DEFINE p == WeekPosition(t)
<1>2. t \in Int /\ SpanFrom(c, since, k) <= t /\ t < SpanTo(c, since, k)
  BY DEF InWeek
<1>3. p \in 0..(Week - 1)
  BY <1>2, Position
<1>4. PICK j \in Int : t = MondayOf(since) + j * Week + p
  BY <1>2, WeeksApart
<1> DEFINE z == j * Week
           x == (k - 1) * Week
           i == j - k + 1
           y == i * Week
<1>5. z \in Int /\ x \in Int /\ y = z - x /\ i \in Int
  <2>1. \A w \in Int : j * w \in Int /\ (k - 1) * w \in Int /\ (j - k + 1) * w = j * w - (k - 1) * w
    OBVIOUS
  <2> QED BY <1>1, <2>1
<1>6. SpanFrom(c, since, k) = MondayOf(since) + x + c.start
      /\ SpanTo(c, since, k) = MondayOf(since) + x + c.end
  BY DEF SpanFrom, SpanTo
<1>7. t = MondayOf(since) + z + p
  BY <1>4
<1>8. \A l, w \in Int : w > 0 => /\ (l * w > -w => l >= 0)
                                 /\ (l * w < 2 * w => l <= 1)
                                 /\ 0 * w = 0 /\ 1 * w = w
  <2>1. ASSUME NEW l \in Int, NEW w \in Int, w > 0
        PROVE  (l * w > -w => l >= 0) /\ (l * w < 2 * w => l <= 1)
    <3>1. (l <= -1 => l * w <= -w) /\ (l >= 2 => l * w >= 2 * w)
      BY <2>1
    <3> QED BY <2>1, <3>1
  <2> QED BY <2>1
<1> HIDE DEF p, x, z
<1>9. c.start <= y + p /\ y + p < c.end /\ y \in Int
  <2> HIDE DEF y
  <2> QED BY <1>1, <1>2, <1>3, <1>5, <1>6, <1>7
<1> HIDE DEF i
<1>10. y > -Week /\ y < 2 * Week
  <2> HIDE DEF y
  <2> QED BY <1>1, <1>3, <1>9
<1>11. i \in {0, 1}
  <2>1. i >= 0 /\ i <= 1
    BY <1>1, <1>5, <1>8, <1>10
  <2> QED BY <1>5, <2>1
<1>12. (i = 0 => y = 0) /\ (i = 1 => y = Week)
  BY <1>1, <1>8
<1> HIDE DEF y
<1> QED BY <1>1, <1>3, <1>9, <1>11, <1>12 DEF Within, p

(* The spans of two weeks are apart.                                        *)
LEMMA WeeksDisjoint ==
  ASSUME NEW c, Proper(c), NEW since \in Int, NEW until \in Int,
         NEW k \in Int, NEW j \in Int, k < j
  PROVE  InWeek(c, since, until, k) \cap InWeek(c, since, until, j) = {}
<1> DEFINE x == (k - 1) * Week
           y == (j - 1) * Week
<1>1. /\ c.start \in Nat /\ c.end \in Nat /\ Week \in Nat \ {0} /\ MondayOf(since) \in Int
      /\ c.end < c.start + Week
  BY SpanTyped DEF Proper
<1>2. x \in Int /\ y \in Int /\ x + Week <= y
  <2>1. \A w \in Nat, l, m \in Int : l < m => (l - 1) * w \in Int /\ (m - 1) * w \in Int
                                              /\ (l - 1) * w + w <= (m - 1) * w
    <3>1. ASSUME NEW w \in Nat, NEW l \in Int, NEW m \in Int, l < m
          PROVE  (l - 1) * w \in Int /\ (m - 1) * w \in Int /\ (l - 1) * w + w <= (m - 1) * w
      <4>1. l * w <= (m - 1) * w /\ (l - 1) * w + w = l * w
        BY <3>1
      <4> QED BY <4>1
    <3> QED BY <3>1
  <2> QED BY <1>1, <2>1
<1>3. SpanTo(c, since, k) = MondayOf(since) + x + c.end
      /\ SpanFrom(c, since, j) = MondayOf(since) + y + c.start
  BY DEF SpanFrom, SpanTo
<1> HIDE DEF x, y
<1>4. SpanTo(c, since, k) <= SpanFrom(c, since, j)
      /\ SpanTo(c, since, k) \in Int /\ SpanFrom(c, since, j) \in Int
  BY <1>1, <1>2, <1>3
<1>5. \A t \in Int : ~ (t < SpanTo(c, since, k) /\ SpanFrom(c, since, j) <= t)
  BY <1>4
<1> QED BY <1>5 DEF InWeek

(* The weeks before the m-th, and their closed instants.                    *)
WeeksBefore(c, since, until, m) == {k \in WeeksOf(c, since, until) : k < m}

ClosedBefore(c, since, until, m) ==
  UNION {InWeek(c, since, until, k) : k \in WeeksBefore(c, since, until, m)}

LEMMA ClosedCount ==
  ASSUME NEW c, Proper(c), NEW since \in Int, NEW until \in Int,
         NEW n \in Nat, WeeksOf(c, since, until) \subseteq 0..(n - 1),
         NEW f, \A k \in WeeksOf(c, since, until) : f[k] = OverlapOf(c, since, until, k),
         NEW g, Weighs(g, f, n)
  PROVE  \A m \in 0..n :
           /\ IsFiniteSet(ClosedBefore(c, since, until, m))
           /\ Cardinality(ClosedBefore(c, since, until, m))
                = g[WeeksBefore(c, since, until, m)]
<1> DEFINE S == WeeksOf(c, since, until)
           First(m) == WeeksBefore(c, since, until, m)
           U(m) == ClosedBefore(c, since, until, m)
           Good(m) == IsFiniteSet(U(m)) /\ Cardinality(U(m)) = g[First(m)]
           Bad == {m \in Nat : m <= n /\ ~ Good(m)}
<1>1. SUFFICES ASSUME Bad # {} PROVE FALSE
  <2>1. \A m \in 0..n : m \in Nat /\ m <= n
    OBVIOUS
  <2>2. Bad = {} => \A m \in 0..n : Good(m)
    <3> HIDE DEF Good
    <3> QED BY <2>1
  <2> QED BY <2>2
<1>2. PICK m \in Bad : \A i \in Bad : m <= i
  <2>1. Bad # {} /\ Bad \in SUBSET Nat
    BY <1>1
  <2> HIDE DEF Bad
  <2> QED BY <2>1, LeastNumber
<1>3. m \in Nat /\ m <= n /\ ~ Good(m)
  BY <1>2
<1>4. S \subseteq 0..(n - 1) /\ \A k \in S : k \in Int /\ k >= 0
  OBVIOUS
<1>5. m # 0
  <2>1. First(0) = {}
    BY <1>4 DEF WeeksBefore
  <2>2. U(0) = {}
    BY <2>1 DEF ClosedBefore
  <2>3. Good(0)
    BY <2>1, <2>2, FS_EmptySet DEF Weighs
  <2> QED BY <1>3, <2>3
<1> DEFINE j == m - 1
<1>6. j \in Nat /\ m = j + 1 /\ j <= n /\ ~ (m <= j)
  BY <1>3, <1>5
<1> HIDE DEF j
<1>7. Good(j)
  <2>1. j \notin Bad
    BY <1>2, <1>6
  <2> HIDE DEF Good
  <2> QED BY <1>6, <2>1
<1>8. CASE j \notin S
  <2>1. First(m) = First(j)
    BY <1>4, <1>6, <1>8 DEF WeeksBefore
  <2>2. U(m) = U(j)
    BY <2>1 DEF ClosedBefore
  <2> QED BY <1>3, <1>7, <2>1, <2>2
<1>9. CASE j \in S
  <2> DEFINE W == InWeek(c, since, until, j)
  <2>1. First(m) = First(j) \cup {j} /\ j \notin First(j) /\ First(j) = First(m) \ {j}
    BY <1>4, <1>6, <1>9 DEF WeeksBefore
  <2>2. U(m) = U(j) \cup W
    <3>1. First(m) = First(j) \cup {j}
      BY <2>1
    <3> QED BY <3>1 DEF ClosedBefore
  <2>3. U(j) \cap W = {}
    <3>1. ASSUME NEW k \in First(j) PROVE InWeek(c, since, until, k) \cap W = {}
      <4>1. k \in Int /\ j \in Int /\ k < j
        BY <1>4, <1>6 DEF WeeksBefore
      <4> QED BY <4>1, WeeksDisjoint
    <3>2. U(j) = UNION {InWeek(c, since, until, k) : k \in First(j)}
      BY DEF ClosedBefore
    <3> HIDE DEF W, U, First
    <3> QED BY <3>1, <3>2
  <2>4. IsFiniteSet(W) /\ Cardinality(W) = f[j]
    BY <1>6, <1>9, WeekCount
  <2>5. g[First(m)] = f[j] + g[First(j)]
    <3>1. First(m) \in SUBSET (0..(n - 1)) /\ j \in First(m)
      BY <1>4, <2>1 DEF WeeksBefore
    <3>2. g[First(m)] = f[j] + g[First(m) \ {j}]
      BY <3>1 DEF Weighs
    <3> QED BY <2>1, <3>2
  <2>6. IsFiniteSet(U(j)) /\ Cardinality(U(j)) = g[First(j)]
    BY <1>7
  <2> HIDE DEF U, W, First
  <2>7. /\ IsFiniteSet(U(j) \cup W)
        /\ Cardinality(U(j) \cup W) = Cardinality(U(j)) + Cardinality(W) - Cardinality(U(j) \cap W)
    BY <2>4, <2>6, FS_Union
  <2>8. Cardinality(U(j) \cap W) = 0 /\ Cardinality(U(j)) \in Nat /\ Cardinality(W) \in Nat
    BY <2>3, <2>4, <2>6, FS_EmptySet, FS_CardinalityType
  <2>9. Cardinality(U(j) \cup W) = f[j] + g[First(j)]
    BY <2>4, <2>6, <2>7, <2>8
  <2> QED BY <1>3, <2>2, <2>5, <2>7, <2>9
<1> QED BY <1>8, <1>9

(* The open time between two instants is how many of those from the first   *)
(* to the last the session is open at.                                      *)
LEMMA OpenTimeIs ==
  ASSUME NEW c, Proper(c), NEW since \in Int, NEW until \in Int, since <= until
  PROVE  OpenTime(c, since, until)
           = Cardinality({t \in since..(until - 1) : ~ Within(c, t)})
<1> DEFINE A == since..(until - 1)
           In == {t \in A : Within(c, t)}
           Out == {t \in A : ~ Within(c, t)}
           S == WeeksOf(c, since, until)
<1>1. /\ IsFiniteSet(A) /\ Cardinality(A) = until - since
  <2>1. /\ IsFiniteSet(A)
        /\ Cardinality(A) = IF since > until - 1 THEN 0 ELSE until - 1 - since + 1
    <3>1. until - 1 \in Int
      OBVIOUS
    <3> QED BY <3>1, FS_Interval
  <2>2. (IF since > until - 1 THEN 0 ELSE until - 1 - since + 1) = until - since
    OBVIOUS
  <2> QED BY <2>1, <2>2
<1>2. IsFiniteSet(In) /\ IsFiniteSet(Out) /\ Cardinality(In) \in Nat /\ Cardinality(Out) \in Nat
  <2>1. In \in SUBSET A /\ Out \in SUBSET A
    OBVIOUS
  <2> HIDE DEF A, In, Out
  <2>2. IsFiniteSet(In) /\ IsFiniteSet(Out)
    BY <1>1, <2>1, FS_Subset
  <2> QED BY <2>2, FS_CardinalityType
<1>3. Cardinality(A) = Cardinality(In) + Cardinality(Out)
  <2>1. A = In \cup Out /\ In \cap Out = {}
    OBVIOUS
  <2> HIDE DEF A, In, Out
  <2>2. Cardinality(In \cup Out) = Cardinality(In) + Cardinality(Out) - Cardinality(In \cap Out)
    BY <1>2, FS_Union
  <2>3. Cardinality(In \cap Out) = 0
    BY <2>1, FS_EmptySet
  <2> QED BY <1>2, <2>1, <2>2, <2>3
<1>4. ClosedTime(c, since, until) = Cardinality(In)
  <2>1. CASE until <= since
    <3>1. In = {}
      BY <2>1
    <3>2. ClosedTime(c, since, until) = 0
      BY <2>1 DEF ClosedTime
    <3> QED BY <3>1, <3>2, FS_EmptySet
  <2>2. CASE ~ (until <= since)
    <3> DEFINE n == (until - since) \div Week + 3
               f == [k \in Nat |-> OverlapOf(c, since, until, k)]
    <3>1. n \in Nat /\ n >= 3 /\ S \in SUBSET (0..(n - 1))
      <4>1. Week \in Nat \ {0} /\ until - since \in Nat
        BY <2>2, SessionsAssumption
      <4>2. (until - since) \div Week \in Nat
        BY <4>1
      <4>3. n \in Nat /\ n >= 3 /\ n - 1 = (until - since) \div Week + 2
        BY <4>2
      <4> HIDE DEF n
      <4>4. S \subseteq 0..((until - since) \div Week + 2)
        BY DEF WeeksOf
      <4> QED BY <4>3, <4>4
    <3>2. \A k \in Nat : f[k] \in Int
      BY WeekCount
    <3>3. \A k \in S : f[k] = OverlapOf(c, since, until, k)
      BY <3>1
    <3> HIDE DEF f, n
    <3>4. PICK g : Weighs(g, f, n)
      BY <3>1, <3>2, WeightExists
    <3>5. ClosedTime(c, since, until) = g[S]
      <4> HIDE DEF S
      <4> QED BY <2>2, <3>1, <3>3, <3>4, ClosedTimeIs DEF S
    <3>6. Cardinality(ClosedBefore(c, since, until, n)) = g[WeeksBefore(c, since, until, n)]
      <4>1. n \in 0..n /\ WeeksOf(c, since, until) \subseteq 0..(n - 1)
        BY <3>1
      <4> QED BY <3>1, <3>3, <3>4, <4>1, ClosedCount
    <3>7. WeeksBefore(c, since, until, n) = S
      BY <3>1 DEF WeeksBefore
    <3>8. ClosedBefore(c, since, until, n) = UNION {InWeek(c, since, until, k) : k \in S}
      BY <3>7 DEF ClosedBefore
    <3>9. In = UNION {InWeek(c, since, until, k) : k \in S}
      <4>1. ASSUME NEW t \in In PROVE \E k \in S : t \in InWeek(c, since, until, k)
        BY ClosedInSpan
      <4>2. ASSUME NEW k \in S, NEW t \in InWeek(c, since, until, k) PROVE t \in In
        <5>1. k \in Int
          BY <3>1
        <5>2. t \in A
          BY DEF InWeek
        <5> QED BY <5>1, <5>2, InSpanClosed
      <4> HIDE DEF In, S
      <4> QED BY <4>1, <4>2
    <3> QED BY <3>5, <3>6, <3>7, <3>8, <3>9
  <2> QED BY <2>1, <2>2
<1> HIDE DEF A, In, Out
<1>5. OpenTime(c, since, until) = Cardinality(Out)
  BY <1>1, <1>2, <1>3, <1>4 DEF OpenTime
<1> QED BY <1>5 DEF Out, A

-------------------------------------------------------------------------------
(* What a stock has to be, for the snapshot to call it tradeable *)

(* Past the beacons, none that was read is another's.                       *)
BeaconsAgree ==
  pc \in PastBeacons \/ doc # Nothing => Disagree(reads.slots) = {}

LEMMA CommandBeacons ==
  ASSUME Shape, Progress, BeaconsAgree, Command PROVE BeaconsAgree'
<1> USE DEF PastBeacons, PastGecko, PastQuotes, PastSeal, PastAssemble, PastWrite, PastReplay
<1>1. UNCHANGED Lasting /\ ReadsShape
  BY CommandKeeps DEF Shape
<1>2. CASE ReadBeacons
  <2>1. pc' \in PastBeacons => pc' = "gecko"
    BY <1>2, Steering
  <2>2. pc = "beacons" /\ UNCHANGED doc
    BY <1>2, Steering DEF ReadBeacons
  <2>3. doc = Nothing
    BY <2>2 DEF Progress
  <2> QED BY <1>1, <1>2, <2>1, <2>2, <2>3, ToldSlots DEF BeaconsAgree
<1>3. CASE ~ ReadBeacons
  <2>1. reads'.slots = reads.slots
    BY <1>1, <1>3, ReadsFrame
  <2>2. pc' \in PastBeacons => pc \in PastBeacons
    BY <1>3, Steering, SMTT(40) DEF Command
  <2>3. doc' # Nothing => doc # Nothing \/ pc = "assemble"
    BY BuildFrame, Steering
  <2>4. ASSUME pc' \in PastBeacons \/ doc' # Nothing PROVE pc \in PastBeacons \/ doc # Nothing
    BY <2>2, <2>3, <2>4
  <2> QED BY <2>1, <2>4 DEF BeaconsAgree, Disagree
<1> QED BY <1>2, <1>3

LEMMA BeaconsAlways == Spec => []BeaconsAgree
<1>1. Init => BeaconsAgree
  BY DEF Init, BeaconsAgree, PastBeacons, PastGecko, PastQuotes, PastSeal, PastAssemble,
         PastWrite, PastReplay
<1>2. Shape /\ Progress /\ BeaconsAgree /\ [Next]_vars => BeaconsAgree'
  <2>1. ASSUME Shape, BeaconsAgree, (Owner \/ UNCHANGED vars) PROVE BeaconsAgree'
    <3>1. UNCHANGED <<pc, doc, reads>>
      BY <2>1, OwnerKeeps DEF Shape, build, vars
    <3> QED BY <2>1, <3>1 DEF BeaconsAgree
  <2> QED BY <2>1, CommandBeacons DEF Next
<1> QED BY ProgressAlways, <1>1, <1>2, PTL DEF Spec

(* Tradeable is what no rule of the order refuses.                          *)
LEMMA JudgedTradeable ==
  ASSUME NEW v, NEW s, Judge(v, s).value = "tradeable"
  PROVE  /\ AdmissionRule(v, s.asset) = "none" /\ s.mark.verdict = "true"
         /\ s.series.coverage = "true"
         /\ CrossRule(s.mark, s.corroboration, s.closed) = "none"
         /\ s.tradeable = "true"
<1>1. \A r : AdmissionStatus(r) # "tradeable" /\ CrossStatus(r) # "tradeable"
  BY DEF AdmissionStatus, CrossStatus
<1> DEFINE a == AdmissionRule(v, s.asset)
           x == CrossRule(s.mark, s.corroboration, s.closed)
<1>2. Judge(v, s).value =
        IF a # "none" THEN AdmissionStatus(a)
        ELSE IF s.mark.verdict # "true" THEN "no_mark"
        ELSE IF s.series.coverage # "true" THEN "short_history"
        ELSE IF x # "none" THEN CrossStatus(x)
        ELSE IF s.tradeable # "true" THEN "not_tradeable" ELSE "tradeable"
  BY DEF Judge
<1> HIDE DEF a, x
<1> QED BY <1>1, <1>2 DEF a, x

(* Admitted: listed, active, of a beacon that was read.                     *)
LEMMA Admitted ==
  ASSUME NEW v, NEW a, NEW beacon, AdmissionRule(v, Stock(v, a, beacon)) = "none"
  PROVE  Registries[v.registry][a] = "ACTIVE" /\ beacon = "true"
<1>1. AdmissionRule(v, Stock(v, a, beacon)) = "none" =>
        Standing(v, a) = "true" /\ beacon = "true"
  BY DEF AdmissionRule, Stock
<1> QED BY <1>1 DEF Standing, Judged, Records

LEMMA BeaconTrue ==
  ASSUME Told, BeaconsAgree, doc # Nothing, NEW a, BeaconOf(reads, a) = "true"
  PROVE  world.beacon[a] = "issuer"
<1>1. a \in DOMAIN reads.slots /\ BeaconChecks(reads.slots)[a] = "true"
  BY DEF BeaconOf
<1>2. reads.slots[a].read = "ok"
  BY <1>1 DEF BeaconChecks
<1>3. reads.slots[a].value = "issuer"
  BY <1>1, <1>2 DEF BeaconsAgree, Disagree
<1>4. PICK said : reads.slots[a] = Observe(said, world.beacon[a])
  BY <1>1 DEF Told, SlotsTold, SlotFrom
<1>5. said # "answered" => Observe(said, world.beacon[a]).read # "ok"
  BY DEF Observe, Failed
<1>6. said = "answered" => Observe(said, world.beacon[a]).value = world.beacon[a]
  BY DEF Observe, Ok
<1> QED BY <1>2, <1>3, <1>4, <1>5, <1>6

(* Unpaused, if the flag was read.                                          *)
LEMMA UnpausedTrue ==
  ASSUME world \in World, NEW a \in Stocks, NEW r, PausedFrom(r, a), r = "true"
  PROVE  world.flag[a] = "bool" /\ world.now < world.pausedFrom[a]
<1>1. PICK w \in World, said \in Said : Alike(w) /\ r = Unpaused(w, a, w.now, said)
  BY DEF PausedFrom
<1>2. w.flag = world.flag /\ w.pausedFrom = world.pausedFrom /\ w.now = world.now
  BY <1>1 DEF Alike, Lasting
<1>3. w.flag[a] # "none" /\ w.now < w.pausedFrom[a]
  BY <1>1 DEF Unpaused, Judged
<1>4. world.flag[a] \in {"bool", "none"}
  BY DEF World
<1> QED BY <1>2, <1>3, <1>4

(* Fresh: the open time since a round of the feed is within its bound.      *)
LEMMA FreshTrue ==
  ASSUME NEW w \in World, NEW a \in Assets, NEW b \in Nat, NEW feed, NEW v,
         SessionOf(v, feed) \in Spans, NEW reading, reading.value \in Seen(w, a, b),
         Freshness(w, a, reading, b, feed, v) = "true"
  PROVE  Cardinality({t \in w.rounds[a][reading.value].at..(b - 1) :
                        ~ Within(SessionOf(v, feed), t)}) <= feed.heartbeat + v.margin
<1> DEFINE c == SessionOf(v, feed)
           at == w.rounds[a][reading.value].at
<1>1. OpenTime(c, at, b) <= feed.heartbeat + v.margin
  BY DEF Freshness, Judged
<1>2. w.rounds[a] \in Seq(Round) /\ reading.value \in DOMAIN w.rounds[a] /\ at <= b
  BY DEF World, Seen
<1>3. at \in Nat
  <2>1. w.rounds[a][reading.value] \in Round
    BY <1>2
  <2> QED BY <2>1 DEF Round
<1>4. Proper(c)
  BY SpansProper
<1> HIDE DEF c, at
<1>5. OpenTime(c, at, b) = Cardinality({t \in at..(b - 1) : ~ Within(c, t)})
  BY <1>2, <1>3, <1>4, OpenTimeIs
<1> QED BY <1>1, <1>5 DEF c, at

LEMMA SessionTyped ==
  ASSUME UsingTyped, NEW feed PROVE SessionOf(using.cfg, feed) \in Spans
BY DEF UsingTyped, Config, SessionOf, Spans

(* A series' newest point is the newest round seen.                         *)
LEMMA NewestPoint ==
  ASSUME SeriesIsHistory, UniverseTyped, world \in World, NEW a \in Candidates(u),
         LatestRead(reads.latest[a], a), reads.latest[a].read = "ok"
  PROVE  /\ Max(Visible(a)) = HeadRound(world, a, world.now)
         /\ HeadRound(world, a, world.now) \in Seen(world, a, world.now)
         /\ a \in DOMAIN reads.series /\ reads.series[a].points # {} =>
              Max(reads.series[a].points) = HeadRound(world, a, world.now)
<1>1. a \in Assets
  BY FeedAssets
<1>2. HeadRound(world, a, world.now) \in Seen(world, a, world.now)
  BY DEF LatestRead
<1>3. Visible(a) = Seen(world, a, world.now)
  BY DEF Visible, At, Seen
<1>4. Max(Seen(world, a, world.now)) = HeadRound(world, a, world.now)
  <2>1. PICK w \in World : w = world
    OBVIOUS
  <2> QED BY <1>1, <1>2, <2>1, NewestSeen
<1>5. a \in DOMAIN reads.series /\ reads.series[a].points # {} =>
        Max(reads.series[a].points) = Max(Visible(a))
  BY DEF SeriesIsHistory
<1> QED BY <1>2, <1>3, <1>4, <1>5

LEMMA FreshnessHolds ==
  ASSUME SeriesIsHistory, UniverseTyped, UsingTyped, world \in World, NEW a \in Candidates(u),
         reads.block = world.now, LatestRead(reads.latest[a], a), reads.latest[a].read = "ok",
         NEW w \in World, Alike(w), FreshOf(w, u, using.cfg, reads, a) = "true"
  PROVE  TrulyFresh(a)
<1> DEFINE b == world.now
           n == HeadRound(world, a, b)
           feed == u.feeds[a]
           latest == reads.latest[a]
           s == reads.series[a]
<1>1. a \in Assets /\ b \in Nat /\ w.rounds = world.rounds /\ w.now = b
  BY FeedAssets, AlikeNow DEF World
<1>2. /\ Max(Visible(a)) = n /\ n \in Seen(world, a, b)
      /\ a \in DOMAIN reads.series /\ s.points # {} => Max(s.points) = n
  BY NewestPoint
<1>3. latest.value = n /\ Sound(world.rounds[a][n])
  BY DEF LatestRead
<1>4. \E r : r.value = n /\ Freshness(w, a, r, b, feed, using.cfg) = "true"
  <2>1. CASE a \in DOMAIN reads.series /\ s.points # {}
    <3>1. SeriesFreshness(w, a, s, b, feed, using.cfg) = "true"
      BY <2>1 DEF FreshOf
    <3>2. Freshness(w, a, Ok(Max(s.points)), b, feed, using.cfg) = "true"
      BY <2>1, <3>1 DEF SeriesFreshness
    <3>3. Ok(Max(s.points)).value = n
      BY <1>2, <2>1 DEF Ok
    <3> QED BY <3>2, <3>3
  <2>2. CASE ~ (a \in DOMAIN reads.series /\ s.points # {})
    <3>1. Freshness(w, a, latest, b, feed, using.cfg) = "true"
      BY <2>2 DEF FreshOf
    <3> QED BY <1>3, <3>1
  <2> QED BY <2>1, <2>2
<1>5. PICK r : r.value = n /\ Freshness(w, a, r, b, feed, using.cfg) = "true"
  BY <1>4
<1>6. r.value \in Seen(w, a, b)
  BY <1>1, <1>2, <1>5 DEF Seen
<1>7. SessionOf(using.cfg, feed) \in Spans
  BY SessionTyped
<1>8. Cardinality({t \in w.rounds[a][r.value].at..(b - 1) :
                     ~ Within(SessionOf(using.cfg, feed), t)}) <= feed.heartbeat + using.cfg.margin
  <2> HIDE DEF b, feed
  <2> QED BY <1>1, <1>5, <1>6, <1>7, FreshTrue
<1>9. OpenTicks(a, At(a, n)) = Cardinality({t \in w.rounds[a][r.value].at..(b - 1) :
                                              ~ Within(SessionOf(using.cfg, feed), t)})
  BY <1>1, <1>5 DEF OpenTicks, At
<1> QED BY <1>2, <1>3, <1>8, <1>9 DEF TrulyFresh

(* A listing that answers both fields is the one entry, with a price.       *)
LEMMA ListingTrue ==
  ASSUME NEW w \in World, NEW a \in Stocks, NEW said, NEW r, r = Listing(w, a, said),
         r.price.read = "ok", r.volume.read = "ok"
  PROVE  /\ w.gecko[a].entries = 1
         /\ w.gecko[a].price \in Nat \ {0} /\ r.price.value = w.gecko[a].price
         /\ w.gecko[a].volume \in Nat /\ r.volume.value = w.gecko[a].volume
<1> DEFINE g == w.gecko[a]
<1>1. g \in [entries : Nat, price : Nat \cup {None}, volume : Nat \cup {None}]
  BY DEF World
<1>2. \A x : Failed(x).read # "ok"
  BY DEF Failed
<1>3. r.price = Field(g.price, TRUE) /\ r.volume = Field(g.volume, FALSE)
      /\ said = "answered" /\ g.entries # 0 /\ ~ (g.entries > 1)
  <2> DEFINE priced == Field(g.price, TRUE)
             traded == Field(g.volume, FALSE)
             gone == Failed(said)
             bad == Failed("error")
             none == [read |-> "absent", value |-> 0]
  <2>1. r = IF said # "answered" THEN [price |-> gone, volume |-> gone]
            ELSE IF g.entries = 0 THEN [price |-> none, volume |-> none]
            ELSE IF g.entries > 1 THEN [price |-> bad, volume |-> bad]
            ELSE [price |-> priced, volume |-> traded]
    BY DEF Listing
  <2>2. gone.read # "ok" /\ bad.read # "ok" /\ none.read # "ok"
    BY <1>2
  <2> HIDE DEF priced, traded, gone, bad, none
  <2>3. /\ r.price = priced /\ r.volume = traded
        /\ said = "answered" /\ g.entries # 0 /\ ~ (g.entries > 1)
    BY <2>1, <2>2
  <2> QED BY <2>3 DEF priced, traded
<1> HIDE DEF g
<1>4. g.price # None /\ g.price # 0 /\ r.price = Ok(g.price)
  BY <1>2, <1>3 DEF Field
<1>5. g.volume # None /\ r.volume = Ok(g.volume)
  <2>1. g.volume # None
    BY <1>3 DEF Field
  <2> QED BY <1>3, <2>1 DEF Field
<1>6. g.entries = 1
  BY <1>1, <1>3
<1> QED BY <1>1, <1>4, <1>5, <1>6 DEF Ok, g

(* A divergence within a bound is a gap within that share of the price.     *)
LEMMA DivergenceBound ==
  ASSUME NEW x \in Nat, NEW y \in Nat \ {0}, NEW m \in Nat, Magnitude(Divergence(x, y)) <= m
  PROVE  (IF x > y THEN x - y ELSE y - x) * 100 <= m * y
<1> DEFINE gap == (x - y) * 100
           abs == IF gap < 0 THEN -gap ELSE gap
           q == (-abs) \div y
           e == (-abs) % y
<1>1. gap \in Int /\ abs \in Nat /\ abs = (IF x > y THEN x - y ELSE y - x) * 100
  OBVIOUS
<1>2. q \in Int /\ e \in 0..(y - 1) /\ -abs = y * q + e
  <2>1. -abs \in Int
    BY <1>1
  <2> HIDE DEF abs
  <2> QED BY <2>1, Remainders
<1>3. Divergence(x, y) = IF gap < 0 THEN -(-q) ELSE -q
  BY DEF Divergence
<1> HIDE DEF gap, abs, q, e
<1>4. q <= 0
  <2>1. \A i \in Int, n \in Nat \ {0} : i >= 1 => n * i >= n
    OBVIOUS
  <2>2. \A i \in Int, n \in Int : n * i \in Int
    OBVIOUS
  <2>3. y * q \in Int
    BY <1>2, <2>2
  <2>4. q >= 1 => y * q >= y
    BY <1>2, <2>1
  <2> QED BY <1>1, <1>2, <2>3, <2>4
<1>5. Magnitude(Divergence(x, y)) = -q
  BY <1>2, <1>3, <1>4 DEF Magnitude
<1>6. -q <= m
  BY <1>5
<1>7. y * (-q) <= m * y /\ y * (-q) = -(y * q) /\ y * q \in Int /\ m * y \in Int
  <2>1. \A i, n, k \in Int : n >= 0 /\ i <= k => n * i <= k * n
    OBVIOUS
  <2>2. \A i, n \in Int : n * (-i) = -(n * i) /\ n * i \in Int
    OBVIOUS
  <2>3. -q \in Int /\ y \in Int /\ m \in Int /\ y >= 0
    BY <1>2
  <2> QED BY <1>2, <1>6, <2>1, <2>2, <2>3
<1>8. abs <= m * y
  <2> DEFINE z == y * q
             v == m * y
             t == y * (-q)
  <2>1. t <= v /\ t = -z /\ z \in Int /\ v \in Int /\ -abs = z + e
    BY <1>2, <1>7
  <2> HIDE DEF z, v, t
  <2>2. abs <= v
    BY <1>1, <1>2, <2>1
  <2> QED BY <2>2 DEF v
<1> QED BY <1>1, <1>8

(* Corroborated, by one listing of enough volume, within the divergence     *)
(* unless the session is closed.                                            *)
LEMMA PricedHolds ==
  ASSUME SeriesIsHistory, UniverseTyped, UsingTyped, world \in World, NEW a \in Candidates(u),
         a \in Stocks, reads.block = world.now,
         LatestRead(reads.latest[a], a), reads.latest[a].read = "ok",
         NEW mark, mark.verdict = "true",
         mark.price = world.rounds[a][HeadRound(world, a, world.now)].answer, mark.price \in Nat,
         GeckoFrom(reads.gecko[a], a),
         CrossRule(mark, reads.gecko[a], ClosedNow(u, using.cfg, reads, a)) = "none"
  PROVE  TrulyPriced(a)
<1> DEFINE r == reads.gecko[a]
           closed == Within(SessionOf(using.cfg, u.feeds[a]), world.now)
           g == world.gecko[a]
<1>1. PICK w \in World : \E said : Alike(w) /\ r = Listing(w, a, said)
  BY DEF GeckoFrom
<1>2. PICK said : Alike(w) /\ r = Listing(w, a, said)
  BY <1>1
<1>3. w.gecko = world.gecko
  BY <1>2 DEF Alike, Lasting
<1>4. ClosedNow(u, using.cfg, reads, a) = closed
  BY DEF ClosedNow
<1>5. /\ r.price.read = "ok" /\ r.volume.read = "ok" /\ ~ (r.volume.value < MinVolume)
      /\ closed \/ ~ (Magnitude(Divergence(mark.price, r.price.value)) > MaxDivergence)
  <2> HIDE DEF r, closed
  <2>1. CrossRule(mark, r, closed) = "none"
    BY <1>4 DEF r
  <2> QED BY <2>1 DEF CrossRule
<1>6. /\ g.entries = 1 /\ g.price \in Nat \ {0} /\ r.price.value = g.price
      /\ g.volume \in Nat /\ r.volume.value = g.volume
  BY <1>2, <1>3, <1>5, ListingTrue
<1>7. g.volume >= MinVolume
  BY <1>5, <1>6, ValuationAssumption
<1>8. Max(Visible(a)) = HeadRound(world, a, world.now)
  BY NewestPoint
<1>9. ASSUME ~ closed
      PROVE  (IF mark.price > g.price THEN mark.price - g.price ELSE g.price - mark.price) * 100
                <= MaxDivergence * g.price
  <2>1. ~ (Magnitude(Divergence(mark.price, g.price)) > MaxDivergence)
    BY <1>5, <1>6, <1>9
  <2>2. Divergence(mark.price, g.price) \in Int
    <3> DEFINE gap == (mark.price - g.price) * 100
               size == -((-(IF gap < 0 THEN -gap ELSE gap)) \div g.price)
    <3>1. gap \in Int
      BY <1>6
    <3>2. \A i \in Int, n \in Nat \ {0} : (i \div n) \in Int
      OBVIOUS
    <3>3. size \in Int
      <4>1. -(IF gap < 0 THEN -gap ELSE gap) \in Int
        BY <3>1
      <4> HIDE DEF gap
      <4>2. (-(IF gap < 0 THEN -gap ELSE gap)) \div g.price \in Int
        BY <1>6, <3>2, <4>1
      <4> QED BY <4>2
    <3>4. Divergence(mark.price, g.price) = IF gap < 0 THEN -size ELSE size
      BY DEF Divergence
    <3> HIDE DEF gap, size
    <3> QED BY <3>3, <3>4
  <2>3. Magnitude(Divergence(mark.price, g.price)) <= MaxDivergence
    BY <2>1, <2>2, ValuationAssumption DEF Magnitude
  <2>4. mark.price \in Nat /\ g.price \in Nat \ {0} /\ MaxDivergence \in Nat
    BY <1>6, ValuationAssumption
  <2> QED BY <2>3, <2>4, DivergenceBound
<1> HIDE DEF closed
<1>10. world.rounds[a][Max(Visible(a))].answer = mark.price
  BY <1>8
<1>11. g.price > 0
  BY <1>6
<1> QED BY <1>6, <1>7, <1>9, <1>10, <1>11 DEF TrulyPriced, closed

(* A script's tries are numbered, so the one served is one of them, and the *)
(* time they hold the caller is a number.                                   *)
LEMMA ServedIs ==
  ASSUME NEW script, DOMAIN script = 1..(Attempts * Endpoints), NEW replayed
  PROVE  /\ Served(script, replayed) # 0 => Served(script, replayed) \in Tries(script, replayed)
         /\ Elapsed(script) \in Int
<1> DEFINE n == Attempts * Endpoints
           S == {0} \cup {i \in Tries(script, replayed) : Taken(script[i])}
           H == {i \in Tries(script, FALSE) : script[i].kind = "hang"}
<1>1. n \in Nat
  BY ClientAssumption, Products
<1>a. H \subseteq 1..n
  BY DEF Tries
<1>2. \A r : Tries(script, r) \subseteq 1..n
  BY DEF Tries
<1> HIDE DEF n
<1>3. S \in SUBSET Int /\ S # {} /\ Under(S, n)
  <2>1. \A i \in S : i \in Int /\ i <= n
    BY <1>1, <1>2
  <2>2. 0 \in S
    OBVIOUS
  <2> HIDE DEF S
  <2> QED BY <2>1, <2>2 DEF Under
<1>4. Max(S) \in S
  <2> HIDE DEF S
  <2> QED BY <1>1, <1>3, MaxOf
<1>5. Served(script, replayed) = Max(S)
  BY DEF Served
<1>6. Max(S) # 0 => Max(S) \in Tries(script, replayed)
  <2> DEFINE m == Max(S)
  <2>1. m \in S
    BY <1>4
  <2> HIDE DEF m
  <2>2. m # 0 => m \in Tries(script, replayed)
    BY <2>1
  <2> QED BY <2>2 DEF m
<1>7. Cardinality(H) \in Nat
  <2> HIDE DEF H
  <2>0. 1 \in Int /\ n \in Int
    BY <1>1
  <2>1. IsFiniteSet(1..n)
    BY <2>0, FS_Interval
  <2>2. IsFiniteSet(H)
    BY <1>a, <2>1, FS_Subset
  <2> QED BY <2>2, FS_CardinalityType
<1>8. Elapsed(script) = Timeout * Cardinality(H)
  BY DEF Elapsed
<1> HIDE DEF H, S
<1>9. Elapsed(script) \in Nat
  BY <1>7, <1>8, Products, ClientAssumption
<1> QED BY <1>5, <1>6, <1>9

(* A quote that was read is a good reply to its own request.                *)
LEMMA QuoteRead ==
  ASSUME NEW w, NEW order, NEW scripts, NEW k, NEW size, NEW q,
         q = Quote(w, order, scripts, k, size, Live), q.read = "ok",
         NEW served, served = Served(scripts[order[k]], Live)
  PROVE  /\ size # None /\ served # 0 /\ scripts[order[k]][served].kind = "good"
         /\ q.sell = IF w.venue[order[k]].echo THEN size ELSE size + 1
         /\ q.impact = w.venue[order[k]].impact /\ q.at = FetchedAt(order, scripts, k)
<1> DEFINE at == FetchedAt(order, scripts, k)
           last == LastRefusal(order, scripts, k, Live)
           sell == IF w.venue[order[k]].echo THEN size ELSE size + 1
           failed(read, from) ==
             [read |-> read, from |-> from, sell |-> 0, impact |-> None, at |-> at]
           good == served # 0 /\ scripts[order[k]][served].kind = "good"
<1>1. q = IF size = None THEN failed("refused", <<>>)
          ELSE IF good
          THEN [read |-> "ok", from |-> <<k, served>>, sell |-> sell,
                impact |-> w.venue[order[k]].impact, at |-> at]
          ELSE IF served # 0 THEN failed("refused", <<k, served>>)
          ELSE failed(IF last = <<>> THEN "unreachable" ELSE "refused", last)
  BY DEF Quote
<1>2. \A read, from : failed(read, from).read = read
  OBVIOUS
<1> HIDE DEF failed, good, sell, at, last
<1>3. size # None /\ good
  BY <1>1, <1>2
<1>4. q = [read |-> "ok", from |-> <<k, served>>, sell |-> sell,
           impact |-> w.venue[order[k]].impact, at |-> at]
  BY <1>1, <1>3
<1>5. q.sell = sell /\ q.impact = w.venue[order[k]].impact /\ q.at = at
  BY <1>4
<1> QED BY <1>3, <1>5 DEF good, sell, at

(* The requests after the k-th are what the build waited for since.         *)
LEMMA WaitedSince ==
  ASSUME NEW order, Ordered(order), NEW scripts, NEW k \in DOMAIN order,
         \A j \in DOMAIN order : Elapsed(scripts[order[j]]) \in Int
  PROVE  /\ Waited(order, scripts, (k + 1)..Len(order)) \in Int
         /\ Waited(order, scripts, (k + 1)..Len(order))
              = BuiltAt(order, scripts) - FetchedAt(order, scripts, k)
<1> DEFINE n == Len(order)
           f == [j \in Nat |-> IF j \in DOMAIN order THEN Elapsed(scripts[order[j]]) ELSE 0]
<1>1. n \in Nat /\ n + 1 \in Nat /\ DOMAIN order = 1..n /\ k \in 1..n
  BY DEF Ordered
<1>2. (\A j \in Nat : f[j] \in Int) /\ (\A j \in 1..n : f[j] = Elapsed(scripts[order[j]]))
  BY <1>1
<1> HIDE DEF f, n
<1>3. PICK N \in Nat : N = n + 1 /\ 0..(N - 1) = 0..n
  BY <1>1
<1>9. PICK g : Weighs(g, f, N)
  BY <1>2, WeightExists
<1>4. \A S \in SUBSET (1..n) : Waited(order, scripts, S) = g[S]
  <2>1. ASSUME NEW S \in SUBSET (1..n) PROVE Waited(order, scripts, S) = g[S]
    <3>1. S \in SUBSET (0..(N - 1))
      BY <1>1, <1>3
    <3>2. HeldFor(order, scripts, S, f)
      BY <1>2 DEF HeldFor
    <3> QED BY <1>9, <3>1, <3>2, WaitedIs
  <2> QED BY <2>1
<1>5. g[1..n] = g[1..k] + g[(k + 1)..n]
  <2>1. k \in 0..(N - 1) /\ n \in k..(N - 1)
    BY <1>1, <1>3
  <2> QED BY <1>2, <1>9, <2>1, FirstAndRest
<1>6. 1..n \in SUBSET (1..n) /\ 1..k \in SUBSET (1..n) /\ (k + 1)..n \in SUBSET (1..n)
  BY <1>1
<1>7. BuiltAt(order, scripts) = g[1..n] /\ FetchedAt(order, scripts, k) = g[1..k]
      /\ Waited(order, scripts, (k + 1)..n) = g[(k + 1)..n]
  BY <1>4, <1>6 DEF BuiltAt, FetchedAt, n
<1>8. g[1..k] \in Int /\ g[(k + 1)..n] \in Int
  <2>1. 1..k \in SUBSET (0..(N - 1)) /\ (k + 1)..n \in SUBSET (0..(N - 1))
    BY <1>1, <1>3
  <2> QED BY <1>9, <2>1 DEF Weighs
<1> QED BY <1>5, <1>7, <1>8 DEF n

(* The size a quote is asked at is a number, when there is one.             *)
LEMMA SizeTyped ==
  ASSUME UniverseTyped, Told, GotLatest, NEW w \in World, Alike(w),
         NEW size, size = QuoteSize(w, u, using.cfg, reads), size # None
  PROVE  size \in Int
<1> DEFINE asset == CashOrGas(u, Cash)
           reading == reads.latest[Cash]
           fresh == Freshness(w, Cash, reading, reads.block, u.feeds[Cash], using.cfg)
           mark == MarkOf(w, asset, reading, "unread", fresh)
<1>1. CashMark(w, u, using.cfg, reads) = mark
  BY DEF CashMark
<1>2. asset.id = Cash /\ Cash \in Assets /\ Cash \in DOMAIN u.feeds
  BY DEF CashOrGas, UniverseTyped, Marked, Assets
<1>3. LatestRead(reading, Cash)
  BY <1>2, LatestIs DEF GotLatest, Told, LatestTold
<1> HIDE DEF asset, reading, fresh
<1>4. mark.verdict = "true" /\ size = NominalSell(mark.price)
  BY <1>1 DEF QuoteSize
<1>5. mark.price \in Nat \ {0}
  BY <1>2, <1>3, <1>4, MarkPriced
<1> HIDE DEF mark
<1>6. Nominal * Unit \in Nat
  BY ValuationAssumption, Products
<1>7. \A n \in Nat, p \in Nat \ {0} : (n \div p) \in Int
  OBVIOUS
<1> QED BY <1>4, <1>5, <1>6, <1>7 DEF NominalSell

(* Quoted: a good reply to a try that was made, for the size asked, late    *)
(* enough and of a bounded impact.                                          *)
LEMMA QuotedHolds ==
  ASSUME UniverseTyped, UsingTyped, Pinned, Told, GotLatest, GotQuotes, world \in World,
         NEW w \in World, Alike(w), NEW a \in Candidates(u), a \in Stocks,
         StockInputs(w, u, using.cfg, reads, a, Live).tradeable = "true"
  PROVE  TrulyQuoted(a)
<1> DEFINE order == reads.order
           scripts == reads.scripts
           k == CHOOSE i \in DOMAIN order : order[i] = a
           size == QuoteSize(w, u, using.cfg, reads)
           q == Quote(w, order, scripts, k, size, Live)
           builtAt == BuiltAt(order, scripts)
           served == Served(scripts[a], Live)
<1>1. Ordered(order) /\ k \in DOMAIN order /\ order[k] = a
  BY OrderWhole
<1>2. TradeVerdict(q, size, builtAt, using.cfg) = "true"
  BY DEF StockInputs
<1>3. w.venue = world.venue
  BY AlikeNow
<1>4. \A i \in DOMAIN order :
        DOMAIN scripts[order[i]] = 1..(Attempts * Endpoints) /\ Elapsed(scripts[order[i]]) \in Int
  <2>1. ASSUME NEW i \in DOMAIN order
        PROVE  DOMAIN scripts[order[i]] = 1..(Attempts * Endpoints)
                 /\ Elapsed(scripts[order[i]]) \in Int
    <3>1. order[i] \in DOMAIN scripts
      BY OrderWhole DEF GotQuotes
    <3>2. PICK s \in Scripts \cup {Fine} : s = scripts[order[i]]
      BY <3>1 DEF Told, ScriptsTold
    <3>3. DOMAIN s = 1..(Attempts * Endpoints)
      BY ScriptDomain
    <3>4. Elapsed(s) \in Int
      BY <3>3, ServedIs
    <3> QED BY <3>2, <3>3, <3>4
  <2> QED BY <2>1
<1>5. served # 0 => served \in Tries(scripts[a], Live)
  <2>1. DOMAIN scripts[a] = 1..(Attempts * Endpoints)
    BY <1>1, <1>4
  <2> QED BY <2>1, ServedIs
<1>6. /\ Waited(order, scripts, (k + 1)..Len(order)) \in Int
      /\ Waited(order, scripts, (k + 1)..Len(order)) = builtAt - FetchedAt(order, scripts, k)
  BY <1>1, <1>4, WaitedSince
<1> HIDE DEF order, scripts, k, size, q, builtAt, served
<1>7. /\ q.read = "ok" /\ q.sell = size /\ ~ (builtAt - q.at > MaxAge)
      /\ q.impact # None /\ ~ (q.impact > using.cfg.maxImpact)
  BY <1>2 DEF TradeVerdict, TradeRule
<1>8. /\ size # None /\ served # 0 /\ scripts[a][served].kind = "good"
      /\ q.sell = IF world.venue[a].echo THEN size ELSE size + 1
      /\ q.impact = world.venue[a].impact /\ q.at = FetchedAt(order, scripts, k)
  <2>1. q = Quote(w, order, scripts, k, size, Live) /\ served = Served(scripts[order[k]], Live)
    BY <1>1 DEF q, served
  <2>2. /\ size # None /\ served # 0 /\ scripts[order[k]][served].kind = "good"
        /\ q.sell = IF w.venue[order[k]].echo THEN size ELSE size + 1
        /\ q.impact = w.venue[order[k]].impact /\ q.at = FetchedAt(order, scripts, k)
    BY <1>7, <2>1, QuoteRead
  <2> QED BY <1>1, <1>3, <2>2
<1>9. world.venue[a].echo \in BOOLEAN /\ world.venue[a].impact \in Int
      /\ using.cfg.maxImpact \in Int
  BY DEF World, UsingTyped, Config
<1>10. world.venue[a].echo = TRUE
  <2>1. size \in Int
    BY <1>8, SizeTyped DEF size
  <2>2. size + 1 # size
    BY <2>1
  <2> QED BY <1>7, <1>8, <1>9, <2>2
<1>11. world.venue[a].impact # None /\ world.venue[a].impact <= using.cfg.maxImpact
  BY <1>7, <1>8, <1>9
<1>12. \E i \in Recorded(scripts[a]) : scripts[a][i].kind = "good"
  BY <1>5, <1>8 DEF Recorded, Live
<1>13. Waited(order, scripts, (k + 1)..Len(order)) <= MaxAge
  BY <1>6, <1>7, <1>8, ValuationAssumption
<1> QED BY <1>10, <1>11, <1>12, <1>13 DEF TrulyQuoted, order, scripts, k

(* What a candidate is judged on, field by field.                           *)
LEMMA InputParts ==
  ASSUME NEW w, NEW a, NEW s, s = StockInputs(w, u, using.cfg, reads, a, Live)
  PROVE  /\ s.asset = Stock(u, a, BeaconOf(reads, a))
         /\ s.mark = MarkOf(w, Stock(u, a, BeaconOf(reads, a)), reads.latest[a],
                            reads.unpaused[a], FreshOf(w, u, using.cfg, reads, a))
         /\ s.corroboration = reads.gecko[a]
         /\ s.closed = ClosedNow(u, using.cfg, reads, a)
BY DEF StockInputs

LEMMA TradeableTrue ==
  ASSUME Shape, Progress, Assembled, Told, BeaconsAgree, SeriesIsHistory
  PROVE  TradeableMeansTrue
<1>1. SUFFICES ASSUME doc # Nothing, NEW a \in DOMAIN doc.entries,
                      doc.entries[a].status.value = "tradeable"
               PROVE  /\ Registries[u.registry][a] = "ACTIVE"
                      /\ world.beacon[a] = "issuer"
                      /\ world.flag[a] = "bool" /\ world.now < world.pausedFrom[a]
                      /\ TrulyFresh(a) /\ TrulyPriced(a) /\ TrulyQuoted(a)
  BY DEF TradeableMeansTrue
<1>2. /\ UniverseTyped /\ Pinned /\ GotLatest /\ GotPaused /\ GotGecko /\ GotQuotes
      /\ UsingTyped /\ world \in World /\ reads.block = world.now
  <2>1. Everything /\ pc # "begin"
    BY <1>1 DEF Progress, PastAssemble, PastWrite, PastReplay
  <2> QED BY <2>1 DEF Everything, Pinned, Shape
<1>3. PICK w \in World : Alike(w) /\ doc = Document(w, u, using.cfg, reads, doc.named, Live)
  BY <1>1 DEF Assembled
<1>4. doc.entries = EntriesOf(w, u, using.cfg, reads, Live)
  BY <1>3, DocumentEntries
<1>5. DOMAIN EntriesOf(w, u, using.cfg, reads, Live) = Candidates(u)
  BY DEF EntriesOf
<1>6. a \in Candidates(u) /\ a \in DOMAIN u.feeds /\ a \in Stocks
  BY <1>1, <1>2, <1>4, <1>5, OrderIs DEF Candidates
<1>7. PICK s : s = StockInputs(w, u, using.cfg, reads, a, Live)
  OBVIOUS
<1>8. Judge(u, s).value = "tradeable"
  BY <1>1, <1>4, <1>6, <1>7, EntryParts
<1>9. /\ AdmissionRule(u, s.asset) = "none" /\ s.mark.verdict = "true"
      /\ CrossRule(s.mark, s.corroboration, s.closed) = "none" /\ s.tradeable = "true"
  BY <1>8, JudgedTradeable
<1>10. PICK asset, fresh : /\ asset = Stock(u, a, BeaconOf(reads, a))
                           /\ fresh = FreshOf(w, u, using.cfg, reads, a)
  OBVIOUS
<1>11. /\ s.asset = asset /\ s.corroboration = reads.gecko[a]
       /\ s.mark = MarkOf(w, asset, reads.latest[a], reads.unpaused[a], fresh)
       /\ s.closed = ClosedNow(u, using.cfg, reads, a)
  BY <1>7, <1>10, InputParts
<1>12. asset.id = a /\ asset.kind = "stock"
  BY <1>10 DEF Stock
<1>13. Registries[u.registry][a] = "ACTIVE" /\ BeaconOf(reads, a) = "true"
  BY <1>9, <1>10, <1>11, Admitted
<1>14. world.beacon[a] = "issuer"
  BY <1>1, <1>13, BeaconTrue
<1>15. MarkVerdict(asset, reads.latest[a], reads.unpaused[a], fresh) = "true"
  BY <1>9, <1>11 DEF MarkOf
<1>16. reads.latest[a].read = "ok" /\ reads.unpaused[a] = "true" /\ fresh = "true"
  BY <1>12, <1>15, MarkStands
<1>17. world.flag[a] = "bool" /\ world.now < world.pausedFrom[a]
  BY <1>2, <1>6, <1>16, UnpausedTrue DEF GotPaused, Told, PausedTold
<1>18. LatestRead(reads.latest[a], a)
  BY <1>2, <1>6, LatestIs DEF GotLatest, Told, LatestTold
<1>19. TrulyFresh(a)
  BY <1>2, <1>3, <1>6, <1>10, <1>16, <1>18, FreshnessHolds
<1>20. /\ s.mark.price = world.rounds[a][HeadRound(world, a, world.now)].answer
       /\ s.mark.price \in Nat
  <2>1. a \in Assets
    BY <1>6 DEF Assets
  <2>2. MarkOf(w, asset, reads.latest[a], reads.unpaused[a], fresh).verdict = "true"
    BY <1>9, <1>11
  <2> QED BY <1>3, <1>11, <1>12, <1>18, <2>1, <2>2, MarkPriced
<1>21. TrulyPriced(a)
  <2>1. GeckoFrom(reads.gecko[a], a)
    BY <1>2, <1>6 DEF GotGecko, Told, GeckoTold
  <2>2. PICK mark : mark = s.mark
    OBVIOUS
  <2> QED BY <1>2, <1>6, <1>9, <1>11, <1>16, <1>18, <1>20, <2>1, <2>2, PricedHolds
<1>22. TrulyQuoted(a)
  BY <1>2, <1>3, <1>6, <1>7, <1>9, QuotedHolds
<1> QED BY <1>13, <1>14, <1>17, <1>19, <1>21, <1>22

(* What the snapshot calls tradeable was so at its block, for any chain and *)
(* market, whatever reads failed or replies came late: every verdict the    *)
(* document rests on was made from a read that came back, and a read that   *)
(* comes back says what the chain held; a stock is fresh because the open   *)
(* time the code computes from the closed weeks it counts is exactly the    *)
(* instants at which its session is open; and a quote is as old as the      *)
(* requests that were waited for after its own.                             *)
THEOREM TradeableTheorem == Spec => []TradeableMeansTrue
<1>1. Shape /\ Progress /\ Assembled /\ Told /\ BeaconsAgree /\ SeriesIsHistory
        => TradeableMeansTrue
  BY TradeableTrue
<1> QED BY ProgressAlways, AssembledAlways, ToldAlways, BeaconsAlways, SeriesTheorem, <1>1, PTL

=============================================================================
