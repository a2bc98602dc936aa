------------------------------ MODULE Snapshot ------------------------------
(***************************************************************************)
(* The snapshot: the status of every candidate, the wallet's holdings, and  *)
(* the document that is hashed.  Everything here is a function of what was  *)
(* read; Evidence reads it.                                                 *)
(*                                                                         *)
(* `reads` is everything read for one build: block, latest, unpaused,       *)
(* series, balances, slots, gecko, order, scripts.                          *)
(***************************************************************************)
EXTENDS Valuation

(***************************************************************************)
(* The adapters' verdicts, as `assemble` makes them.                        *)
(***************************************************************************)
FreshOf(world, u, cfg, reads, a) ==
  LET feed == u.feeds[a]
      single == Freshness(world, a, reads.latest[a], reads.block, feed, cfg)
  IN IF a \in DOMAIN reads.series /\ reads.series[a].points # {}
     THEN SeriesFreshness(world, a, reads.series[a], reads.block, feed, cfg)
     ELSE single

CashMark(world, u, cfg, reads) ==
  MarkOf(world, CashOrGas(u, Cash), reads.latest[Cash], "unread",
         Freshness(world, Cash, reads.latest[Cash], reads.block,
                   u.feeds[Cash], cfg))

\* No quote is asked for without a mark to size it by.
QuoteSize(world, u, cfg, reads) ==
  LET mark == CashMark(world, u, cfg, reads)
  IN IF mark.verdict = "true" THEN NominalSell(mark.price) ELSE None

ClosedNow(u, cfg, reads, a) ==
  Within(SessionOf(cfg, u.feeds[a]), reads.block)

BeaconOf(reads, a) ==
  IF a \in DOMAIN reads.slots THEN BeaconChecks(reads.slots)[a] ELSE "null"

\* What each candidate is judged on.
StockInputs(world, u, cfg, reads, a, replayed) ==
  LET k == CHOOSE i \in DOMAIN reads.order : reads.order[i] = a
      asset == Stock(u, a, BeaconOf(reads, a))
      size == QuoteSize(world, u, cfg, reads)
      quote == Quote(world, reads.order, reads.scripts, k, size, replayed)
      builtAt == BuiltAt(reads.order, reads.scripts)
  IN [asset |-> asset,
      mark |-> MarkOf(world, asset, reads.latest[a], reads.unpaused[a],
                      FreshOf(world, u, cfg, reads, a)),
      series |-> reads.series[a],
      corroboration |-> reads.gecko[a],
      closed |-> ClosedNow(u, cfg, reads, a),
      quote |-> quote,
      tradeRule |-> TradeRule(quote, size, builtAt, cfg),
      tradeable |-> TradeVerdict(quote, size, builtAt, cfg)]

(***************************************************************************)
(* A candidate's status is the first rule of ORDER that does not pass.      *)
(***************************************************************************)
CrossStatus(rule) ==
  CASE rule = "corroborator-line" -> "below_corroborator_line"
    [] rule = "divergence" -> "divergence_veto"
    [] OTHER -> "uncorroborated"

Judge(u, s) ==
  LET admission == AdmissionRule(u, s.asset)
      cross == CrossRule(s.mark, s.corroboration, s.closed)
      status(value, rule) == [value |-> value, rule |-> rule]
  IN IF admission # "none" THEN status(AdmissionStatus(admission), admission)
     ELSE IF s.mark.verdict # "true" THEN status("no_mark", s.mark.rule)
     ELSE IF s.series.coverage # "true" THEN status("short_history", "history")
     ELSE IF cross # "none" THEN status(CrossStatus(cross), cross)
     ELSE IF s.tradeable # "true" THEN status("not_tradeable", s.tradeRule)
     ELSE status("tradeable", "none")

Entry(u, s) ==
  [status |-> Judge(u, s),
   standing |-> Standing(u, s.asset.id),
   asset |-> s.asset,
   mark |-> s.mark,
   series |-> s.series,
   corroboration |-> s.corroboration,
   finding |-> Finding(s.mark, s.corroboration, s.closed),
   quote |-> s.quote]

(***************************************************************************)
(* Holdings: cash and gas always, and every stock whose balance is not      *)
(* known to be zero, whatever its status.                                   *)
(***************************************************************************)
Tokens(u) == Marked \cup DOMAIN Records(u) \cup u.carried

Owned(balance) ==
  IF balance.read = "ok" THEN Judged(balance.value > 0) ELSE "null"

Held(reads) ==
  {a \in DOMAIN reads.balances \ Marked : Owned(reads.balances[a]) # "false"}

Exit(a) == IF a = Cash THEN "true" ELSE "null"

Row(balance, mark, status, a) ==
  [owned |-> Owned(balance),
   valued |-> IF ValueOf(balance, mark) # None THEN "true"
              ELSE IF balance.read = "ok" THEN mark.verdict ELSE "null",
   value |-> ValueOf(balance, mark),
   exit |-> Exit(a),
   status |-> status]

MarkedRow(world, u, cfg, reads, a) ==
  LET mark == MarkOf(world, CashOrGas(u, a), reads.latest[a], "unread",
                     FreshOf(world, u, cfg, reads, a))
      status == [value |-> "not_a_stock", rule |-> "none"]
  IN Row(reads.balances[a], mark, status, a)

OutsideRow(world, u, reads, a) ==
  LET asset == HeldAsset(u, a, BeaconOf(reads, a))
      rule == AdmissionRule(u, asset)
      mark == [rule |-> "markability", verdict |-> asset.markability,
               price |-> None]
  IN Row(reads.balances[a], mark,
         [value |-> IF rule = "none" THEN "unmarkable"
                    ELSE AdmissionStatus(rule), rule |-> rule], a)

Holdings(world, u, cfg, reads, entries) ==
  [a \in Marked \cup Held(reads) |->
     IF a \in Marked THEN MarkedRow(world, u, cfg, reads, a)
     ELSE IF a \in DOMAIN entries
     THEN Row(reads.balances[a], entries[a].mark, entries[a].status, a)
     ELSE OutsideRow(world, u, reads, a)]

(***************************************************************************)
(* Refusals: a reading dated after the pinned block, or a series that ends  *)
(* at another round than the mark read at the same block.                   *)
(***************************************************************************)
Refused(world, reads) ==
  \/ \E a \in DOMAIN reads.latest :
       /\ reads.latest[a].read = "ok"
       /\ world.rounds[a][reads.latest[a].value].at > reads.block
  \/ \E a \in DOMAIN reads.series : \E n \in reads.series[a].points :
       world.rounds[a][n].at > reads.block
  \/ \E a \in DOMAIN reads.series :
       /\ reads.series[a].points # {} /\ reads.latest[a].read = "ok"
       /\ Max(reads.series[a].points) # reads.latest[a].value

\* The document, naming the configuration files it is told were in force.
Document(world, u, cfg, reads, named, replayed) ==
  LET entries == [a \in Candidates(u) |->
                    Entry(u, StockInputs(world, u, cfg, reads, a, replayed))]
  IN [block |-> reads.block,
      builtAt |-> BuiltAt(reads.order, reads.scripts),
      registry |-> u.registry,
      named |-> named,
      entries |-> entries,
      outside |-> DOMAIN Records(u) \ DOMAIN u.feeds,
      holdings |-> Holdings(world, u, cfg, reads, entries)]

=============================================================================
