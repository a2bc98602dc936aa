------------------------------ MODULE Valuation -----------------------------
(***************************************************************************)
(* What an asset is worth and what corroborates it: the mark, the value of  *)
(* a holding, the cross-check against GeckoTerminal, and the venue's quote.  *)
(* Prices are integers; a divergence is in hundredths.                      *)
(***************************************************************************)
EXTENDS Universe, Client

CONSTANTS MinVolume,      \* corroborator_min_volume_usd_24h
          MaxDivergence,  \* divergence_max_bps
          GeckoBatch,     \* gecko.json: batch_size
          Nominal, Unit,  \* intended_trade_size_usd; cash units to a dollar
          MaxAge          \* quote_max_age_seconds

ASSUME ValuationAssumption ==
  /\ MinVolume \in Nat /\ MaxDivergence \in Nat /\ GeckoBatch \in Nat \ {0}
  /\ Nominal \in Nat \ {0} /\ Unit \in Nat \ {0} /\ MaxAge \in Nat

\* No number at all; an impact may be negative.
None == -1000

(***************************************************************************)
(* The mark: the first rule that does not pass, and the reading's price     *)
(* when none does.  `unpaused` is "unread" for cash and gas.                *)
(***************************************************************************)
\* A mutant: a stock whose pause flag was not read counts as unpaused.
MarkRule_PauseUnread(asset, reading, unpaused, fresh) ==
  IF asset.markability # "true" THEN "markability"
  ELSE IF reading.read # "ok" THEN "reading"
  ELSE IF asset.kind = "stock" /\ unpaused = "false" THEN "paused"
  ELSE IF fresh # "true" THEN "freshness"
  ELSE "none"

MarkRule(asset, reading, unpaused, fresh) ==
  IF asset.markability # "true" THEN "markability"
  ELSE IF reading.read # "ok" THEN "reading"
  ELSE IF asset.kind = "stock" /\ unpaused # "true" THEN "paused"
  ELSE IF fresh # "true" THEN "freshness"
  ELSE "none"

MarkVerdict(asset, reading, unpaused, fresh) ==
  LET rule == MarkRule(asset, reading, unpaused, fresh)
  IN CASE rule = "none" -> "true"
       [] rule = "markability" -> asset.markability
       [] rule = "reading" -> "null"
       [] rule = "paused" -> unpaused
       [] OTHER -> fresh

MarkOf(world, asset, reading, unpaused, fresh) ==
  LET rule == MarkRule(asset, reading, unpaused, fresh)
  IN [rule |-> rule,
      verdict |-> MarkVerdict(asset, reading, unpaused, fresh),
      price |-> IF rule = "none"
                THEN world.rounds[asset.id][reading.value].answer ELSE None]

\* A value needs a balance and a mark; without either there is none.
ValueOf(balance, mark) ==
  IF balance.read = "ok" /\ mark.verdict = "true"
  THEN balance.value * mark.price ELSE None

(***************************************************************************)
(* GeckoTerminal: one batch request per GeckoBatch stocks.  A listing is    *)
(* how many entries name the address, its price and its volume.             *)
(***************************************************************************)
Field(n, positive) ==
  IF n = None THEN [read |-> "absent", value |-> 0]
  ELSE IF positive /\ n = 0 THEN Failed("error")
  ELSE Ok(n)

Listing(world, a, said) ==
  LET g == world.gecko[a]
      both(o) == [price |-> o, volume |-> o]
  IN IF said # "answered" THEN both(Failed(said))
     ELSE IF g.entries = 0 THEN both([read |-> "absent", value |-> 0])
     ELSE IF g.entries > 1 THEN both(Failed("error"))
     ELSE [price |-> Field(g.price, TRUE), volume |-> Field(g.volume, FALSE)]

\* `said[n]` is what became of the n-th batch.
Corroborations(world, order, said) ==
  [a \in Range(order) |->
     LET k == CHOOSE i \in DOMAIN order : order[i] = a
     IN Listing(world, a, said[(k - 1) \div GeckoBatch + 1])]

\* Rounded away from zero.
Divergence(mark, seen) ==
  LET gap == (mark - seen) * 100
      size == -((-(IF gap < 0 THEN -gap ELSE gap)) \div seen)
  IN IF gap < 0 THEN -size ELSE size

Magnitude(d) == IF d < 0 THEN -d ELSE d

\* The tiered verdict: the first rule that does not pass, and the finding a
\* closed session keeps instead of a veto.
CrossRule(mark, corroboration, closed) ==
  LET d == Divergence(mark.price, corroboration.price.value)
  IN IF mark.verdict # "true" THEN mark.rule
     ELSE IF corroboration.price.read # "ok" THEN "corroboration"
     ELSE IF corroboration.volume.read # "ok" THEN "volume"
     ELSE IF corroboration.volume.value < MinVolume THEN "corroborator-line"
     ELSE IF ~closed /\ Magnitude(d) > MaxDivergence THEN "divergence"
     ELSE "none"

Finding(mark, corroboration, closed) ==
  /\ CrossRule(mark, corroboration, closed) = "none" /\ closed
  /\ Magnitude(Divergence(mark.price, corroboration.price.value))
       > MaxDivergence

(***************************************************************************)
(* The venue.  A quote is asked stock by stock, in order; what it sells is  *)
(* what it was asked for unless the venue answers for another amount.       *)
(***************************************************************************)
\* Rounded down, so the order never exceeds the size it names.
NominalSell(cashPrice) == (Nominal * Unit) \div cashPrice

\* The tries of the k-th request whose reply is a status other than 200.
Refusals(script, replayed) ==
  {i \in Tries(script, replayed) : script[i].kind \in {"limited", "error"}}

\* The adapter's list of replies when the k-th request is given up: late ones
\* from any request among them.  The last is the one whose body is quoted.
LastRefusal(order, scripts, k, replayed) ==
  LET landed == Landed(order, scripts, k, replayed)
      own == {<<k, i>> : i \in Refusals(scripts[order[k]], replayed)}
  IN IF landed # {} THEN CHOOSE x \in landed : TRUE
     ELSE IF own # {} THEN <<k, Max({x[2] : x \in own})>>
     ELSE <<>>

\* How long the requests of S held the caller, and when the k-th was over.
Waited(order, scripts, S) ==
  MapThenSumSet(LAMBDA j : Elapsed(scripts[order[j]]), S)

FetchedAt(order, scripts, k) == Waited(order, scripts, 1..k)

\* An observation of a quote: whose reply it rests on, and what it says.
Quote(world, order, scripts, k, size, replayed) ==
  LET a == order[k]
      served == Served(scripts[a], replayed)
      last == LastRefusal(order, scripts, k, replayed)
      failed(read, from) ==
        [read |-> read, from |-> from, sell |-> 0, impact |-> None, at |->
           FetchedAt(order, scripts, k)]
  IN IF size = None THEN failed("refused", <<>>)
     ELSE IF served # 0 /\ scripts[a][served].kind = "good"
     THEN [read |-> "ok", from |-> <<k, served>>,
           sell |-> IF world.venue[a].echo THEN size ELSE size + 1,
           impact |-> world.venue[a].impact,
           at |-> FetchedAt(order, scripts, k)]
     ELSE IF served # 0 THEN failed("refused", <<k, served>>)
     ELSE failed(IF last = <<>> THEN "unreachable" ELSE "refused", last)

BuiltAt(order, scripts) == FetchedAt(order, scripts, Len(order))

\* The first tradeability rule that does not pass, and its verdict.
TradeRule(quote, size, asOf, cfg) ==
  IF size = None \/ quote.read # "ok" THEN "quote"
  ELSE IF quote.sell # size THEN "size"
  ELSE IF asOf - quote.at > MaxAge THEN "quote-age"
  ELSE IF quote.impact = None \/ quote.impact > cfg.maxImpact THEN "impact"
  ELSE "none"

TradeVerdict(quote, size, asOf, cfg) ==
  LET rule == TradeRule(quote, size, asOf, cfg)
  IN IF rule = "none" THEN "true"
     ELSE IF \/ size = None
             \/ rule = "quote" /\ quote.read = "unreachable"
             \/ rule = "impact" /\ quote.impact = None
     THEN "null" ELSE "false"

=============================================================================
