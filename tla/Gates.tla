-------------------------------- MODULE Gates --------------------------------
(***************************************************************************)
(* Every limit, and what an order is worth (core/gates.py, core/cash.py).   *)
(* The aggregator and the planner shape a decision with these operators;    *)
(* the decision and the treasurer's chokepoint judge the written plan with  *)
(* the same ones.                                                           *)
(*                                                                         *)
(* `c` is the configuration that is read: the mandate (chain, approval,     *)
(* revoked flag, allowed assets, per-trade limit), the thresholds, the      *)
(* context budget and the published key.  A limit that is Null is           *)
(* unresolved, and blocks.  One gate of three values is a boolean here:     *)
(* False and None block alike, and only a record tells them apart.          *)
(*                                                                         *)
(* USD are whole cents, amounts whole raw units, and the two limits on      *)
(* shares of the net asset value are percent.  Every order is on the        *)
(* mandate's chain.                                                         *)
(***************************************************************************)
EXTENDS Integers, SequencesExt, FiniteSetsExt, Totals

CONSTANTS
  Mark,       \* the stocks' marks, USD per unit, by their address's order
  CashMark,   \* the cash leg's own mark: never assumed to be a dollar
  Null        \* a value the configuration, or a document, leaves null

ASSUME MarksAssumption ==
  Mark \in Seq(Nat \ {0}) /\ CashMark \in Nat \ {0}

Stocks == DOMAIN Mark

Cash == 0  \* the cash leg, among the assets a mandate allows

-------------------------------------------------------------------------------
(* core/cash.py *)

(* What an order sells, at its mark: the stock for a sell, cash for a buy.  *)
Worth(o) == o.sell * (IF o.side = "buy" THEN CashMark ELSE Mark[o.stock])

(* The raw units so many USD are worth, rounded down.                       *)
Units(usd, mark) == usd \div mark

WorthOf(orders, S) ==
  Total([i \in DOMAIN orders |-> IF i \in S THEN Worth(orders[i]) ELSE 0])

Side(orders, side) == {i \in DOMAIN orders : orders[i].side = side}

(* The cash left once these orders run, each at what it sells.              *)
CashAfter(usd, orders, S) ==
  usd + WorthOf(orders, S \cap Side(orders, "sell"))
      - WorthOf(orders, S \cap Side(orders, "buy"))

(* A book's worth, its cash and its positions at the snapshot's marks.      *)
Nav(cashUsd, values) == cashUsd + Total(values)

-------------------------------------------------------------------------------
(* The limits that shape a decision *)

Quorum(reported, c) == c.quorum # Null /\ reported >= c.quorum

(* Never past the position limit; one at or past it is not raised.          *)
RaiseBy(current, step, nav, c) ==
  Min({step, Max({0, (c.weight * nav) \div 100 - current})})

CutBy(current, step) == Min({step, current})

(* Mutant: the floor is forgotten when the buys are funded.                 *)
Fund_NoFloor(cashUsd, proceeds, wanted, c) ==
  LET spare == cashUsd + proceeds
  IN  IF c.floor = Null THEN <<0, 1>>
      ELSE IF wanted <= spare THEN <<1, 1>>
      ELSE IF spare <= 0 THEN <<0, 1>> ELSE <<spare, wanted>>

(* The share of the buys wanted that cash above the floor and the sells'    *)
(* worth pay for, as a fraction.  With no floor, no buy is planned.         *)
Fund(cashUsd, proceeds, wanted, c) ==
  LET spare == cashUsd + proceeds - c.floor
  IN  IF c.floor = Null THEN <<0, 1>>
      ELSE IF wanted <= 0 THEN <<1, 1>>
      ELSE IF spare <= 0 THEN <<0, 1>>
      ELSE IF wanted <= spare THEN <<1, 1>> ELSE <<spare, wanted>>

(* A move is split only by a configuration that says how.                   *)
CanSplit(c) == c.maxTrade # Null /\ c.minOrder # Null

RoundedUp(n, d) == (n + d - 1) \div d

(* The orders a move worth this much becomes; none if dust.                 *)
Split(usd, c) == IF usd < c.minOrder THEN 0 ELSE RoundedUp(usd, c.maxTrade)

-------------------------------------------------------------------------------
(* The mandate *)

MandateApproved(c) == c.approvedAt # Null /\ c.approvedAt < c.expires

MandateTerm(c, at) ==
  MandateApproved(c) /\ c.revoked = FALSE /\ at < c.expires

(* treasurer/mandate.validated: complete and approved, revoked or not.      *)
MandateComplete(c) ==
  /\ c.maxTrade # Null /\ c.allowed # {} /\ c.revoked # Null
  /\ MandateApproved(c)

(* Spend authority, for a sell as for a buy.                                *)
MandateInForce(c) == c.revoked = FALSE

MandateAllows(o, c) ==
  c.allowed # {} /\ MandateInForce(c) /\ o.stock \in c.allowed

(* Every leg an order trades: the stock a sell gives may be outside.        *)
MandateLegs(o, c) ==
  /\ c.allowed # {}
  /\ (IF o.side = "buy" THEN {Cash, o.stock} ELSE {Cash}) \subseteq c.allowed

-------------------------------------------------------------------------------
(* The gates over a written plan *)

SnapshotAge(taken, judged, c) ==
  c.age # Null /\ taken <= judged /\ judged - taken <= c.age

(* The snapshot's own verdict on the stock, every rule of it.               *)
Tradeable(s, snap) == s \in snap.tradeable

(* A sale's mark, without which it has no worth.                            *)
Priced(s, snap) == s \in snap.marked

CashFloor(usd, c) == c.floor # Null /\ usd >= c.floor

OrderSize(o, c) == c.maxTrade # Null /\ Worth(o) <= c.maxTrade

(* bankr_quote.tradeability's verdict on a fresh quote: impact is judged    *)
(* last, and is not a condition of selling.                                 *)
Verdicts == {"ok", "impact", "age", "none"}

FreshQuote(verdict) == verdict = "ok"

SellQuote(verdict) == verdict \in {"ok", "impact"}

(* What a position is worth after every order of the plan.                  *)
ValueAfter(plan, s) ==
  LET on(side) == {i \in Side(plan.orders, side) : plan.orders[i].stock = s}
  IN  plan.values[s] + WorthOf(plan.orders, on("buy"))
                     - WorthOf(plan.orders, on("sell"))

PositionWeight(plan, s, c) ==
  c.weight # Null /\ ValueAfter(plan, s) * 100 <= c.weight * plan.nav

Turnover(plan, c) ==
  c.turnover # Null
    /\ WorthOf(plan.orders, DOMAIN plan.orders) * 100 <= c.turnover * plan.nav

ContextBudget(tokens, c) == c.budget # Null /\ tokens <= c.budget

PlanGates(plan, snap, c, reported) ==
  /\ Quorum(reported, c)
  /\ Turnover(plan, c)
  /\ SnapshotAge(snap.taken, plan.judged, c)
  /\ MandateTerm(c, plan.judged)

(* Leaving a position needs a price and a quote, and spend authority;       *)
(* entering one needs every check.                                          *)
OrderGates(plan, i, verdict, snap, c) ==
  LET o == plan.orders[i]
  IN  /\ MandateLegs(o, c) /\ OrderSize(o, c)
      /\ \/ /\ o.side = "sell"
            /\ Priced(o.stock, snap) /\ MandateInForce(c)
            /\ SellQuote(verdict)
         \/ /\ o.side = "buy"
            /\ Tradeable(o.stock, snap) /\ MandateAllows(o, c)
            /\ FreshQuote(verdict) /\ PositionWeight(plan, o.stock, c)

(* gates.evaluate: the orders whose every gate, and the plan's, pass.       *)
Evaluate(plan, snap, c, reported) ==
  {i \in DOMAIN plan.orders :
     /\ PlanGates(plan, snap, c, reported)
     /\ OrderGates(plan, i, plan.quotes[i], snap, c)}

(* gates.held: an order gives no more than the book holds.                  *)
Held(o, cash, hold) == o.sell <= IF o.side = "buy" THEN cash ELSE hold[o.stock]

(* What is left of the open orders with every buy after n dropped.          *)
UpTo(orders, open, n) == open \ {i \in Side(orders, "buy") : i > n}

(* Where the dropping may stop: what is left leaves the floor.              *)
Clear(orders, open, usd, c) ==
  {n \in 0 .. Len(orders) :
     CashFloor(CashAfter(usd, orders, UpTo(orders, open, n)), c)}

(* gates.settle: while what is left is under the floor, the last approved   *)
(* buy that has not filled is dropped.  A sell never is, nor is a fill.     *)
Dropped(orders, approved, usd, filled, c) ==
  LET open  == approved \ filled
      clear == Clear(orders, open, usd, c)
  IN  {i \in open \cap Side(orders, "buy") : clear = {} \/ i > Max(clear)}

=============================================================================
