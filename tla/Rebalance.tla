------------------------------ MODULE Rebalance ------------------------------
(***************************************************************************)
(* One decision over the paper book, from the analysts' reports to the last *)
(* order booked (run/decide.py, run/cycle.py, treasurer/execute.py).        *)
(*                                                                         *)
(* The decision reads the configuration once, checks the reports against    *)
(* the snapshot, aggregates them, sizes the orders, quotes them, gates them *)
(* and asks the risk seat; its record carries what it read.  The runner     *)
(* then reads the mandate and the published key again, and writes the       *)
(* approved orders; the treasurer, in its own process, reads the            *)
(* configuration a third time, and takes the orders one at a time through   *)
(* the chokepoint, on a fresh quote and on what the ledger has booked.      *)
(* When it has ended, and only then, the runner keeps the paper book beside *)
(* the record, where the page looks for it.                                 *)
(*                                                                         *)
(* Between those reads the operator may edit the files.  The runner may be  *)
(* killed while its treasurer goes on; the next runner's startup then       *)
(* settles the same rows (Startup).                                         *)
(*                                                                         *)
(* No time passes here: every age and term is judged at the cycle's start,  *)
(* `at`, or at the instant the decision judged its quotes, and the code     *)
(* reads no later clock.  The treasurer's venue is an interface: whatever   *)
(* it answers for one order says nothing of its answer for the next.        *)
(***************************************************************************)
EXTENDS Aggregate, Vote, OrderMoves, Credentials

CONSTANTS
  Worlds,  \* bound: the books, configurations, evidence, reports and replies
  Slips    \* bound: what a fill gets, less what its mark makes fair

(* A figure claimed is a number; a vote on the plan is one of two.          *)
Figures(report) ==
  \A k \in DOMAIN report.lines : IsLine(report, k, "figure") =>
     \A claim \in report.lines[k].claims : claim.value # Null

Votes(text) ==
  /\ DOMAIN text = 1..Len(text) /\ Len(text) \in Nat
  /\ \A k \in LinesOf(text, "overall") : text[k].vote \in {"approve", "veto"}

(* The books, the configurations, the reports and the replies a cycle may   *)
(* be given.  A quote is judged when it was fetched, or after: never before *)
(* the cycle began.                                                         *)
ASSUME WorldsAssumption ==
  /\ Slips \subseteq Int
  /\ \A w \in Worlds :
       /\ w.cash \in Nat /\ w.hold \in [Stocks -> Nat]
       /\ w.quotes \subseteq Verdicts /\ IsFiniteSet(w.offered)
       /\ w.at \in Int /\ w.judged \in Int /\ w.at <= w.judged
       /\ \A x \in w.offered : Figures(x.report)
       /\ \A x \in w.replies : x.status = "replied" => Votes(x.text)
       /\ \A c \in {w.config} \cup w.edits :
            /\ c.maxTrade \in (Nat \ {0}) \cup {Null}
            /\ c.minOrder \in Nat \cup {Null}
            /\ c.floor \in Nat \cup {Null}
            /\ c.weight \in Nat \cup {Null}
            /\ c.expires \in Int

VARIABLES
  world,    \* what this cycle is given
  disk,     \* the configuration directory, as the operator has it now
  pc,       \* where the decision is; "off" when no treasurer runs it
  record,   \* the signed record, but for its plan
  plan,     \* the record's plan: the book it was sized on, its orders
  cash,     \* the ledger's fold over the paper book: raw units of cash
  hold,     \* and of each stock
  row,      \* the orders table: each plan order's state, and why it got there
  fill,     \* the journal: what each order's fill got, 0 with no fill
  admits,   \* the configuration the treasurer read when it started
  cur,      \* the order the treasurer is running, or ran last
  siblings, \* the filled and the refused it read when it took that order
  book      \* the book kept beside the record: Null before there is one

vars == <<world, disk, pc, record, plan, cash, hold, row, fill, admits, cur,
          siblings, book>>

given == <<world, disk>>

-------------------------------------------------------------------------------
(* The planner *)

(* plan._even: parts that differ by at most one, the larger first.          *)
Even(total, parts) ==
  [k \in 1 .. parts |->
     total \div parts + (IF k <= total % parts THEN 1 ELSE 0)]

Order(side, stock, sell) == [side |-> side, stock |-> stock, sell |-> sell]

(* plan.book: the paper book at the snapshot's marks.                       *)
Values == [s \in Stocks |-> hold[s] * Mark[s]]

(* ledger.cash_held: what the book's cash is worth, at its own mark.        *)
CashHeld == cash * CashMark

BookNav == Nav(CashHeld, Values)

(* A cut sells the units it is worth, all of them when the target is zero.  *)
Sold(s, cut) ==
  IF cut = hold[s] * Mark[s] THEN hold[s]
  ELSE Min({Units(cut, Mark[s]), hold[s]})

SellsOf(move, s, c) ==
  LET sold  == IF move[s] < 0 THEN Sold(s, -move[s]) ELSE 0
      parts == IF sold = 0 THEN << >> ELSE Even(sold, Split(sold * Mark[s], c))
  IN  [k \in DOMAIN parts |-> Order("sell", s, parts[k])]

(* A raise, scaled by its share and rounded down to the cent, in even       *)
(* orders that each sell the cash their cents are worth.                    *)
BuysOf(move, s, share, c) ==
  LET usd   == IF move[s] > 0 THEN (move[s] * share[1]) \div share[2] ELSE 0
      parts == IF usd = 0 THEN << >> ELSE Even(usd, Split(usd, c))
  IN  [k \in DOMAIN parts |-> Order("buy", s, Units(parts[k], CashMark))]

(* plan.size: sells first, then the buys cash can fund.                     *)
Sized(move, c) ==
  LET sells == FlattenSeq([s \in Stocks |-> SellsOf(move, s, c)])
      share == Fund(CashHeld, WorthOf(sells, DOMAIN sells),
                    Total([s \in Stocks |-> Max({0, move[s]})]), c)
  IN  sells \o FlattenSeq([s \in Stocks |-> BuysOf(move, s, share, c)])

(* plan.write: the book it was sized on, its orders and their quotes.       *)
Written(orders, quotes) ==
  [cash |-> CashHeld, values |-> Values, nav |-> BookNav,
   orders |-> orders, quotes |-> quotes, judged |-> world.judged]

(* A sale, or a funded raise, is split: with no limit to split it by, the   *)
(* whole cycle raises, and no record says why.                              *)
NoLimit(move, c) ==
  /\ ~CanSplit(c)
  /\ \E s \in Stocks : \/ move[s] < 0 /\ Sold(s, -move[s]) > 0
                       \/ move[s] > 0 /\ c.floor # Null

(* A unit worth more than the limit leaves a part of no units, for which no *)
(* quote can be asked (bankr_quote.QuoteRequest): the cycle raises too.     *)
NoUnits(move, c) ==
  \E i \in DOMAIN Sized(move, c) : Sized(move, c)[i].sell = 0

CanSize(move, c) == ~NoLimit(move, c) /\ ~NoUnits(move, c)

Indices == DOMAIN plan.orders
Buys    == Side(plan.orders, "buy")
Sells   == Side(plan.orders, "sell")

-------------------------------------------------------------------------------
(* The decision *)

Unwritten == [state |-> "none", why |-> "none"]

NoReply == [status |-> "none", text |-> Null]

Init ==
  /\ world \in Worlds /\ disk = world.config
  /\ cash = world.cash /\ hold = world.hold
  /\ pc = "keys"
  /\ record = [config |-> world.config, reports |-> {}, reply |-> NoReply,
               approved |-> {}, signer |-> Null]
  /\ plan = Written(<< >>, << >>)
  /\ row = << >> /\ fill = << >>
  /\ admits = world.config /\ cur = 0
  /\ siblings = [filled |-> {}, gone |-> {}] /\ book = Null

(* cycle.live: the risk seat's key must be no credential it may not hold,   *)
(* and the quotes' key must be there, or nothing is decided.                *)
Keyed ==
  LET env == Environ(world.host)
  IN  SeatKey("BANKR_LLM_KEY", env) /\ AnalystSecret("BANKR_KEY_READ", env)

Ready ==
  /\ pc = "keys" /\ pc' = IF Keyed THEN "size" ELSE "off"
  /\ UNCHANGED <<given, record, plan, cash, hold, row, fill, admits, cur,
                 siblings, book>>

(* The operator edits the mandate, the thresholds or the published key.     *)
(* Bound: once, and before the last reader has read them.                   *)
Edit ==
  /\ disk = world.config /\ disk' \in world.edits
  /\ pc \in {"size", "vote", "list", "start"}
  /\ UNCHANGED <<world, pc, record, plan, cash, hold, row, fill, admits, cur,
                 siblings, book>>

(* decide.cycle_reports: what the runner kept of each seat that answered.   *)
Offered == {x \in world.offered : x.status \in {"ok", "no_call"}}

(* decide._prepare: the configuration as it is read now, once, and the      *)
(* reports it accepts.                                                      *)
Accepted == Checked(Offered, world.snap)

Prepared == [record EXCEPT !.config = disk, !.reports = Accepted]

(* record.build: the reply, and the orders it and the gates left approved.  *)
Recorded(reply, approved) ==
  [record EXCEPT !.reply = reply, !.approved = approved]

(* decide._finish: the treasurer's process signs the record's bytes, if it  *)
(* has a key.                                                               *)
Finished(r) == [r EXCEPT !.signer = Signer(world.host, Null)]

(* One holding the snapshot cannot mark, or a book worth nothing: the cycle *)
(* ends with a signed record of no orders (decide.no_rebalance).            *)
Valued ==
  /\ \A s \in Stocks : hold[s] > 0 => s \in world.snap.marked
  /\ BookNav > 0

Unvalued ==
  /\ pc = "size" /\ ~Valued
  /\ pc' = "off"
  /\ record' = Finished(Prepared)
  /\ UNCHANGED <<given, plan, cash, hold, row, fill, admits, cur,
                 siblings, book>>

(* The moves the accepted reports ask for.                                  *)
Moving == Aggregated(Accepted, Values, BookNav, disk)

(* decide.judge: each order's own quote, at one instant.                    *)
Judged(orders) == [DOMAIN orders -> world.quotes]

Size ==
  /\ pc = "size" /\ pc' = "vote" /\ Valued /\ CanSize(Moving, disk)
  /\ LET orders == Sized(Moving, disk)
     IN  /\ \E quotes \in Judged(orders) : plan' = Written(orders, quotes)
         /\ row'  = [i \in DOMAIN orders |-> Unwritten]
         /\ fill' = [i \in DOMAIN orders |-> 0]
  /\ record' = Prepared
  /\ UNCHANGED <<given, cash, hold, admits, cur, siblings, book>>

SizeRaises ==
  /\ pc = "size" /\ pc' = "off" /\ Valued /\ ~CanSize(Moving, disk)
  /\ UNCHANGED <<given, record, plan, cash, hold, row, fill, admits, cur,
                 siblings, book>>

CallsIn(reports) == MapThenSumSet(LAMBDA r : Cardinality(r.calls), reports)

(* risk.render: the plan, and every accepted report in full.                *)
Bundle == Len(plan.orders) + CallsIn(record.reports)

(* context.measure: the tokens the bundle and its reply may take.           *)
Measured(c) == RoundedUp(Bundle, c.perToken) + c.reserved

InBudget == ContextBudget(Measured(record.config), record.config)

Cleared ==
  IF InBudget
  THEN Evaluate(plan, world.snap, record.config, Cardinality(record.reports))
  ELSE {}

(* The reply the world names, or any that votes once on each order.  No     *)
(* call is made for a plan with no orders, or past the budget.              *)
Asked ==
  IF plan.orders = << >> \/ ~InBudget
  THEN {NoReply}
  ELSE IF world.replies # {} THEN world.replies
  ELSE {Replied([i \in Indices |->
                   [kind |-> "order", index |-> i, symbol |-> Null,
                    vote |-> IF i \in yes THEN "approve" ELSE "veto"]]) :
          yes \in SUBSET Indices}

(* risk.review, record.build and the treasurer's signature, if it has a key.*)
Vote ==
  /\ pc = "vote" /\ pc' = "list"
  /\ \E reply \in Asked :
        record' = Finished(Recorded(reply,
                             Decided(plan, Cleared, reply, record.config)))
  /\ UNCHANGED <<given, plan, cash, hold, row, fill, admits, cur,
                 siblings, book>>

(* decide.replay: the recorded reply's text is read as a reply, over the    *)
(* configuration and the quotes the cycle carries.                          *)
Rebuilt ==
  Decided(plan, Cleared, Replied(record.reply.text), record.config)

-------------------------------------------------------------------------------
(* The signed decision's orders *)

(* sign.authorizes, with the key one configuration publishes.               *)
Authorizes(c) ==
  LET key == PublishedKey(c.keys, Null) IN key # Null /\ record.signer = key

(* intent.intents: the record authorizes, and the mandate is in force.      *)
Listed ==
  /\ MandateComplete(disk) /\ Authorizes(disk) /\ MandateTerm(disk, world.at)

(* The approved orders, in the plan's order, up to the last one written.    *)
WriteUpTo(n) ==
  row' = [i \in Indices |->
            IF i \in record.approved /\ i <= n
            THEN [state |-> "prepared", why |-> "none"] ELSE Unwritten]

List ==
  /\ pc = "list" /\ Listed /\ pc' = "start"
  /\ WriteUpTo(Len(plan.orders))
  /\ UNCHANGED <<given, record, plan, cash, hold, fill, admits, cur,
                 siblings, book>>

ListRefused ==
  /\ pc = "list" /\ ~Listed /\ pc' = "off"
  /\ UNCHANGED <<given, record, plan, cash, hold, row, fill, admits, cur,
                 siblings, book>>

(* Killed before the last row: each is written by itself.                   *)
ListDies ==
  /\ pc = "list" /\ Listed /\ pc' = "off"
  /\ \E n \in Indices : n < Len(plan.orders) /\ WriteUpTo(n)
  /\ UNCHANGED <<given, record, plan, cash, hold, fill, admits, cur,
                 siblings, book>>

-------------------------------------------------------------------------------
(* The treasurer *)

In(states) == {i \in Indices : row[i].state \in states}

Treasurer(here, next) == pc = here /\ pc' = next

Write(i, s, w) == row' = [row EXCEPT ![i] = [state |-> s, why |-> w]]

(* execute.main: an incomplete mandate stops it before any order.           *)
Start ==
  /\ pc = "start"
  /\ IF MandateComplete(disk) THEN pc' = "next" /\ admits' = disk
     ELSE pc' = "off" /\ UNCHANGED admits
  /\ UNCHANGED <<given, record, plan, cash, hold, row, fill, cur,
                 siblings, book>>

(* execute.by_record: the order's siblings, as the treasurer reads them now.*)
Siblings == [filled |-> In({"confirmed"}), gone |-> In({"refused", "failed"})]

(* The next order still prepared, in the order they were written.           *)
Take ==
  /\ Treasurer("next", "judge")
  /\ LET ahead == {i \in In({"prepared"}) : i > cur}
     IN  ahead # {} /\ cur' = Min(ahead)
  /\ siblings' = Siblings
  /\ UNCHANGED <<given, record, plan, cash, hold, row, fill, admits, book>>

(* Mutant: the floor starts from the plan's cash, not from what was booked. *)
FloorRefuses_PlanCash(i) ==
  i \in Dropped(plan.orders, record.approved \ siblings.gone,
                CashAfter(plan.cash, plan.orders, siblings.filled),
                siblings.filled, admits)

(* Mutant: what has filled is projected again, on top of what it booked.    *)
FloorRefuses_Twice(i) ==
  i \in Dropped(plan.orders, record.approved \ siblings.gone, CashHeld, {},
                admits)

(* execute.admit: the floor again, from the cash the ledger holds now, over *)
(* the approved orders that are neither refused nor filled.                 *)
FloorRefuses(i) ==
  i \in Dropped(plan.orders, record.approved \ siblings.gone, CashHeld,
                siblings.filled, admits)

(* execute._planned: an order the record approved.  No one but intents      *)
(* writes a row of it, so its key and amounts are the plan's.               *)
Planned(i) == i \in record.approved

(* execute.admit: every check on one order, on a fresh quote's verdict.     *)
Admitted(i, verdict) ==
  /\ Authorizes(admits) /\ MandateTerm(admits, world.at)
  /\ Planned(i)
  /\ PlanGates(plan, world.snap, admits, Cardinality(record.reports))
  /\ OrderGates(plan, i, verdict, world.snap, admits)
  /\ Held(plan.orders[i], cash, hold) /\ ~FloorRefuses(i)

(* store.move refuses a row that startup settled: the treasurer stops.      *)
Moved(s, w) ==
  IF s \in Moves[row[cur].state] THEN pc' = "next" /\ Write(cur, s, w)
  ELSE pc' = "off" /\ UNCHANGED row

Refuse ==
  /\ pc = "judge" /\ \E verdict \in world.fresh : ~Admitted(cur, verdict)
  /\ Moved("refused", IF FloorRefuses(cur) THEN "cash-floor" ELSE "other")
  /\ UNCHANGED <<given, record, plan, cash, hold, fill, admits, cur,
                 siblings, book>>

(* Every check passed.  Submitted is durable before the act.                *)
Submit ==
  /\ pc = "judge" /\ \E verdict \in world.fresh : Admitted(cur, verdict)
  /\ IF row[cur].state = "prepared"
     THEN pc' = "send" /\ Write(cur, "submitted", "none")
     ELSE pc' = "off" /\ UNCHANGED row
  /\ UNCHANGED <<given, record, plan, cash, hold, fill, admits, cur,
                 siblings, book>>

(* fake_venue.observe: what a quote may buy with what the order sells, at   *)
(* prices of the venue's own.                                               *)
Observed(o) ==
  LET mark == IF o.side = "buy" THEN Mark[o.stock] ELSE CashMark
  IN  {Units(Worth(o), mark) + d : d \in Slips}

(* ledger.paper_fill: the quote's amounts, and a fill gets something.       *)
PaperFill(o) == Observed(o) \cap (Nat \ {0})

(* The ledger's fold with one more fill: what it gave, and what it got.     *)
Booked(o, got) ==
  IF o.side = "buy"
  THEN /\ cash' = cash - o.sell
       /\ hold' = [hold EXCEPT ![o.stock] = @ + got]
  ELSE /\ cash' = cash + got
       /\ hold' = [hold EXCEPT ![o.stock] = @ - o.sell]

(* PaperExecutor.submit: filled at its quote, in one write with its state.  *)
FillOnPaper ==
  /\ pc = "send" /\ row[cur].state = "submitted"
  /\ \E got \in PaperFill(plan.orders[cur]) :
        Booked(plan.orders[cur], got) /\ fill' = [fill EXCEPT ![cur] = got]
  /\ pc' = "next" /\ Write(cur, "confirmed", "none")
  /\ UNCHANGED <<given, record, plan, admits, cur, siblings, book>>

(* The quote buys less than the order's minimum: nothing is booked.  Or     *)
(* startup failed the order meanwhile: the write is refused as a whole.     *)
FillRefused ==
  /\ pc = "send"
  /\ Moved("failed", "none")
  /\ UNCHANGED <<given, record, plan, cash, hold, fill, admits, cur,
                 siblings, book>>

TreasurerEnds ==
  /\ Treasurer("next", "back")
  /\ {i \in In({"prepared"}) : i > cur} = {}
  /\ UNCHANGED <<given, record, plan, cash, hold, row, fill, admits, cur,
                 siblings, book>>

TreasurerDies ==
  /\ pc \in {"start", "next", "judge", "send"} /\ pc' = "off"
  /\ UNCHANGED <<given, record, plan, cash, hold, row, fill, admits, cur,
                 siblings, book>>

(* ledger.as_document: the book's cash, its positions and its net value.    *)
Document == [cash |-> cash, hold |-> hold, nav |-> BookNav]

(* A later run's startup has settled rows: this runner no longer owns them. *)
Replaced == \E i \in Indices : row[i].why = "stale"

(* Mutant: the book is kept as soon as the treasurer runs.                  *)
Keep_Early ==
  /\ pc \in {"next", "back"} /\ pc' = (IF pc = "back" THEN "off" ELSE pc)
  /\ ~Replaced
  /\ book' = Document
  /\ UNCHANGED <<given, record, plan, cash, hold, row, fill, admits, cur,
                 siblings>>

(* The treasurer's process ended well: the runner reads the book and keeps  *)
(* it beside the record.  A treasurer that raised or hung leaves no book.   *)
Keep ==
  /\ pc = "back" /\ pc' = "off" /\ ~Replaced
  /\ book' = Document
  /\ UNCHANGED <<given, record, plan, cash, hold, row, fill, admits, cur,
                 siblings>>

KeepDies ==
  /\ pc = "back" /\ pc' = "off"
  /\ UNCHANGED <<given, record, plan, cash, hold, row, fill, admits, cur,
                 siblings, book>>

(* Mutant: what startup settles gets a state of its own.                    *)
Startup_Cancels(i) ==
  /\ pc \in {"next", "judge", "send", "back", "off"}
  /\ row[i].state \in {"prepared", "submitted"}
  /\ Write(i, "cancelled", "stale")
  /\ UNCHANGED <<given, pc, record, plan, cash, hold, fill, admits, cur,
                 siblings, book>>

(* The next run's startup.resolve, while this treasurer may still go on: a  *)
(* prepared order is stale, and one in flight with no fill never filled.    *)
Startup(i) ==
  /\ pc \in {"next", "judge", "send", "back", "off"}
  /\ \/ row[i].state = "prepared"  /\ Write(i, "refused", "stale")
     \/ row[i].state = "submitted" /\ Write(i, "failed", "stale")
  /\ UNCHANGED <<given, pc, record, plan, cash, hold, fill, admits, cur,
                 siblings, book>>

Next ==
  \/ Ready \/ Edit \/ Unvalued \/ Size \/ SizeRaises \/ Vote
  \/ List \/ ListRefused \/ ListDies \/ Start
  \/ Take \/ Refuse \/ Submit \/ FillOnPaper \/ FillRefused
  \/ TreasurerEnds \/ TreasurerDies \/ Keep \/ KeepDies
  \/ \E i \in Indices : Startup(i)

Spec == Init /\ [][Next]_vars

-------------------------------------------------------------------------------
(* Properties *)

Whys == {"none", "cash-floor", "other", "stale"}

TypeOK ==
  /\ disk \in {world.config} \cup world.edits
  /\ pc \in {"keys", "size", "vote", "list", "start", "next", "judge", "send",
             "back", "off"}
  /\ cash \in Nat /\ hold \in [Stocks -> Nat]
  /\ plan.orders \in Seq([side : {"buy", "sell"}, stock : Stocks,
                          sell : Nat \ {0}])
  /\ plan.quotes \in [Indices -> Verdicts]
  /\ record.approved \subseteq Indices
  /\ row  \in [Indices -> [state : States, why : Whys]]
  /\ fill \in [Indices -> Nat]
  /\ cur \in {0} \cup Indices
  /\ siblings \in [filled : SUBSET Indices, gone : SUBSET Indices]
  /\ book # Null => book.cash \in Nat /\ book.hold \in [Stocks -> Nat]

(* "So the plan cannot break its own floor" (plan.size): run at its marks,  *)
(* a plan that buys at all leaves the floor, through the scaling of every   *)
(* raise, its splitting and its rounding.                                   *)
PlanKeepsFloor ==
  Buys # {} =>
    CashAfter(plan.cash, plan.orders, Indices) >= record.config.floor

(* "So a vetoed sell cannot leave approved the buys it was paying for"      *)
(* (risk.decide): run at its marks, what was approved and written leaves    *)
(* the floor whenever it buys anything, whatever was vetoed.                *)
DecisionKeepsFloor ==
  LET written == In(States \ {"none"})
  IN  written \cap Buys # {} =>
        CashAfter(plan.cash, plan.orders, written) >= record.config.floor

(* The promise of the chokepoint's floor (execute.admit, 4.0 P11): no buy   *)
(* that fills leaves the paper book under the floor, whatever the sells     *)
(* before it booked, and whatever was refused, failed or settled by a later *)
(* run while the treasurer goes on.                                         *)
NoBuyBreaksFloor ==
  [][\A i \in Buys :
       row[i].state # "confirmed" /\ row'[i].state = "confirmed"
         => cash' * CashMark >= admits.floor]_vars

(* The operator withdrew or raised the floor after the decision read it.    *)
FloorRaised == admits.floor = Null \/ admits.floor > record.config.floor

(* The chokepoint and the decision judge by one rule: it refuses a buy for  *)
(* the floor only when a sell the decision counted on did not fill, or got  *)
(* less than its worth, or the floor is no longer the one decided by.       *)
NoNeedlessDrop ==
  \A i \in Buys : row[i].why = "cash-floor" =>
     \/ FloorRaised
     \/ \E j \in Sells :
           \/ row[j].state \in {"refused", "failed"}
           \/ row[j].state = "confirmed"
              /\ fill[j] * CashMark < Worth(plan.orders[j])

(* The reply approves an order under its own symbol or none, no line of it  *)
(* votes otherwise on the order, and the plan it votes on is this one.      *)
Consented(i) ==
  LET text  == record.reply.text
      heads == {k \in DOMAIN text : text[k].kind = "risk"}
      on    == {k \in DOMAIN text :
                  text[k].kind = "order" /\ text[k].index = i}
      whole == {k \in DOMAIN text : text[k].kind = "overall"}
  IN  /\ record.reply.status = "replied"
      /\ heads # {} => text[Min(heads)].plan = "this"
      /\ on # {} /\ \A k \in on :
            /\ text[k].vote = "approve"
            /\ text[k].symbol \in {Null, plan.orders[i].stock}
      /\ whole # {} => text[Min(whole)].vote = "approve"

(* A figure no field of the snapshot holds, nor any two of them make.       *)
Fabricated(claim, fields) ==
  LET all == (UNION {{fields[s][p] : p \in DOMAIN fields[s]} :
                       s \in DOMAIN fields}) \ {Null}
  IN  /\ claim.kind = "plain" /\ claim.value \notin all
      /\ \A a, b \in all : ~Derived(claim.value, a, b)

(* A line that cites what is no number.                                     *)
Vague(x, fields) ==
  \E n \in DOMAIN x.cites, s \in DOMAIN fields :
     /\ x.cites[n].path \in DOMAIN fields[s]
     /\ fields[s][x.cites[n].path] = Null

(* The figures under a report's calls.                                      *)
FiguresUnderCalls(r) ==
  {k \in DOMAIN r.lines : r.lines[k].kind = "figure" /\ CallOf(r, k) # 0}

(* A report on this snapshot, by the seat and agent that offered it, calls  *)
(* the stock the way the order trades it, and fabricates no figure under a  *)
(* call: but for a line that cites what is no number.                       *)
Called(o) ==
  \E x \in Offered :
     /\ x.report.header = [seat |-> x.seat, agent |-> x.agent,
                           snapshot |-> world.snap.id]
     /\ \E k \in DOMAIN x.report.lines :
           LET line == x.report.lines[k]
           IN  /\ line.kind = "call" /\ line.stock = o.stock
               /\ line.word = o.side /\ line.symbol = o.stock
     /\ \A k \in FiguresUnderCalls(x.report) :
           ~Vague(x.report.lines[k], world.snap.fields) =>
             \A claim \in x.report.lines[k].claims :
                ~Fabricated(claim, world.snap.fields)

(* What every order sent to the venue rests on, whoever edited what         *)
(* meanwhile: an accepted call, the risk seat's consent, the published      *)
(* key's signature, and a mandate that allowed it both when the decision    *)
(* read it and when the treasurer did.                                      *)
Authorized ==
  \A i \in In({"submitted", "confirmed", "failed"}) :
     LET o == plan.orders[i]
     IN  /\ Called(o) /\ Consented(i)
         /\ admits.keys # Null /\ record.signer = admits.keys.public
         /\ \A c \in {record.config, admits} :
               /\ c.revoked = FALSE
               /\ world.at < c.expires /\ plan.judged < c.expires
               /\ Worth(o) <= c.maxTrade /\ Cash \in c.allowed
               /\ o.side = "buy" => /\ o.stock \in c.allowed
                                    /\ o.stock \in world.snap.tradeable

(* core/record.py: "the same recorded inputs rebuild the same bytes": a     *)
(* replay of the record approves what the record approved.                  *)
RecordRebuilds ==
  record.reply.text # Null => Rebuilt = record.approved

(* gates.split says it gives "the fewest [orders] that keep each within the *)
(* per-trade limit": no order of a plan is past it.                         *)
EachWithinLimit ==
  \A i \in Indices : Worth(plan.orders[i]) <= record.config.maxTrade

=============================================================================
