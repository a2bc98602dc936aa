# Openfund: a TLA+ verification project

Openfund (`src/`) is an autonomous fund in Python, on chain 4663. A *cycle* takes a frozen
snapshot of the market, asks four analyst processes for reports, aggregates their calls into
weights, sizes the weights into orders on fresh quotes, applies fixed gates, lets a risk model
veto, signs the decision, and hands it to a *treasurer* process, the only one that can spend.
Stock orders fill on paper; one leg (ETH and USDG) is really swapped, by `run/liveleg.py`.
What must not go wrong is on the execution path: an order is sent once and booked once,
whatever process dies at whatever step, and nothing is booked that the chain does not show.

Paths below are relative to `src/src/fund/`.

## 1. Inventory

| Component | State | Operations | Hard behaviour | Modelled in |
|---|---|---|---|---|
| Order state machine, `core/orders.py` | none; `MOVES` | `transition`, `order_id`, `idempotency_key` | `unknown -> submitted` is a legal move | `OrderMoves`, `OrderLife` |
| Store, `store/orders.py`, `journal.py`, `db.py` | `orders`, `events`, `runner_lock` tables of one SQLite file | `add`, `move`, `all`, `append`, `transaction` | two processes write it; each transaction is atomic, nothing wider is | `Treasury`, `LiveLeg` |
| Startup, `run/startup.py` | the lock's row | `owning`, `resolve` | takes a dead process's lock over; settles from rows read earlier | `Treasury`, `LiveLeg`, `Rebalance` |
| Cycle runner, `run/cycle.py` | the run's local variables | `live`, `cycle`, `treasurer` | its child outlives it if it is killed; configuration read three times | `Treasury`, `Rebalance` |
| Live leg, `run/liveleg.py` | as above, the instruction's and the outcome's files | `open_real_book`, `reader`, `main`, `record` | opening is one append per asset; the judging instant is an argument | `LiveLeg` |
| Treasurer, `treasurer/execute.py` | `sent` per executor; local order | `admit`, `admit_instruction`, `run_order`, executors | submitted is durable before the act; the reply may carry no hash | `Treasury`, `Rebalance`, `LiveLeg` |
| Reconciler, `treasurer/reconcile.py` | none | `read` | absent, shallow, reverted, unevidenced, final receipts; ETH has no logs | `Treasury`, `LiveLeg` |
| Ledger, `core/ledger.py` | the journal's events, folded | `_walk`, `booked`, `value`, `traded_usd` | refuses a fold that oversells; rounds average cost | `LiveLeg`, `Rebalance` |
| Gates and chokepoint, `core/gates.py`, `treasurer/execute.py` | none | `evaluate`, `settle`, `admit` | null limits; one execution fills part of a plan | `Gates`, `Rebalance` |
| Aggregation, `core/aggregate.py` | none | scores, steps, weights, quorum | two vocabularies; rounding | `Aggregate` |
| Planner, `core/plan.py` | none | `size`, `write` | buys funded by sells not yet run; splitting | `Rebalance` |
| Risk vote, `agents/risk.py` | none | `parse`, `decide`, `review` | free text that may veto and never approve | `Vote`, `Rebalance` |
| Report schema, `agents/schema.py` | none | `parse`, the citation rules | a figure nobody published | `Reports` |
| Decision pipeline, `run/decide.py` | a cycle's directory | `decide`, `no_rebalance`, `replay` | stages, each read once; a replay from a recorded reply | `Rebalance` |
| Credentials, `config.py`, `credentials.py` | environments of processes | `load`, `secret`, `refuse_spend_authority` | files, shell and roles shadow each other | `Credentials` |
| Analyst runner, `agents/runner.py` | `queue`, `running`, `slots`, result files | `run_cycle`, `collect`, `finish` | bounded width, two deadlines, a kill racing a finished result | `AnalystPool` |
| Analyst worker, `agents/analyst.py` | its result file | `run` | retries only a malformed reply | `AnalystPool` |
| Dashboard server, `run/serve.py` | `process`, `events`, per run | `start`, `_watch`, `_seats`, `emit`, `since` | threads of requests and watchers share unlocked state | `Serve` |
| Dashboard export, `run/dashboard.py` | none; reads files | `latest_cycle`, `live_swaps`, one function per section | files of several writers, never the database | `Dashboard`, `LiveLeg` |
| Universe, `core/universe.py` | `config/registry/` | `load`, `plan_refresh`, `accept` | a refresh beside a build; held assets carried | `Universe`, `Evidence` |
| Chain adapter, `adapters/chain_4663.py` | none; one pinned block | series, closes, freshness, balances, slots | any read fails alone; sessions inferred from rounds | `Sessions`, `ChainReads` |
| HTTP client and cache, `adapters/http.py`, `cache.py` | recorded exchanges | `send`, `Recorder`, `Replayer` | failover, waits, threads abandoned at a deadline | `Client` |
| Quotes and markets, `adapters/bankr_quote.py`, `gecko.py` | the shared `_replies` | `quote`, `tradeability`, `corroborate` | a quote ages while others are asked | `Valuation` |
| Snapshot and valuation, `core/snapshot.py`, `valuation.py`, `run/snapshot.py` | the capture | `mark`, `build`, `sealing`, `replay` | three-valued evidence, ages, configuration edited meanwhile | `Valuation`, `Snapshot`, `Evidence` |

They interact through the SQLite file (runner and treasurer), through child processes and
their exit codes and outputs (server to cycle, cycle to analysts and treasurer), through files
of a cycle's directory (jobs, results, record, envelope, book), through `config/`, which an operator
edits at any time, and through HTTP (venue, chain, gateway). `PROJECT.json` gives each component's
status; section 10 says what is left out.

## 2. How the modules compose

    OrderMoves --- OrderLife (refined by) --- Treasury --- TreasuryProofs
         |                                        +--- MCTreasury
         +--- LiveLeg --- LiveLegProofs
         |       +--- MCLiveLeg
         +--- Rebalance --- RebalanceProofs
         |       +--- Dashboard (its theorems are in RebalanceProofs too)
         |       |        +--- MCRebalance
         |       | extends Aggregate (Reports, Gates), Vote, Credentials
    Totals (sums, extended by LiveLeg and Gates) --- TotalsProofs --- FoldSteps (instantiated)
                                                         | extended by LiveLegProofs, RebalanceProofs
    Sessions - ChainReads - Universe --+-- Valuation - Snapshot - Evidence --- EvidenceProofs
                                Client-+                             +--- MCEvidence
    AnalystPool --- AnalystPoolProofs      Serve --- ServeProofs
         +--- MCAnalystPool                  +--- MCServe

`Treasury` is the concurrency of the execution path: processes, kills, the database, the chain. It
leaves amounts open. `Rebalance` looks inside one paper decision and `LiveLeg` inside the live leg's
commands; both use the same `OrderMoves`, and take from `Treasury` that an order is sent and booked
once. `Dashboard` composes `Rebalance` with the page that shows it. `Evidence` is what a snapshot is
before a decision reads it. The pool hands a cycle its reports and the server starts a cycle, both
through a child process and no shared state, so each is a module of its own.

Every modelled part has theorems: the execution core, the pool, the server, a decision over the paper book, the
page that shows it, the live leg and the evidence (the *Proofs* of sections 3 to 8). Section 9 says what stays
with TLC.

## 3. The execution core

`Treasury` has one step per SQLite transaction, HTTP call or local choice.

| Variable | Code |
|---|---|
| `row` | `orders` table: state, and what chain evidence the row keeps |
| `fills`, `fees` | `events` table: fills and gas fees of each order |
| `lock` | `runner_lock`: the pid in its one row |
| `rpc`, `kind`, `seen`, `seenFilled`, `work`, `job`, `child` | a runner process: where it is, cycle or live leg, the rows and fills `resolve` read, what it has left to settle or write, the authority it carries out, the treasurer it waits for |
| `tpc`, `todo`, `cur`, `outcome` | a treasurer process: where it is, its orders, the order in `run_order`, the executor's `Outcome` before it is booked |
| `chain`, `sends` | the world: what became of each live swap, and how many submissions the venue saw |
| `crashes` | processes killed so far (bounded by `MaxCrashes`) |

A runner goes `Acquire` (`startup.owning`) - `ReadFills` - `ReadOrders` - `Settle` or `NotReady`
per order (`startup.resolve`) - `Decide` - `Write` per order (`OrderStore.add`) - `Spawn` -
`Collect` (`cycle.treasurer`). A treasurer goes `Pick` - `Refuse`, or `Submit` - `FillOnPaper`, or
`Send` - `ReplyWithoutHash` or `ReplyWithHash` - `Poll` - and `Commit` (`execute.run_order`).
`RunnerDies`, `TreasurerDies` and `Timeout` may happen at any step; a treasurer whose runner was
killed goes on. `Mine`, `Reorg` and `Deepen` are the chain.

Abstracted: amounts and prices; which order the chokepoint admits (any may be admitted or
refused); the row order in which orders are taken (any). A SQLite lock error or an RPC error that
nothing catches ends the process and is covered by `RunnerDies` and `TreasurerDies`. A process id
that the system gives to another program keeps a dead runner's lock held: it stops, safely, and is
not modelled. `OrderStore.move`'s revision check cannot fail under `BEGIN IMMEDIATE` and is left
out, and so is `OrderStore.add`'s refusal of a different order under a stored id.

`OrderLife` is the abstract promise about one order. `Treasury` implements it with
`state <- row[o].state`: see `LifeSpec`.

### Runs

| Run | Instance | Shows |
|---|---|---|
| `treasury_safety` | 2 runners on one host, 2 treasurers, a paper decision of two orders, two live instructions (one charged gas, one whose amounts cannot be booked), 2 kills | `TypeOK`, `OneRunner`, `OneAuthorityOpen`, `BookedOnce`, `SentOnce`, `OutcomeEvidenced`, the inductive invariant `IInv`, the refinement `LifeSpec` |
| `treasury_liveness` | 2 runners, 2 treasurers, a paper and a live order, 2 kills, `FairSpec` | `EvidenceSettles`, `PaperSettles` |
| `treasury_deadline` | as above, no kill | the violation of `DeadlineResolves`, below |

Two runners and two treasurers are what an orphan and a take-over need: the third process of a
kind can act only after one of the first two has ended, and ended processes keep no state. Two
kills let a runner die and its successor's or its orphan's process die too. Two live orders show
that one instruction never runs beside another; two paper orders show a decision part executed.
Runners and treasurers are symmetric in the safety run; the liveness runs use no symmetry.

Fairness (`FairSpec`): a process that is not killed goes on (the operating system schedules it, and
every call it makes has a timeout); a swap the venue broadcast is mined, and becomes final if it
keeps being mined; the operator keeps starting both kinds of run, so each kind gets the lock if it
is free infinitely often. Nothing is assumed of what a decision or the chokepoint says.

### Finding

`config/cadence.json:12` says of the settlement deadline that "the order stays in flight under its
own key, and startup (4.9) resolves it". When the deadline passes before any receipt was readable,
`reconcile.read` keeps no `Execution`; the hash is only in the reason's text. `liveleg.reader`
answers None for such an order, so `resolve` raises `NotReady` on every later run, paper or live,
until a human looks (which is what `reader`'s own docstring says). `treasury_deadline` shows it with
no process killed. `EvidenceSettles` is the part of the claim that holds: once the row keeps an
`Execution`, a later run settles the order.

### Proofs

`TreasuryProofs` proves what `treasury_safety` checks, the refinement included, for every set of orders,
authorities, runners, treasurers, hosts and every number of kills. The
assumptions are those `Treasury` names: live orders are one per authority (`liveleg` issues one
order per instruction), and `Nobody` is none of the things it stands for the absence of.

No property is inductive alone. `IInv` adds what makes them so:
- `LockInv`: a runner past the lock is the one its row names, so runners are alone;
- `WorkInv`, `WriteInv`: what a runner has yet to settle covers every open order, so when it has
  nothing left there is none, and what it writes has one authority;
- `SnapshotInv`: the snapshot `resolve` settles from goes stale only forwards;
- `HoldInv`: a live order is in one treasurer's hands at most. It is why an orphan that judged an
  order prepared does not send it again although `MOVES` has `unknown -> submitted`;
- `JudgeInv`, `FlightInv`, `OutcomeInv`: what a treasurer may find in the row of the order it works
  on, an orphan's included, and that what it is about to book is evidenced.

`Inductive` proves `Spec => []IInv` (one lemma per action and conjunct it can disturb); `TypeCorrect`,
`SingleRunner`, `SingleAuthority`, `BookedExactlyOnce`, `SentAtMostOnce`, `NothingFromAGuess` follow;
`Implements` is the refinement. Liveness is model-checked only.

## 4. The analyst pool

`AnalystPool` is `runner.run_cycle` and one `analyst.run` per seat, each a process of its own.

| Variable | Code |
|---|---|
| `pc`, `over`, `sweep`, `victim` | where the `while queue or running` loop is, and the seat it is about to kill |
| `queue`, `running`, `started`, `slot` | `queue`, `running` (and its start times), `slots` of `run_cycle` |
| `file`, `reports` | the result files; the report store |
| `wpc`, `wstart`, `number`, `until`, `result`, `lost` | a worker: where it is, its clock, its attempt, when its call must end, its result, whether its last call was lost |
| `sent` | calls the gateway received for the seat |
| `now` | `time.monotonic` |

`Turn` is the top of the loop; `Collect`, `LeaveRunning`, `Condemn`, `Kill` the three branches of its
sweep, with the kill a step after the poll that found the worker late. A worker goes `Boot` - `Ask` or
`NoTime` - `Reply` - ... - `OpenFile` - `WriteResult`; `WrongSnapshot`, `Raises` (any exception, which
`main` writes down) and `Dies` may cut it short. `Tick` may happen between any two steps, but not
past a call's deadline, at which `http.with_deadline` ends it.

Abstracted: keys, costs, the event log, the wording of a reply (`Replies` are the kinds the worker
tells apart; `ok` and `no_call` are one); the processes of one turn start in one step; the runner
itself is not killed. A worker that blocks on a stderr pipe nobody drains is one that is slow.

| Run | Instance | Shows |
|---|---|---|
| `pool` | 2 seats, in either order, through a pool of one or of two; 1 retry, call 1, worker 2, cycle 2 units; `FairSpec` | `TypeOK`, `TransportEndsFirst`, `CallsAccounted`, `ReportsAgree`, `OutcomeStands`, `LostNeverRetried`, `CycleEnds` |

Two seats are a pool that is full, a seat that waits and one that never starts. The units keep the
order of the real settings (a call ends before its worker must, with a margin of one unit, and a seat that
waited may have less than its worker's deadline left of the cycle's), so that a deadline can pass before,
between and after the others; the clock stops one unit past the last.
Fairness: the runner's loop goes on, time passes, and a call past its deadline ends. Nothing is assumed of a worker, which may hang at any step.

### Proofs

`AnalystPoolProofs` proves what `pool` checks for any finite set of seats and any settings that
`SettingsAssumption` allows (the pool has room for one; a call's time is not over the worker's deadline).
No property is inductive alone. `PoolInv` adds:
- `QueueInv`: every seat is in the queue, once, or held, or has an outcome, and the runner holds no more than
  `width` processes; its step at `Turn` counts the queue against the room left;
- `LoopInv`: the sweep polls only seats the runner holds, and the seat to kill is one of them;
- `WorkerInv`, `FileInv`: where a worker is determines what it has counted of the calls it sent, and what its
  file then says of them, a torn file and a crash included;
- `SeatInv`: a process that lives is one the runner holds, and a seat with an outcome has a file equal to it;
- `ReportInv`: the report store only tells of seats with outcomes.

`PoolInvariant` proves `Spec => []PoolInv`, one lemma per action of the worker and of the runner; workers
other than the one that acts are one lemma (`OthersKeep`). From it follow the type invariant, the three
safety invariants, and the two action properties, `OutcomesStand` and `LostIsLast`; `PoolWidth` and
`PoolEndsWhole` say of the pool what no run has as a property of its own. `CycleEnds` stays with TLC.

## 5. The dashboard server

`Serve` is `run/serve.Run`: a child process (the live cycle), a thread that turns its output into
events (`_watch`), a thread that watches the seats' result files (`_seats`), and the POST handlers.

| Variable | Code |
|---|---|
| `process`, `events` | `Run.process`, `Run.events` |
| `req` | a request between `do_POST`'s check and `start`'s last line |
| `child`, `printed`, `taken`, `results` | each cycle's process, the lines in its pipe, its result files |
| `wpc`, `reads`, `pending`, `seen` | `_watch`: the process it took, what a line still calls for, `seen_seats` |
| `spc`, `dir`, `spot` | `_seats`: its cycle directory, the seat between its mark and its event |

`Post`, `Start`, `Clear`, `Spawn` are the steps of a request (`Clear` and `Spawn` are separate: the lock
covers the first only). `ReadLine` takes a line and `TasksOf` says what it calls for, each event a step.
`self.process` is read afresh where the code does (`WatchStarts`, `OutputEnds`, `Running`), so the threads
of one run can end up with the process, and write to the log, of the next.

| Run | Instance | Shows |
|---|---|---|
| `serve` | 2 cycles, 2 seats, one request at a time, a pipe of one line, `FairSpec` | `TypeOK`, `AggregateAfterReports`, `CycleReported` |
| `serve_race` | two requests at once | the violation of `OneCycle` |

Two cycles are what a stale thread needs; a pipe of one line makes a child wait for its reader. The
log is kept as the set of what it tells: its numbering under the lock is a single step in the code and
has no property here. `FairSpec` asks only that, while a cycle or a thread of it can go on, one does.

**Finding.** `serve.py:14` says "It starts one cycle at a time ... A second POST while one runs is refused".
Both checks of `running` are made before `self.process` is assigned and outside the lock; the server is
a `ThreadingHTTPServer`. `serve_race` shows two requests that pass both, and two live cycles.

Observed while modelling, without a run: `wire.js` keeps its cursor `seen` between cycles (line 106) while
`Run.start` numbers events from 1 again, so a page that starts a second cycle without a reload is not shown
that cycle's first events; and `Openfund.applyProgressEvent` has no case for `cycle.finished`. `RUN` and `LEG` each check only themselves, so
a cycle and a leg may run at once, and each takes the newest snapshot by its time of writing from one
directory both build into (`serve.py:202`, `cycle.py:288`).

### Proofs

`ServeProofs` proves `TypeOK` and `AggregateAfterReports` for any finite set of requests, any seats, any
number of cycles and any size of the pipe. The second is an action property about the newest cycle, whose
two threads may find each other's work half done and whose log another request may empty. `ServeInv` has:
- `ProcessInv`: what a thread reads or waits for is a child that was started;
- `PendingInv`: what a line still calls for comes in the order it was asked: every seat before the
  aggregation, the thread over the seats last, and that thread is started once, because an output has one
  line that starts the analysts (`AnalystsPast`);
- `SeenInv`: a seat in `seen_seats` is in the log, or in the hand of the thread that marked it, as long as the
  cycle is the newest and no request has emptied the log for the next.

`RoomInv` counts the requests being served, which the bound on cycles needs. `CycleReported` is liveness,
and `OneCycle` is false: both stay with TLC.

## 6. A decision over the paper book

`Rebalance` follows one decision from the keys it needs to the book kept beside its record. Its pure parts
are modules of their own, each a set of operators over what the code reads: `Gates` (every gate of the
decision and the chokepoint, with null limits; `core/cash.py`), `Reports` (`agents/schema.py`), `Aggregate`
(`core/aggregate.py`), `Vote` (`agents/risk.parse`, `decide`), `Credentials` (`config.py`, `credentials.py`,
the environment of a seat and of the treasurer's process, who signed). `Dashboard` adds what every section of
the page says of the decision.

| Variable | Code |
|---|---|
| `world` | what the cycle is given: snapshot, reports, replies, quotes, secrets, the book (fixed) |
| `disk` | `config/` as the operator has it now |
| `record`, `plan` | the signed record: the configuration it read, the reports it accepted, the reply, the approved orders, the signer; its plan with the quotes it was judged on |
| `cash`, `hold` | the ledger's fold over the paper book (`ledger.cash_held`, `ledger.holdings`) |
| `row`, `fill` | the orders table, with the reason it keeps; the journal's fills |
| `admits` | the configuration the treasurer's process read when it started |
| `pc`, `cur`, `siblings` | where the decision is; the order run, and the siblings `by_record` read |
| `book` | `book.json` beside the record |

A cycle goes `Ready` - `Unvalued` (`no_rebalance`), `SizeRaises` (a null limit raises, and so does the quote
of a part that rounds to no units), or `Size` - `Vote` -
`List` or `ListRefused` (`intent.intents`), or `ListDies` (killed between two rows) - `Start` - per order
`Take` - `Refuse`, or `Submit` - `FillOnPaper` or `FillRefused` (`execute.run_order`) - `TreasurerEnds` -
`Keep` (`book.json`). `Edit` is the operator, once, between any two reads of the configuration. `Startup` is
a later run settling the same rows, and may come between any two steps of the treasurer: its runner's death
and the lock are `Treasury`'s subject. `siblings` is read by `Take`, a step before the ledger is read by
`Submit` or `Refuse`. A step that finds its row settled ends the treasurer, as the store's refusal does.

Abstracted: characters and digits (a report, a reply and an environment file are their lines, a figure a
number); the bytes signed; a quote but for the verdict on it and what it buys. USD are whole cents, the
cent also stands for the millionth a weight is rounded to, and the share funded is an exact fraction, where
the code's has 28 digits. No time passes: the code judges every age and term at the cycle's start or at
the instant its quotes were judged, and reads no later clock.

| Run | Instance | Shows |
|---|---|---|
| `rebalance` | 3 stocks, fills up to a unit off their mark, and the worlds below | `TypeOK`, `PlanKeepsFloor`, `DecisionKeepsFloor`, `NoNeedlessDrop`, `NoBuyBreaksFloor`, `Authorized`, `PageAgrees` |
| `rebalance_split` | one position of 25 units worth $2, a limit of $25 | the violation of `EachWithinLimit` |
| `decision_replay` | 9 plans, a reply cut at the token limit | the violation of `RecordRebuilds` |

Three stocks let two be sold for the third, or one for two, each move split into one to three orders, even
and uneven; raises are funded in full, in part and not at all. The cash leg's mark of 2 makes every
rounding to units lose something. The worlds of `MCRebalance` vary one thing each: every call and
confidence over two books (`Moving3`); every reply of up to three vote lines out of eight under four
headers (`Replying`); thirteen figure lines in three places of a report, ten malformed reports, wrong headers,
second seats (`Reporting`); stale and partial evidence and every verdict on a quote (`Evidence3`); each
limit null or tight (`Configured`), or edited between two reads (`Edited`); secrets in every file and
variable they may be (`Keyed3`). In the other worlds one small plan is asked for, a sale and the buy it helps to
pay for, so that each variation meets every step. The run may stop, since one decision ends: deadlock is not
checked.

`Authorized` and `PageAgrees` are stated independently of the operators they check: the first quantifies over
the lines of the reply and the report and over both configurations, the second over the journal's fills and
the orders table. Why the floor holds: rows are run in the plan's order, sells first, so when a buy is judged
every approved sell is final and counts at what it booked or not at all; the buys still open, this one
included, are projected at exactly what they will give.

What the proofs below made of the model: a raise smaller than the cash leg's unit, or a unit worth more than
the limit, leaves a part of no units, whose quote raises (`bankr_quote.QuoteRequest`), so `SizeRaises` covers it; a buy
refused because the floor was raised between the two reads is not needless (`FloorRaised`); and quotes are never
judged before the cycle began (`cycle.py:194`), so worlds where they are were removed.

**Finding.** `gates.split` (lines 205-206) says it gives "the fewest [orders] that keep each within the
per-trade limit". The number of orders is right in USD, but `_even` deals out whole units, so the larger
half of a position worth two limits in an odd number of units is past the limit, by one unit's worth at
most. `gates.order_size` then refuses it, so the position is sold in part. With the code's own functions:
`units($50)` at a mark of $77.77 is 642921435000642921 raw units, in two orders, the first over $25.

**Finding.** `core/record.py:23-25` says "the same recorded inputs rebuild the same bytes". A risk reply cut at
the token limit vetoes every order (`risk.py:335`, `401-403`), and its text is kept as the record's reply;
`decide.replay` (line 386) passes that text back as a whole reply, whose votes may approve. `decision_replay` shows
it. A decision whose risk call failed with no text cannot be replayed at all (`risk.py:397-398`).

Observed, without a run:
- `settle` drops "the last approved buy", but partway through a decision each order is judged in turn, so a
  large early buy can be refused for the floor and a smaller later one then fill.
- A null `max_trade_usd` or `min_order_usd` with something to size raises out of `decide`: the cycle ends with no
  record (`plan.py:193-197`). `mandates.load` after the decision is outside its `try` (`cycle.py:210`).
- `runner.py:115-116` says "Checked by value, so a treasurer key under another name is caught". It is caught only
  if the treasurer's value is in the runner's own environment: not when the operator has split the files, nor
  when a shell variable shadows the file's. An exported empty variable masks the file's value.
- The page's `decidedBy` says "the risk agent" of an order the floor dropped (`dashboard.py:414-416`); "Signature
  verified" when the envelope is only signed (line 212). With no real swap yet, or no snapshot file, `build` raises.

### Proofs

`RebalanceProofs` proves all seven properties of the `rebalance` run, for any set of worlds
that `WorldsAssumption` and `SeatsAssumption` allow: any books, marks, limits and edits to them, evidence, quotes, reports,
replies, secrets and slips of a fill. The assumption gives the books and limits their types: a limit is null or not negative, and a per-trade limit
not zero (the code tests neither; `gates.split` would divide by a zero and raise). It says that seats are
finitely many, that a figure's value is a number or its line is malformed (`Figures`), that a vote on the whole is
one of two words (`Votes`), and that quotes are judged at the cycle's start or later.

`SeatsAssumption` says that a cycle has one result of each of its seats: results are files named by the seat
(`decide.cycle_reports`), so a later one replaces an earlier. With two, a page could not tell which of them spoke.

The argument has four invariants and one fact about the planner.
- `RebalanceInv`, which gives `TypeOK`, `DecisionKeepsFloor` and `NoBuyBreaksFloor`. `Types2`: the plan's sells come
  before its buys. `RowsInv`: nothing is written before it is approved. `ControlInv`: the treasurer takes the orders as
  they were written, so those behind the one it runs are final and those ahead are untouched, or settled by a later
  run. `InFlightInv`: what was judged of the order in flight still holds of the book, which is what makes
  the floor hold when the fill is booked steps later. `VoteInv`: the same floor for every prefix of the
  approved orders, since the writing may be cut short at any row. That a projection only grows when a sell is
  counted or a buy is not is `KeptFloor`; that what `settle` leaves approved keeps the floor is `VoteKeepsFloor`.
- `PlanFloor`, for `PlanKeepsFloor`: the raises, each scaled by the share and rounded down, are worth no more than what
  was funded (`Funded`); a raise's even parts, each bought with whole units of cash, cost no more than the
  raise (`EvenTotal`, `UnitsWorth`, `PartsTotal`, `BuysWorth`); the plan is the concatenation of them, and sums
  go through it (`WorthConcat`, `WorthFlatten`). `SizedKeepsFloor` puts these together.
- `DropInv`, for `NoNeedlessDrop`. `BookInv`: the book's cash is what the plan was sized on and what each fill did to
  it since. `TakenInv`: what the treasurer read of the siblings, a step before it judges, is still so: the one
  writer beside it only settles. `WhyInv`: a refusal for the floor is the chokepoint's. `FloorTells` then compares the two
  projections of one buy: if no sell fell short and the floor is the decision's, the treasurer's is no lower.
- `SendInv`, for `Authorized`. `CallInv`: some accepted report called each order's stock that way
  (`PlanCalled`: an order moves its stock toward a target that leans the way its clamped, weighed calls sum,
  and a sum that leans has a term that does, `DirectedLeans`; a call that counts has every figure under it
  given by a line or resolved by its citation, `FigureShown`). `ApprovedInv`: the reply consents to each approved order,
  by the one line that votes on it, and the gates passed under the configuration the record keeps. `SentInv`: an
  order past `prepared` was judged by the chokepoint under its own reading of the configuration and a quote of its own.
- `PageInv`, for `PageAgrees`. `CashInv`, `HoldInv`: the book is what the cycle began with and what the confirmed
  rows' fills gave and got, in cash and in each stock (`BookAdds`: one fill more changes two of the sums, by its
  own amounts). `FillInv`: what did not fill got nothing. `SourceInv`: every order goes the way an accepted report leans
  (`PlanLeans`), and what was approved the gates cleared. `KeyInv`: what was listed is signed with a key
  that was published. `EndInv`: a book is kept when every approved row is final, and the ledger's book does not
  change after it. So a position that moved was moved by an order of that side (`MovedByOrder`), which some
  seat's one word explains (`LeaningShown`, `SaidOnce`).

`Sized` and `Aggregate` are built from `FlattenSeq`, `FoldLeft` and function sums; the lemmas about these
(`FlattenIs`, `JoinsExists`, and those of `TotalsProofs`) are stated once and cited by name.

## 7. The live leg

`LiveLeg` is `run/liveleg.main`, one command after another, with the ledger's one fold (`Walk`, `Apply`) over
the real book's journal, and the wallet on the chain to compare it with.

| Variable | Code |
|---|---|
| `wallet`, `tx` | the chain: balances, and each order's operation |
| `snap` | the newest snapshot's balances and marks, any of them unread |
| `journal`, `row` | the `events` and `orders` tables |
| `run`, `pc`, `opening` | the command, where it is, the holdings it has still to open |
| `outcome` | each command's `outcome.json` |

`Begin` - `Resolve` per open order - `AskBook` - `OpenOne` per holding - `Instruct` - `Admit` - `Send` -
`ReadOutcome` - `Record`; `Killed` at any of them. `Mine`, `Deepen` and `BuildSnapshot` are the chain and the
snapshot's builder. The command and its treasurer are one actor: `Treasury` has them apart.

| Run | Instance | Shows |
|---|---|---|
| `liveleg` | a wallet of 3 USDG and 2 ETH, 3 commands selling 2 units, marks with and without USDG's, gas 0 or 1, a slip of a unit either way, a trade limit of $4, a budget of $8 | `TypeOK`, `BookExplainsWallet`, `FoldRaisesOnlyForGas`, `BudgetPassedOnce`, `BasisConserved`, `PageListsSettled`, `NoSpendWhileUnsettled` |

Three commands are what it takes to buy ETH, be charged for a reverted swap, and then fail to fold; two
fills of $4 reach the budget. The book is opened whole, in part (killed, or a mark missing) and never.

`BookExplainsWallet` says exactly what the code does, which is not what one would wish: ETH has no
transfer logs, so what a purchase received is the balance's gain, from which gas is already paid, and the gas is
then booked as a fee (`reconcile.py:156-168`, `execute.booked`). The book holds less ETH than the wallet by that gas,
and a later fee can exceed what it holds; then every fold raises and no later command starts
(`FoldRaisesOnlyForGas`: nothing else makes it raise).

Its other hypothesis, `OpenedOnce`, is there because the proof of it failed without: `open_real_book` says "Open
the real book once" (`liveleg.py:79`), but asks whether the book's *holdings* are empty (line 83), as they are again
when a purchase's gas, charged twice, took the last ETH. A later command then opens the book with the balances of
the snapshot it is given, which may be older than the swap that spent them, and the book says more than the
wallet holds. TLC shows it on a wallet of 2 USDG in two commands (marks of 1, sizes of 2, gas of 0 or 1); it is not
a run here, since it needs an instance of its own.

### Proofs

`LiveLegProofs` proves all seven properties of the run, for any wallet, marks, sizes, limits,
slips, gas and number of commands; `LiveAssumption` only gives the constants their types. `BaseInv` is the
control: at most one order is not final, it is the newest, and its row, its operation on the chain and where
the command is agree (`OrderInv`, `ControlInv`). It gives `TypeOK` and, at `Send`, `NoSpendWhileUnsettled`.
`LegInv` adds the amounts:
- `EventInv`: an event tells of a final order, and a fill says what its row does;
- `LedgerInv`: what the book's basis, openings, gains and costs have to do with each other, per event;
- `FlightInv`: while an order is in flight the book has what it sells and the budget was respected: what
  `Admits` judged is still true when the outcome is booked, however many commands were killed in between;
- `WalletInv`: of what the book was opened with it holds what the wallet does, less the gas charged twice and
  what the order in flight has done to the wallet and is not booked (`Due`); never more of anything;
- `GasInv`: with no gas charged twice the book has at least the wallet's ETH, so that a fee never exceeds it;
- `FirstInv`, `OpeningInv`: what a book being opened may find in the snapshot;
- `BudgetInv`, `PageInv`: the sum but for the last order, and each outcome's book against the journal's prefix.

The ledger's fold and every sum over the journal are folds of a sequence, and what a fold computes is an
induction. The library's induction theorems take an operator as a parameter, which no prover here can
instantiate; `FoldSteps` therefore has the operator as a CONSTANT, proves from the definition of
`MapThenFoldSet`'s recursive function that the fold of one element more is one step more (`FoldAppend`, by the
least length at which it would fail). `LiveLegProofs` instantiates it for `Apply`, `TotalsProofs` for `Plus`, where the
lemmas about sums that this section and section 6 need follow from it: a sum of one element more, changed
in one place, of zeros, of two lists, of a multiple, of two lists joined.

Observed, without a run: a book opened in part is never opened further (`liveleg.py:83-84`); `at` is the instant of
issue, so no term or quote age can bite at admission, although `instruct.py:168-171` says they are measured
there; a swap settled by a later command gets no `outcome.json`, so the page never lists it, although
`live_swaps` says "Every real swap this fund has made"; gas of reverted swaps after the newest confirmed one never
shows in the page's real book.

## 8. The evidence a decision reads

`Evidence` is one build of a snapshot, from `run/snapshot.main`'s first read of `config/` to the replay of its
capture, while an owner plans and accepts refreshes, reviews the feed map, proposes sessions and edits thresholds.
`Begin`, `LoadRegistry`, `LoadDirectory` and `Load` are the four times the loading looks at `config/`: `universe.load` reads
`pins.json` again for each input (`universe.py:638-640`), so the owner may act between any two.
Every step is one batch of reads at the pinned block, and says how the transport served it. The operators it
applies are pure: `Sessions` (the weekly closed span and its inference), `ChainReads` (series, daily closes,
freshness, balances, slots, pauses), `Universe` (pins, refresh, admission), `Client` (tries, waits, late replies,
record and replay), `Valuation` (mark, corroboration, quote), `Snapshot` (statuses, holdings, the document).

| Variable | Code |
|---|---|
| `world` | chain, market and venue, fixed; the budgets of faults and edits left |
| `pins`, `feedMap`, `cfg`, `plans` | `config/registry/`, `sessions.json`, thresholds; refreshes planned and not accepted |
| `u`, `using`, `reads` | the loaded universe; the files as each was when it was loaded; what was read so far |
| `doc`, `capture`, `rebuilt` | the snapshot; the sealed capture, with the files it holds; what the replay came to |
| `known`, `careless`, `torn` | history, for `HoldingKept` alone |

| Run | Instance | Shows |
|---|---|---|
| `evidence` | 2 stocks, 2 marked assets, weeks of 8 ticks, series of 4 rounds in batches of 2 over 3 days, 2 tries at a quote, 4 registries, 2 directories | `TypeOK`, `TradeableMeansTrue`, `SeriesIsHistory`, `HoldingKept`, `ReplayAgrees`, `ClosedIsQuiet` |
| `capture_replays` | 1 registry and directory, histories of every round, no fault, one edit | `CaptureReplays` is violated: the finding below |

The properties compare the document with the chain and market as they were, never with what was read of
them. The worlds are four kinds: feeds' histories of 3 to 6 rounds with one flaw and both samplings; 8 market
states by 4 of the venue's by pause, beacon and time; any two faults with one edit; no fault with four edits (which
delist, relist and halt a held stock). A week of 8 ticks has an open and a closed part, the latter wide enough to be
proposed; 4 rounds and batches of 2 let a walk end by the window, the cap, the phase's start and a failed batch.

`Replay` loads the universe and the settings again, from the capture (`run/snapshot.py:439-448`), and applies the build to
the capture's answers. Where the files sealed are not those loaded, the replay may ask other questions: then it ends at a
request nobody recorded, or is let come to anything (`Replays`), and so it is where other files might list the same
stocks in another order. Nothing proved or passed rests on that: `ReplayAgrees` speaks of captures whose files
are the ones loaded. The owner never edits `sampling`.

Observed, without a run: the snapshot file is written before the capture is refused (`run/snapshot.py:515`); `daily_closes`
raises if every cut is in the closed session (`chain_4663.py:585`); and a held stock does leave the book in two
cases, though `accept` says "Even acknowledged, the holding stays in the book" (`universe.py:295-297`). `accept` carries the
assets its plan's diff removed, and the diff is against the pins of when it was planned (`universe.py:310`): if another
refresh that lists more is accepted in between, what only that one listed is neither carried nor listed. And
`universe.load` takes the carried list from its first look at `pins.json` and the registry from its second: a refresh
accepted between the two is loaded without what it carries. `careless` and `torn` record the two, and `HoldingKept` exempts
them; it also exempts a refresh whose caller misstates what is held.

### Finding

`CaptureReplays` is what the capture section says ("The live build's snapshot and the replay's must be the same bytes",
`run/snapshot.py:313-314`) and what every manifest says (`:381-383`). It is violated. The configuration is loaded before the
reads, copied into the capture after them, and compared only with the hashes the document names, which are taken then
too (`:363`, `:374-378`): an edit in between is in the capture and was not in the build. In the trace a margin is widened
meanwhile, and a stock that was stale live is tradeable in the replay. With `Worlds <- Late` in `Evidence_replay.cfg` nothing is
edited and TLC finds the second cause: a reply that came after its request was given up lands in the shared `_replies`
(`bankr_quote.py:267-275`), while a replay serves it at once, so one says the venue refused and the other that no answer
came. The third, a `Retry-After` date judged against the replay's clock (`http.py:156`), ends the replay at a miss.
`ReplayAgrees` says that there is no fourth: over the files that were loaded a replay always uses every answer and makes
the same statuses, marks, series and holdings; only how a failed quote failed may differ, after a late reply; and
it ends early only on a dated wait.

### Proofs

`EvidenceProofs` proves all six properties of the run, for any chain, market, wallet, registries, feed lists, quote
scripts and configuration, any stocks, and any number of faults and edits. `EvidenceAssumption` says what is assumed
of them: `World` is any chain at all within the types its readers decode (rounds in no order, of any age or sign);
a configured closed span is not empty and shorter than a week, as `WeeklyClosure` checks; the stocks have an order
(`Sorted`); the owner's map names cash and gas. Everything rests on two invariants of the build's control: `Shape`, the types
of what is loaded and when it is, and `Progress`, which says what has been read at each step and for which assets
(a walk through the stocks in order has read exactly the first few of them).

The properties compare the document with the world, through some forty operators. The invariants in between:
- `Told`: each reading kept is what some call's outcome makes of this world at the pinned block, or says it failed.
  `Assembled`: the document is the pure function `Document` of those readings. Neither changes when an owner edits.
- `UniverseLoaded`, for `ReplayAgrees`: the universe is what the files in `using` load to, so a replay of the same files
  has the same one and asks the same questions (`SameFiles`); `CaptureTrue`: the document written names the files
  sealed. `TriesKept`: a replay makes every try again; `TriesAgain`: it makes no other without a dated wait
  (`MissDated`). `QuoteAlike`: after late replies a quote that was read is the same and one that failed fails, so
  each entry is alike (`EntryAlike`), hence the document (`DocumentAlike`); `NothingLands`: without a late reply
  none is in hand at either, and the documents are equal (`DocumentAgain`).
- `LoadingWhole` and `Carrying`, for `HoldingKept`: what was ever listed and is held is listed or carried by the pins, by what the build
  has loaded of them at each of its looks, and by the universe it loaded; and no balance that is there was read as zero.
- `SpansFounded`, for `ClosedIsQuiet`: a span is the configured one or the one inferred from the rounds there are.
- `HistoryTold`, for `SeriesIsHistory`: the rounds' walk back in batches sees each round of its window, whichever of the
  window's start, the cap, the first round or a failed batch ends it (`WalkedIs`, `Covered`); a series between scale breaks is
  one stretch of them (`StretchUnbroken`); and the walk over the days picks at each open cut the round in effect
  there (`OpenAtIs`, `DailyIs`).
- `BeaconsAgree`, for `TradeableMeansTrue`: past the beacons' step none that was read is another's. A document's verdict then
  unfolds, rule by rule (`JudgedTradeable`), into facts about readings that came back, which `Told` makes facts
  about the world. Two of them are arithmetic. `OpenTimeIs`: the open time the code computes, by cutting
  a closed span out of every week it may overlap, is the number of instants at which the session is open; the
  weeks' spans are disjoint because a span is shorter than a week (`WeeksDisjoint`), and no overlapping week is
  missed (`ClosedInSpan`). `WaitedSince`: a quote's age when the snapshot is built is the time the requests after its own
  held the caller.

Sums over sets (`MapThenSumSet`) choose an element at a time; `WaitedIs` and `ClosedTimeIs` show that any such
choice gives the one weight `Weighs` names (`WeightExists`, `SumIs`, by the least number at which it would fail).

The proofs corrected two properties. `SeriesIsHistory` counts the days' cuts from the first instant: a walk goes
no further back (`chain_4663.py:521`), so a cut before it has no close. `HoldingKept` speaks of what had been listed when the
build first looked at the pins (`using.known`).

## 9. Only model-checked

Proved: every safety property, every action property and the refinement that any run checks. TLAPS checks all of
it from nothing in about twenty minutes. Left to TLC, at the bounds given: the liveness properties (`EvidenceSettles`,
`PaperSettles`, `CycleEnds`, `CycleReported`), under the fairness each section states: ENABLED and fairness are out of
the prover's reach. So is what a recursive definition computes, by induction over its argument: where a proof
needs it, as for the walks and sums above, it argues by the least number at which the claim would fail.

## 10. Not modelled

- `redaction.py`, the record's and envelope's bytes, digits and rounding of a figure in prose, encodings of RPC,
  quotes and environment files: about characters, where a state machine says nothing.
- The `--prove`, `--demo`, `--show` and summary commands, `run/selftest.py`, `run/isolation.py`, `agents/show.py`: they read and
  print, or drive tests over the live network.
- `core/types.py` beyond order states, modes and executions: constructors that check their arguments.
- `core/books.py`, `core/attribution.py`, `store/publish.py`, `run/schedule.py`, `surfaces/`: documents about code not yet written.
- `run/serve.Leg`: a second `Run` with lines of its own, whose hazards are `Run`'s.
- The ledger's `Transfer` and `Inference` events, which neither leg writes.
- `adapters/bankr_usage.py`, prices and costs: one call each, no state.
- The front end, which renders the exported files, and `probes/`.
