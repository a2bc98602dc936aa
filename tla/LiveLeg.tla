------------------------------- MODULE LiveLeg -------------------------------
(***************************************************************************)
(* The live leg (run/liveleg.py): one command at a time opens the real      *)
(* book with what the wallet holds, writes one instruction, and has the     *)
(* treasurer admit, send and book the one swap it authorizes.  What the     *)
(* ledger's one fold says of the real book (core/ledger.py) is compared     *)
(* with the wallet on the chain, which is the truth.                        *)
(*                                                                         *)
(* The command and its treasurer are one actor here, which may be killed    *)
(* after any write; Treasury has them apart.  The chain, the venue and who  *)
(* builds snapshots are the environment.  Two assets, ETH and USDG.         *)
(*                                                                         *)
(* Abstracted: signatures, and the gates that compare times, are one        *)
(* choice; an order's least amount, which a live fill need not reach; what  *)
(* another transaction does to the wallet.  USD and amounts are whole.      *)
(***************************************************************************)
EXTENDS Integers, SequencesExt, FiniteSetsExt, Totals, OrderMoves

CONSTANTS
  Wallet0,   \* the wallet before the fund's first live run
  Marks,     \* the marks a snapshot may hold, in USD, 0 for one not usable
  Sizes,     \* the amounts an operator asks to sell
  MaxTrade,  \* limits.max_trade_usd
  Budget,    \* mandate.cumulative_budget_usd
  Gas,       \* what an operation is charged: 0 when it is sponsored
  Slips,     \* what a swap gets, less what the marks make fair
  MaxRuns    \* bound: the commands run, each of which writes one order

Asset == {"usdg", "eth"}
Cash  == "usdg"

(* The snapshot's holdings, sorted by their symbols.                        *)
Holdings == <<"eth", "usdg">>

(* A balance the snapshot's builder could not read.                         *)
Unread == -1

Runs == 1 .. MaxRuns

ASSUME LiveAssumption ==
  /\ Wallet0 \in [Asset -> Nat] /\ Marks \subseteq [Asset -> Nat]
  /\ Sizes \subseteq Nat \ {0} /\ Gas \subseteq Nat /\ Slips \subseteq Int
  /\ {MaxTrade, Budget, MaxRuns} \subseteq Nat

VARIABLES
  wallet,   \* the chain: what the wallet holds
  tx,       \* the chain: each order's operation, none until it is sent
  snap,     \* the newest snapshot: the wallet's balances, and the marks
  journal,  \* the real book's events, in the order they were appended
  row,      \* the orders table: each run's order, its state, its evidence
  run,      \* the newest run, or 0
  pc,       \* where it is
  opening,  \* the holdings it has still to open the book with
  outcome   \* the outcome.json each run left

vars == <<wallet, tx, snap, journal, row, run, pc, opening, outcome>>

(* What the market pays, which no snapshot need have.                       *)
Prices == {m \in Marks : \A a \in Asset : m[a] > 0}

Other(a) == CHOOSE b \in Asset : b # a

-------------------------------------------------------------------------------
(* The ledger (core/ledger.py) *)

Opening(a, raw, mark) ==
  [kind |-> "opening", asset |-> a, raw |-> raw, usd |-> raw * mark]

(* A fill's value is its cash leg, at its mark.                             *)
Fill(o, gave, got, mark) ==
  [kind |-> "fill", order |-> o, asset |-> row[o].sells, raw |-> gave,
   got |-> got,
   usd |-> (IF row[o].sells = Cash THEN gave ELSE got) * mark[Cash]]

Fee(o, raw, mark) ==
  [kind |-> "fee", order |-> o, asset |-> "eth", raw |-> raw,
   usd |-> raw * mark["eth"]]

Empty == [held |-> [a \in Asset |-> 0], basis |-> [a \in Asset |-> 0],
          opened |-> 0, realised |-> 0, costs |-> 0, raised |-> FALSE]

(* The basis a disposal takes: all of it with the last unit, else its share *)
(* at average cost, the one rounding in the ledger.                         *)
Share(b, a, raw) ==
  IF raw = b.held[a] THEN b.basis[a] ELSE (b.basis[a] * raw) \div b.held[a]

Acquire(b, a, raw, usd) ==
  [b EXCEPT !.held[a] = @ + raw, !.basis[a] = @ + usd]

Dispose(b, a, raw, usd) ==
  IF raw > b.held[a] THEN [b EXCEPT !.raised = TRUE]
  ELSE [b EXCEPT !.held[a] = @ - raw, !.basis[a] = @ - Share(b, a, raw),
                 !.realised = @ + usd - Share(b, a, raw)]

(* Mutant: what a fee paid is a cost, and is never realised.                *)
Apply_FeeLost(b, e) ==
  IF b.raised THEN b
  ELSE CASE e.kind = "opening" ->
              [Acquire(b, e.asset, e.raw, e.usd) EXCEPT !.opened = @ + e.usd]
         [] e.kind = "fill" ->
              Acquire(Dispose(b, e.asset, e.raw, e.usd),
                      Other(e.asset), e.got, e.usd)
         [] e.kind = "fee" ->
              [Dispose(b, e.asset, e.raw, 0) EXCEPT !.costs = @ + e.usd]

(* One event applied: a fold that raised says nothing after it.             *)
Apply(b, e) ==
  IF b.raised THEN b
  ELSE CASE e.kind = "opening" ->
              [Acquire(b, e.asset, e.raw, e.usd) EXCEPT !.opened = @ + e.usd]
         [] e.kind = "fill" ->
              Acquire(Dispose(b, e.asset, e.raw, e.usd),
                      Other(e.asset), e.got, e.usd)
         [] e.kind = "fee" ->
              [Dispose(b, e.asset, e.raw, e.usd) EXCEPT !.costs = @ + e.usd]

(* store/journal: an event is kept after every event before it.             *)
Keep(events) == journal' = journal \o events

(* ledger._walk, the one fold.                                              *)
Walk(events) == FoldLeft(Apply, Empty, events)

(* Every fill at its cash leg, and every fee, but those of one order.       *)
TradedBut(o, events) ==
  Total([i \in DOMAIN events |->
           IF events[i].kind = "opening" \/ events[i].order = o THEN 0
           ELSE events[i].usd])

(* What the live budget limits: 0 is no order.                              *)
Traded(events) == TradedBut(0, events)

(* One holding at the snapshot's mark, with what it cost.                   *)
Position(b, a, mark) ==
  [raw |-> b.held[a], usd |-> b.held[a] * mark[a], basis |-> b.basis[a]]

(* ledger.value: it raises for a fold that did, a holding with no usable    *)
(* mark, or none for the cash leg, held or not.                             *)
HasValue(b, mark) ==
  /\ ~b.raised /\ mark[Cash] > 0
  /\ \A a \in Asset : b.held[a] > 0 => mark[a] > 0

Positions(b, mark) == [a \in Asset |-> Position(b, a, mark)]

Nav(b, mark) == MapThenSumSet(LAMBDA a : Positions(b, mark)[a].usd, Asset)

Unrealised(b, mark) ==
  MapThenSumSet(LAMBDA a : LET p == Positions(b, mark)[a] IN p.usd - p.basis,
                Asset)

(* The book's positions, its NAV, and the lines that explain it.            *)
BookValue(b, mark) ==
  [positions |-> Positions(b, mark), nav |-> Nav(b, mark),
   unrealised |-> Unrealised(b, mark),
   opened |-> b.opened, realised |-> b.realised, costs |-> b.costs]

(* positions.reconciles: or nothing is shown.                               *)
Reconciles(v) == v.nav = v.opened + v.realised + v.unrealised - v.costs

-------------------------------------------------------------------------------
(* The chain and the venue, as the adapters see them *)

Unsent ==
  [state |-> "none", ok |-> FALSE, got |-> 0, gas |-> 0, hash |-> FALSE]

(* The venue broadcasts an accepted swap, and its answer, which carries the *)
(* transaction's hash, may be lost.                                         *)
Broadcast(o, hash) ==
  tx' = [tx EXCEPT ![o] = [Unsent EXCEPT !.state = "sent", !.hash = hash]]

(* bankr_exec.submit: taken or not, and the answer may be lost; of what it  *)
(* says only the transaction's hash is read.                                *)
Submitted(o) == (\E hash \in BOOLEAN : Broadcast(o, hash)) \/ UNCHANGED tx

(* A swap gives what the order sells, at no worse than its slip, and gas is *)
(* paid in ETH whether it succeeds or reverts.                              *)
Mine(o) ==
  /\ tx[o].state = "sent"
  /\ \E ok \in BOOLEAN, gas \in Gas, slip \in Slips, m \in Prices :
       LET s    == row[o].sells
           got  == Max({1, (row[o].raw * m[s]) \div m[Other(s)] + slip})
           paid == [wallet EXCEPT ![s] = @ - row[o].raw, ![Other(s)] = @ + got]
           left == IF ok THEN paid ELSE wallet
       IN  /\ wallet[s] >= row[o].raw \/ ~ok
           /\ left["eth"] >= gas
           /\ wallet' = [left EXCEPT !["eth"] = @ - gas]
           /\ tx' = [tx EXCEPT ![o] = [@ EXCEPT
                        !.state = "shallow", !.ok = ok, !.gas = gas,
                        !.got = IF ok THEN got ELSE 0]]
  /\ UNCHANGED <<snap, journal, row, run, pc, opening, outcome>>

(* cadence.confirmation_depth blocks are behind it.                         *)
Deepen(o) ==
  /\ tx[o].state = "shallow"
  /\ tx' = [tx EXCEPT ![o].state = "deep"]
  /\ UNCHANGED <<wallet, snap, journal, row, run, pc, opening, outcome>>

(* A snapshot of the wallet, when no command runs.                          *)
BuildSnapshot ==
  /\ pc = "off" /\ run < MaxRuns
  /\ \E m \in Marks, S \in SUBSET Asset :
       snap' = [mark |-> m, bal |-> [a \in Asset |->
                  IF a \in S THEN Unread ELSE wallet[a]]]
  /\ UNCHANGED <<wallet, tx, journal, row, run, pc, opening, outcome>>

-------------------------------------------------------------------------------
(* Reading a swap's outcome (treasurer/reconcile.py, execute.booked) *)

Unknown(evidence) ==
  [state |-> "unknown", events |-> <<>>, evidence |-> evidence]

FeeEvents(o) ==
  IF tx[o].gas = 0 THEN <<>> ELSE <<Fee(o, tx[o].gas, snap.mark)>>

(* What reached the wallet: its logs, and for ETH, which has none, what its *)
(* balance gained across the block, so that gas is already taken from it.   *)
Received(o) ==
  IF row[o].sells = Cash THEN tx[o].got - tx[o].gas ELSE tx[o].got

(* A live order filled as the chain says, never as it was quoted; a fill    *)
(* under the order's minimum is booked too.                                 *)
LiveFill(o) == Fill(o, row[o].raw, Received(o), snap.mark)

(* Mutant: an unknown outcome books its gas, as the settled one will.       *)
Outcome_FeeEarly(o, readable) ==
  IF tx[o].state \in {"none", "sent"} THEN Unknown(FALSE)
  ELSE IF tx[o].state = "shallow"
       THEN [Unknown(TRUE) EXCEPT !.events = FeeEvents(o)]
  ELSE IF ~tx[o].ok
       THEN [state |-> "failed", events |-> FeeEvents(o), evidence |-> TRUE]
  ELSE Unknown(TRUE)

(* Mutant: the gas of an operation that reverted is not booked.             *)
Outcome_FreeRevert(o, readable) ==
  IF tx[o].state \in {"none", "sent"} THEN Unknown(FALSE)
  ELSE IF tx[o].state = "deep" /\ ~tx[o].ok
       THEN [state |-> "failed", events |-> <<>>, evidence |-> TRUE]
  ELSE Unknown(TRUE)

(* Mutant: the chain's word for a failure is written as the order's state.  *)
Outcome_Reverted(o, readable) ==
  IF tx[o].state \in {"none", "sent"} THEN Unknown(FALSE)
  ELSE IF tx[o].state = "deep" /\ ~tx[o].ok
       THEN [state |-> "reverted", events |-> FeeEvents(o), evidence |-> TRUE]
  ELSE Unknown(TRUE)

(* No receipt: unknown, and nothing to read later.  Too shallow, or amounts *)
(* not evidenced (the node may have dropped the balance, a purchase of ETH  *)
(* may be worth no more than its gas): unknown, and it says which           *)
(* transaction.  Nothing is booked at marks the snapshot does not have.     *)
Outcome(o, readable) ==
  IF tx[o].state \in {"none", "sent"} THEN Unknown(FALSE)
  ELSE IF tx[o].state = "shallow" THEN Unknown(TRUE)
  ELSE IF tx[o].gas > 0 /\ snap.mark["eth"] = 0 THEN Unknown(TRUE)
  ELSE IF ~tx[o].ok
       THEN [state |-> "failed", events |-> FeeEvents(o), evidence |-> TRUE]
  ELSE IF ~readable \/ Received(o) <= 0 THEN Unknown(TRUE)
  ELSE IF \E a \in Asset : snap.mark[a] = 0 THEN Unknown(TRUE)
  ELSE [state |-> "confirmed", evidence |-> TRUE,
        events |-> <<LiveFill(o)>> \o FeeEvents(o)]

(* liveleg.reader: an order found in flight is settled by the transaction   *)
(* its row keeps, the way its own command would have; with none, it is not. *)
SettledBy(o, readable) ==
  IF row[o].evidence THEN Outcome(o, readable) ELSE Unknown(FALSE)

-------------------------------------------------------------------------------
(* The command (run/liveleg.main) *)

NoOutcome == [state |-> "none"]

NoRow == [state |-> "none", sells |-> Cash, raw |-> 0, evidence |-> FALSE]

Init ==
  /\ wallet = Wallet0 /\ tx = [o \in Runs |-> Unsent]
  /\ \E m \in Marks : snap = [bal |-> Wallet0, mark |-> m]
  /\ journal = <<>> /\ row = [o \in Runs |-> NoRow]
  /\ run = 0 /\ pc = "off" /\ opening = <<>>
  /\ outcome = [o \in Runs |-> NoOutcome]

Ends == pc' = "off" /\ opening' = <<>>

(* The treasurer's process ends, and its command reads the book back; of an *)
(* order with no transaction it writes nothing that is ever read.           *)
Reports(evidence) ==
  pc' = (IF evidence THEN "record" ELSE "off") /\ opening' = <<>>

(* One runner spends: the lock is taken before anything is read.            *)
Begin ==
  /\ pc = "off" /\ run < MaxRuns
  /\ run' = run + 1 /\ pc' = "resolve" /\ opening' = <<>>
  /\ UNCHANGED <<wallet, tx, snap, journal, row, outcome>>

Move(o, to) == row' = [row EXCEPT ![o].state = to]

(* The events and the state they belong to, one transaction.                *)
Settle(o, out) ==
  /\ Keep(out.events)
  /\ row' = [row EXCEPT ![o].state = out.state, ![o].evidence = out.evidence]

Left == {o \in Runs : row[o].state \in Open}

(* Mutant: an order no run can settle does not stop the next.               *)
Resolve_GoesOn ==
  /\ pc = "resolve"
  /\ IF \A o \in Left : row[o].state \in InFlight
     THEN pc' = "open" /\ opening' = Holdings /\ UNCHANGED row
     ELSE /\ Move(CHOOSE o \in Left : row[o].state = "prepared", "refused")
          /\ UNCHANGED <<pc, opening>>
  /\ UNCHANGED <<wallet, tx, snap, journal, run, outcome>>

(* startup.resolve: an order never sent is refused; one in flight is        *)
(* settled by its transaction, if a run read one, or the command ends.      *)
Resolve ==
  /\ pc = "resolve"
  /\ IF Left = {} THEN /\ pc' = "open" /\ opening' = Holdings
                       /\ UNCHANGED <<journal, row>>
     ELSE LET o == Min(Left) IN
       \/ /\ row[o].state = "prepared"
          /\ Move(o, "refused") /\ UNCHANGED <<journal, pc, opening>>
       \/ /\ row[o].state \in InFlight
          /\ \E readable \in BOOLEAN :
               LET out == SettledBy(o, readable)
               IN  IF out.state = "unknown"
                   THEN Ends /\ UNCHANGED <<journal, row>>
                   ELSE Settle(o, out) /\ UNCHANGED <<pc, opening>>
  /\ UNCHANGED <<wallet, tx, snap, run, outcome>>

(* open_real_book asks the fold first, which may raise, and opens only a    *)
(* book that holds nothing.                                                 *)
AskBook ==
  /\ pc = "open"
  /\ LET book == Walk(journal) IN
       IF book.raised THEN Ends
       ELSE /\ pc' = "opening"
            /\ opening' = IF \A a \in Asset : book.held[a] = 0
                          THEN opening ELSE <<>>
  /\ UNCHANGED <<wallet, tx, snap, journal, row, run, outcome>>

(* One append for each holding, each its own write.  A holding with no      *)
(* balance, or no usable mark, raises, after those before it were written.  *)
OpenOne ==
  /\ pc = "opening" /\ opening # <<>>
  /\ LET a == Head(opening) IN
       IF snap.bal[a] = Unread \/ (snap.bal[a] > 0 /\ snap.mark[a] = 0)
       THEN Ends /\ UNCHANGED journal
       ELSE /\ opening' = Tail(opening) /\ UNCHANGED pc
            /\ Keep(IF snap.bal[a] = 0 THEN <<>>
                    ELSE <<Opening(a, snap.bal[a], snap.mark[a])>>)
  /\ UNCHANGED <<wallet, tx, snap, row, run, outcome>>

(* The quote, the instruction, its signature and the order it authorizes:   *)
(* no quote, or no mark for what is sold, and nothing is written; nor is    *)
(* it without --confirm.                                                    *)
Instruct ==
  /\ pc = "opening" /\ opening = <<>>
  /\ \/ Ends /\ UNCHANGED row
     \/ \E a \in Asset, raw \in Sizes :
          /\ snap.mark[a] > 0
          /\ row' = [row EXCEPT ![run] = [NoRow EXCEPT !.state = "prepared",
                                            !.sells = a, !.raw = raw]]
          /\ pc' = "admit" /\ UNCHANGED opening
  /\ UNCHANGED <<wallet, tx, snap, journal, run, outcome>>

(* Mutant: the chokepoint forgets what the real book has already traded.    *)
Admits_Unspent(o) ==
  LET worth == row[o].raw * snap.mark[row[o].sells]
  IN  /\ worth <= MaxTrade
      /\ Walk(journal).held[row[o].sells] >= row[o].raw
      /\ worth <= Budget

(* admit_instruction's gates that compare amounts.                          *)
Admits(o) ==
  LET worth == row[o].raw * snap.mark[row[o].sells]
  IN  /\ worth <= MaxTrade
      /\ Walk(journal).held[row[o].sells] >= row[o].raw
      /\ Traded(journal) + worth <= Budget

(* The chokepoint: the order goes on only if every gate passes, and the     *)
(* others, of the quote, the mandate and the times, may refuse it too.      *)
Admit ==
  /\ pc = "admit"
  /\ \/ Move(run, "refused") /\ Reports(FALSE)
     \/ Admits(run) /\ Move(run, "submitted") /\ pc' = "send"
        /\ UNCHANGED opening
  /\ UNCHANGED <<wallet, tx, snap, journal, run, outcome>>

(* One send, no retry: accepted or not, answered with a hash or not.        *)
Send ==
  /\ pc = "send"
  /\ Submitted(run) /\ pc' = "read"
  /\ UNCHANGED <<wallet, snap, journal, row, run, opening, outcome>>

(* LiveExecutor._read, at any time up to its deadline, and run_order's one  *)
(* write of what it found.                                                  *)
ReadOutcome ==
  /\ pc = "read"
  /\ \E readable \in BOOLEAN :
       LET out == IF tx[run].hash THEN Outcome(run, readable)
                  ELSE Unknown(FALSE)
       IN  Settle(run, out) /\ Reports(out.evidence)
  /\ UNCHANGED <<wallet, tx, snap, run, outcome>>

(* The book is valued, it reconciles, and the outcome is written, or the    *)
(* command raises.                                                          *)
Record ==
  /\ pc = "record" /\ Ends
  /\ LET book == Walk(journal)
         v    == BookValue(book, snap.mark)
     IN  outcome' =
           IF HasValue(book, snap.mark) /\ Reconciles(v)
           THEN [outcome EXCEPT ![run] = [state |-> row[run].state, book |-> v]]
           ELSE outcome
  /\ UNCHANGED <<wallet, tx, snap, journal, row, run>>

(* Killed between any two writes: the lock is a dead process's.             *)
Killed ==
  /\ pc # "off" /\ Ends
  /\ UNCHANGED <<wallet, tx, snap, journal, row, run, outcome>>

Command == \/ Begin \/ Resolve \/ AskBook \/ OpenOne \/ Instruct
           \/ Admit \/ Send \/ ReadOutcome \/ Record \/ Killed

Chain == BuildSnapshot \/ \E o \in Runs : Mine(o) \/ Deepen(o)

Next == Command \/ Chain

Spec == Init /\ [][Next]_vars

-------------------------------------------------------------------------------
(* The page *)

(* Mutant: an outcome with a transaction is a swap, whatever became of it.  *)
LiveSwaps_Any == {o \in Runs : outcome[o] # NoOutcome}

(* dashboard.live_swaps: the outcomes that are confirmed, with what the     *)
(* chain gave of them.                                                      *)
LiveSwaps == {o \in Runs : outcome[o].state = "confirmed"}

(* dashboard.chain: each swap's row, and the real book as the newest left it*)
(* (books); with no swap the page cannot be built.                          *)
Shown ==
  [rows |-> [o \in LiveSwaps |-> [gave |-> row[o].raw, asset |-> row[o].sells]],
   book |-> IF LiveSwaps = {} THEN NoOutcome ELSE outcome[Max(LiveSwaps)].book]

-------------------------------------------------------------------------------
(* Properties *)

TypeOK ==
  /\ wallet \in [Asset -> Nat]
  /\ \A o \in Runs :
       /\ tx[o].state \in {"none", "sent", "shallow", "deep"}
       /\ row[o].state \in States /\ row[o].sells \in Asset
       /\ row[o].raw \in Sizes \cup {0} /\ row[o].evidence \in BOOLEAN
  /\ snap.bal \in [Asset -> Nat \cup {Unread}] /\ snap.mark \in Marks
  /\ \A i \in DOMAIN journal : journal[i].kind \in {"opening", "fill", "fee"}
  /\ run \in 0 .. MaxRuns
  /\ pc \in {"off", "resolve", "open", "opening", "admit", "send", "read",
             "record"}

Book == Walk(journal)

Events(S) == {i \in DOMAIN journal : journal[i].kind \in S}

OpenedWith == {journal[i].asset : i \in Events({"opening"})}

Settled == \A o \in Runs : row[o].state \in Final \cup {"none"}

(* The gas of each swap that bought ETH: what it received had paid it, and  *)
(* the fee takes it from the book again.                                    *)
GasTwice ==
  Total([o \in Runs |-> IF row[o].state = "confirmed" /\ row[o].sells = Cash
                        THEN tx[o].gas ELSE 0])

(* No command has opened the book a second time, after it was emptied.      *)
OpenedOnce ==
  \A i \in Events({"opening"}), j \in Events({"fill", "fee"}) : i < j

(* With every order settled, the real book holds of each asset it was       *)
(* opened with what the wallet holds, less the gas of the purchases of ETH, *)
(* and never more than the wallet holds (live_fill, gas_fee, one write).    *)
(* A book that was emptied is opened again with the balances of whatever    *)
(* snapshot the command is given, and then says nothing of the wallet.      *)
BookExplainsWallet ==
  Settled /\ OpenedOnce /\ ~Book.raised =>
    \A a \in Asset :
      LET twice == IF a = "eth" THEN GasTwice ELSE 0
      IN  /\ Book.held[a] + twice <= wallet[a]
          /\ a \in OpenedWith => Book.held[a] + twice = wallet[a]

(* The real book's events fold, so that a later command can go on, unless   *)
(* it had been charged a purchase's gas twice: even when it was opened in   *)
(* part, and whatever reverted (ledger._walk, open_real_book, gas_fee).     *)
FoldRaisesOnlyForGas == Book.raised => GasTwice > 0

(* What the live budget limits passes it by no more than the last swap's    *)
(* own slip and gas: without that swap, it was within it (gates.live_budget *)
(* before the send, an unsettled order refusing every later command).       *)
BudgetPassedOnce ==
  LET fills == Events({"fill", "fee"})
      last  == IF fills = {} THEN 0 ELSE journal[Max(fills)].order
  IN  TradedBut(last, journal) <= Budget

(* Basis is conserved whatever was rounded: opened + realised - costs is    *)
(* what the holdings cost (ledger.as_document's identity).                  *)
BasisConserved ==
  ~Book.raised =>
    Book.basis["eth"] + Book.basis["usdg"]
      = Book.opened + Book.realised - Book.costs

(* "Every real swap this fund has made, [...] from its committed outcome"   *)
(* (dashboard.live_swaps): each the page lists is final, on the chain and   *)
(* in the store, gave there what its row says, and the book it left is the  *)
(* ledger's, up to its own last event and no further.                       *)
PageListsSettled ==
  \A o \in DOMAIN Shown.rows :
    LET own  == {i \in Events({"fill", "fee"}) : journal[i].order = o}
        then == Walk(SubSeq(journal, 1, Max(own)))
    IN  /\ row[o].state = "confirmed" /\ tx[o].state = "deep" /\ tx[o].ok
        /\ own # {}
        /\ \A i \in own : journal[i].kind = "fill" =>
              /\ journal[i].raw = Shown.rows[o].gave
              /\ journal[i].asset = Shown.rows[o].asset
        /\ o = Max(DOMAIN Shown.rows) =>
              \A a \in Asset : Shown.book.positions[a].raw = then.held[a]

(* No swap is sent while the chain may still settle another: a later        *)
(* command refuses to start (startup.resolve).                              *)
NoSpendWhileUnsettled ==
  [][\A o \in Runs : tx[o].state = "none" /\ tx'[o].state = "sent" =>
       \A p \in Runs \ {o} : row[p].state \in Final \cup {"none"}]_vars

=============================================================================
