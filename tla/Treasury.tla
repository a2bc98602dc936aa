------------------------------- MODULE Treasury -------------------------------
(***************************************************************************)
(* The execution path of the fund: runners (run/cycle.py, run/liveleg.py)   *)
(* that take the single-owner lock, settle what the last run left, write    *)
(* orders and start a treasurer; treasurers (treasurer/execute.py) that     *)
(* take each prepared order through the chokepoint to the venue and book    *)
(* what came of it; the SQLite file they share (store/*.py); and the chain  *)
(* a live swap lands on, which only treasurer/reconcile.py reads.           *)
(*                                                                         *)
(* A runner and a treasurer are separate processes, so either can be killed *)
(* between any two steps, and a treasurer whose runner was killed goes on   *)
(* as an orphan while the next runner settles the orders it is working on.  *)
(* One step is one SQLite transaction, one HTTP call, or a local choice.    *)
(*                                                                         *)
(* Abstracted: what the admission checks compare (any order may be admitted *)
(* or refused), amounts and prices, and the row order in which a runner or  *)
(* a treasurer takes the orders it read (any order is allowed).             *)
(***************************************************************************)
EXTENDS Naturals, FiniteSets, OrderMoves

CONSTANTS
  Orders,       \* every order a signed decision or instruction may name
  LiveOrders,   \* the orders of mode live: one per instruction
  Gassed,       \* live orders whose operation is charged gas, not sponsored
  Unbookable,   \* live orders whose amounts the node or the ledger refuses
  Authorities,  \* decision ids and instruction ids
  AuthorityOf,  \* the authority an order's id derives from
  Runners,      \* runner pids
  HostOf,       \* the host a runner's pid is on
  Treasurers,   \* treasurer process slots
  MaxCrashes,   \* bound: how many times a process is killed
  Nobody        \* no runner, no process, no authority, no order

ASSUME OrdersAssumption ==
  /\ LiveOrders \subseteq Orders
  /\ Gassed \subseteq LiveOrders /\ Unbookable \subseteq LiveOrders
  /\ AuthorityOf \in [Orders -> Authorities]
  /\ \A o \in LiveOrders, p \in Orders :
        AuthorityOf[o] = AuthorityOf[p] => o = p

ASSUME BoundAssumption == MaxCrashes \in Nat

ASSUME NobodyAssumption ==
  Nobody \notin Orders \cup Authorities \cup Runners \cup Treasurers

VARIABLES
  row,      \* orders table: each row's state and the chain evidence it keeps
  fills,    \* events table: fills of each order
  fees,     \* events table: gas fees of each order
  lock,     \* runner_lock: the pid in its one row, or Nobody
  rpc,      \* where each runner is, "off" when no such process lives
  kind,     \* what each runner runs: a paper cycle or the live leg
  seen,     \* the rows resolve read, which it settles from
  seenFilled, \* the filled orders resolve read from the journal
  work,     \* orders each runner has still to settle, or to write
  job,      \* the authority each runner carries out
  child,    \* the treasurer each runner waits for
  tpc,      \* where each treasurer is, "off" when no such process lives
  todo,     \* orders each treasurer has still to run
  cur,      \* the order each treasurer is running
  outcome,  \* what the executor made of it, until it is booked
  chain,    \* what became of the swap on chain
  sends,    \* how many submissions reached the venue under the order's key
  crashes   \* processes killed so far

store      == <<row, fills, fees>>
runnerVars == <<lock, rpc, kind, seen, seenFilled, work, job, child>>
localVars  == <<seen, seenFilled, work, job, child>>
treasVars  == <<tpc, todo, cur, outcome>>
world      == <<chain, sends>>
vars       == <<row, fills, fees, lock, rpc, kind, seen, seenFilled, work,
                job, child, tpc, todo, cur, outcome, chain, sends, crashes>>

-------------------------------------------------------------------------------
(* Data *)

PaperOrders == Orders \ LiveOrders

(* "named": the stored reason's text names the transaction hash, the        *)
(* execution column does not.  "kept": the row holds the Execution.         *)
Evidence == {"none", "named", "kept"}
Row      == [state : States, evidence : Evidence]
NoRow    == [state |-> "none", evidence |-> "none"]

(* A state and the events booked with it: a fill or none, a fee or none.    *)
Outcomes  == [state : States, fill : {0, 1}, fee : {0, 1}, evidence : Evidence]

(* A state reached with no money booked.                                    *)
Unbooked(s, e) == [state |-> s, fill |-> 0, fee |-> 0, evidence |-> e]
NoOutcome      == Unbooked("none", "none")

ChainStates == {"none", "pending", "shallow_ok", "shallow_bad",
                "deep_ok", "deep_bad"}

Kinds        == {"cycle", "liveleg"}
RunnerStates == {"off", "fills", "orders", "settle", "write", "wait"}
TreasStates  == {"off", "next", "judge", "send", "reply", "poll", "commit"}

(* The authorities a runner of each kind carries out.                       *)
IsLive(a) == \E o \in LiveOrders : AuthorityOf[o] = a
JobsOf(k) == {a \in Authorities : IsLive(a) <=> k = "liveleg"}

GasOf(o)     == IF o \in Gassed THEN 1 ELSE 0
Unsettled(e) == Unbooked("unknown", e)

(* Mutant: the depth is not compared, a mined swap is booked at once.       *)
Reading_AnyDepth(o) ==
  CASE chain[o] \in {"none", "pending"} -> Unsettled("named")
    [] chain[o] \in {"shallow_bad", "deep_bad"} ->
         [state |-> "failed", fill |-> 0, fee |-> GasOf(o),
          evidence |-> "kept"]
    [] OTHER -> [state |-> "confirmed", fill |-> 1, fee |-> GasOf(o),
                 evidence |-> "kept"]

(* reconcile.read, then execute.booked: the outcome the chain evidences.    *)
(* A receipt that is absent, or holds no operation of this wallet's, keeps  *)
(* nothing; a shallow one keeps the execution; a deep one settles, unless   *)
(* its amounts cannot be evidenced or the ledger will not book them.        *)
Reading(o) ==
  CASE chain[o] \in {"none", "pending"}            -> Unsettled("named")
    [] chain[o] \in {"shallow_ok", "shallow_bad"}  -> Unsettled("kept")
    [] chain[o] = "deep_bad" ->
         IF o \in Unbookable \cap Gassed THEN Unsettled("kept")
         ELSE [state |-> "failed", fill |-> 0, fee |-> GasOf(o),
               evidence |-> "kept"]
    [] OTHER ->
         IF o \in Unbookable THEN Unsettled("kept")
         ELSE [state |-> "confirmed", fill |-> 1, fee |-> GasOf(o),
               evidence |-> "kept"]

(* PaperExecutor.submit: filled at its quote, or refused by the ledger.     *)
PaperOutcomes ==
  {[state |-> "confirmed", fill |-> 1, fee |-> 0, evidence |-> "none"],
   Unbooked("failed", "none")}

-------------------------------------------------------------------------------
(* The store *)

(* What makes a write refused: MOVES, a confirmed live order with no chain  *)
(* evidence, or the journal's one fill per order.                           *)
Bookable(o, out) ==
  /\ out.state \in Moves[row[o].state]
  /\ out.state = "confirmed" /\ o \in LiveOrders => out.evidence = "kept"
  /\ out.fill = 1 => fills[o] = 0

(* One transaction: the fill, the gas and the order's new state.            *)
Book(o, out) ==
  /\ row'   = [row EXCEPT ![o] = [state    |-> out.state,
                                  evidence |-> out.evidence]]
  /\ fills' = [fills EXCEPT ![o] = @ + out.fill]
  /\ fees'  = [fees EXCEPT ![o] = @ + out.fee]

(* OrderStore.move: a state and nothing else.                               *)
Move(o, s) == Book(o, Unbooked(s, "none"))

Init ==
  /\ row        = [o \in Orders |-> NoRow]
  /\ fills      = [o \in Orders |-> 0]
  /\ fees       = [o \in Orders |-> 0]
  /\ lock       = Nobody
  /\ rpc        = [r \in Runners |-> "off"]
  /\ kind       = [r \in Runners |-> "cycle"]
  /\ seen       = [r \in Runners |-> [o \in Orders |-> NoRow]]
  /\ seenFilled = [r \in Runners |-> {}]
  /\ work       = [r \in Runners |-> {}]
  /\ job        = [r \in Runners |-> Nobody]
  /\ child      = [r \in Runners |-> Nobody]
  /\ tpc        = [t \in Treasurers |-> "off"]
  /\ todo       = [t \in Treasurers |-> {}]
  /\ cur        = [t \in Treasurers |-> Nobody]
  /\ outcome    = [t \in Treasurers |-> NoOutcome]
  /\ chain      = [o \in Orders |-> "none"]
  /\ sends      = [o \in Orders |-> 0]
  /\ crashes    = 0

-------------------------------------------------------------------------------
(* A runner *)

At(r, here, next) ==
  /\ rpc[r] = here
  /\ rpc' = [rpc EXCEPT ![r] = next]

(* A process that is gone: its memory with it.                              *)
Forgotten(r) ==
  /\ rpc'        = [rpc EXCEPT ![r] = "off"]
  /\ kind'       = [kind EXCEPT ![r] = "cycle"]
  /\ seen'       = [seen EXCEPT ![r] = [o \in Orders |-> NoRow]]
  /\ seenFilled' = [seenFilled EXCEPT ![r] = {}]
  /\ work'       = [work EXCEPT ![r] = {}]
  /\ job'        = [job EXCEPT ![r] = Nobody]
  /\ child'      = [child EXCEPT ![r] = Nobody]

(* Mutant: the owner is blanked where the row should be deleted.            *)
Release_Blank(r) ==
  /\ lock' = IF lock = r THEN "" ELSE lock
  /\ Forgotten(r)

(* The with-block ends, by return or by exception: the row goes with it.    *)
Release(r) ==
  /\ lock' = IF lock = r THEN Nobody ELSE lock
  /\ Forgotten(r)

(* Mutant: a holder of this host is taken over without asking if it lives.  *)
MayOwn_AnyHolder(r) ==
  lock \in {Nobody, r} \/ (lock \in Runners /\ HostOf[lock] = HostOf[r])

(* startup.owning: the row is free, is this pid's, or names a process of    *)
(* this host that is gone.  Otherwise NotReady, and nothing changes.        *)
MayOwn(r) ==
  \/ lock \in {Nobody, r}
  \/ lock \in Runners /\ HostOf[lock] = HostOf[r] /\ rpc[lock] = "off"

Acquire(r, k) ==
  /\ MayOwn(r)
  /\ At(r, "off", "fills")
  /\ lock' = r
  /\ kind' = [kind EXCEPT ![r] = k]
  /\ UNCHANGED <<store, localVars, treasVars, world, crashes>>

(* startup.resolve reads the journal's fills, then every order.             *)
ReadFills(r) ==
  /\ At(r, "fills", "orders")
  /\ seenFilled' = [seenFilled EXCEPT ![r] = {o \in Orders : fills[o] > 0}]
  /\ UNCHANGED <<store, lock, kind, seen, work, job, child, treasVars,
                 world, crashes>>

(* Mutant: a cycle trades paper, so it settles only paper orders.           *)
ReadOrders_OwnMode(r) ==
  /\ At(r, "orders", "settle")
  /\ seen' = [seen EXCEPT ![r] = row]
  /\ work' = [work EXCEPT ![r] =
                {o \in Orders : /\ row[o].state \in Open
                                /\ kind[r] = "cycle" => o \in PaperOrders}]
  /\ UNCHANGED <<store, lock, kind, seenFilled, job, child, treasVars,
                 world, crashes>>

ReadOrders(r) ==
  /\ At(r, "orders", "settle")
  /\ seen' = [seen EXCEPT ![r] = row]
  /\ work' = [work EXCEPT ![r] = {o \in Orders : row[o].state \in Open}]
  /\ UNCHANGED <<store, lock, kind, seenFilled, job, child, treasVars,
                 world, crashes>>

(* Mutant: no reader is passed, so the chain is never asked.                *)
Ruling_NoReader(r, o) ==
  IF seen[r][o].state = "prepared" THEN Unbooked("refused", "none")
  ELSE IF o \in seenFilled[r] THEN Unbooked("confirmed", "none")
  ELSE IF o \in PaperOrders THEN Unbooked("failed", "none")
  ELSE Unsettled("none")

(* Mutant: a paper order with no fill is treated as a live one is.          *)
Ruling_PaperUnsettled(r, o) ==
  IF seen[r][o].state = "prepared" THEN Unbooked("refused", "none")
  ELSE IF o \in seenFilled[r] THEN Unbooked("confirmed", "none")
  ELSE IF kind[r] = "liveleg" /\ seen[r][o].evidence = "kept" THEN Reading(o)
  ELSE Unsettled("none")

(* What resolve makes of an order, from the row it read: stale, settled by  *)
(* its fill, never filled, or what the chain says when it can be asked.     *)
Ruling(r, o) ==
  IF seen[r][o].state = "prepared" THEN Unbooked("refused", "none")
  ELSE IF o \in seenFilled[r] THEN Unbooked("confirmed", "none")
  ELSE IF o \in PaperOrders THEN Unbooked("failed", "none")
  ELSE IF kind[r] = "liveleg" /\ seen[r][o].evidence = "kept" THEN Reading(o)
  ELSE Unsettled("none")

Settle(r, o) ==
  /\ rpc[r] = "settle" /\ o \in work[r]
  /\ Ruling(r, o).state # "unknown"
  /\ Bookable(o, Ruling(r, o))
  /\ Book(o, Ruling(r, o))
  /\ work' = [work EXCEPT ![r] = @ \ {o}]
  /\ UNCHANGED <<lock, rpc, kind, seen, seenFilled, job, child, treasVars,
                 world, crashes>>

(* NotReady, or the store refused the move because an orphan made its own.  *)
NotReady(r, o) ==
  /\ rpc[r] = "settle" /\ o \in work[r]
  /\ Ruling(r, o).state = "unknown" \/ ~Bookable(o, Ruling(r, o))
  /\ Release(r)
  /\ UNCHANGED <<store, treasVars, world, crashes>>

(* Mutant: an instruction already carried out may be issued again.          *)
Decide_Reissues(r, a) ==
  /\ At(r, "settle", "write")
  /\ work[r] = {} /\ a \in JobsOf(kind[r])
  /\ job'  = [job EXCEPT ![r] = a]
  /\ work' = [work EXCEPT ![r] = {o \in Orders : AuthorityOf[o] = a}]
  /\ seen' = [seen EXCEPT ![r] = [o \in Orders |-> NoRow]]
  /\ seenFilled' = [seenFilled EXCEPT ![r] = {}]
  /\ UNCHANGED <<store, lock, kind, child, treasVars, world, crashes>>

(* A signed decision, or a new instruction: its orders are written next.    *)
(* An instruction is minted with its issue time, so it is never a stored    *)
(* one; a paper decision decided again from the same inputs may be.         *)
Decide(r, a) ==
  /\ At(r, "settle", "write")
  /\ work[r] = {} /\ a \in JobsOf(kind[r])
  /\ \A o \in LiveOrders : AuthorityOf[o] = a => row[o].state = "none"
  /\ job'  = [job EXCEPT ![r] = a]
  /\ work' = [work EXCEPT ![r] = {o \in Orders : AuthorityOf[o] = a}]
  /\ seen' = [seen EXCEPT ![r] = [o \in Orders |-> NoRow]]
  /\ seenFilled' = [seenFilled EXCEPT ![r] = {}]
  /\ UNCHANGED <<store, lock, kind, child, treasVars, world, crashes>>

(* No rebalance, nothing authorized, or not confirmed: no order is written. *)
DecideNothing(r) ==
  /\ rpc[r] = "settle" /\ work[r] = {}
  /\ Release(r)
  /\ UNCHANGED <<store, treasVars, world, crashes>>

(* OrderStore.add: a stored order stands, in whatever state it reached.     *)
Write(r, o) ==
  /\ rpc[r] = "write" /\ o \in work[r]
  /\ IF row[o] = NoRow THEN Move(o, "prepared") ELSE UNCHANGED store
  /\ work' = [work EXCEPT ![r] = @ \ {o}]
  /\ UNCHANGED <<lock, rpc, kind, seen, seenFilled, job, child, treasVars,
                 world, crashes>>

(* cycle.treasurer: a new process, which reads the orders of its authority. *)
Spawn(r, t) ==
  /\ work[r] = {} /\ tpc[t] = "off"
  /\ At(r, "write", "wait")
  /\ child' = [child EXCEPT ![r] = t]
  /\ tpc'   = [tpc EXCEPT ![t] = "next"]
  /\ todo'  = [todo EXCEPT ![t] = {o \in Orders : /\ AuthorityOf[o] = job[r]
                                                  /\ row[o] # NoRow}]
  /\ UNCHANGED <<store, lock, kind, seen, seenFilled, work, job, cur, outcome,
                 world, crashes>>

Collect(r) ==
  /\ rpc[r] = "wait" /\ tpc[child[r]] = "off"
  /\ Release(r)
  /\ UNCHANGED <<store, treasVars, world, crashes>>

(* Killed with no chance to run its finally, so the lock's row stays and so *)
(* does its treasurer; or stopped by an exception of its own, which gives   *)
(* the lock back.                                                           *)
RunnerDies(r) ==
  /\ rpc[r] # "off" /\ crashes < MaxCrashes
  /\ \/ Forgotten(r) /\ UNCHANGED lock
     \/ rpc[r] # "wait" /\ Release(r)
  /\ crashes' = crashes + 1
  /\ UNCHANGED <<store, treasVars, world>>

-------------------------------------------------------------------------------
(* A treasurer *)

Exited(t) ==
  /\ tpc'     = [tpc EXCEPT ![t] = "off"]
  /\ todo'    = [todo EXCEPT ![t] = {}]
  /\ cur'     = [cur EXCEPT ![t] = Nobody]
  /\ outcome' = [outcome EXCEPT ![t] = NoOutcome]

(* subprocess.run gives the treasurer 600 s, kills it, and raises.          *)
Timeout(r) ==
  /\ rpc[r] = "wait" /\ tpc[child[r]] # "off" /\ crashes < MaxCrashes
  /\ Release(r)
  /\ Exited(child[r])
  /\ crashes' = crashes + 1
  /\ UNCHANGED <<store, world>>

TreasurerAt(t, here, next) ==
  /\ tpc[t] = here
  /\ tpc' = [tpc EXCEPT ![t] = next]

(* run_order: an order not prepared is finished or in flight, and is left.  *)
Pick(t, o) ==
  /\ o \in todo[t]
  /\ TreasurerAt(t, "next", IF row[o].state = "prepared" THEN "judge"
                                                        ELSE "next")
  /\ todo' = [todo EXCEPT ![t] = @ \ {o}]
  /\ cur'  = [cur EXCEPT ![t] = IF row[o].state = "prepared" THEN o ELSE @]
  /\ UNCHANGED <<store, runnerVars, outcome, world, crashes>>

(* The chokepoint refused it: nothing was sent.                             *)
Refuse(t) ==
  /\ TreasurerAt(t, "judge", "next")
  /\ "refused" \in Moves[row[cur[t]].state]
  /\ Move(cur[t], "refused")
  /\ cur' = [cur EXCEPT ![t] = Nobody]
  /\ UNCHANGED <<runnerVars, todo, outcome, world, crashes>>

(* Mutant: the move to submitted is written after the send, with its end.   *)
Submit_AfterTheAct(t) ==
  /\ TreasurerAt(t, "judge", "send")
  /\ "submitted" \in Moves[row[cur[t]].state]
  /\ UNCHANGED <<store, runnerVars, todo, cur, outcome, world, crashes>>

(* Admitted: submitted is durable before the act.                           *)
Submit(t) ==
  /\ TreasurerAt(t, "judge", "send")
  /\ "submitted" \in Moves[row[cur[t]].state]
  /\ Move(cur[t], "submitted")
  /\ UNCHANGED <<runnerVars, todo, cur, outcome, world, crashes>>

(* PaperExecutor: nothing is sent, the fill is computed in memory.          *)
FillOnPaper(t) ==
  /\ cur[t] \in PaperOrders
  /\ TreasurerAt(t, "send", "commit")
  /\ \E out \in PaperOutcomes : outcome' = [outcome EXCEPT ![t] = out]
  /\ UNCHANGED <<store, runnerVars, todo, cur, world, crashes>>

(* LiveExecutor: one send.  The venue broadcasts a swap, or does not; under *)
(* a key it has seen it would broadcast no other.                           *)
Send(t) ==
  /\ cur[t] \in LiveOrders
  /\ TreasurerAt(t, "send", "reply")
  /\ sends' = [sends EXCEPT ![cur[t]] = @ + 1]
  /\ \/ chain[cur[t]] = "none" /\ chain' = [chain EXCEPT ![cur[t]] = "pending"]
     \/ UNCHANGED chain
  /\ UNCHANGED <<store, runnerVars, todo, cur, outcome, crashes>>

(* A reply with no hash, whatever its status: unknown, with nothing to read.*)
ReplyWithoutHash(t) ==
  /\ TreasurerAt(t, "reply", "commit")
  /\ outcome' = [outcome EXCEPT ![t] = Unsettled("none")]
  /\ UNCHANGED <<store, runnerVars, todo, cur, world, crashes>>

ReplyWithHash(t) ==
  /\ TreasurerAt(t, "reply", "poll")
  /\ chain[cur[t]] # "none"
  /\ UNCHANGED <<store, runnerVars, todo, cur, outcome, world, crashes>>

(* The last poll: a settled reading, or the settlement deadline.            *)
Poll(t) ==
  /\ TreasurerAt(t, "poll", "commit")
  /\ outcome' = [outcome EXCEPT ![t] = Reading(cur[t])]
  /\ UNCHANGED <<store, runnerVars, todo, cur, world, crashes>>

(* Mutant: the fill is its own write, kept when the move is refused.        *)
Commit_TwoWrites(t) ==
  /\ TreasurerAt(t, "commit", "next")
  /\ IF Bookable(cur[t], outcome[t])
     THEN Book(cur[t], outcome[t])
     ELSE /\ fills' = [fills EXCEPT ![cur[t]] = @ + outcome[t].fill]
          /\ UNCHANGED <<row, fees>>
  /\ cur'     = [cur EXCEPT ![t] = Nobody]
  /\ outcome' = [outcome EXCEPT ![t] = NoOutcome]
  /\ UNCHANGED <<runnerVars, todo, world, crashes>>

(* Mutant: the state is written without asking MOVES.                       *)
Commit_AnyMove(t) ==
  /\ TreasurerAt(t, "commit", "next")
  /\ Book(cur[t], outcome[t])
  /\ cur'     = [cur EXCEPT ![t] = Nobody]
  /\ outcome' = [outcome EXCEPT ![t] = NoOutcome]
  /\ UNCHANGED <<runnerVars, todo, world, crashes>>

Commit(t) ==
  /\ TreasurerAt(t, "commit", "next")
  /\ Bookable(cur[t], outcome[t])
  /\ Book(cur[t], outcome[t])
  /\ cur'     = [cur EXCEPT ![t] = Nobody]
  /\ outcome' = [outcome EXCEPT ![t] = NoOutcome]
  /\ UNCHANGED <<runnerVars, todo, world, crashes>>

(* A write the store refuses is rolled back, and the process ends with it.  *)
(* (From "judge", submitted and refused are both moves of prepared only.)   *)
WriteRefused(t) ==
  /\ \/ tpc[t] = "judge" /\ "submitted" \notin Moves[row[cur[t]].state]
     \/ tpc[t] = "commit" /\ ~Bookable(cur[t], outcome[t])
  /\ Exited(t)
  /\ UNCHANGED <<store, runnerVars, world, crashes>>

TreasurerEnds(t) ==
  /\ tpc[t] = "next" /\ todo[t] = {}
  /\ Exited(t)
  /\ UNCHANGED <<store, runnerVars, world, crashes>>

(* Killed, or an RPC error nothing catches: what it knew is lost.           *)
TreasurerDies(t) ==
  /\ tpc[t] # "off" /\ crashes < MaxCrashes
  /\ Exited(t)
  /\ crashes' = crashes + 1
  /\ UNCHANGED <<store, runnerVars, world>>

-------------------------------------------------------------------------------
(* The chain: a swap is mined, may be reorganised out while it is shallow,  *)
(* and is final once it is confirmation_depth blocks deep.                  *)

ChainMoves(o, from, to) ==
  chain[o] = from /\ chain' = [chain EXCEPT ![o] = to]

Mine(o) ==
  /\ \/ ChainMoves(o, "pending", "shallow_ok")
     \/ ChainMoves(o, "pending", "shallow_bad")
  /\ UNCHANGED <<store, runnerVars, treasVars, sends, crashes>>

Reorg(o) ==
  /\ \/ ChainMoves(o, "shallow_ok", "pending")
     \/ ChainMoves(o, "shallow_bad", "pending")
  /\ UNCHANGED <<store, runnerVars, treasVars, sends, crashes>>

Deepen(o) ==
  /\ \/ ChainMoves(o, "shallow_ok", "deep_ok")
     \/ ChainMoves(o, "shallow_bad", "deep_bad")
  /\ UNCHANGED <<store, runnerVars, treasVars, sends, crashes>>

-------------------------------------------------------------------------------

RunnerStep(r) ==
  \/ \E k \in Kinds : Acquire(r, k)
  \/ ReadFills(r) \/ ReadOrders(r)
  \/ \E o \in Orders : Settle(r, o) \/ NotReady(r, o) \/ Write(r, o)
  \/ \E a \in Authorities : Decide(r, a)
  \/ DecideNothing(r)
  \/ \E t \in Treasurers : Spawn(r, t)
  \/ Collect(r)

TreasurerStep(t) ==
  \/ \E o \in Orders : Pick(t, o)
  \/ Refuse(t) \/ Submit(t)
  \/ FillOnPaper(t) \/ Send(t) \/ ReplyWithoutHash(t) \/ ReplyWithHash(t)
  \/ Poll(t) \/ Commit(t)
  \/ WriteRefused(t) \/ TreasurerEnds(t)

Crash ==
  \/ \E r \in Runners : RunnerDies(r) \/ Timeout(r)
  \/ \E t \in Treasurers : TreasurerDies(t)

Next ==
  \/ \E r \in Runners : RunnerStep(r)
  \/ \E t \in Treasurers : TreasurerStep(t)
  \/ \E o \in LiveOrders : Mine(o) \/ Reorg(o) \/ Deepen(o)
  \/ Crash

Spec == Init /\ [][Next]_vars

-------------------------------------------------------------------------------
(* Properties *)

TypeOK ==
  /\ row        \in [Orders -> Row]
  /\ fills      \in [Orders -> Nat]
  /\ fees       \in [Orders -> Nat]
  /\ lock       \in Runners \cup {Nobody}
  /\ rpc        \in [Runners -> RunnerStates]
  /\ kind       \in [Runners -> Kinds]
  /\ seen       \in [Runners -> [Orders -> Row]]
  /\ seenFilled \in [Runners -> SUBSET Orders]
  /\ work       \in [Runners -> SUBSET Orders]
  /\ job        \in [Runners -> Authorities \cup {Nobody}]
  /\ child      \in [Runners -> Treasurers \cup {Nobody}]
  /\ tpc        \in [Treasurers -> TreasStates]
  /\ todo       \in [Treasurers -> SUBSET Orders]
  /\ cur        \in [Treasurers -> Orders \cup {Nobody}]
  /\ outcome    \in [Treasurers -> Outcomes]
  /\ chain      \in [Orders -> ChainStates]
  /\ sends      \in [Orders -> Nat]
  /\ crashes    \in Nat

(* "One runner spends, or none" (startup.owning): two runner processes are  *)
(* never both past the lock, whoever was killed holding it.                 *)
OneRunner ==
  \A r, s \in Runners : rpc[r] # "off" /\ rpc[s] # "off" => r = s

(* "No new cycle until every order is resolved" (startup.py): orders that   *)
(* are written and not final all belong to one authority.  In particular    *)
(* at most one live order is in flight, and no paper order beside it.       *)
OneAuthorityOpen ==
  \A o, p \in Orders :
     row[o].state \in Open /\ row[p].state \in Open
       => AuthorityOf[o] = AuthorityOf[p]

(* "An order is booked once" and "the fill and the state it belongs to, one *)
(* write": the journal holds a fill exactly for a confirmed order, and gas  *)
(* exactly for an ended live order that was charged it, through every crash *)
(* and whichever process settled it.                                        *)
BookedOnce ==
  \A o \in Orders :
     /\ fills[o] = IF row[o].state = "confirmed" THEN 1 ELSE 0
     /\ fees[o]  = IF row[o].state \in {"confirmed", "failed"} THEN GasOf(o) ELSE 0

(* "One send, no retry", and "submitted is durable before the act": nothing *)
(* reaches the venue twice, and what reached it is never back at prepared   *)
(* or refused, so no later run can take it for an order never sent.         *)
SentOnce ==
  \A o \in Orders :
     sends[o] # 0 => /\ sends[o] = 1
                     /\ row[o].state \notin {"none", "prepared", "refused"}

(* "Nothing is booked from a guess" (reconcile.py): a live order is         *)
(* confirmed only when its swap is final on chain, and failed only when its *)
(* operation reverted for good: never because a process died or gave up.    *)
OutcomeEvidenced ==
  \A o \in LiveOrders :
     /\ row[o].state = "confirmed" => chain[o] = "deep_ok"
     /\ row[o].state = "failed"    => chain[o] = "deep_bad"

(* The abstract promise, over what the two tables hold of each order.       *)
Life == INSTANCE OrderLife WITH state <- [o \in Orders |-> row[o].state]

LifeSpec == Life!Spec

-------------------------------------------------------------------------------
(* Liveness.  Every process that is not killed goes on, and the chain       *)
(* settles a swap it mined.  The operator keeps starting both kinds of run  *)
(* ("daily", and the live leg by hand).  Nothing is assumed of what a run   *)
(* decides, nor of the chokepoint's verdict beyond that there is one.       *)

Starts(k) == \E r \in Runners : Acquire(r, k)
RunnerGoesOn(r) == RunnerStep(r) /\ rpc[r] # "off"

FairSpec ==
  /\ Spec
  /\ \A k \in Kinds : SF_vars(Starts(k))
  /\ \A r \in Runners : WF_vars(RunnerGoesOn(r))
  /\ \A t \in Treasurers : WF_vars(TreasurerStep(t))
  /\ \A o \in LiveOrders : WF_vars(Mine(o)) /\ SF_vars(Deepen(o))

(* A live order left unknown whose row keeps its chain evidence is settled  *)
(* by a later run once the chain has settled the swap (startup.resolve with *)
(* liveleg.reader), unless its amounts can never be evidenced.              *)
EvidenceSettles ==
  \A o \in LiveOrders \ Unbookable :
     (row[o].state = "unknown" /\ row[o].evidence = "kept")
       ~> row[o].state \in {"confirmed", "failed"}

(* A paper order that was written ends, whoever is killed while it is in    *)
(* flight: its treasurer ends it, or the next run's startup does.  (A paper *)
(* order is never beside a live one: OneAuthorityOpen.)                     *)
PaperSettles ==
  \A o \in PaperOrders : row[o].state \in Open ~> row[o].state \in Final

(* cadence.json says of the settlement deadline: "the order stays in flight *)
(* under its own key, and startup (4.9) resolves it".  So a live order the  *)
(* executor left unknown with a hash in hand is settled by a later run.     *)
DeadlineResolves ==
  \A o \in LiveOrders \ Unbookable :
     (row[o].state = "unknown" /\ row[o].evidence \in {"named", "kept"})
       ~> row[o].state \in {"confirmed", "failed"}

-------------------------------------------------------------------------------
(* The inductive invariant: why the properties above hold.                  *)

(* A runner past the lock is the one its row names.                         *)
LockInv == \A r \in Runners : rpc[r] # "off" => lock = r

(* What a runner has read of the store and not yet acted on.                *)
WorkInv ==
  \A r \in Runners, o \in Orders :
     row[o].state \in Open =>
        /\ rpc[r] = "settle" => o \in work[r]
        /\ rpc[r] \in {"write", "wait"} => AuthorityOf[o] = job[r]

WriteInv ==
  \A r \in Runners :
     rpc[r] = "write" => \A o \in work[r] : AuthorityOf[o] = job[r]

(* A snapshot goes stale only forwards: an order seen filled is confirmed,  *)
(* one seen with chain evidence was sent by a treasurer that is done.       *)
SnapshotInv ==
  \A r \in Runners, o \in Orders :
     /\ o \in seenFilled[r] => row[o].state = "confirmed"
     /\ seen[r][o].evidence = "kept"
          => row[o].state \in {"unknown", "confirmed", "failed"}

RowInv ==
  \A o \in Orders :
     /\ row[o].state = "none" => row[o] = NoRow
     /\ row[o].evidence = "kept"
          => row[o].state \in {"unknown", "confirmed", "failed"}
     /\ o \in PaperOrders => row[o].state # "unknown"

Holds(t, o) == o \in todo[t] \/ cur[t] = o

(* A live order is one treasurer's only, and a runner writing its           *)
(* instruction is before any.  Without this, MOVES would let a treasurer    *)
(* that judged the order prepared submit it again once it is unknown.       *)
HoldInv ==
  /\ \A t \in Treasurers, o \in Orders :
        Holds(t, o) => row[o].state # "none"
  /\ \A t, u \in Treasurers, o \in LiveOrders :
        Holds(t, o) /\ Holds(u, o) => t = u
  /\ \A r \in Runners, t \in Treasurers, o \in LiveOrders :
        rpc[r] = "write" /\ AuthorityOf[o] = job[r] => ~Holds(t, o)

JudgeInv ==
  \A t \in Treasurers : tpc[t] = "judge" =>
     /\ cur[t] \in Orders
     /\ cur[t] \in LiveOrders => row[cur[t]].state \in {"prepared", "refused"}

Acting == {"send", "reply", "poll", "commit"}

(* An order being sent is submitted, unless it is paper and startup failed  *)
(* it under its treasurer's feet; and one treasurer alone is sending it.    *)
FlightInv ==
  /\ \A t \in Treasurers : tpc[t] \in Acting =>
        /\ cur[t] \in Orders
        /\ cur[t] \in LiveOrders => row[cur[t]].state = "submitted"
        /\ row[cur[t]].state \in {"submitted", "failed"}
        /\ tpc[t] = "send" => sends[cur[t]] = 0
        /\ tpc[t] \in {"reply", "poll"} => cur[t] \in LiveOrders
  /\ \A t, u \in Treasurers :
        tpc[t] \in Acting /\ tpc[u] \in Acting /\ cur[t] = cur[u] => t = u

(* What an executor holds is what may be booked.                            *)
Sound(o, out) ==
  /\ out.state \in {"confirmed", "failed", "unknown"}
  /\ out.fill = IF out.state = "confirmed" THEN 1 ELSE 0
  /\ out.fee  = IF out.state \in {"confirmed", "failed"} THEN GasOf(o) ELSE 0
  /\ o \in PaperOrders => out.state # "unknown"
  /\ o \in LiveOrders /\ out.state = "confirmed" => chain[o] = "deep_ok"
  /\ o \in LiveOrders /\ out.state = "failed" => chain[o] = "deep_bad"

OutcomeInv ==
  \A t \in Treasurers : tpc[t] = "commit" => Sound(cur[t], outcome[t])

IInv ==
  /\ TypeOK /\ LockInv /\ WorkInv /\ WriteInv /\ SnapshotInv /\ RowInv
  /\ HoldInv /\ JudgeInv /\ FlightInv /\ OutcomeInv
  /\ OneAuthorityOpen /\ BookedOnce /\ SentOnce /\ OutcomeEvidenced

=============================================================================
