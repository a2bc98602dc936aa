---------------------------- MODULE TreasuryProofs ----------------------------
(***************************************************************************)
(* The safety of the execution path, for every set of orders, authorities,  *)
(* runners and treasurers, every assignment of hosts and any number of      *)
(* crashes: IInv is inductive, so the properties the runs check on a small  *)
(* instance hold of all of them.  After the types, the argument goes by     *)
(* what a step does to one row of the orders table (StoreStep), to the      *)
(* runners, and to the treasurers.                                          *)
(***************************************************************************)
EXTENDS Treasury, TLAPS

-------------------------------------------------------------------------------
(* Types *)

(* The initial state is well typed.                                         *)
LEMMA InitTypeOK == Init => TypeOK
  BY DEF Init, TypeOK, Row, NoRow, States, Evidence, Outcomes, NoOutcome, Unbooked,
         RunnerStates, TreasStates, Kinds, ChainStates

(* A write of an outcome keeps the tables well typed.                       *)
LEMMA BookType ==
  ASSUME TypeOK, NEW o \in Orders, NEW out \in Outcomes, Book(o, out)
  PROVE  /\ row' \in [Orders -> Row]
         /\ fills' \in [Orders -> Nat]
         /\ fees' \in [Orders -> Nat]
  BY DEF TypeOK, Book, Row, Outcomes

(* Every outcome the code builds is one.                                    *)
LEMMA OutcomeTypes ==
  /\ \A s \in States, e \in Evidence : Unbooked(s, e) \in Outcomes
  /\ PaperOutcomes \subseteq Outcomes
  /\ \A e \in Evidence : Unsettled(e) \in Outcomes
<1>1. \A s \in States, e \in Evidence : Unbooked(s, e) \in Outcomes
  BY DEF Outcomes, Unbooked, Evidence
<1>2. PaperOutcomes \subseteq Outcomes
  BY DEF PaperOutcomes, Outcomes, Unbooked, States, Evidence
<1>3. \A e \in Evidence : Unsettled(e) \in Outcomes
  BY DEF Unsettled, Outcomes, Unbooked, States
<1> QED BY <1>1, <1>2, <1>3

(* What the chain evidences is an outcome.                                  *)
LEMMA ReadingType ==
  ASSUME NEW o \in Orders
  PROVE  Reading(o) \in Outcomes
<1>1. Unsettled("named") \in Outcomes /\ Unsettled("kept") \in Outcomes
  BY OutcomeTypes DEF Evidence
<1> QED BY <1>1 DEF Reading, GasOf, Outcomes, States, Evidence

(* What startup makes of an order is an outcome.                            *)
LEMMA RulingType ==
  ASSUME NEW r \in Runners, NEW o \in Orders
  PROVE  Ruling(r, o) \in Outcomes
  BY OutcomeTypes, ReadingType DEF Ruling, States, Evidence

(* A process that exits leaves well typed memory behind it.                 *)
LEMMA ExitedType ==
  ASSUME TypeOK, NEW t, Exited(t)
  PROVE  /\ tpc' \in [Treasurers -> TreasStates]
         /\ todo' \in [Treasurers -> SUBSET Orders]
         /\ cur' \in [Treasurers -> Orders \cup {Nobody}]
         /\ outcome' \in [Treasurers -> Outcomes]
<1>1. NoOutcome \in Outcomes
  BY DEF NoOutcome, Unbooked, Outcomes, States, Evidence
<1> QED BY <1>1 DEF Exited, TypeOK, TreasStates

(* A runner that is gone leaves well typed memory behind it.                *)
LEMMA ForgottenType ==
  ASSUME TypeOK, NEW r, Forgotten(r)
  PROVE  /\ rpc' \in [Runners -> RunnerStates]
         /\ kind' \in [Runners -> Kinds]
         /\ seen' \in [Runners -> [Orders -> Row]]
         /\ seenFilled' \in [Runners -> SUBSET Orders]
         /\ work' \in [Runners -> SUBSET Orders]
         /\ job' \in [Runners -> Authorities \cup {Nobody}]
         /\ child' \in [Runners -> Treasurers \cup {Nobody}]
<1>1. NoRow \in Row
  BY DEF NoRow, Row, States, Evidence
<1> QED BY <1>1 DEF Forgotten, TypeOK, RunnerStates, Kinds

(* A runner's step keeps every type.                                        *)
LEMMA RunnerType ==
  ASSUME TypeOK, NEW r \in Runners, RunnerStep(r)
  PROVE  TypeOK'
<1>1. ASSUME NEW k \in Kinds, Acquire(r, k) PROVE TypeOK'
  BY <1>1 DEF Acquire, At, TypeOK, store, localVars, treasVars, world, RunnerStates
<1>2. CASE ReadFills(r)
  BY <1>2 DEF ReadFills, At, TypeOK, store, treasVars, world, RunnerStates
<1>3. CASE ReadOrders(r)
  BY <1>3 DEF ReadOrders, At, TypeOK, store, treasVars, world, RunnerStates
<1>4. ASSUME NEW o \in Orders, Settle(r, o) PROVE TypeOK'
  BY <1>4, BookType, RulingType DEF Settle, TypeOK, treasVars, world
<1>5. ASSUME NEW o \in Orders, NotReady(r, o) PROVE TypeOK'
  BY <1>5, ForgottenType DEF NotReady, Release, TypeOK, store, treasVars, world
<1>6. ASSUME NEW o \in Orders, Write(r, o) PROVE TypeOK'
  <2>1. CASE row[o] = NoRow
    BY <1>6, <2>1, BookType, OutcomeTypes
       DEF Write, Move, TypeOK, treasVars, world, States, Evidence
  <2>2. CASE row[o] # NoRow
    BY <1>6, <2>2 DEF Write, TypeOK, store, treasVars, world
  <2> QED BY <2>1, <2>2
<1>7. ASSUME NEW a \in Authorities, Decide(r, a) PROVE TypeOK'
  BY <1>7 DEF Decide, At, TypeOK, store, treasVars, world, RunnerStates,
              NoRow, Row, States, Evidence
<1>8. CASE DecideNothing(r)
  BY <1>8, ForgottenType DEF DecideNothing, Release, TypeOK, store, treasVars, world
<1>9. ASSUME NEW t \in Treasurers, Spawn(r, t) PROVE TypeOK'
  BY <1>9 DEF Spawn, At, TypeOK, store, treasVars, world, RunnerStates, TreasStates
<1>10. CASE Collect(r)
  BY <1>10, ForgottenType DEF Collect, Release, TypeOK, store, treasVars, world
<1> QED
  BY <1>1, <1>2, <1>3, <1>4, <1>5, <1>6, <1>7, <1>8, <1>9, <1>10 DEF RunnerStep

(* A busy treasurer is running an order.                                    *)
LEMMA Busy ==
  ASSUME JudgeInv, FlightInv, TypeOK, NEW t \in Treasurers, tpc[t] \notin {"off", "next"}
  PROVE  cur[t] \in Orders
  BY DEF JudgeInv, FlightInv, TypeOK, TreasStates, Acting

(* A treasurer's step keeps every type: while it is busy it has an order.   *)
LEMMA TreasurerType ==
  ASSUME TypeOK, JudgeInv, FlightInv, NEW t \in Treasurers, TreasurerStep(t)
  PROVE  TypeOK'
<1>1. ASSUME NEW o \in Orders, Pick(t, o) PROVE TypeOK'
  BY <1>1 DEF Pick, TreasurerAt, TypeOK, store, runnerVars, world, TreasStates
<1>2. CASE Refuse(t)
  BY <1>2, Busy, BookType, OutcomeTypes
     DEF Refuse, Move, TreasurerAt, TypeOK, runnerVars, world, TreasStates, States, Evidence
<1>3. CASE Submit(t)
  <2>1. cur[t] \in Orders
    BY <1>3, Busy DEF Submit, TreasurerAt
  <2>2. Unbooked("submitted", "none") \in Outcomes
    BY OutcomeTypes DEF States, Evidence
  <2>3. Book(cur[t], Unbooked("submitted", "none"))
    BY <1>3 DEF Submit, Move
  <2>4. row' \in [Orders -> Row] /\ fills' \in [Orders -> Nat] /\ fees' \in [Orders -> Nat]
    BY <2>1, <2>2, <2>3, BookType
  <2> QED
    BY <1>3, <2>4 DEF Submit, TreasurerAt, TypeOK, runnerVars, world, TreasStates
<1>4. CASE FillOnPaper(t)
  BY <1>4, OutcomeTypes
     DEF FillOnPaper, TreasurerAt, TypeOK, store, runnerVars, world, TreasStates
<1>5. CASE Send(t)
  <2>1. cur[t] \in Orders
    BY <1>5, Busy DEF Send, TreasurerAt
  <2>2. chain' \in [Orders -> ChainStates]
    BY <1>5, <2>1 DEF Send, TypeOK, ChainStates
  <2>3. sends' \in [Orders -> Nat]
    BY <1>5, <2>1 DEF Send, TypeOK
  <2>4. tpc' \in [Treasurers -> TreasStates]
    BY <1>5 DEF Send, TreasurerAt, TypeOK, TreasStates
  <2> QED
    BY <1>5, <2>2, <2>3, <2>4 DEF Send, TypeOK, store, runnerVars
<1>6. CASE ReplyWithoutHash(t)
  BY <1>6, OutcomeTypes
     DEF ReplyWithoutHash, TreasurerAt, TypeOK, store, runnerVars, world,
         TreasStates, Evidence
<1>7. CASE ReplyWithHash(t)
  BY <1>7 DEF ReplyWithHash, TreasurerAt, TypeOK, store, runnerVars, world, TreasStates
<1>8. CASE Poll(t)
  BY <1>8, Busy, ReadingType
     DEF Poll, TreasurerAt, TypeOK, store, runnerVars, world, TreasStates
<1>9. CASE Commit(t)
  <2>1. cur[t] \in Orders /\ outcome[t] \in Outcomes
    BY <1>9, Busy DEF Commit, TreasurerAt, TypeOK
  <2>2. Book(cur[t], outcome[t])
    BY <1>9 DEF Commit
  <2>3. NoOutcome \in Outcomes
    BY DEF NoOutcome, Unbooked, Outcomes, States, Evidence
  <2> QED
    BY <1>9, <2>1, <2>2, <2>3, BookType
       DEF Commit, TreasurerAt, TypeOK, runnerVars, world, TreasStates
<1>10. CASE WriteRefused(t) \/ TreasurerEnds(t)
  BY <1>10, ExitedType DEF WriteRefused, TreasurerEnds, TypeOK, store, runnerVars, world
<1> QED
  BY <1>1, <1>2, <1>3, <1>4, <1>5, <1>6, <1>7, <1>8, <1>9, <1>10 DEF TreasurerStep

(* A crash keeps every type.                                                *)
LEMMA CrashType ==
  ASSUME TypeOK, Crash
  PROVE  TypeOK'
<1>1. ASSUME NEW r \in Runners, RunnerDies(r) PROVE TypeOK'
  BY <1>1, ForgottenType DEF RunnerDies, Release, TypeOK, store, treasVars, world
<1>2. ASSUME NEW r \in Runners, Timeout(r) PROVE TypeOK'
  BY <1>2, ForgottenType, ExitedType DEF Timeout, Release, TypeOK, store, world
<1>3. ASSUME NEW t \in Treasurers, TreasurerDies(t) PROVE TypeOK'
  BY <1>3, ExitedType DEF TreasurerDies, TypeOK, store, runnerVars, world
<1> QED BY <1>1, <1>2, <1>3 DEF Crash

(* A move of the chain keeps every type.                                    *)
LEMMA ChainType ==
  ASSUME TypeOK, NEW o \in LiveOrders, Mine(o) \/ Reorg(o) \/ Deepen(o)
  PROVE  TypeOK'
  BY OrdersAssumption
     DEF Mine, Reorg, Deepen, ChainMoves, TypeOK, store, runnerVars, treasVars, ChainStates

(* Every step keeps every type.                                             *)
LEMMA NextType ==
  ASSUME TypeOK, JudgeInv, FlightInv, [Next]_vars
  PROVE  TypeOK'
<1>1. CASE Next
  BY <1>1, RunnerType, TreasurerType, CrashType, ChainType DEF Next
<1>2. CASE UNCHANGED vars
  BY <1>2 DEF vars, TypeOK
<1> QED BY <1>1, <1>2


-------------------------------------------------------------------------------
(* Who moves what *)

(* The five steps that write to the store.                                  *)
LEMMA Writers ==
  ASSUME [Next]_vars
  PROVE  \/ UNCHANGED store
         \/ \E r \in Runners, o \in Orders : Settle(r, o) \/ Write(r, o)
         \/ \E t \in Treasurers : Refuse(t) \/ Submit(t) \/ Commit(t)
<1>1. CASE UNCHANGED vars
  BY <1>1 DEF vars, store
<1>2. ASSUME NEW r \in Runners, RunnerStep(r)
      PROVE  UNCHANGED store \/ \E o \in Orders : Settle(r, o) \/ Write(r, o)
  BY <1>2 DEF RunnerStep, Acquire, ReadFills, ReadOrders, NotReady, Decide,
              DecideNothing, Spawn, Collect
<1>3. ASSUME NEW t \in Treasurers, TreasurerStep(t)
      PROVE  UNCHANGED store \/ Refuse(t) \/ Submit(t) \/ Commit(t)
  BY <1>3 DEF TreasurerStep, Pick, FillOnPaper, Send, ReplyWithoutHash,
              ReplyWithHash, Poll, WriteRefused, TreasurerEnds
<1>4. ASSUME NEW o \in LiveOrders, Mine(o) \/ Reorg(o) \/ Deepen(o)
      PROVE  UNCHANGED store
  BY <1>4 DEF Mine, Reorg, Deepen
<1>5. CASE Crash
  BY <1>5 DEF Crash, RunnerDies, Timeout, TreasurerDies, store
<1> QED BY <1>1, <1>2, <1>3, <1>4, <1>5 DEF Next

(* Only runners touch what a runner knows.                                  *)
LEMMA RunnersOnly ==
  ASSUME [Next]_vars
  PROVE  \/ UNCHANGED runnerVars
         \/ \E r \in Runners : RunnerStep(r) \/ RunnerDies(r) \/ Timeout(r)
<1>1. CASE UNCHANGED vars
  BY <1>1 DEF vars, runnerVars
<1>2. ASSUME NEW t \in Treasurers, TreasurerStep(t) PROVE UNCHANGED runnerVars
  BY <1>2 DEF TreasurerStep, Pick, Refuse, Submit, FillOnPaper, Send, Poll,
              ReplyWithoutHash, ReplyWithHash, Commit, WriteRefused, TreasurerEnds
<1>3. ASSUME NEW o \in LiveOrders, Mine(o) \/ Reorg(o) \/ Deepen(o)
      PROVE  UNCHANGED runnerVars
  BY <1>3 DEF Mine, Reorg, Deepen
<1>4. ASSUME NEW t \in Treasurers, TreasurerDies(t) PROVE UNCHANGED runnerVars
  BY <1>4 DEF TreasurerDies
<1> QED BY <1>1, <1>2, <1>3, <1>4 DEF Next, Crash

(* Of the runners' steps, only starting and killing a treasurer touch one.  *)
LEMMA TreasurersOnly ==
  ASSUME [Next]_vars
  PROVE  \/ UNCHANGED treasVars
         \/ \E r \in Runners, t \in Treasurers : Spawn(r, t)
         \/ \E r \in Runners : Timeout(r)
         \/ \E t \in Treasurers : TreasurerStep(t) \/ TreasurerDies(t)
<1>1. CASE UNCHANGED vars
  BY <1>1 DEF vars, treasVars
<1>2. ASSUME NEW r \in Runners, RunnerStep(r)
      PROVE  UNCHANGED treasVars \/ \E t \in Treasurers : Spawn(r, t)
  BY <1>2 DEF RunnerStep, Acquire, ReadFills, ReadOrders, Settle, NotReady,
              Decide, DecideNothing, Write, Collect
<1>3. ASSUME NEW o \in LiveOrders, Mine(o) \/ Reorg(o) \/ Deepen(o)
      PROVE  UNCHANGED treasVars
  BY <1>3 DEF Mine, Reorg, Deepen
<1>4. ASSUME NEW r \in Runners, RunnerDies(r) PROVE UNCHANGED treasVars
  BY <1>4 DEF RunnerDies
<1> QED BY <1>1, <1>2, <1>3, <1>4 DEF Next, Crash

(* What the chain has settled stays settled, and only a send adds a send.   *)
Settled(o) == chain[o] \in {"deep_ok", "deep_bad"}

(* A swap that is final on chain stays as it is.                            *)
LEMMA ChainSettles ==
  ASSUME TypeOK, JudgeInv, FlightInv, [Next]_vars, NEW o \in Orders, Settled(o)
  PROVE  chain'[o] = chain[o]
<1>1. CASE UNCHANGED vars
  BY <1>1 DEF vars
<1>2. ASSUME NEW r \in Runners, RunnerStep(r) PROVE chain' = chain
  BY <1>2 DEF RunnerStep, Acquire, ReadFills, ReadOrders, Settle, NotReady,
              Decide, DecideNothing, Write, Spawn, Collect, world
<1>3. ASSUME NEW t \in Treasurers, Send(t) PROVE chain'[o] = chain[o]
  <2>1. cur[t] \in Orders
    BY <1>3, Busy DEF Send, TreasurerAt
  <2> QED BY <1>3, <2>1 DEF Send, Settled, TypeOK
<1>4. ASSUME NEW t \in Treasurers, TreasurerStep(t), ~Send(t) PROVE chain' = chain
  BY <1>4 DEF TreasurerStep, Pick, Refuse, Submit, FillOnPaper, Poll,
              ReplyWithoutHash, ReplyWithHash, Commit, WriteRefused,
              TreasurerEnds, world
<1>5. ASSUME NEW p \in LiveOrders, Mine(p) \/ Reorg(p) \/ Deepen(p)
      PROVE  chain'[o] = chain[o]
  BY <1>5, OrdersAssumption DEF Mine, Reorg, Deepen, ChainMoves, Settled, TypeOK
<1>6. CASE Crash
  BY <1>6 DEF Crash, RunnerDies, Timeout, TreasurerDies, world
<1> QED BY <1>1, <1>2, <1>3, <1>4, <1>5, <1>6 DEF Next

-------------------------------------------------------------------------------
(* What a step does to one row *)

Same(o) == row'[o] = row[o] /\ fills'[o] = fills[o] /\ fees'[o] = fees[o]

Prepared(o) ==
  /\ row[o] = NoRow /\ row'[o] = [state |-> "prepared", evidence |-> "none"]
  /\ fills'[o] = fills[o] /\ fees'[o] = fees[o]
  /\ \E r \in Runners : rpc[r] = "write" /\ o \in work[r]

Submitted(o) ==
  /\ row[o].state = "prepared"
  /\ row'[o] = [state |-> "submitted", evidence |-> "none"]
  /\ fills'[o] = fills[o] /\ fees'[o] = fees[o]
  /\ \E t \in Treasurers : tpc[t] = "judge" /\ tpc'[t] = "send" /\ cur[t] = o

Refused(o) ==
  /\ row[o].state = "prepared"
  /\ row'[o] = [state |-> "refused", evidence |-> "none"]
  /\ fills'[o] = fills[o] /\ fees'[o] = fees[o]

(* A treasurer booked what it made of the order; or startup settled a live  *)
(* order from the chain, or failed a paper order that was never filled.     *)
Ended(o) ==
  \E out \in Outcomes :
     /\ row[o].state \in {"submitted", "unknown"}
     /\ out.state \in Moves[row[o].state]
     /\ Sound(o, out)
     /\ row'[o] = [state |-> out.state, evidence |-> out.evidence]
     /\ fills'[o] = fills[o] + out.fill
     /\ fees'[o] = fees[o] + out.fee
     /\ \/ \E t \in Treasurers : tpc[t] = "commit" /\ cur[t] = o /\ tpc'[t] = "next"
        \/ o \in LiveOrders /\ row[o].state = "unknown"
        \/ o \in PaperOrders /\ out.state = "failed"

Change(o) == Same(o) \/ Prepared(o) \/ Submitted(o) \/ Refused(o) \/ Ended(o)

(* A write of one order's row is no change to another's.                    *)
LEMMA BookOthers ==
  ASSUME TypeOK, NEW o \in Orders, NEW out, Book(o, out),
         NEW p \in Orders, p # o
  PROVE  Same(p)
  BY DEF Book, Same, TypeOK

(* What a write makes of the order it is about.                             *)
LEMMA BookOne ==
  ASSUME TypeOK, NEW o \in Orders, NEW out, Book(o, out)
  PROVE  /\ row'[o] = [state |-> out.state, evidence |-> out.evidence]
         /\ fills'[o] = fills[o] + out.fill
         /\ fees'[o] = fees[o] + out.fee
  BY DEF Book, TypeOK

(* The move of a row to a state alone.                                      *)
LEMMA MoveOne ==
  ASSUME TypeOK, NEW o \in Orders, NEW s, Move(o, s)
  PROVE  /\ row'[o] = [state |-> s, evidence |-> "none"]
         /\ fills'[o] = fills[o] /\ fees'[o] = fees[o]
         /\ \A p \in Orders : p # o => Same(p)
<1>1. Book(o, [state |-> s, fill |-> 0, fee |-> 0, evidence |-> "none"])
  BY DEF Move, Unbooked
<1>2. fills[o] \in Nat /\ fees[o] \in Nat
  BY DEF TypeOK
<1> QED BY <1>1, <1>2, BookOne, BookOthers

(* MOVES, read backwards: where a row that moves was.                       *)
LEMMA MovesFrom ==
  ASSUME NEW s \in States, NEW n \in Moves[s]
  PROVE  /\ s \in Open /\ n \in States \ {"none", "prepared"}
         /\ n \in {"refused"} => s = "prepared"
         /\ n \in {"confirmed", "failed"} => s \in {"submitted", "unknown"}
         /\ n = "unknown" => s = "submitted"
         /\ n = "submitted" => s \in {"prepared", "unknown"}
  BY DEF Moves, States, Open

(* What the chain evidences of a live order is sound to book.               *)
LEMMA ReadingSound ==
  ASSUME TypeOK, NEW o \in LiveOrders
  PROVE  Sound(o, Reading(o))
<1>1. /\ chain[o] \in ChainStates /\ o \notin PaperOrders
      /\ \A e \in Evidence : Unsettled(e)
            = [state |-> "unknown", fill |-> 0, fee |-> 0, evidence |-> e]
  BY OrdersAssumption DEF TypeOK, PaperOrders, Unsettled, Unbooked
<1> QED BY <1>1 DEF Sound, Reading, GasOf, ChainStates, Evidence

(* Startup settles a live order from a final reading of the chain only, and *)
(* a stale snapshot moves no row it should not.                             *)
LEMMA SettleSound ==
  ASSUME IInv, NEW r \in Runners, NEW o \in Orders, Settle(r, o)
  PROVE  Refused(o) \/ Ended(o)
<1> DEFINE out == Ruling(r, o)
<1>1. /\ out \in Outcomes /\ TypeOK /\ row[o].state \in States
      /\ fills[o] \in Nat /\ fees[o] \in Nat
      /\ out.state # "unknown" /\ out.state \in Moves[row[o].state]
      /\ row'[o] = [state |-> out.state, evidence |-> out.evidence]
      /\ fills'[o] = fills[o] + out.fill
      /\ fees'[o] = fees[o] + out.fee
  BY RulingType, BookOne DEF IInv, Settle, Bookable, TypeOK, Row
<1>2. o \notin seenFilled[r]
  BY <1>1, MovesFrom DEF IInv, SnapshotInv, Open
<1>3. CASE seen[r][o].state = "prepared"
  <2>1. out = [state |-> "refused", fill |-> 0, fee |-> 0, evidence |-> "none"]
    BY <1>3 DEF Ruling, Unbooked
  <2>2. row[o].state = "prepared"
    BY <1>1, <2>1, MovesFrom
  <2>3. fills'[o] = fills[o] /\ fees'[o] = fees[o]
    BY <1>1, <2>1
  <2> HIDE DEF out
  <2> QED BY <1>1, <2>1, <2>2, <2>3 DEF Refused
<1>4. CASE seen[r][o].state # "prepared" /\ o \notin LiveOrders
  <2>1. out = [state |-> "failed", fill |-> 0, fee |-> 0, evidence |-> "none"]
    BY <1>4, <1>2 DEF Ruling, Unbooked, PaperOrders
  <2>2. Sound(o, out)
    BY <2>1, <1>4, OrdersAssumption DEF Sound, GasOf
  <2> QED BY <1>1, <1>4, <2>1, <2>2, MovesFrom DEF Ended, PaperOrders
<1>5. CASE seen[r][o].state # "prepared" /\ o \in LiveOrders
  <2>1. out = Reading(o) /\ seen[r][o].evidence = "kept"
    BY <1>1, <1>2, <1>5 DEF Ruling, Unsettled, Unbooked, PaperOrders
  <2>2. row[o].state = "unknown"
    BY <1>1, <2>1, MovesFrom DEF IInv, SnapshotInv, Open
  <2>3. Sound(o, out)
    BY <1>1, <1>5, <2>1, ReadingSound
  <2> QED BY <1>1, <1>5, <2>2, <2>3 DEF Ended
<1> QED BY <1>3, <1>4, <1>5

(* An order startup settles is not open after it.                           *)
LEMMA SettleEnds ==
  ASSUME IInv, NEW r \in Runners, NEW o \in Orders, Settle(r, o)
  PROVE  row'[o].state \notin Open
<1> DEFINE out == Ruling(r, o)
<1>1. TypeOK /\ out.state # "unknown"
  BY DEF IInv, Settle
<1>5. row'[o] = [state |-> out.state, evidence |-> out.evidence]
  BY <1>1, BookOne DEF Settle
<1>2. chain[o] \in ChainStates
  BY <1>1 DEF TypeOK
<1>3. Reading(o).state \in {"confirmed", "failed", "unknown"}
  <2>1. \A e \in Evidence : Unsettled(e).state = "unknown"
    BY DEF Unsettled, Unbooked
  <2> QED BY <1>2, <2>1 DEF Reading, ChainStates, Evidence
<1>4. out.state \in {"refused", "confirmed", "failed", "unknown"}
  BY <1>3 DEF Ruling, Unbooked, Unsettled
<1> HIDE DEF out
<1> QED BY <1>1, <1>5, <1>4 DEF Open

(* Every step makes one of five changes of each row.                        *)
LEMMA StoreStep ==
  ASSUME IInv, [Next]_vars
  PROVE  \A o \in Orders : Change(o)
<1> USE DEF Change
<1>1. CASE UNCHANGED store
  BY <1>1 DEF store, Same
<1>2. ASSUME NEW r \in Runners, NEW p \in Orders, Settle(r, p)
      PROVE  \A o \in Orders : Change(o)
  BY <1>2, SettleSound, BookOthers DEF Settle, IInv
<1>3. ASSUME NEW r \in Runners, NEW p \in Orders, Write(r, p)
      PROVE  \A o \in Orders : Change(o)
  <2>1. CASE row[p] = NoRow
    BY <1>3, <2>1, MoveOne DEF Write, Prepared, IInv
  <2>2. CASE row[p] # NoRow
    BY <1>3, <2>2 DEF Write, store, Same
  <2> QED BY <2>1, <2>2
<1>4. ASSUME NEW t \in Treasurers, Refuse(t) PROVE \A o \in Orders : Change(o)
  <2>1. cur[t] \in Orders /\ row[cur[t]].state \in States
    BY <1>4, Busy DEF Refuse, TreasurerAt, IInv, TypeOK, Row
  <2>2. row[cur[t]].state = "prepared"
    BY <1>4, <2>1, MovesFrom DEF Refuse
  <2> QED BY <1>4, <2>1, <2>2, MoveOne DEF Refuse, Refused, IInv
<1>5. ASSUME NEW t \in Treasurers, Submit(t) PROVE \A o \in Orders : Change(o)
  <2>1. /\ cur[t] \in Orders /\ row[cur[t]].state \in States
        /\ tpc[t] = "judge" /\ tpc'[t] = "send"
    BY <1>5, Busy DEF Submit, TreasurerAt, IInv, TypeOK, Row
  <2>2. row[cur[t]].state \in {"prepared", "unknown"}
    BY <1>5, <2>1, MovesFrom DEF Submit
  <2>3. row[cur[t]].state = "prepared"
    BY <2>1, <2>2 DEF IInv, JudgeInv, RowInv, PaperOrders
  <2> QED BY <1>5, <2>1, <2>3, MoveOne DEF Submit, Submitted, IInv
<1>6. ASSUME NEW t \in Treasurers, Commit(t) PROVE \A o \in Orders : Change(o)
  <2>1. /\ cur[t] \in Orders /\ outcome[t] \in Outcomes
        /\ tpc[t] = "commit" /\ tpc'[t] = "next"
        /\ row[cur[t]].state \in States
    BY <1>6, Busy DEF Commit, TreasurerAt, IInv, TypeOK, Row
  <2>2. Sound(cur[t], outcome[t]) /\ row[cur[t]].state \in {"submitted", "failed"}
    BY <2>1 DEF IInv, OutcomeInv, FlightInv, Acting
  <2>3. outcome[t].state \in Moves[row[cur[t]].state] /\ Book(cur[t], outcome[t])
    BY <1>6 DEF Commit, Bookable
  <2>4. row[cur[t]].state = "submitted"
    BY <2>1, <2>2, <2>3, MovesFrom DEF Open
  <2>5. Ended(cur[t])
    BY <2>1, <2>2, <2>3, <2>4, BookOne DEF IInv, Ended
  <2> QED BY <2>1, <2>3, <2>5, BookOthers DEF IInv
<1> QED BY Writers, <1>1, <1>2, <1>3, <1>4, <1>5, <1>6

(* What the tables hold of an order stays consistent.                       *)
LEMMA RowStep ==
  ASSUME IInv, [Next]_vars
  PROVE  RowInv' /\ BookedOnce' /\ OutcomeEvidenced'
<1> SUFFICES ASSUME NEW o \in Orders
    PROVE /\ row'[o].state = "none" => row'[o] = NoRow
          /\ row'[o].evidence = "kept"
               => row'[o].state \in {"unknown", "confirmed", "failed"}
          /\ o \in PaperOrders => row'[o].state # "unknown"
          /\ fills'[o] = IF row'[o].state = "confirmed" THEN 1 ELSE 0
          /\ fees'[o]  = IF row'[o].state \in {"confirmed", "failed"}
                           THEN GasOf(o) ELSE 0
          /\ o \in LiveOrders =>
               /\ row'[o].state = "confirmed" => chain'[o] = "deep_ok"
               /\ row'[o].state = "failed"    => chain'[o] = "deep_bad"
  BY OrdersAssumption DEF RowInv, BookedOnce, OutcomeEvidenced, PaperOrders, GasOf
<1>1. /\ TypeOK /\ JudgeInv /\ FlightInv /\ row[o] \in Row
      /\ GasOf(o) \in {0, 1}
      /\ chain[o] \in {"deep_ok", "deep_bad"} => chain'[o] = chain[o]
  BY ChainSettles DEF IInv, TypeOK, Settled, GasOf
<1>2. CASE Same(o)
  BY <1>1, <1>2 DEF IInv, Same, RowInv, BookedOnce, OutcomeEvidenced
<1>3. CASE Prepared(o) \/ Submitted(o) \/ Refused(o)
  BY <1>1, <1>3 DEF IInv, Prepared, Submitted, Refused, NoRow, BookedOnce
<1>4. CASE Ended(o)
  BY <1>1, <1>4 DEF IInv, Ended, Sound, BookedOnce
<1> QED BY <1>2, <1>3, <1>4, StoreStep DEF Change

(* An order never goes back to being unwritten, and never leaves its end.   *)
LEMMA RowGoesOn ==
  ASSUME IInv, [Next]_vars, NEW o \in Orders
  PROVE  /\ row[o].state # "none" => row'[o].state # "none"
         /\ row[o].state = "confirmed" => row'[o] = row[o]
         /\ row[o].state \in {"unknown", "confirmed", "failed"}
              => row'[o].state \in {"unknown", "confirmed", "failed"}
         /\ row[o].state # "none" /\ row'[o].state \in Open => row[o].state \in Open
<1>1. Change(o) /\ row[o] \in Row
  BY StoreStep DEF IInv, TypeOK
<1>2. CASE Ended(o)
  BY <1>1, <1>2 DEF Ended, Sound, Open
<1> QED BY <1>1, <1>2 DEF Change, Same, Prepared, Submitted, Refused, NoRow, Open

-------------------------------------------------------------------------------
(* The runners *)

(* Two runners that are both past the lock are one.                         *)
LEMMA Alone ==
  ASSUME LockInv, NEW r \in Runners, NEW s \in Runners,
         rpc[r] # "off", rpc[s] # "off"
  PROVE  r = s
  BY DEF LockInv

(* A lock is taken over only from a process that is gone.                   *)
LEMMA LockStep ==
  ASSUME IInv, [Next]_vars
  PROVE  LockInv'
<1> USE DEF IInv, TypeOK
<1>1. CASE UNCHANGED runnerVars
  BY <1>1 DEF runnerVars, LockInv
<1>2. ASSUME NEW r \in Runners, NEW k \in Kinds, Acquire(r, k) PROVE LockInv'
  <2> SUFFICES ASSUME NEW s \in Runners, rpc'[s] # "off", s # r PROVE FALSE
    BY <1>2 DEF Acquire, LockInv
  <2>1. rpc[s] # "off" /\ lock = s
    BY <1>2 DEF Acquire, At, LockInv
  <2> QED BY <1>2, <2>1, NobodyAssumption DEF Acquire, MayOwn
<1>3. ASSUME NEW r \in Runners, Forgotten(r), lock' = lock \/ Release(r) PROVE LockInv'
  BY <1>3 DEF Release, Forgotten, LockInv
<1>4. ASSUME NEW r \in Runners, rpc[r] # "off", lock' = lock,
             \E pc \in RunnerStates : rpc' = [rpc EXCEPT ![r] = pc]
      PROVE  LockInv'
  BY <1>4 DEF LockInv
<1>5. ASSUME NEW r \in Runners, RunnerStep(r) PROVE LockInv'
  <2>1. CASE ReadFills(r) \/ ReadOrders(r)
    BY <2>1, <1>4 DEF ReadFills, ReadOrders, At, RunnerStates
  <2>2. ASSUME NEW o \in Orders, Settle(r, o) \/ Write(r, o) PROVE LockInv'
    BY <2>2 DEF Settle, Write, LockInv
  <2>3. ASSUME NEW o \in Orders, NotReady(r, o) PROVE LockInv'
    BY <2>3, <1>3 DEF NotReady, Release
  <2>4. ASSUME NEW a \in Authorities, Decide(r, a) PROVE LockInv'
    BY <2>4, <1>4 DEF Decide, At, RunnerStates
  <2>5. CASE DecideNothing(r) \/ Collect(r)
    BY <2>5, <1>3 DEF DecideNothing, Collect, Release
  <2>6. ASSUME NEW t \in Treasurers, Spawn(r, t) PROVE LockInv'
    BY <2>6, <1>4 DEF Spawn, At, RunnerStates
  <2> QED BY <1>2, <1>5, <2>1, <2>2, <2>3, <2>4, <2>5, <2>6 DEF RunnerStep
<1>6. ASSUME NEW r \in Runners, RunnerDies(r) \/ Timeout(r) PROVE LockInv'
  BY <1>6, <1>3 DEF RunnerDies, Timeout, Release
<1> QED BY RunnersOnly, <1>1, <1>5, <1>6

(* An open row was open, or a runner alone with the lock is writing it.     *)
LEMMA OpenFrom ==
  ASSUME IInv, [Next]_vars, NEW o \in Orders, row'[o].state \in Open
  PROVE  \/ row[o].state \in Open
         \/ \E r \in Runners : rpc[r] = "write" /\ AuthorityOf[o] = job[r]
<1>1. Change(o)
  BY StoreStep
<1>2. CASE Prepared(o)
  BY <1>2 DEF Prepared, IInv, WriteInv
<1>3. CASE ~Prepared(o)
  BY <1>1, <1>3 DEF Change, Same, Submitted, Refused, Ended, Sound, Open
<1> QED BY <1>2, <1>3

(* What one runner is about, when its step leaves the others as they were.  *)
About(s) == rpc'[s] = rpc[s] /\ work'[s] = work[s] /\ job'[s] = job[s]

(* A runner's step leaves what the other runners know.                      *)
LEMMA OneRunnerMoves ==
  ASSUME TypeOK, NEW r \in Runners, RunnerStep(r) \/ RunnerDies(r) \/ Timeout(r),
         NEW s \in Runners, s # r
  PROVE  About(s) /\ seen'[s] = seen[s] /\ seenFilled'[s] = seenFilled[s]
<1> USE DEF About, TypeOK
<1>1. CASE \E k \in Kinds : Acquire(r, k)
  BY <1>1 DEF Acquire, At, localVars
<1>2. CASE ReadFills(r) \/ ReadOrders(r)
  BY <1>2 DEF ReadFills, ReadOrders, At
<1>3. CASE \E o \in Orders : Settle(r, o) \/ Write(r, o)
  BY <1>3 DEF Settle, Write
<1>4. CASE \E a \in Authorities : Decide(r, a)
  BY <1>4 DEF Decide, At
<1>5. CASE \E t \in Treasurers : Spawn(r, t)
  BY <1>5 DEF Spawn, At
<1>6. CASE Forgotten(r)
  BY <1>6 DEF Forgotten
<1> QED
  BY <1>1, <1>2, <1>3, <1>4, <1>5, <1>6
     DEF RunnerStep, NotReady, DecideNothing, Collect, RunnerDies, Timeout, Release

(* A runner's list of open orders misses none that opens meanwhile.         *)
LEMMA WorkStep ==
  ASSUME IInv, [Next]_vars
  PROVE  WorkInv'
<1> SUFFICES ASSUME NEW s \in Runners, NEW o \in Orders, row'[o].state \in Open
    PROVE /\ rpc'[s] = "settle" => o \in work'[s]
          /\ rpc'[s] \in {"write", "wait"} => AuthorityOf[o] = job'[s]
  BY DEF WorkInv
<1>0. TypeOK /\ LockInv /\ WorkInv /\ WriteInv
  BY DEF IInv
<1>1. \/ row[o].state \in Open
      \/ \E r \in Runners : rpc[r] = "write" /\ AuthorityOf[o] = job[r]
  BY OpenFrom
<1>2. CASE About(s)
  <2>1. CASE row[o].state \in Open
    BY <1>0, <1>2, <2>1 DEF About, WorkInv
  <2>2. ASSUME NEW r \in Runners, rpc[r] = "write", AuthorityOf[o] = job[r],
               rpc[s] # "off"
        PROVE  rpc[s] = "write" /\ AuthorityOf[o] = job[s]
    BY <1>0, <2>2, Alone
  <2> QED BY <1>1, <1>2, <2>1, <2>2 DEF About
<1>3. CASE UNCHANGED runnerVars
  BY <1>2, <1>3 DEF runnerVars, About
<1>4. CASE RunnerStep(s)
  <2>1. CASE \E k \in Kinds : Acquire(s, k)
    BY <1>0, <2>1 DEF Acquire, At, TypeOK
  <2>2. CASE ReadFills(s)
    BY <1>0, <2>2 DEF ReadFills, At, TypeOK
  <2>3. CASE ReadOrders(s)
    BY <1>0, <2>3 DEF ReadOrders, At, TypeOK, store
  <2>4. ASSUME NEW p \in Orders, Settle(s, p)
        PROVE  rpc'[s] = "settle" /\ o \in work'[s]
    <3>1. row[o].state \in Open /\ rpc[s] = "settle" /\ rpc' = rpc
      BY <1>0, <1>1, <2>4, Alone DEF Settle
    <3>2. o # p
      BY <2>4, SettleEnds
    <3> QED BY <1>0, <2>4, <3>1, <3>2 DEF Settle, WorkInv, TypeOK
  <2>5. ASSUME NEW p \in Orders, Write(s, p)
        PROVE  rpc'[s] = "write" /\ AuthorityOf[o] = job'[s]
    <3>1. \A r \in Runners : rpc[r] = "write" => r = s
      BY <1>0, <2>5, Alone DEF Write
    <3> QED BY <1>0, <1>1, <2>5, <3>1 DEF Write, WorkInv
  <2>6. ASSUME NEW a \in Authorities, Decide(s, a) PROVE FALSE
    <3>1. row[o].state \in Open /\ rpc[s] = "settle" /\ work[s] = {}
      BY <1>0, <1>1, <2>6, Alone DEF Decide, At
    <3> QED BY <1>0, <3>1 DEF WorkInv
  <2>7. ASSUME NEW t \in Treasurers, Spawn(s, t)
        PROVE  rpc'[s] = "wait" /\ AuthorityOf[o] = job'[s]
    <3>1. \A r \in Runners : rpc[r] = "write" => r = s
      BY <1>0, <2>7, Alone DEF Spawn, At
    <3> QED BY <1>0, <1>1, <2>7, <3>1 DEF Spawn, At, WorkInv, TypeOK
  <2>8. CASE Forgotten(s)
    BY <1>0, <2>8 DEF Forgotten, TypeOK
  <2> QED
    BY <1>4, <2>1, <2>2, <2>3, <2>4, <2>5, <2>6, <2>7, <2>8
       DEF RunnerStep, NotReady, DecideNothing, Collect, Release
<1>5. CASE RunnerDies(s) \/ Timeout(s)
  BY <1>0, <1>5 DEF RunnerDies, Timeout, Release, Forgotten, TypeOK
<1> QED BY <1>0, <1>2, <1>3, <1>4, <1>5, RunnersOnly, OneRunnerMoves

(* A runner writes the orders of its authority alone.                       *)
LEMMA WriteStep ==
  ASSUME IInv, [Next]_vars
  PROVE  WriteInv'
<1> SUFFICES ASSUME NEW s \in Runners, rpc'[s] = "write", NEW o \in work'[s]
    PROVE AuthorityOf[o] = job'[s]
  BY DEF WriteInv
<1>0. TypeOK /\ WriteInv
  BY DEF IInv
<1>1. CASE About(s)
  BY <1>0, <1>1 DEF About, WriteInv
<1>2. CASE UNCHANGED runnerVars
  BY <1>1, <1>2 DEF runnerVars, About
<1>3. CASE RunnerStep(s)
  <2>1. CASE \E p \in Orders : Write(s, p)
    BY <1>0, <2>1 DEF Write, WriteInv, TypeOK
  <2>2. CASE \E a \in Authorities : Decide(s, a)
    BY <1>0, <2>2 DEF Decide, TypeOK
  <2>3. CASE \/ \E k \in Kinds : Acquire(s, k)
             \/ ReadFills(s) \/ ReadOrders(s)
             \/ \E t \in Treasurers : Spawn(s, t)
    BY <1>0, <2>3 DEF Acquire, ReadFills, ReadOrders, Spawn, At, TypeOK
  <2>4. CASE \E p \in Orders : Settle(s, p)
    BY <1>0, <2>4 DEF Settle
  <2>5. CASE Forgotten(s)
    BY <1>0, <2>5 DEF Forgotten, TypeOK
  <2> QED
    BY <1>3, <2>1, <2>2, <2>3, <2>4, <2>5
       DEF RunnerStep, NotReady, DecideNothing, Collect, Release
<1>4. CASE RunnerDies(s) \/ Timeout(s)
  BY <1>0, <1>4 DEF RunnerDies, Timeout, Release, Forgotten, TypeOK
<1> QED BY <1>0, <1>1, <1>2, <1>3, <1>4, RunnersOnly, OneRunnerMoves

(* A snapshot goes stale only forwards, while orphans go on booking.        *)
LEMMA SnapshotStep ==
  ASSUME IInv, [Next]_vars
  PROVE  SnapshotInv'
<1> SUFFICES ASSUME NEW s \in Runners, NEW o \in Orders
    PROVE /\ o \in seenFilled'[s] => row'[o].state = "confirmed"
          /\ seen'[s][o].evidence = "kept"
               => row'[o].state \in {"unknown", "confirmed", "failed"}
  BY DEF SnapshotInv
<1>0. TypeOK /\ SnapshotInv /\ RowInv /\ BookedOnce
  BY DEF IInv
<1>1. CASE seen'[s] = seen[s] /\ seenFilled'[s] = seenFilled[s]
  BY <1>0, <1>1, RowGoesOn DEF SnapshotInv
<1>2. CASE RunnerStep(s)
  <2>1. CASE ReadFills(s)
    BY <1>0, <1>1, <2>1 DEF ReadFills, BookedOnce, SnapshotInv, TypeOK, store
  <2>2. CASE ReadOrders(s)
    BY <1>0, <2>2 DEF ReadOrders, RowInv, SnapshotInv, TypeOK, store
  <2>3. CASE \E a \in Authorities : Decide(s, a)
    BY <1>0, <2>3 DEF Decide, NoRow, TypeOK
  <2>4. CASE Forgotten(s)
    BY <1>0, <2>4 DEF Forgotten, NoRow, TypeOK
  <2>5. CASE \/ \E k \in Kinds : Acquire(s, k)
             \/ \E p \in Orders : Settle(s, p) \/ Write(s, p)
             \/ \E t \in Treasurers : Spawn(s, t)
    BY <1>1, <2>5 DEF Acquire, localVars, Settle, Write, Spawn
  <2> QED
    BY <1>2, <2>1, <2>2, <2>3, <2>4, <2>5
       DEF RunnerStep, NotReady, DecideNothing, Collect, Release
<1>3. CASE RunnerDies(s) \/ Timeout(s)
  BY <1>0, <1>3 DEF RunnerDies, Timeout, Release, Forgotten, NoRow, TypeOK
<1>4. CASE UNCHANGED runnerVars
  BY <1>1, <1>4 DEF runnerVars
<1> QED BY <1>0, <1>1, <1>2, <1>3, <1>4, RunnersOnly, OneRunnerMoves

(* Two orders are opened side by side only under one authority.             *)
LEMMA AuthorityStep ==
  ASSUME IInv, [Next]_vars
  PROVE  OneAuthorityOpen'
<1> SUFFICES ASSUME NEW o \in Orders, NEW p \in Orders,
                    row'[o].state \in Open, row'[p].state \in Open
    PROVE AuthorityOf[o] = AuthorityOf[p]
  BY DEF OneAuthorityOpen
<1> DEFINE Writing(q) ==
       \E r \in Runners : rpc[r] = "write" /\ AuthorityOf[q] = job[r]
<1>1. /\ row[o].state \in Open \/ Writing(o)
      /\ row[p].state \in Open \/ Writing(p)
  BY OpenFrom
<1>2. CASE row[o].state \in Open /\ row[p].state \in Open
  BY <1>2 DEF IInv, OneAuthorityOpen
<1>3. ASSUME NEW q \in Orders, row[q].state \in Open, NEW r \in Runners,
             rpc[r] = "write"
      PROVE  AuthorityOf[q] = job[r]
  BY <1>3 DEF IInv, WorkInv
<1>4. CASE Writing(o) /\ Writing(p)
  BY <1>4, Alone DEF IInv
<1> QED BY <1>1, <1>2, <1>3, <1>4

-------------------------------------------------------------------------------
(* The treasurers *)

StillAt(t) == tpc'[t] = tpc[t] /\ cur'[t] = cur[t] /\ outcome'[t] = outcome[t]

(* A treasurer moves by its own steps, or it is started or ended.           *)
LEMMA OneTreasurerMoves ==
  ASSUME TypeOK, [Next]_vars, NEW t \in Treasurers
  PROVE  StillAt(t) \/ tpc'[t] \in {"off", "next"} \/ TreasurerStep(t)
<1> USE DEF StillAt, TypeOK
<1>1. CASE UNCHANGED treasVars
  BY <1>1 DEF treasVars
<1>2. ASSUME NEW r \in Runners, NEW u \in Treasurers, Spawn(r, u)
      PROVE  StillAt(t) \/ tpc'[t] = "next"
  BY <1>2 DEF Spawn
<1>3. ASSUME NEW u, Exited(u) PROVE StillAt(t) \/ tpc'[t] = "off"
  BY <1>3 DEF Exited
<1>4. ASSUME NEW u \in Treasurers, TreasurerStep(u), u # t PROVE StillAt(t)
  <2>1. CASE WriteRefused(u) \/ TreasurerEnds(u)
    BY <1>4, <2>1 DEF WriteRefused, TreasurerEnds, Exited
  <2>2. CASE \E o \in Orders : Pick(u, o)
    BY <1>4, <2>2 DEF Pick, TreasurerAt
  <2>3. CASE Refuse(u) \/ Submit(u) \/ Commit(u)
    BY <1>4, <2>3 DEF Refuse, Submit, Commit, TreasurerAt
  <2>4. CASE \/ FillOnPaper(u) \/ Send(u) \/ Poll(u)
             \/ ReplyWithoutHash(u) \/ ReplyWithHash(u)
    BY <1>4, <2>4
       DEF FillOnPaper, Send, Poll, ReplyWithoutHash, ReplyWithHash, TreasurerAt
  <2> QED BY <1>4, <2>1, <2>2, <2>3, <2>4 DEF TreasurerStep
<1> QED
  BY <1>1, <1>2, <1>3, <1>4, TreasurersOnly DEF Timeout, TreasurerDies

(* A treasurer submits prepared orders alone, though MOVES allows more.     *)
LEMMA SubmitPrepared ==
  ASSUME IInv, NEW t \in Treasurers, Submit(t)
  PROVE  /\ cur[t] \in Orders /\ row[cur[t]].state = "prepared"
         /\ tpc[t] = "judge" /\ tpc'[t] = "send"
<1>1. /\ cur[t] \in Orders /\ row[cur[t]].state \in States
      /\ tpc[t] = "judge" /\ tpc'[t] = "send"
  BY Busy DEF Submit, TreasurerAt, IInv, TypeOK, Row
<1>2. row[cur[t]].state \in {"prepared", "unknown"}
  BY <1>1, MovesFrom DEF Submit
<1> QED BY <1>1, <1>2 DEF IInv, JudgeInv, RowInv, PaperOrders

(* A treasurer holds what its authority's runner wrote before starting it.  *)
LEMMA HoldFrom ==
  ASSUME TypeOK, [Next]_vars, NEW t \in Treasurers, NEW o \in Orders, Holds(t, o)'
  PROVE  \/ Holds(t, o)
         \/ \E r \in Runners : /\ Spawn(r, t)
                               /\ AuthorityOf[o] = job[r] /\ row[o] # NoRow
<1> USE DEF Holds, TypeOK
<1>1. CASE UNCHANGED treasVars
  BY <1>1 DEF treasVars
<1>2. ASSUME NEW r \in Runners, NEW u \in Treasurers, Spawn(r, u)
      PROVE  Holds(t, o) \/ (u = t /\ AuthorityOf[o] = job[r] /\ row[o] # NoRow)
  BY <1>2 DEF Spawn
<1>3. ASSUME NEW u, Exited(u) PROVE Holds(t, o)
  BY <1>3, NobodyAssumption DEF Exited
<1>4. ASSUME NEW u \in Treasurers, TreasurerStep(u) PROVE Holds(t, o)
  <2>1. CASE \E p \in Orders : Pick(u, p)
    BY <2>1 DEF Pick
  <2>2. CASE Refuse(u) \/ Commit(u)
    BY <2>2, NobodyAssumption DEF Refuse, Commit
  <2>3. CASE \/ Submit(u) \/ FillOnPaper(u) \/ Send(u) \/ Poll(u)
             \/ ReplyWithoutHash(u) \/ ReplyWithHash(u)
    BY <2>3 DEF Submit, FillOnPaper, Send, Poll, ReplyWithoutHash, ReplyWithHash
  <2> QED BY <1>3, <1>4, <2>1, <2>2, <2>3 DEF TreasurerStep, WriteRefused, TreasurerEnds
<1> QED
  BY <1>1, <1>2, <1>3, <1>4, TreasurersOnly DEF Timeout, TreasurerDies

(* A runner writes from the moment it decided.                              *)
LEMMA WriteFrom ==
  ASSUME TypeOK, [Next]_vars, NEW s \in Runners, rpc'[s] = "write"
  PROVE  \/ rpc[s] = "write" /\ job'[s] = job[s]
         \/ \E a \in Authorities : Decide(s, a)
<1>1. CASE About(s)
  BY <1>1 DEF About
<1>2. CASE UNCHANGED runnerVars
  BY <1>2 DEF runnerVars
<1>3. CASE Forgotten(s)
  BY <1>3 DEF Forgotten, TypeOK
<1>4. CASE RunnerStep(s)
  <2>1. CASE \E o \in Orders : Settle(s, o) \/ Write(s, o)
    BY <2>1 DEF Settle, Write
  <2>2. CASE \/ \E k \in Kinds : Acquire(s, k)
             \/ ReadFills(s) \/ ReadOrders(s)
             \/ \E t \in Treasurers : Spawn(s, t)
    BY <2>2 DEF Acquire, ReadFills, ReadOrders, Spawn, At, TypeOK
  <2> QED
    BY <1>3, <1>4, <2>1, <2>2
       DEF RunnerStep, NotReady, DecideNothing, Collect, Release
<1> QED
  BY <1>1, <1>2, <1>3, <1>4, RunnersOnly, OneRunnerMoves
     DEF RunnerDies, Timeout, Release

(* A live order stays one treasurer's.                                      *)
LEMMA HoldStep ==
  ASSUME IInv, [Next]_vars
  PROVE  HoldInv'
<1>0. TypeOK /\ LockInv /\ RowInv /\ HoldInv
  BY DEF IInv
<1>1. ASSUME NEW t \in Treasurers, NEW o \in Orders, Holds(t, o)'
      PROVE  row'[o].state # "none"
  BY <1>0, <1>1, HoldFrom, RowGoesOn DEF RowInv, HoldInv
<1>2. ASSUME NEW t \in Treasurers, NEW u \in Treasurers, NEW o \in LiveOrders,
             Holds(t, o)', Holds(u, o)'
      PROVE  t = u
  <2>1. ASSUME NEW r \in Runners, Spawn(r, t), AuthorityOf[o] = job[r]
        PROVE  ~Holds(u, o)
    BY <1>0, <2>1 DEF HoldInv, Spawn, At
  <2>2. ASSUME NEW r \in Runners, Spawn(r, u), AuthorityOf[o] = job[r]
        PROVE  ~Holds(t, o)
    BY <1>0, <2>2 DEF HoldInv, Spawn, At
  <2>3. ASSUME NEW r \in Runners, Spawn(r, t), NEW s \in Runners, Spawn(s, u)
        PROVE  t = u
    BY <1>0, <2>3 DEF Spawn, TypeOK
  <2> QED BY <1>0, <1>2, <2>1, <2>2, <2>3, HoldFrom, OrdersAssumption DEF HoldInv
<1>3. ASSUME NEW r \in Runners, NEW t \in Treasurers, NEW o \in LiveOrders,
             rpc'[r] = "write", AuthorityOf[o] = job'[r], Holds(t, o)'
      PROVE  FALSE
  <2>1. \/ rpc[r] = "write" /\ job'[r] = job[r]
        \/ \E a \in Authorities : Decide(r, a)
    BY <1>0, <1>3, WriteFrom
  <2>2. CASE rpc[r] = "write" /\ job'[r] = job[r]
    <3>1. ~Holds(t, o)
      BY <1>0, <1>3, <2>2 DEF HoldInv
    <3>2. PICK s \in Runners : Spawn(s, t)
      BY <1>0, <1>3, <3>1, HoldFrom, OrdersAssumption
    <3>3. s = r
      BY <1>0, <2>2, <3>2, Alone DEF Spawn, At
    <3> QED BY <1>0, <1>3, <3>2, <3>3 DEF Spawn, At, TypeOK
  <2>3. ASSUME NEW a \in Authorities, Decide(r, a) PROVE FALSE
    <3>1. row[o].state = "none"
      BY <1>0, <1>3, <2>3 DEF Decide, TypeOK
    <3>2. Holds(t, o)
      BY <1>3, <2>3 DEF Decide, treasVars, Holds
    <3> QED BY <1>0, <3>1, <3>2, OrdersAssumption DEF HoldInv
  <2> QED BY <2>1, <2>2, <2>3
<1> QED BY <1>1, <1>2, <1>3 DEF HoldInv, Holds

(* While a treasurer judges a live order nothing but startup moves it.      *)
LEMMA JudgeStep ==
  ASSUME IInv, [Next]_vars
  PROVE  JudgeInv'
<1> SUFFICES ASSUME NEW t \in Treasurers, tpc'[t] = "judge"
    PROVE /\ cur'[t] \in Orders
          /\ cur'[t] \in LiveOrders => row'[cur'[t]].state \in {"prepared", "refused"}
  BY DEF JudgeInv
<1>0. TypeOK /\ JudgeInv /\ HoldInv
  BY DEF IInv
<1>1. CASE StillAt(t)
  <2> DEFINE o == cur[t]
  <2>1. o \in Orders /\ o = cur'[t] /\ tpc[t] = "judge"
    BY <1>0, <1>1 DEF StillAt, JudgeInv
  <2>2. CASE o \in LiveOrders
    <3>1. row[o].state \in {"prepared", "refused"} /\ Change(o)
      BY <1>0, <2>1, <2>2, StoreStep DEF JudgeInv
    <3>2. ~Submitted(o)
      <4>1. \A u \in Treasurers : cur[u] = o => u = t
        BY <1>0, <2>1, <2>2 DEF HoldInv, Holds
      <4> QED BY <4>1 DEF Submitted
    <3> HIDE DEF o
    <3>3. ~Ended(o) /\ ~Prepared(o)
      <4>1. ~Ended(o)
        BY <3>1 DEF Ended
      <4>2. ~Prepared(o)
        BY <3>1 DEF Prepared, NoRow
      <4> QED BY <4>1, <4>2
    <3>4. row'[o].state \in {"prepared", "refused"}
      BY <3>1, <3>2, <3>3 DEF Change, Same, Refused
    <3> QED BY <2>1, <3>4
  <2> QED BY <2>1, <2>2
<1>2. CASE TreasurerStep(t)
  <2>1. CASE \E o \in Orders : Pick(t, o)
    BY <1>0, <2>1 DEF Pick, TreasurerAt, TypeOK, store
  <2>2. CASE WriteRefused(t) \/ TreasurerEnds(t)
    BY <1>0, <2>2 DEF WriteRefused, TreasurerEnds, Exited, TypeOK
  <2>3. CASE Refuse(t) \/ Submit(t) \/ Commit(t)
    BY <1>0, <2>3 DEF Refuse, Submit, Commit, TreasurerAt, TypeOK
  <2>4. CASE \/ FillOnPaper(t) \/ Send(t) \/ Poll(t)
             \/ ReplyWithoutHash(t) \/ ReplyWithHash(t)
    BY <1>0, <2>4 DEF FillOnPaper, Send, Poll, ReplyWithoutHash, ReplyWithHash,
                      TreasurerAt, TypeOK
  <2> QED BY <1>2, <2>1, <2>2, <2>3, <2>4 DEF TreasurerStep
<1> QED BY <1>0, <1>1, <1>2, OneTreasurerMoves

(* How a treasurer comes to be past the move to submitted.                  *)
LEMMA ActingFrom ==
  ASSUME IInv, [Next]_vars, NEW t \in Treasurers, tpc'[t] \in Acting
  PROVE  /\ cur'[t] = cur[t]
         /\ \/ StillAt(t) /\ tpc[t] \in Acting
            \/ Submit(t)
            \/ /\ tpc[t] \in Acting /\ UNCHANGED store
               /\ FillOnPaper(t) \/ Send(t) \/ Poll(t) \/ ReplyWithoutHash(t)
                    \/ ReplyWithHash(t)
<1>0. TypeOK
  BY DEF IInv
<1>1. CASE TreasurerStep(t)
  <2>1. CASE \E o \in Orders : Pick(t, o)
    BY <1>0, <2>1 DEF Pick, TreasurerAt, TypeOK, Acting
  <2>2. CASE WriteRefused(t) \/ TreasurerEnds(t)
    BY <1>0, <2>2 DEF WriteRefused, TreasurerEnds, Exited, TypeOK, Acting
  <2>3. CASE Refuse(t) \/ Submit(t) \/ Commit(t)
    BY <1>0, <2>3 DEF Refuse, Submit, Commit, TreasurerAt, TypeOK, Acting
  <2>4. CASE \/ FillOnPaper(t) \/ Send(t) \/ Poll(t)
             \/ ReplyWithoutHash(t) \/ ReplyWithHash(t)
    BY <1>0, <2>4 DEF FillOnPaper, Send, Poll, ReplyWithoutHash, ReplyWithHash,
                      TreasurerAt, TypeOK, Acting
  <2> QED BY <1>1, <2>1, <2>2, <2>3, <2>4 DEF TreasurerStep
<1>2. CASE StillAt(t)
  BY <1>2 DEF StillAt
<1> QED BY <1>0, <1>1, <1>2, OneTreasurerMoves DEF Acting

(* Only a send adds a send.                                                 *)
LEMMA SendsFrom ==
  ASSUME [Next]_vars
  PROVE  sends' = sends \/ \E t \in Treasurers : Send(t)
<1>1. CASE UNCHANGED vars
  BY <1>1 DEF vars
<1>2. ASSUME NEW r \in Runners, RunnerStep(r) PROVE sends' = sends
  BY <1>2 DEF RunnerStep, Acquire, ReadFills, ReadOrders, Settle, NotReady,
              Decide, DecideNothing, Write, Spawn, Collect, world
<1>3. ASSUME NEW t \in Treasurers, TreasurerStep(t), ~Send(t) PROVE sends' = sends
  BY <1>3 DEF TreasurerStep, Pick, Refuse, Submit, FillOnPaper, Poll,
              ReplyWithoutHash, ReplyWithHash, Commit, WriteRefused,
              TreasurerEnds, world
<1>4. ASSUME NEW o \in LiveOrders, Mine(o) \/ Reorg(o) \/ Deepen(o)
      PROVE  sends' = sends
  BY <1>4 DEF Mine, Reorg, Deepen
<1>5. CASE Crash
  BY <1>5 DEF Crash, RunnerDies, Timeout, TreasurerDies, world
<1> QED BY <1>1, <1>2, <1>3, <1>4, <1>5 DEF Next

(* A send is the first under its key, and it is never forgotten.            *)
LEMMA SentStep ==
  ASSUME IInv, [Next]_vars
  PROVE  SentOnce'
<1> SUFFICES ASSUME NEW o \in Orders, sends'[o] # 0
    PROVE sends'[o] = 1 /\ row'[o].state \notin {"none", "prepared", "refused"}
  BY DEF SentOnce
<1>0. TypeOK /\ SentOnce /\ FlightInv
  BY DEF IInv
<1>1. ASSUME NEW t \in Treasurers, Send(t), cur[t] = o
      PROVE  sends'[o] = 1 /\ row'[o].state \notin {"none", "prepared", "refused"}
  <2>1. sends[o] = 0 /\ row[o].state \in {"submitted", "failed"} /\ row' = row
    BY <1>0, <1>1 DEF Send, TreasurerAt, FlightInv, Acting, store
  <2> QED BY <1>0, <1>1, <2>1 DEF Send, TypeOK
<1>2. CASE sends'[o] = sends[o]
  <2>1. sends[o] = 1 /\ row[o].state \notin {"none", "prepared", "refused"} /\ Change(o)
    BY <1>0, <1>2, StoreStep DEF SentOnce
  <2>2. CASE Ended(o)
    BY <1>2, <2>1, <2>2 DEF Ended, Sound
  <2>3. CASE Same(o)
    BY <1>2, <2>1, <2>3 DEF Same
  <2> QED
    BY <2>1, <2>2, <2>3 DEF Change, Prepared, Submitted, Refused, NoRow
<1>3. ASSUME NEW t \in Treasurers, Send(t), cur[t] # o PROVE sends'[o] = sends[o]
  <2>1. cur[t] \in Orders
    BY <1>0, <1>3, Busy DEF Send, TreasurerAt, IInv
  <2> QED BY <1>0, <1>3, <2>1 DEF Send, TypeOK
<1> QED BY <1>1, <1>2, <1>3, SendsFrom

(* An order being sent is submitted, and in one treasurer's hands.          *)
LEMMA FlightStep ==
  ASSUME IInv, [Next]_vars
  PROVE  FlightInv'
<1>0. TypeOK /\ SentOnce /\ FlightInv /\ HoldInv
  BY DEF IInv
<1>1. ASSUME NEW t \in Treasurers, NEW u \in Treasurers,
             tpc'[t] \in Acting, tpc'[u] \in Acting, cur'[t] = cur'[u]
      PROVE  t = u
  <2>1. cur[t] = cur[u]
    BY <1>1, ActingFrom
  <2>2. CASE tpc[t] \in Acting /\ tpc[u] \in Acting
    BY <1>0, <2>1, <2>2 DEF FlightInv
  <2>3. ASSUME NEW v \in Treasurers, NEW w \in Treasurers, Submit(v),
               tpc[w] \in Acting, cur[v] = cur[w]
        PROVE  FALSE
    BY <1>0, <2>3, SubmitPrepared DEF FlightInv
  <2>4. CASE Submit(t) /\ Submit(u)
    BY <1>0, <2>4, SubmitPrepared DEF Submit, TreasurerAt, TypeOK
  <2> QED BY <1>1, <2>1, <2>2, <2>3, <2>4, ActingFrom
<1>2. ASSUME NEW t \in Treasurers, tpc'[t] \in Acting
      PROVE  /\ cur'[t] \in Orders
             /\ cur'[t] \in LiveOrders => row'[cur'[t]].state = "submitted"
             /\ row'[cur'[t]].state \in {"submitted", "failed"}
             /\ tpc'[t] = "send" => sends'[cur'[t]] = 0
             /\ tpc'[t] \in {"reply", "poll"} => cur'[t] \in LiveOrders
  <2> DEFINE o == cur[t]
  <2>1. cur'[t] = o
    BY <1>2, ActingFrom
  <2>2. CASE StillAt(t) /\ tpc[t] \in Acting
    <3>1. /\ o \in Orders /\ row[o].state \in {"submitted", "failed"} /\ Change(o)
          /\ o \in LiveOrders => row[o].state = "submitted"
          /\ tpc'[t] = tpc[t]
          /\ tpc[t] = "send" => sends[o] = 0
          /\ tpc[t] \in {"reply", "poll"} => o \in LiveOrders
      BY <1>0, <2>2, StoreStep DEF FlightInv, StillAt
    <3>2. ASSUME NEW u \in Treasurers, tpc[u] \in Acting, cur[u] = o PROVE u = t
      BY <1>0, <2>2, <3>2 DEF FlightInv
    <3>3. /\ o \in LiveOrders => row'[o].state = "submitted"
          /\ row'[o].state \in {"submitted", "failed"}
      <4>1. CASE Ended(o)
        <5>1. ~\E u \in Treasurers : tpc[u] = "commit" /\ cur[u] = o /\ tpc'[u] = "next"
          BY <1>2, <3>2 DEF Acting
        <5> HIDE DEF o
        <5> QED BY <3>1, <4>1, <5>1 DEF Ended, PaperOrders
      <4> HIDE DEF o
      <4> QED BY <3>1, <4>1 DEF Change, Same, Prepared, Submitted, Refused, NoRow
    <3>4. ASSUME tpc[t] = "send" PROVE sends'[o] = sends[o]
      <4>1. ASSUME NEW u \in Treasurers, Send(u) PROVE cur[u] # o
        <5>1. tpc[u] = "send" /\ tpc'[u] = "reply"
          BY <1>0, <4>1 DEF Send, TreasurerAt, TypeOK
        <5>2. tpc[u] \in Acting /\ u # t
          BY <3>1, <3>4, <5>1 DEF Acting, StillAt
        <5> QED BY <3>2, <5>2
      <4> HIDE DEF o
      <4> QED BY <1>0, <3>1, <4>1, SendsFrom DEF Send, TypeOK
    <3> HIDE DEF o
    <3> QED BY <2>1, <3>1, <3>3, <3>4
  <2>3. CASE Submit(t)
    <3>1. /\ o \in Orders /\ row[o].state = "prepared" /\ tpc'[t] = "send"
      BY <2>3, SubmitPrepared
    <3>2. sends'[o] = 0
      BY <1>0, <2>3, <3>1 DEF Submit, SentOnce, world
    <3>3. row'[o] = [state |-> "submitted", evidence |-> "none"]
      BY <1>0, <2>3, <3>1, MoveOne DEF Submit
    <3> QED BY <2>1, <3>1, <3>2, <3>3
  <2>4. CASE tpc[t] \in Acting /\ UNCHANGED store /\
             (FillOnPaper(t) \/ Send(t) \/ Poll(t) \/ ReplyWithoutHash(t)
                \/ ReplyWithHash(t))
    <3>1. /\ o \in Orders /\ row[o].state \in {"submitted", "failed"}
          /\ o \in LiveOrders => row[o].state = "submitted"
      BY <1>0, <2>4 DEF FlightInv
    <3>2. tpc'[t] # "send" /\ (tpc'[t] \in {"reply", "poll"} => o \in LiveOrders)
      BY <1>0, <2>4 DEF FillOnPaper, Send, Poll, ReplyWithoutHash, ReplyWithHash,
                        TreasurerAt, TypeOK, FlightInv
    <3> QED BY <2>1, <2>4, <3>1, <3>2 DEF store
  <2> QED BY <1>2, <2>2, <2>3, <2>4, ActingFrom
<1> QED BY <1>1, <1>2 DEF FlightInv

(* What an executor holds stays fit to be booked until it is.               *)
LEMMA OutcomeStep ==
  ASSUME IInv, [Next]_vars
  PROVE  OutcomeInv'
<1> SUFFICES ASSUME NEW t \in Treasurers, tpc'[t] = "commit"
    PROVE Sound(cur[t], outcome[t])'
  BY DEF OutcomeInv
<1>0. TypeOK /\ JudgeInv /\ FlightInv /\ OutcomeInv
  BY DEF IInv
<1>1. CASE StillAt(t)
  <2>1. cur[t] \in Orders /\ Sound(cur[t], outcome[t]) /\ cur'[t] = cur[t]
        /\ outcome'[t] = outcome[t]
    BY <1>0, <1>1 DEF StillAt, OutcomeInv, FlightInv, Acting
  <2>2. Settled(cur[t]) => chain'[cur[t]] = chain[cur[t]]
    BY <1>0, <2>1, ChainSettles
  <2> QED BY <2>1, <2>2 DEF Sound, Settled
<1>2. CASE FillOnPaper(t)
  <2>1. cur'[t] = cur[t] /\ cur[t] \in PaperOrders /\ outcome'[t] \in PaperOutcomes
    BY <1>0, <1>2 DEF FillOnPaper, TypeOK
  <2>2. cur[t] \notin LiveOrders /\ GasOf(cur[t]) = 0
    BY <2>1, OrdersAssumption DEF PaperOrders, GasOf
  <2> QED BY <2>1, <2>2 DEF Sound, PaperOutcomes, Unbooked, GasOf
<1>3. CASE ReplyWithoutHash(t)
  <2>1. cur'[t] = cur[t] /\ cur[t] \in LiveOrders
    BY <1>0, <1>3 DEF ReplyWithoutHash, TreasurerAt, FlightInv, Acting
  <2>2. outcome'[t] = [state |-> "unknown", fill |-> 0, fee |-> 0, evidence |-> "none"]
    BY <1>0, <1>3 DEF ReplyWithoutHash, Unsettled, Unbooked, TypeOK
  <2> QED BY <2>1, <2>2 DEF Sound, PaperOrders
<1>4. CASE Poll(t)
  <2>1. /\ cur'[t] = cur[t] /\ cur[t] \in LiveOrders /\ chain' = chain
        /\ outcome'[t] = Reading(cur[t])
    BY <1>0, <1>4 DEF Poll, TreasurerAt, FlightInv, Acting, TypeOK, world
  <2>2. Sound(cur[t], Reading(cur[t]))
    BY <1>0, <2>1, ReadingSound
  <2> QED BY <2>1, <2>2 DEF Sound
<1>5. CASE Submit(t) \/ Send(t) \/ ReplyWithHash(t)
  BY <1>0, <1>5 DEF Submit, Send, ReplyWithHash, TreasurerAt, TypeOK
<1> QED BY <1>1, <1>2, <1>3, <1>4, <1>5, ActingFrom DEF Acting

-------------------------------------------------------------------------------
(* The theorems *)

(* The invariant holds to begin with.                                       *)
LEMMA InitInv == Init => IInv
<1> SUFFICES ASSUME Init PROVE IInv
  OBVIOUS
<1>1. TypeOK
  BY InitTypeOK
<1>2. /\ \A o \in Orders : row[o] = NoRow /\ fills[o] = 0 /\ fees[o] = 0 /\ sends[o] = 0
      /\ \A r \in Runners : rpc[r] = "off" /\ seenFilled[r] = {}
                            /\ \A o \in Orders : seen[r][o] = NoRow
      /\ \A t \in Treasurers : tpc[t] = "off" /\ todo[t] = {} /\ cur[t] = Nobody
  BY DEF Init
<1>3. LockInv /\ WorkInv /\ WriteInv /\ SnapshotInv
  BY <1>2 DEF LockInv, WorkInv, WriteInv, SnapshotInv, NoRow, Open
<1>4. RowInv /\ OneAuthorityOpen /\ BookedOnce /\ SentOnce
  BY <1>2 DEF RowInv, NoRow, OneAuthorityOpen, Open, BookedOnce, SentOnce
<1>5. OutcomeEvidenced
  BY <1>2, OrdersAssumption DEF OutcomeEvidenced, NoRow
<1>6. HoldInv /\ JudgeInv /\ FlightInv /\ OutcomeInv
  <2>1. \A t \in Treasurers, o \in Orders : ~Holds(t, o)
    BY <1>2, NobodyAssumption DEF Holds
  <2> QED
    BY <1>2, <2>1, OrdersAssumption DEF HoldInv, JudgeInv, FlightInv, OutcomeInv, Acting
<1> QED BY <1>1, <1>3, <1>4, <1>5, <1>6 DEF IInv

(* IInv is inductive, so it holds of every reachable state: whatever the    *)
(* orders, however many runners and treasurers, and however often a process *)
(* is killed.                                                               *)
THEOREM Inductive == Spec => []IInv
<1>1. IInv /\ [Next]_vars => IInv'
  <2> SUFFICES ASSUME IInv, [Next]_vars PROVE IInv'
    OBVIOUS
  <2>1. TypeOK'
    BY NextType DEF IInv
  <2> QED
    BY <2>1, LockStep, WorkStep, WriteStep, SnapshotStep, RowStep, HoldStep,
       JudgeStep, FlightStep, OutcomeStep, AuthorityStep, SentStep
       DEF IInv
<1> QED BY <1>1, InitInv, PTL DEF Spec

(* Every variable keeps its type, whatever interleaving of processes.       *)
THEOREM TypeCorrect == Spec => []TypeOK
<1>1. IInv => TypeOK
  BY DEF IInv
<1> QED BY <1>1, Inductive, PTL

(* No two runners are ever past the lock of startup.owning.                 *)
THEOREM SingleRunner == Spec => []OneRunner
<1>1. IInv => OneRunner
  BY DEF IInv, LockInv, OneRunner
<1> QED BY <1>1, Inductive, PTL

(* Orders that are written and not final belong to one decision or          *)
(* instruction: startup.resolve lets no new one in before.                  *)
THEOREM SingleAuthority == Spec => []OneAuthorityOpen
<1>1. IInv => OneAuthorityOpen
  BY DEF IInv
<1> QED BY <1>1, Inductive, PTL

(* A fill is in the journal exactly for a confirmed order and gas exactly   *)
(* for an ended one that was charged it, through every crash.               *)
THEOREM BookedExactlyOnce == Spec => []BookedOnce
<1>1. IInv => BookedOnce
  BY DEF IInv
<1> QED BY <1>1, Inductive, PTL

(* Nothing is sent to the venue twice, and nothing that was sent is later   *)
(* taken for an order never sent.                                           *)
THEOREM SentAtMostOnce == Spec => []SentOnce
<1>1. IInv => SentOnce
  BY DEF IInv
<1> QED BY <1>1, Inductive, PTL

(* A live order is confirmed or failed only when its swap is final on chain.*)
THEOREM NothingFromAGuess == Spec => []OutcomeEvidenced
<1>1. IInv => OutcomeEvidenced
  BY DEF IInv
<1> QED BY <1>1, Inductive, PTL

-------------------------------------------------------------------------------
(* The refinement *)

(* A step changes one row of the orders table at most.                      *)
LEMMA OneRowChanges ==
  ASSUME IInv, [Next]_vars
  PROVE  \/ \A p \in Orders : Same(p)
         \/ \E o \in Orders : \A p \in Orders \ {o} : Same(p)
<1>0. TypeOK /\ JudgeInv /\ FlightInv
  BY DEF IInv
<1>1. CASE UNCHANGED store
  BY <1>1 DEF store, Same
<1>2. ASSUME NEW r \in Runners, NEW o \in Orders, Settle(r, o) \/ Write(r, o)
      PROVE  \A p \in Orders \ {o} : Same(p)
  <2>1. CASE Settle(r, o)
    BY <1>0, <2>1, BookOthers DEF Settle
  <2>2. CASE Write(r, o) /\ row[o] = NoRow
    BY <1>0, <2>2, MoveOne DEF Write
  <2>3. CASE Write(r, o) /\ row[o] # NoRow
    BY <2>3 DEF Write, store, Same
  <2> QED BY <1>2, <2>1, <2>2, <2>3
<1>3. ASSUME NEW t \in Treasurers, Refuse(t) \/ Submit(t) \/ Commit(t)
      PROVE  cur[t] \in Orders /\ \A p \in Orders \ {cur[t]} : Same(p)
  <2>1. cur[t] \in Orders
    BY <1>0, <1>3, Busy DEF Refuse, Submit, Commit, TreasurerAt
  <2>2. CASE Refuse(t) \/ Submit(t)
    BY <1>0, <2>1, <2>2, MoveOne DEF Refuse, Submit
  <2>3. CASE Commit(t)
    BY <1>0, <2>1, <2>3, BookOthers DEF Commit
  <2> QED BY <1>3, <2>1, <2>2, <2>3
<1> QED BY Writers, <1>1, <1>2, <1>3

(* Every step is one of the abstract specification's, or changes no row.    *)
LEMMA LifeStep ==
  ASSUME IInv, [Next]_vars
  PROVE  [Life!Next]_(Life!vars)
<1> DEFINE st == [o \in Orders |-> row[o].state]
           stn == [o \in Orders |-> row'[o].state]
<1>0. /\ TypeOK /\ TypeOK' /\ BookedOnce
      /\ \A o \in Orders : Change(o)
  BY NextType, StoreStep DEF IInv
<1>3. Life!Moves = Moves
  BY DEF Life!Moves, Life!States, Moves, States
<1>1. CASE \A p \in Orders : Same(p)
  <2>1. stn = st /\ fills' = fills /\ fees' = fees
    BY <1>0, <1>1 DEF Same, TypeOK
  <2> QED BY <2>1 DEF Life!vars
<1>2. ASSUME NEW o \in Orders, \A p \in Orders \ {o} : Same(p), ~Same(o)
      PROVE  Life!Next
  <2>1. /\ stn = [st EXCEPT ![o] = row'[o].state]
        /\ fills' = [fills EXCEPT ![o] = fills'[o]]
        /\ fees'  = [fees EXCEPT ![o] = fees'[o]]
    BY <1>0, <1>2 DEF Same, TypeOK
  <2>2. st[o] = row[o].state /\ stn[o] = row'[o].state /\ row[o].state \in States
    BY <1>0 DEF TypeOK, Row
  <2>3. CASE Prepared(o) \/ Submitted(o) \/ Refused(o)
    <3>1. fills' = fills /\ fees' = fees
      BY <1>0, <2>1, <2>3 DEF Prepared, Submitted, Refused, TypeOK
    <3>2. CASE Prepared(o)
      <4>1. row[o].state = "none" /\ row'[o].state = "prepared"
        BY <3>2 DEF Prepared, NoRow
      <4>2. Life!Prepare(o)
        BY <2>1, <2>2, <3>1, <4>1 DEF Life!Prepare, Life!Becomes
      <4> QED BY <4>2 DEF Life!Next
    <3>3. CASE Submitted(o) \/ Refused(o)
      <4>1. row[o].state = "prepared" /\ row'[o].state \in {"submitted", "refused"}
        BY <3>3 DEF Submitted, Refused
      <4>2. row'[o].state \in {"refused", "submitted", "unknown"} \cap Moves["prepared"]
        BY <4>1 DEF Moves, States
      <4>3. Life!Advance(o)
        BY <1>3, <2>1, <2>2, <3>1, <4>1, <4>2 DEF Life!Advance, Life!Becomes
      <4> QED BY <4>3 DEF Life!Next
    <3> QED BY <2>3, <3>2, <3>3
  <2>4. CASE Ended(o)
    <3>1. PICK out \in Outcomes :
            /\ row[o].state \in {"submitted", "unknown"}
            /\ out.state \in Moves[row[o].state]
            /\ Sound(o, out)
            /\ row'[o].state = out.state
            /\ fills'[o] = fills[o] + out.fill
            /\ fees'[o] = fees[o] + out.fee
      BY <2>4 DEF Ended
    <3>2. fills[o] = 0 /\ fees[o] = 0
      BY <1>0, <3>1 DEF BookedOnce
    <3>3. /\ out.state \in {"confirmed", "failed", "unknown"}
          /\ fills'[o] = IF out.state = "confirmed" THEN 1 ELSE 0
          /\ fees'[o] = 0 \/ (o \in LiveOrders /\ fees'[o] = 1)
          /\ out.state = "unknown" => fees'[o] = 0
      BY <3>1, <3>2, OrdersAssumption DEF Sound, GasOf
    <3>4. fees' = fees \/ (o \in LiveOrders /\ fees' = [fees EXCEPT ![o] = 1])
      BY <1>0, <2>1, <3>2, <3>3 DEF TypeOK
    <3>5. CASE out.state = "confirmed"
      <4>1. Life!Confirm(o)
        BY <1>3, <2>1, <2>2, <3>1, <3>3, <3>4, <3>5
           DEF Life!Confirm, Life!Becomes, Life!BookGas
      <4> QED BY <4>1 DEF Life!Next
    <3>6. CASE out.state = "failed"
      <4>1. fills' = fills
        BY <1>0, <2>1, <3>2, <3>3, <3>6 DEF TypeOK
      <4>2. Life!Fail(o)
        BY <1>3, <2>1, <2>2, <3>1, <3>4, <3>6, <4>1
           DEF Life!Fail, Life!Becomes, Life!BookGas
      <4> QED BY <4>2 DEF Life!Next
    <3>7. CASE out.state = "unknown"
      <4>1. fills' = fills /\ fees' = fees
        BY <1>0, <2>1, <3>2, <3>3, <3>7 DEF TypeOK
      <4>2. Life!Advance(o)
        BY <1>3, <2>1, <2>2, <3>1, <3>7, <4>1 DEF Life!Advance, Life!Becomes
      <4> QED BY <4>2 DEF Life!Next
    <3> QED BY <3>3, <3>5, <3>6, <3>7
  <2> QED BY <1>0, <1>2, <2>3, <2>4 DEF Change
<1> QED BY <1>1, <1>2, OneRowChanges

(* The processes, the lock, the crashes and the chain together implement    *)
(* what OrderLife promises of each order's row and bookings.                *)
THEOREM Implements == Spec => LifeSpec
<1>1. Init => Life!Init
  <2> SUFFICES ASSUME Init PROVE Life!Init
    OBVIOUS
  <2>1. [o \in Orders |-> row[o].state] = [o \in Orders |-> "none"]
    BY DEF Init, NoRow
  <2> QED BY <2>1 DEF Init, Life!Init
<1>2. IInv /\ [Next]_vars => [Life!Next]_(Life!vars)
  BY LifeStep
<1> QED BY <1>1, <1>2, Inductive, PTL DEF Spec, LifeSpec, Life!Spec

=============================================================================
