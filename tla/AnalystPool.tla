------------------------------ MODULE AnalystPool ------------------------------
(***************************************************************************)
(* The analysts of one cycle: the runner (agents/runner.run_cycle) starts   *)
(* one worker process per seat, at most `width` at a time, kills those past *)
(* the worker's or the cycle's deadline, and turns each result file into    *)
(* the seat's slot; a worker (agents/analyst.run) calls the gateway once,   *)
(* and again only for a reply that was malformed and while its margin       *)
(* holds, and writes its result file.                                       *)
(*                                                                         *)
(* Each worker is a process: it acts between any two steps of the runner's  *)
(* loop, may be slow to start or to write, and may end without a word.      *)
(* Time is counted in whole units and passes between any two steps, except  *)
(* past the moment a call must end (http.with_deadline ends it); the        *)
(* processes of one turn of the runner's loop start in one step.            *)
(*                                                                         *)
(* Abstracted: what a reply says (one of Replies; a report with no calls is *)
(* accepted as any other), the reason a worker gives for its own failure,   *)
(* keys, costs, the event log, and a full stderr pipe, which delays a       *)
(* worker as any slowness does.                                             *)
(***************************************************************************)
EXTENDS Naturals, FiniteSets, Sequences, SequencesExt

CONSTANTS
  Seats,            \* the analyst seats of the cycle
  Widths,           \* what max_parallel_workers may be
  Retries,          \* retry_budget_per_worker
  Transport,        \* transport_timeout_seconds
  WorkerDeadline,   \* worker_deadline_seconds
  CycleDeadline,    \* cycle_deadline_seconds
  MaxTime,          \* bound: the clock stops here, past every deadline
  Nobody            \* no seat

ASSUME SettingsAssumption ==
  /\ IsFiniteSet(Seats)
  /\ Widths \subseteq Nat \ {0} /\ Retries \in Nat
  /\ Transport \in Nat \ {0} /\ WorkerDeadline \in Nat /\ CycleDeadline \in Nat
  /\ Transport <= WorkerDeadline
  /\ MaxTime \in Nat /\ MaxTime > CycleDeadline
  /\ Nobody \notin Seats

VARIABLES
  width,    \* max_parallel_workers, fixed for the cycle
  now,      \* time.monotonic, the same for the runner and its workers
  pc,       \* where the runner's loop is
  over,     \* whether this turn of the loop found the cycle past its deadline
  queue,    \* seats not started
  running,  \* seats whose process the runner holds
  sweep,    \* those this turn has still to poll
  victim,   \* the seat polled and found past a deadline
  started,  \* when the runner started each seat it holds
  slot,     \* the outcome the cycle keeps of each seat
  file,     \* what each result file holds
  reports,  \* the report store: one record per seat whose reply arrived
  wpc,      \* where each worker is
  wstart,   \* when each worker's own clock started
  number,   \* which attempt it is on
  until,    \* when its call must end
  result,   \* what it will write
  sent,     \* calls the gateway received for the seat, billed or not
  lost      \* whether its last call was lost: a timeout or a transport failure

runnerVars == <<width, pc, over, queue, running, sweep, victim, started, slot,
                reports>>
workerVars == <<wpc, wstart, number, until, result, sent, lost>>
vars == <<width, now, pc, over, queue, running, sweep, victim, started, slot,
          reports, file, wpc, wstart, number, until, result, sent, lost>>

-------------------------------------------------------------------------------
(* Data *)

(* "torn" is a file that is being written.  "own" is every reason a worker  *)
(* gives for the end of its turn: no snapshot, no time, a lost call, a      *)
(* refusal, or no acceptable reply.                                         *)
Statuses == {"pending", "torn", "ok", "failed"}
Reasons  == {"none", "own", "crashed", "worker_deadline", "cycle_deadline"}

(* A result: its status and reason, the calls it recorded, and whether one  *)
(* of them brought a reply's text.                                          *)
Result == [status : Statuses, reason : Reasons, attempts : 0..(Retries + 1),
           text : BOOLEAN]

Nothing(status, reason) ==
  [status |-> status, reason |-> reason, attempts |-> 0, text |-> FALSE]
Pending        == Nothing("pending", "none")
Failed(reason) == Nothing("failed", reason)

(* A malformed or an unreadable reply may be asked again; the second brings *)
(* no text.  A lost call timed out, or its transport failed.                *)
Replies   == {"ok", "malformed", "unreadable", "refused", "lost"}
Malformed == {"malformed", "unreadable"}

Alive(s) == wpc[s] \notin {"off", "exited"}
Margin   == WorkerDeadline - Transport

(* What one more reply makes of a result: its call is recorded, and only an *)
(* accepted report is ok.                                                   *)
After(res, reply) ==
  [status   |-> IF reply = "ok" THEN "ok" ELSE "failed",
   reason   |-> IF reply = "ok" THEN "none" ELSE "own",
   attempts |-> res.attempts + 1,
   text     |-> res.text \/ reply \in {"ok", "malformed"}]

Init ==
  /\ width \in Widths /\ now = 0
  /\ pc = "top" /\ over = FALSE
  /\ queue \in {q \in [1..Cardinality(Seats) -> Seats] : Range(q) = Seats}
  /\ running = {} /\ sweep = {} /\ victim = Nobody
  /\ started = [s \in Seats |-> 0]
  /\ slot    = [s \in Seats |-> Pending]
  /\ file    = [s \in Seats |-> Pending]
  /\ reports = {}
  /\ wpc     = [s \in Seats |-> "off"]
  /\ wstart  = [s \in Seats |-> 0]
  /\ number  = [s \in Seats |-> 0]
  /\ until   = [s \in Seats |-> 0]
  /\ result  = [s \in Seats |-> Pending]
  /\ sent    = [s \in Seats |-> 0]
  /\ lost    = [s \in Seats |-> FALSE]

-------------------------------------------------------------------------------
(* The runner's loop *)

(* A process that has ended: its memory with it.                            *)
Gone(s) ==
  /\ wpc'    = [wpc EXCEPT ![s] = "exited"]
  /\ wstart' = [wstart EXCEPT ![s] = 0]
  /\ number' = [number EXCEPT ![s] = 0]
  /\ until'  = [until EXCEPT ![s] = 0]
  /\ result' = [result EXCEPT ![s] = Pending]
  /\ lost'   = [lost EXCEPT ![s] = FALSE]

RunnerAt(here, next) == pc = here /\ pc' = next

(* A turn of the loop: it asks the clock once, starts as many queued seats  *)
(* as there is room for, or, past the cycle's deadline, finishes them       *)
(* unstarted, and then goes through the processes it holds.                 *)
Turn ==
  /\ queue # <<>> \/ running # {}
  /\ RunnerAt("top", "sweep")
  /\ over' = (now > CycleDeadline)
  /\ LET room    == Min({Len(queue), width - Cardinality(running)})
         taken   == IF over' THEN {} ELSE Range(SubSeq(queue, 1, room))
         dropped == IF over' THEN Range(queue) ELSE {}
         Given(f, set, v) == [s \in Seats |-> IF s \in set THEN v ELSE f[s]]
     IN /\ queue'   = IF over' THEN <<>> ELSE SubSeq(queue, room + 1, Len(queue))
        /\ running' = running \cup taken
        /\ started' = Given(started, taken, now)
        /\ wpc'     = Given(wpc, taken, "boot")
        /\ slot'    = Given(slot, dropped, Failed("cycle_deadline"))
        /\ file'    = Given(file, dropped, Failed("cycle_deadline"))
  /\ sweep' = running'
  /\ UNCHANGED <<width, now, victim, reports, wstart, number, until, result,
                 sent, lost>>

LoopEnds ==
  /\ queue = <<>> /\ running = {}
  /\ RunnerAt("top", "done")
  /\ UNCHANGED <<width, now, over, queue, running, sweep, victim, started,
                 slot, reports, file, workerVars>>

(* collect: the file's result, unless it is no result yet, which is a       *)
(* crash, or the runner killed the worker, which fails it whatever it wrote.*)
Outcome(s, killed) ==
  LET read == IF file[s].status = "torn" THEN Pending ELSE file[s] IN
  IF killed # "none" THEN [read EXCEPT !.status = "failed", !.reason = killed]
  ELSE IF read.status = "pending" THEN Failed("crashed")
  ELSE read

(* report_record: a record of every reply that arrived, accepted or not.    *)
RecordOf(s, res) ==
  IF res.text THEN {[seat |-> s, accepted |-> res.status = "ok"]} ELSE {}

(* ReportStore.put: a record is kept under its content's hash, and putting  *)
(* the same one again changes nothing.                                      *)
Put(records) == reports' = reports \cup records

(* Mutant: the record is made of the file before the kill fails the seat.   *)
Finish_RecordFirst(s, killed) ==
  /\ slot'    = [slot EXCEPT ![s] = Outcome(s, killed)]
  /\ file'    = [file EXCEPT ![s] = Outcome(s, killed)]
  /\ Put(RecordOf(s, Outcome(s, "none")))
  /\ running' = running \ {s}
  /\ started' = [started EXCEPT ![s] = 0]
  /\ sweep'   = sweep \ {s}

Finish(s, killed) ==
  /\ slot'    = [slot EXCEPT ![s] = Outcome(s, killed)]
  /\ file'    = [file EXCEPT ![s] = Outcome(s, killed)]
  /\ Put(RecordOf(s, Outcome(s, killed)))
  /\ running' = running \ {s}
  /\ started' = [started EXCEPT ![s] = 0]
  /\ sweep'   = sweep \ {s}

PastDeadline(s) == over \/ now > started[s] + WorkerDeadline

(* poll() found the process ended: its result is collected.                 *)
Collect(s) ==
  /\ pc = "sweep" /\ s \in sweep /\ ~Alive(s)
  /\ Finish(s, "none")
  /\ UNCHANGED <<width, now, pc, over, queue, victim, workerVars>>

(* poll() found it alive and within its time.                               *)
LeaveRunning(s) ==
  /\ pc = "sweep" /\ s \in sweep /\ Alive(s) /\ ~PastDeadline(s)
  /\ sweep' = sweep \ {s}
  /\ UNCHANGED <<width, now, pc, over, queue, running, victim, started, slot,
                 reports, file, workerVars>>

(* Mutant: a worker is not held to any deadline, only a queued seat is.     *)
Condemn_Never(s) ==
  /\ pc = "sweep" /\ s \in sweep /\ Alive(s) /\ PastDeadline(s)
  /\ sweep' = sweep \ {s}
  /\ UNCHANGED <<width, now, pc, over, queue, running, victim, started, slot,
                 reports, file, workerVars>>

(* poll() found it alive and past a deadline.  It may still end by itself   *)
(* before the kill reaches it.                                              *)
Condemn(s) ==
  /\ RunnerAt("sweep", "kill")
  /\ s \in sweep /\ Alive(s) /\ PastDeadline(s)
  /\ victim' = s
  /\ UNCHANGED <<width, now, over, queue, running, sweep, started, slot,
                 reports, file, workerVars>>

(* Mutant: the worker is asked to end, and the runner does not wait for it. *)
Kill_NoWait ==
  /\ RunnerAt("kill", "sweep")
  /\ Finish(victim, IF over THEN "cycle_deadline" ELSE "worker_deadline")
  /\ victim' = Nobody
  /\ UNCHANGED <<width, now, over, queue, workerVars>>

(* kill() and wait(): the process is gone before its file is read.          *)
Kill ==
  /\ RunnerAt("kill", "sweep")
  /\ Gone(victim)
  /\ Finish(victim, IF over THEN "cycle_deadline" ELSE "worker_deadline")
  /\ victim' = Nobody
  /\ UNCHANGED <<width, now, over, queue, sent>>

SweepEnds ==
  /\ RunnerAt("sweep", "top")
  /\ sweep = {}
  /\ over' = FALSE
  /\ UNCHANGED <<width, now, queue, running, sweep, victim, started, slot,
                 reports, file, workerVars>>

-------------------------------------------------------------------------------
(* A worker *)

WorkerAt(s, here, next) ==
  /\ wpc[s] = here
  /\ wpc' = [wpc EXCEPT ![s] = next]

Ends(s, res) == result' = [result EXCEPT ![s] = res]

(* Python is up: run starts its clock and reads the snapshot.               *)
Boot(s) ==
  /\ WorkerAt(s, "boot", "ask")
  /\ wstart' = [wstart EXCEPT ![s] = now]
  /\ number' = [number EXCEPT ![s] = 1]
  /\ Ends(s, Failed("own"))
  /\ UNCHANGED <<now, runnerVars, file, until, sent, lost>>

(* The snapshot on disk is not the one the job names: no call is made.      *)
WrongSnapshot(s) ==
  /\ WorkerAt(s, "boot", "write")
  /\ wstart' = [wstart EXCEPT ![s] = now]
  /\ Ends(s, Failed("own"))
  /\ UNCHANGED <<now, runnerVars, file, number, until, sent, lost>>

(* Mutant: the time left is what is left of the worker's whole deadline.    *)
CallEndsBy_NoMargin(s) ==
  Min({now + Transport, wstart[s] + WorkerDeadline})

(* The transport timeout, or what is left of the worker's deadline less its *)
(* margin: the call may not end after this.                                 *)
CallEndsBy(s) == Min({now + Transport, wstart[s] + WorkerDeadline - Margin})

Ask(s) ==
  /\ CallEndsBy(s) > now
  /\ WorkerAt(s, "ask", "call")
  /\ until' = [until EXCEPT ![s] = CallEndsBy(s)]
  /\ sent'  = [sent EXCEPT ![s] = @ + 1]
  /\ UNCHANGED <<now, runnerVars, file, wstart, number, result, lost>>

NoTime(s) ==
  /\ CallEndsBy(s) <= now
  /\ WorkerAt(s, "ask", "write")
  /\ UNCHANGED <<now, runnerVars, file, wstart, number, until, result, sent,
                 lost>>

(* Mutant: a call that timed out is asked again, as a malformed one is.     *)
MayRetry_Timeout(s, reply) ==
  reply \in Malformed \cup {"lost"} /\ number[s] <= Retries

(* Mutant: the budget is compared one too late.                             *)
MayRetry_OneMore(s, reply) == reply \in Malformed /\ number[s] <= Retries + 1

MayRetry(s, reply) == reply \in Malformed /\ number[s] <= Retries

(* Mutant: only an accepted reply is written down as an attempt.            *)
Reply_OkOnly(s, reply) ==
  /\ WorkerAt(s, "call", IF MayRetry(s, reply) THEN "ask" ELSE "write")
  /\ number' = [number EXCEPT ![s] = IF MayRetry(s, reply) THEN @ + 1 ELSE @]
  /\ Ends(s, IF reply = "ok" THEN After(result[s], reply)
             ELSE [After(result[s], reply) EXCEPT !.attempts = @ - 1])
  /\ lost' = [lost EXCEPT ![s] = @ \/ reply = "lost"]
  /\ UNCHANGED <<now, runnerVars, file, wstart, until, sent>>

(* The call ends: with a reply, or at its deadline.                         *)
Reply(s, reply) ==
  /\ WorkerAt(s, "call", IF MayRetry(s, reply) THEN "ask" ELSE "write")
  /\ number' = [number EXCEPT ![s] = IF MayRetry(s, reply) THEN @ + 1 ELSE @]
  /\ Ends(s, After(result[s], reply))
  /\ lost' = [lost EXCEPT ![s] = @ \/ reply = "lost"]
  /\ UNCHANGED <<now, runnerVars, file, wstart, until, sent>>

(* An exception of its own, which main writes down as a result with none of *)
(* the calls it made.                                                       *)
Raises(s) ==
  /\ \/ WorkerAt(s, "boot", "write") \/ WorkerAt(s, "ask", "write")
     \/ WorkerAt(s, "call", "write")
  /\ Ends(s, Failed("crashed"))
  /\ UNCHANGED <<now, runnerVars, file, wstart, number, until, sent, lost>>

(* The file is emptied, and then holds the result.                          *)
OpenFile(s) ==
  /\ WorkerAt(s, "write", "writing")
  /\ file' = [file EXCEPT ![s] = Nothing("torn", "none")]
  /\ UNCHANGED <<now, runnerVars, wstart, number, until, result, sent, lost>>

WriteResult(s) ==
  /\ wpc[s] = "writing"
  /\ file' = [file EXCEPT ![s] = result[s]]
  /\ Gone(s)
  /\ UNCHANGED <<now, runnerVars, sent>>

(* Ended from outside, with nothing written, or half of it.                 *)
Dies(s) ==
  /\ Alive(s)
  /\ Gone(s)
  /\ UNCHANGED <<now, runnerVars, file, sent>>

-------------------------------------------------------------------------------

(* A call ends by its deadline, so time does not pass it.                   *)
Tick ==
  /\ now < MaxTime /\ pc # "done"
  /\ \A s \in Seats : wpc[s] = "call" => now < until[s]
  /\ now' = now + 1
  /\ UNCHANGED <<runnerVars, file, workerVars>>

RunnerStep ==
  \/ Turn \/ LoopEnds \/ Kill \/ SweepEnds
  \/ \E s \in Seats : Collect(s) \/ LeaveRunning(s) \/ Condemn(s)

WorkerStep(s) ==
  \/ Boot(s) \/ WrongSnapshot(s) \/ Ask(s) \/ NoTime(s)
  \/ \E reply \in Replies : Reply(s, reply)
  \/ Raises(s) \/ OpenFile(s) \/ WriteResult(s) \/ Dies(s)

Finished == pc = "done" /\ UNCHANGED vars

Next == RunnerStep \/ (\E s \in Seats : WorkerStep(s)) \/ Tick \/ Finished

Spec == Init /\ [][Next]_vars

(* The runner's loop goes on, time passes, and a call past its deadline     *)
(* ends.  Nothing is assumed of a worker's own pace.                        *)
FairSpec ==
  /\ Spec
  /\ WF_vars(RunnerStep) /\ WF_vars(Tick)
  /\ \A s \in Seats : WF_vars(Reply(s, "lost"))

-------------------------------------------------------------------------------
(* Properties *)

TypeOK ==
  /\ width \in Widths /\ now \in 0..MaxTime
  /\ pc \in {"top", "sweep", "kill", "done"} /\ over \in BOOLEAN
  /\ queue \in Seq(Seats) /\ running \subseteq Seats /\ sweep \subseteq Seats
  /\ victim \in Seats \cup {Nobody}
  /\ started \in [Seats -> 0..MaxTime]
  /\ slot \in [Seats -> Result] /\ file \in [Seats -> Result]
  /\ reports \subseteq [seat : Seats, accepted : BOOLEAN]
  /\ wpc \in [Seats -> {"off", "boot", "ask", "call", "write", "writing",
                        "exited"}]
  /\ wstart \in [Seats -> 0..MaxTime] /\ until \in [Seats -> Nat]
  /\ number \in [Seats -> 0..(Retries + 1)]
  /\ result \in [Seats -> Result]
  /\ sent \in [Seats -> 0..(Retries + 1)] /\ lost \in [Seats -> BOOLEAN]

(* "Collect every outcome": a finished seat's slot and its result file are  *)
(* the same, and neither changes again: a killed worker has no last word.   *)
OutcomeStands ==
  [][\A s \in Seats : slot[s].status # "pending" =>
        /\ file[s] = slot[s]
        /\ slot'[s] = slot[s] /\ file'[s] = file[s]]_vars

(* models.json: the worker's deadline "exceeds transport_timeout_seconds,   *)
(* so the transport ends a call and the worker still has time to record     *)
(* it".  A call still going when the runner may kill its worker is that of  *)
(* a worker whose process took longer than the margin to start.             *)
TransportEndsFirst ==
  \A s \in Seats :
     wpc[s] = "call" /\ now > started[s] + WorkerDeadline
       => wstart[s] > started[s] + Margin

(* "Never for a timeout, a transport failure": a call that may have been    *)
(* billed and lost is the seat's last (analyst.py).                         *)
LostNeverRetried ==
  [][\A s \in Seats : lost[s] => sent'[s] = sent[s]]_vars

(* A seat's cost is the sum of its recorded attempts: every call it sent is *)
(* one of them, unless its worker was killed or crashed.                    *)
CallsAccounted ==
  \A s \in Seats : slot[s].status # "pending" =>
     /\ slot[s].attempts <= sent[s]
     /\ slot[s].reason \notin {"worker_deadline", "cycle_deadline", "crashed"}
          => slot[s].attempts = sent[s]

(* The report store and the cycle agree on which replies were accepted, and *)
(* the cycle accepts none it did not keep.                                  *)
ReportsAgree ==
  /\ \A rec \in reports :
        rec.accepted <=> slot[rec.seat].status = "ok"
  /\ \A s \in Seats : slot[s].status = "ok"
        => [seat |-> s, accepted |-> TRUE] \in reports

(* The cycle ends with an outcome for every seat and no process left,       *)
(* however slow or stuck a worker is.                                       *)
CycleEnds ==
  <>(/\ pc = "done"
     /\ \A s \in Seats : slot[s].status \in {"ok", "failed"} /\ ~Alive(s))

=============================================================================
