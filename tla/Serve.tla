--------------------------------- MODULE Serve ---------------------------------
(***************************************************************************)
(* The dashboard's server: run/serve.Run (one live cycle as a child         *)
(* process, a thread that turns what it prints into events, and one that    *)
(* watches the seats' result files) and the handlers of                     *)
(* POST /api/cycle/run, each request in a thread of its own.                *)
(*                                                                         *)
(* A thread and a child leave nothing behind when they end.                 *)
(*                                                                         *)
(* A step is one access to what the threads share: Run's process, its       *)
(* events (under its lock), a watcher's set of seats.  A child may end at   *)
(* any line; the pipe it prints to holds PipeLines of them.                 *)
(*                                                                         *)
(* Abstracted: an event is its type, its seat, and the run it tells of,     *)
(* which the code does not record; only the lines _watch looks for are      *)
(* printed; Leg, a second Run with other lines, is not repeated; reading    *)
(* the log (since, under the lock) changes nothing; the log is what it      *)
(* tells, as a set.                                                         *)
(***************************************************************************)
EXTENDS Naturals, FiniteSets, Sequences, SequencesExt

CONSTANTS
  Requests,   \* the requests the server handles at the same time
  Seats,      \* the analyst seats
  MaxRuns,    \* bound: cycles started
  PipeLines,  \* bound: lines the child's stdout pipe holds
  NoSeat      \* no seat

ASSUME BoundsAssumption ==
  /\ MaxRuns \in Nat \ {0} /\ PipeLines \in Nat \ {0}
  /\ IsFiniteSet(Requests)
  /\ IsFiniteSet(Seats) /\ NoSeat \notin Seats

Runs == 1..MaxRuns

VARIABLES
  process,  \* Run.process: the last child started, 0 before the first
  events,   \* Run.events
  req,      \* where each POST is in the server
  child,    \* what became of each child
  printed,  \* lines each child has printed
  taken,    \* lines of it read from its pipe
  results,  \* the seats whose result file is there
  wpc,      \* where each run's _watch is
  reads,    \* the child whose output it reads, and then waits for
  pending,  \* what the line it read has still to say
  seen,     \* the seats it and its _seats have reported
  spc,      \* where each run's _seats is
  dir,      \* the child whose result files it looks for
  spot      \* the seat it found

serverVars == <<process, events, req>>
childVars  == <<child, printed, taken, results>>
watchVars  == <<wpc, reads, pending, seen>>
seatVars   == <<spc, dir, spot>>
vars == <<serverVars, childVars, watchVars, seatVars>>

-------------------------------------------------------------------------------
(* Data *)

(* What a live cycle prints, as far as _watch looks: its three stages, and  *)
(* its summary, which names the record and then the book.  The snapshot's   *)
(* name, printed between the first two, is taken with the first.            *)
Lines == <<"1/3", "2/3", "3/3", "summary">>
AnalystsAt == 2

(* Events emitted one after the other are one here: the snapshot's start    *)
(* and end, the aggregation's and the risk's start, the risk's end and the  *)
(* treasurer's start and end.                                               *)
Types == {"snapshot.start", "analysts.start", "analyst.done",
          "aggregate.start", "treasurer.done", "cycle.finished"}

Event == [type : Types, seat : Seats \cup {NoSeat}, run : Runs]

(* What a watcher has to do after a line: emit an event, report a seat      *)
(* still open, or start the thread that watches the seats.                  *)
Tasks == [do : {"emit"}, type : Types] \cup [do : {"seat"}, seat : Seats]
           \cup {[do |-> "seats"]}

Say(types) == [i \in 1..Len(types) |-> [do |-> "emit", type |-> types[i]]]
Open       == [i \in 1..Cardinality(Seats) |->
                 [do |-> "seat", seat |-> SetToSeq(Seats)[i]]]

Logged(type) == \E e \in events : e.type = type

Running == process # 0 /\ child[process] = "alive"

Emit(type, seat, run) ==
  events' = events \cup {[type |-> type, seat |-> seat, run |-> run]}

Init ==
  /\ process = 0 /\ events = {}
  /\ req     = [q \in Requests |-> "none"]
  /\ child   = [r \in Runs |-> "none"]
  /\ printed = [r \in Runs |-> 0] /\ taken = [r \in Runs |-> 0]
  /\ results = [r \in Runs |-> {}]
  /\ wpc     = [r \in Runs |-> "off"] /\ reads = [r \in Runs |-> 0]
  /\ pending = [r \in Runs |-> <<>>]
  /\ seen    = [r \in Runs |-> {}]
  /\ spc     = [r \in Runs |-> "off"] /\ dir = [r \in Runs |-> 0]
  /\ spot    = [r \in Runs |-> NoSeat]

-------------------------------------------------------------------------------
(* A POST *)

Free == Cardinality({r \in Runs : child[r] = "none"})
Posting == {q \in Requests : req[q] # "none"}

Refused == Running

(* do_POST asks first whether a cycle runs (it answers 409 if one does),    *)
(* and then start asks again.                                               *)
Post(q) ==
  /\ req[q] = "none" /\ Cardinality(Posting) < Free
  /\ ~Refused
  /\ req' = [req EXCEPT ![q] = "start"]
  /\ UNCHANGED <<process, events, childVars, watchVars, seatVars>>

Start(q) ==
  /\ req[q] = "start"
  /\ req' = [req EXCEPT ![q] = IF Refused THEN "none" ELSE "clear"]
  /\ UNCHANGED <<process, events, childVars, watchVars, seatVars>>

Clear(q) ==
  /\ req[q] = "clear"
  /\ req' = [req EXCEPT ![q] = "spawn"]
  /\ events' = {}
  /\ UNCHANGED <<process, childVars, watchVars, seatVars>>

(* The child and its watcher start, and the request is answered.            *)
Spawn(q) ==
  /\ req[q] = "spawn"
  /\ req' = [req EXCEPT ![q] = "none"]
  /\ LET r == CHOOSE n \in Runs : /\ child[n] = "none"
                                  /\ \A m \in 1..(n - 1) : child[m] # "none"
     IN /\ process' = r
        /\ child'   = [child EXCEPT ![r] = "alive"]
        /\ wpc'     = [wpc EXCEPT ![r] = "boot"]
  /\ UNCHANGED <<events, printed, taken, results, reads, pending, seen,
                 seatVars>>

-------------------------------------------------------------------------------
(* A live cycle, as its parent sees it *)

(* The analysts' runner ends, and the third stage begins, only when every   *)
(* seat has its outcome.                                                    *)
PrintLine(r) ==
  /\ child[r] = "alive" /\ printed[r] < Len(Lines)
  /\ printed[r] - taken[r] < PipeLines
  /\ printed[r] = AnalystsAt => results[r] = Seats
  /\ printed' = [printed EXCEPT ![r] = @ + 1]
  /\ UNCHANGED <<serverVars, child, taken, results, watchVars, seatVars>>

SeatEnds(r, s) ==
  /\ child[r] = "alive" /\ printed[r] = AnalystsAt /\ s \notin results[r]
  /\ results' = [results EXCEPT ![r] = @ \cup {s}]
  /\ UNCHANGED <<serverVars, child, printed, taken, watchVars, seatVars>>

Exits(r) ==
  /\ child[r] = "alive"
  /\ child' = [child EXCEPT ![r] = "exited"]
  /\ UNCHANGED <<serverVars, printed, taken, results, watchVars, seatVars>>

ChildEnds(r)  == printed[r] = Len(Lines) /\ Exits(r)
ChildFails(r) == printed[r] < Len(Lines) /\ Exits(r)

-------------------------------------------------------------------------------
(* _watch *)

WatchAt(r, here, next) == wpc[r] = here /\ wpc' = [wpc EXCEPT ![r] = next]

(* The thread is up: it takes the output of the process there is by now.    *)
WatchStarts(r) ==
  /\ WatchAt(r, "boot", "read")
  /\ reads' = [reads EXCEPT ![r] = process]
  /\ UNCHANGED <<serverVars, childVars, pending, seen, seatVars>>

(* Mutant: the analysts' stage ends without a word of the seats still open. *)
TasksOf_NoOpen(line) ==
  CASE line = "1/3"     -> Say(<<"snapshot.start">>)
    [] line = "2/3"     -> Say(<<"analysts.start">>) \o <<[do |-> "seats"]>>
    [] line = "3/3"     -> Say(<<"aggregate.start">>)
    [] line = "summary" -> Say(<<"treasurer.done">>)

TasksOf(line) ==
  CASE line = "1/3"     -> Say(<<"snapshot.start">>)
    [] line = "2/3"     -> Say(<<"analysts.start">>) \o <<[do |-> "seats"]>>
    [] line = "3/3"     -> Open \o Say(<<"aggregate.start">>)
    [] line = "summary" -> Say(<<"treasurer.done">>)

(* Mutant: it takes a line as there, whether or not one was printed.        *)
ReadLine_Blind(r) ==
  /\ wpc[r] = "read" /\ pending[r] = <<>>
  /\ taken[reads[r]] < Len(Lines)
  /\ pending' = [pending EXCEPT ![r] = TasksOf(Lines[taken[reads[r]] + 1])]
  /\ taken' = [taken EXCEPT ![reads[r]] = @ + 1]
  /\ UNCHANGED <<serverVars, child, printed, results, wpc, reads, seen,
                 seatVars>>

(* A line of the output, and what it calls for.                             *)
ReadLine(r) ==
  /\ wpc[r] = "read" /\ pending[r] = <<>>
  /\ taken[reads[r]] < printed[reads[r]]
  /\ pending' = [pending EXCEPT ![r] = TasksOf(Lines[taken[reads[r]] + 1])]
  /\ taken' = [taken EXCEPT ![reads[r]] = @ + 1]
  /\ UNCHANGED <<serverVars, child, printed, results, wpc, reads, seen,
                 seatVars>>

Done(r) == pending' = [pending EXCEPT ![r] = Tail(@)]

WatchEmits(r) ==
  /\ pending[r] # <<>> /\ Head(pending[r]).do = "emit"
  /\ Emit(Head(pending[r]).type, NoSeat, reads[r])
  /\ Done(r)
  /\ UNCHANGED <<process, req, childVars, wpc, reads, seen, seatVars>>

(* "any seat still open ends with the stage": one nobody reported by now.   *)
WatchClosesSeat(r) ==
  /\ pending[r] # <<>> /\ Head(pending[r]).do = "seat"
  /\ LET s == Head(pending[r]).seat
     IN /\ IF s \in seen[r] THEN UNCHANGED events
           ELSE Emit("analyst.done", s, reads[r])
        /\ seen' = [seen EXCEPT ![r] = @ \cup {s}]
  /\ Done(r)
  /\ UNCHANGED <<process, req, childVars, wpc, reads, seatVars>>

WatchStartsSeats(r) ==
  /\ pending[r] # <<>> /\ Head(pending[r]).do = "seats"
  /\ spc' = [spc EXCEPT ![r] = "scan"]
  /\ dir' = [dir EXCEPT ![r] = reads[r]]
  /\ Done(r)
  /\ UNCHANGED <<serverVars, childVars, wpc, reads, seen, spot>>

(* The output is at its end: it waits for the process there is by now.      *)
OutputEnds(r) ==
  /\ WatchAt(r, "read", "wait") /\ pending[r] = <<>>
  /\ child[reads[r]] = "exited" /\ taken[reads[r]] = printed[reads[r]]
  /\ reads'   = [reads EXCEPT ![r] = process]
  /\ printed' = [printed EXCEPT ![reads[r]] = 0]
  /\ taken'   = [taken EXCEPT ![reads[r]] = 0]
  /\ UNCHANGED <<serverVars, child, results, pending, seen, seatVars>>

(* Mutant: the end is reported together with a treasurer's end left open.   *)
ProcessEnds_OnlyFailed(r) ==
  /\ WatchAt(r, "wait", "end")
  /\ child[reads[r]] = "exited"
  /\ pending' = [pending EXCEPT ![r] =
                   IF Logged("treasurer.done") THEN <<>>
                   ELSE Say(<<"treasurer.done", "cycle.finished">>)]
  /\ seen' = [seen EXCEPT ![r] = IF spc[r] \in {"off", "end"} THEN {} ELSE @]
  /\ UNCHANGED <<serverVars, childVars, reads, seatVars>>

(* The process has ended: the end is reported, and a treasurer's end that   *)
(* was not.                                                                 *)
ProcessEnds(r) ==
  /\ WatchAt(r, "wait", "end")
  /\ child[reads[r]] = "exited"
  /\ pending' = [pending EXCEPT ![r] =
                   Say(IF Logged("treasurer.done") THEN <<"cycle.finished">>
                       ELSE <<"treasurer.done", "cycle.finished">>)]
  /\ seen' = [seen EXCEPT ![r] = IF spc[r] \in {"off", "end"} THEN {} ELSE @]
  /\ UNCHANGED <<serverVars, childVars, reads, seatVars>>

-------------------------------------------------------------------------------
(* _seats *)

SeatsAt(r, here, next) == spc[r] = here /\ spc' = [spc EXCEPT ![r] = next]

(* A seat nobody reported has its outcome on disk.  A pass over the seats   *)
(* begun while the cycle ran may find it after it ended.                    *)
FindSeat(r, s) ==
  /\ SeatsAt(r, "scan", "found")
  /\ s \notin seen[r] /\ s \in results[dir[r]]
  /\ spot' = [spot EXCEPT ![r] = s]
  /\ UNCHANGED <<serverVars, childVars, watchVars, dir>>

MarkSeat(r) ==
  /\ SeatsAt(r, "found", "marked")
  /\ seen' = [seen EXCEPT ![r] = @ \cup {spot[r]}]
  /\ UNCHANGED <<serverVars, childVars, wpc, reads, pending, dir, spot>>

EmitSeat(r) ==
  /\ SeatsAt(r, "marked", "scan")
  /\ Emit("analyst.done", spot[r], dir[r])
  /\ spot' = [spot EXCEPT ![r] = NoSeat]
  /\ UNCHANGED <<process, req, childVars, watchVars, dir>>

(* It goes on while a cycle runs, the one it was started for or another.    *)
SeatsEnd(r) ==
  /\ ~Running
  /\ SeatsAt(r, "scan", "end")
  /\ dir'     = [dir EXCEPT ![r] = 0]
  /\ results' = [results EXCEPT ![dir[r]] = {}]
  /\ seen'    = [seen EXCEPT ![r] = IF wpc[r] = "end" THEN {} ELSE @]
  /\ UNCHANGED <<serverVars, child, printed, taken, wpc, reads, pending, spot>>

-------------------------------------------------------------------------------

ServerStep(q) == Start(q) \/ Clear(q) \/ Spawn(q)

WatchStep(r) ==
  \/ WatchStarts(r) \/ ReadLine(r) \/ WatchEmits(r) \/ WatchClosesSeat(r)
  \/ WatchStartsSeats(r) \/ OutputEnds(r) \/ ProcessEnds(r)

SeatsStep(r) ==
  (\E s \in Seats : FindSeat(r, s)) \/ MarkSeat(r) \/ EmitSeat(r) \/ SeatsEnd(r)

ChildStep(r) ==
  PrintLine(r) \/ (\E s \in Seats : SeatEnds(r, s)) \/ ChildEnds(r)

(* Nothing goes on, and the bound lets no other cycle start.                *)
Quiet ==
  /\ Free = 0 /\ ~Running
  /\ \A r \in Runs : wpc[r] = "end" /\ pending[r] = <<>> /\ spc[r] \in {"off", "end"}
  /\ \A q \in Requests : req[q] = "none"
  /\ UNCHANGED vars

Next ==
  \/ \E q \in Requests : Post(q) \/ ServerStep(q)
  \/ \E r \in Runs : \/ ChildStep(r) \/ ChildFails(r)
                     \/ WatchStep(r) \/ SeatsStep(r)
  \/ Quiet

Spec == Init /\ [][Next]_vars

(* As long as a live cycle, or a thread that watches one, can go on, one of *)
(* them does.  Nobody need send a POST.                                     *)
FairSpec ==
  /\ Spec
  /\ WF_vars(\E r \in Runs : ChildStep(r) \/ WatchStep(r) \/ SeatsStep(r))

-------------------------------------------------------------------------------
(* Properties *)

TypeOK ==
  /\ process \in 0..MaxRuns /\ events \subseteq Event
  /\ req \in [Requests -> {"none", "start", "clear", "spawn"}]
  /\ child \in [Runs -> {"none", "alive", "exited"}]
  /\ printed \in [Runs -> 0..Len(Lines)]
  /\ \A r \in Runs : taken[r] \in 0..printed[r]
  /\ results \in [Runs -> SUBSET Seats]
  /\ wpc \in [Runs -> {"off", "boot", "read", "wait", "end"}]
  /\ reads \in [Runs -> 0..MaxRuns]
  /\ \A r \in Runs : pending[r] \in Seq(Tasks)
  /\ seen \in [Runs -> SUBSET Seats]
  /\ spc \in [Runs -> {"off", "scan", "found", "marked", "end"}]
  /\ dir \in [Runs -> 0..MaxRuns]
  /\ \A r \in Runs : spot[r] \in Seats <=> spc[r] \in {"found", "marked"}

(* "It starts one cycle at a time": never two live cycles, which both       *)
(* spend (serve.py).                                                        *)
OneCycle == Cardinality({r \in Runs : child[r] = "alive"}) <= 1

(* The page accepts the start of the aggregation only when every analyst is *)
(* done (Openfund.html).  Two threads report the analysts, and between the  *)
(* mark one makes and its event the other goes on: only a seat in that hand *)
(* is late, in a log that is not being emptied for the next cycle.          *)
AggregateAfterReports ==
  [][\A e \in events' \ events :
        /\ e.type = "aggregate.start" /\ e.run = process
        /\ \A q \in Requests : req[q] # "spawn"
        => \A s \in Seats :
             \/ [type |-> "analyst.done", seat |-> s, run |-> e.run] \in events
             \/ \E r \in Runs : spc[r] = "marked" /\ spot[r] = s]_vars

(* A cycle that was started ends, and is reported finished: its output is   *)
(* read to the end, so that it never waits for room in its pipe.            *)
CycleReported ==
  Running ~> ~Running /\ Logged("cycle.finished")

=============================================================================
