--------------------------- MODULE AnalystPoolProofs ---------------------------
(***************************************************************************)
(* Proofs about AnalystPool, for any number of seats, any settings that     *)
(* SettingsAssumption admits, and workers as slow, stuck or short-lived as  *)
(* the model lets them be.                                                  *)
(***************************************************************************)
EXTENDS AnalystPool, FiniteSetTheorems, SequenceTheorems, TLAPS

-------------------------------------------------------------------------------
(* The inductive invariant *)

Taken(s) == slot[s].status # "pending"

(* Every seat is in the queue, once, or held, or finished, and the runner   *)
(* holds no more than `width` processes.                                      *)
QueueInv ==
  /\ \A i, j \in 1..Len(queue) : queue[i] = queue[j] => i = j
  /\ \A s \in Seats : s \in Range(queue) <=> s \notin running /\ ~Taken(s)
  /\ \A s \in running : ~Taken(s)
  /\ Cardinality(running) <= width

(* The runner polls seats it holds, and is about to kill one of them.       *)
LoopInv ==
  /\ sweep \subseteq running
  /\ pc \in {"top", "done"} => sweep = {}
  /\ pc = "kill" => victim \in sweep
  /\ pc = "done" => queue = <<>> /\ running = {}

(* A worker that has not written its file: what it will write, and the      *)
(* calls it made.  One that has a call under way is within the time the     *)
(* call was given.                                                          *)
WorkerInv(s) ==
  /\ lost[s] = TRUE => wpc[s] \in {"write", "writing"}
  /\ wpc[s] \in {"off", "boot"} => sent[s] = 0
  /\ wpc[s] \in {"boot", "ask", "call", "write"} => file[s].status = "pending"
  /\ wpc[s] = "writing" => file[s].status = "torn"
  /\ wpc[s] = "ask"  => number[s] = sent[s] + 1 /\ result[s].attempts = sent[s]
  /\ wpc[s] = "call" =>
       /\ number[s] = sent[s] /\ result[s].attempts + 1 = sent[s]
       /\ now <= until[s] /\ until[s] <= wstart[s] + Transport
  /\ wpc[s] \in {"ask", "call", "write", "writing"} => result[s].status # "pending"
  /\ wpc[s] \in {"write", "writing"} =>
       \/ result[s].attempts = sent[s]
       \/ result[s].attempts = 0 /\ result[s].reason = "crashed"
  /\ result[s].reason \in {"none", "own", "crashed"}
  /\ result[s].status = "ok" => result[s].text = TRUE
  /\ result[s].status # "torn"

(* What a seat's file holds once it holds a result: no more calls than were *)
(* sent, every one of them unless the worker was killed or crashed, and the *)
(* text of a reply it accepted.                                             *)
FileInv(s) ==
  /\ file[s].attempts <= sent[s]
  /\ file[s].status \in {"ok", "failed"}
       => \/ file[s].reason \in {"worker_deadline", "cycle_deadline", "crashed"}
          \/ file[s].attempts = sent[s]
  /\ file[s].status = "ok" => file[s].text = TRUE

(* A process is one the runner holds; a finished seat's file is its slot.   *)
SeatInv(s) ==
  /\ Alive(s) => s \in running
  /\ s \in running => wpc[s] # "off"
  /\ ~Taken(s) /\ s \notin running => wpc[s] = "off" /\ file[s].status = "pending"
  /\ Taken(s) => slot[s].status \in {"ok", "failed"} /\ file[s] = slot[s]

(* A record is of a finished seat, and says what its slot says.             *)
ReportInv ==
  /\ \A rec \in reports : Taken(rec.seat)
  /\ ReportsAgree

PoolInv ==
  /\ TypeOK /\ QueueInv /\ LoopInv /\ ReportInv
  /\ \A s \in Seats : WorkerInv(s) /\ FileInv(s) /\ SeatInv(s)

-------------------------------------------------------------------------------
(* Operators *)

(* The lesser of two numbers.                                               *)
LEMMA MinOfTwo ==
  ASSUME NEW a \in Int, NEW b \in Int
  PROVE  Min({a, b}) = IF a <= b THEN a ELSE b
<1>1. \E x \in {a, b} : \A y \in {a, b} : x =< y
  OBVIOUS
<1> QED BY <1>1 DEF Min

(* A call ends no later than its transport timeout, nor than its worker's   *)
(* own deadline less the margin.                                            *)
LEMMA CallEnds ==
  ASSUME TypeOK, NEW s \in Seats
  PROVE  /\ CallEndsBy(s) \in Nat
         /\ CallEndsBy(s) <= wstart[s] + Transport
<1>1. now + Transport \in Nat /\ wstart[s] + WorkerDeadline - Margin = wstart[s] + Transport
  BY SettingsAssumption DEF TypeOK, Margin
<1>2. wstart[s] + Transport \in Nat
  BY SMTT(40), SettingsAssumption DEF TypeOK
<1> QED BY <1>1, <1>2, MinOfTwo DEF CallEndsBy

(* The results the code makes are results.                                  *)
LEMMA ResultTypes ==
  /\ \A status \in Statuses, reason \in Reasons : Nothing(status, reason) \in Result
  /\ \A res \in Result, reply \in Replies :
       res.attempts <= Retries => After(res, reply) \in Result
<1>1. 0 \in 0..(Retries + 1)
  BY SettingsAssumption
<1>2. ASSUME NEW res \in Result, NEW reply \in Replies, res.attempts <= Retries
      PROVE  After(res, reply) \in Result
  <2>1. res.attempts + 1 \in 0..(Retries + 1) /\ res.text \in BOOLEAN
    BY <1>2, SettingsAssumption DEF Result
  <2> QED BY <2>1 DEF After, Result, Statuses, Reasons
<1> QED BY <1>1, <1>2 DEF Nothing, Result, Statuses, Reasons

(* A result with no calls.                                                  *)
LEMMA Blank ==
  /\ \A status \in Statuses, reason \in Reasons :
       /\ Nothing(status, reason).status = status
       /\ Nothing(status, reason).reason = reason
       /\ Nothing(status, reason).attempts = 0
       /\ Nothing(status, reason).text = FALSE
  /\ /\ Pending.status = "pending" /\ Pending.reason = "none"
     /\ Pending.attempts = 0 /\ Pending.text = FALSE
  /\ \A reason \in Reasons :
       /\ Failed(reason).status = "failed" /\ Failed(reason).reason = reason
       /\ Failed(reason).attempts = 0 /\ Failed(reason).text = FALSE
  BY DEF Nothing, Pending, Failed

(* What the runner makes of a file is an outcome.                           *)
LEMMA OutcomeTypes ==
  ASSUME TypeOK, NEW s \in Seats, NEW killed \in Reasons, FileInv(s)
  PROVE  /\ Outcome(s, killed) \in Result
         /\ Outcome(s, killed).status \in {"ok", "failed"}
         /\ Outcome(s, killed).attempts <= sent[s]
         /\ \/ Outcome(s, killed).reason
                 \in {"worker_deadline", "cycle_deadline", "crashed", killed} \ {"none"}
            \/ Outcome(s, killed).attempts = sent[s]
         /\ Outcome(s, killed).status = "ok" => Outcome(s, killed).text = TRUE
<1> DEFINE read == IF file[s].status = "torn" THEN Pending ELSE file[s]
<1>1. /\ Pending \in Result /\ Failed("crashed") \in Result
  BY ResultTypes DEF Pending, Failed, Statuses, Reasons
<1>2. read \in Result /\ read.attempts <= sent[s] /\ sent[s] \in Nat
  <2>1. file[s] \in Result /\ sent[s] \in Nat /\ file[s].attempts <= sent[s]
    BY SettingsAssumption DEF TypeOK, FileInv
  <2> QED BY <1>1, <2>1, Blank
<1>3. CASE killed # "none"
  <2>1. Outcome(s, killed) = [read EXCEPT !.status = "failed", !.reason = killed]
    BY <1>3 DEF Outcome
  <2> QED BY <2>1, <1>2, <1>3 DEF Result, Statuses, Reasons
<1>4. CASE killed = "none" /\ read.status = "pending"
  <2>1. Outcome(s, killed) = Failed("crashed")
    BY <1>4 DEF Outcome
  <2> QED BY <2>1, <1>1, <1>2, Blank DEF Reasons
<1>5. CASE killed = "none" /\ read.status # "pending"
  <2>1. Outcome(s, killed) = read /\ read = file[s]
    BY <1>5, Blank DEF Outcome
  <2>2. file[s].status # "torn"
    BY <1>5, Blank
  <2>3. file[s].status \in {"ok", "failed"}
    BY <1>2, <1>5, <2>1, <2>2 DEF Result, Statuses
  <2> QED BY <2>1, <2>3, <1>2 DEF FileInv
<1> QED BY <1>3, <1>4, <1>5

-------------------------------------------------------------------------------
(* The first states *)

(* Every order of the queue names each seat once.                           *)
LEMMA QueueOnce ==
  ASSUME NEW q \in [1..Cardinality(Seats) -> Seats], Range(q) = Seats
  PROVE  /\ q \in Seq(Seats) /\ Len(q) = Cardinality(Seats)
         /\ \A i, j \in 1..Len(q) : q[i] = q[j] => i = j
<1>1. Cardinality(Seats) \in Nat
  BY SettingsAssumption, FS_CardinalityType
<1>2. q \in Seq(Seats) /\ Len(q) = Cardinality(Seats)
  BY <1>1
<1>3. IsFiniteSet(1..Cardinality(Seats)) /\ Cardinality(1..Cardinality(Seats)) = Cardinality(Seats)
  BY <1>1, FS_Interval
<1>4. q \in Surjection(1..Cardinality(Seats), Seats)
  BY DEF Surjection, Range
<1>5. q \in Injection(1..Cardinality(Seats), Seats)
  BY <1>3, <1>4, FS_SurjSameCardinalityImpliesInj
<1> QED BY <1>2, <1>5 DEF Injection, IsInjective

LEMMA InitInv == Init => PoolInv
<1> SUFFICES ASSUME Init PROVE PoolInv
  OBVIOUS
<1>1. Pending \in Result
  BY ResultTypes DEF Pending, Statuses, Reasons
<1>2. 0 \in 0..MaxTime /\ 0 \in 0..(Retries + 1)
  BY SettingsAssumption
<1>3. /\ queue \in Seq(Seats) /\ Range(queue) = Seats
      /\ \A i, j \in 1..Len(queue) : queue[i] = queue[j] => i = j
  BY QueueOnce DEF Init
<1>4. TypeOK
  BY <1>1, <1>2, <1>3 DEF Init, TypeOK
<1>5. QueueInv
  BY <1>3, FS_EmptySet, SettingsAssumption DEF Init, QueueInv, Taken, Pending, Nothing
<1>6. LoopInv
  BY DEF Init, LoopInv
<1>7. ReportInv
  BY DEF Init, ReportInv, ReportsAgree, Pending, Nothing
<1>8. \A s \in Seats : WorkerInv(s) /\ FileInv(s) /\ SeatInv(s)
  BY Blank DEF Init, WorkerInv, FileInv, SeatInv, Taken, Alive
<1> QED BY <1>4, <1>5, <1>6, <1>7, <1>8 DEF PoolInv

-------------------------------------------------------------------------------
(* A worker's steps *)

(* Nothing a worker does is seen by the runner but its process and its      *)
(* file.                                                                    *)
LEMMA WorkerKeepsRunner ==
  ASSUME PoolInv, UNCHANGED <<now, runnerVars>>
  PROVE  QueueInv' /\ LoopInv' /\ ReportInv'
  BY DEF PoolInv, QueueInv, LoopInv, ReportInv, ReportsAgree, Taken, runnerVars

(* A worker is a process of the runner's, which has no outcome yet.         *)
LEMMA AliveHeld ==
  ASSUME PoolInv, NEW s \in Seats, Alive(s)
  PROVE  s \in running /\ ~Taken(s)
  BY DEF PoolInv, SeatInv, QueueInv

(* What a worker's step must keep of the types.                             *)
WorkerTypes ==
  /\ file \in [Seats -> Result] /\ result \in [Seats -> Result]
  /\ wpc \in [Seats -> {"off", "boot", "ask", "call", "write", "writing", "exited"}]
  /\ wstart \in [Seats -> 0..MaxTime] /\ until \in [Seats -> Nat]
  /\ number \in [Seats -> 0..(Retries + 1)]
  /\ sent \in [Seats -> 0..(Retries + 1)] /\ lost \in [Seats -> BOOLEAN]

LEMMA WorkerTypesSuffice ==
  ASSUME PoolInv, UNCHANGED <<now, runnerVars>>, WorkerTypes',
         \A s \in Seats : (WorkerInv(s) /\ FileInv(s) /\ SeatInv(s))'
  PROVE  PoolInv'
<1>1. TypeOK'
  BY DEF PoolInv, TypeOK, WorkerTypes, runnerVars
<1> QED BY <1>1, WorkerKeepsRunner DEF PoolInv

(* A step of one worker leaves the others as they are.                      *)
LEMMA OthersKeep ==
  ASSUME PoolInv, NEW z \in Seats, UNCHANGED <<now, runnerVars>>,
         wpc'[z] = wpc[z], wstart'[z] = wstart[z], number'[z] = number[z],
         until'[z] = until[z], result'[z] = result[z], sent'[z] = sent[z],
         lost'[z] = lost[z], file'[z] = file[z]
  PROVE  (WorkerInv(z) /\ FileInv(z) /\ SeatInv(z))'
<1>1. WorkerInv(z) /\ FileInv(z) /\ SeatInv(z)
  BY DEF PoolInv
<1> QED BY <1>1 DEF WorkerInv, FileInv, SeatInv, Taken, Alive, runnerVars

LEMMA BootInv ==
  ASSUME PoolInv, NEW s \in Seats, Boot(s)
  PROVE  PoolInv'
<1> USE DEF PoolInv
<1>1. Failed("own") \in Result /\ now \in 0..MaxTime /\ 1 \in 0..(Retries + 1)
  BY ResultTypes, SettingsAssumption DEF Failed, Statuses, Reasons, TypeOK
<1>2. WorkerTypes'
  BY <1>1 DEF Boot, WorkerAt, Ends, TypeOK, WorkerTypes
<1>3. ASSUME NEW z \in Seats PROVE (WorkerInv(z) /\ FileInv(z) /\ SeatInv(z))'
  BY SMTT(40), Blank DEF Boot, WorkerAt, Ends, TypeOK, WorkerInv, FileInv, SeatInv, Taken, Alive,
         runnerVars, Reasons
<1> QED BY <1>2, <1>3, WorkerTypesSuffice DEF Boot

LEMMA WrongSnapshotInv ==
  ASSUME PoolInv, NEW s \in Seats, WrongSnapshot(s)
  PROVE  PoolInv'
<1> USE DEF PoolInv
<1>1. Failed("own") \in Result /\ now \in 0..MaxTime
  BY ResultTypes DEF Failed, Statuses, Reasons, TypeOK
<1>2. WorkerTypes'
  BY <1>1 DEF WrongSnapshot, WorkerAt, Ends, TypeOK, WorkerTypes
<1>3. ASSUME NEW z \in Seats PROVE (WorkerInv(z) /\ FileInv(z) /\ SeatInv(z))'
  BY SMTT(40), Blank DEF WrongSnapshot, WorkerAt, Ends, TypeOK, WorkerInv, FileInv, SeatInv, Taken,
         Alive, runnerVars, Reasons
<1> QED BY <1>2, <1>3, WorkerTypesSuffice DEF WrongSnapshot

LEMMA AskInv ==
  ASSUME PoolInv, NEW s \in Seats, Ask(s)
  PROVE  PoolInv'
<1> USE DEF PoolInv
<1>1. wpc[s] = "ask" /\ sent[s] + 1 = number[s] /\ number[s] \in 0..(Retries + 1)
  BY DEF Ask, WorkerAt, WorkerInv, TypeOK
<1>2. WorkerTypes'
  BY <1>1, CallEnds DEF Ask, WorkerAt, TypeOK, WorkerTypes
<1>3. ASSUME NEW z \in Seats \ {s} PROVE (WorkerInv(z) /\ FileInv(z) /\ SeatInv(z))'
  BY OthersKeep DEF Ask, WorkerAt, TypeOK
<1>4. (WorkerInv(s) /\ FileInv(s) /\ SeatInv(s))'
  <2>1. sent[s] \in Nat /\ file[s].attempts \in Nat /\ result[s].attempts \in Nat
        /\ now \in Nat /\ wstart[s] \in Nat /\ number[s] \in Nat
    <3>1. /\ file[s] \in Result /\ result[s] \in Result
          /\ sent[s] \in 0..(Retries + 1) /\ number[s] \in 0..(Retries + 1)
          /\ now \in 0..MaxTime /\ wstart[s] \in 0..MaxTime
      BY DEF TypeOK
    <3>2. file[s].attempts \in 0..(Retries + 1) /\ result[s].attempts \in 0..(Retries + 1)
      BY <3>1 DEF Result
    <3> QED BY <3>1, <3>2, SettingsAssumption
  <2>2. WorkerInv(s) /\ FileInv(s) /\ SeatInv(s)
    OBVIOUS
  <2>3. /\ wpc'[s] = "call" /\ sent'[s] = sent[s] + 1 /\ until'[s] = CallEndsBy(s)
        /\ UNCHANGED <<now, runnerVars, number, result, lost, wstart, file>>
    BY DEF Ask, WorkerAt, TypeOK
  <2>4. CallEndsBy(s) \in Nat /\ CallEndsBy(s) > now
        /\ CallEndsBy(s) <= wstart[s] + Transport
    BY CallEnds DEF Ask
  <2> HIDE DEF PoolInv
  <2>5. WorkerInv(s)'
    BY <1>1, <2>1, <2>2, <2>3, <2>4 DEF WorkerInv
  <2>6. FileInv(s)'
    BY <1>1, <2>1, <2>2, <2>3 DEF FileInv, WorkerInv
  <2>7. SeatInv(s)'
    BY <1>1, <2>2, <2>3 DEF SeatInv, Taken, Alive, runnerVars
  <2> QED BY <2>5, <2>6, <2>7
<1> QED BY <1>2, <1>3, <1>4, WorkerTypesSuffice DEF Ask

LEMMA NoTimeInv ==
  ASSUME PoolInv, NEW s \in Seats, NoTime(s)
  PROVE  PoolInv'
<1> USE DEF PoolInv
<1>1. WorkerTypes'
  BY DEF NoTime, WorkerAt, TypeOK, WorkerTypes
<1>2. ASSUME NEW z \in Seats \ {s} PROVE (WorkerInv(z) /\ FileInv(z) /\ SeatInv(z))'
  BY OthersKeep DEF NoTime, WorkerAt, TypeOK
<1>3. (WorkerInv(s) /\ FileInv(s) /\ SeatInv(s))'
  BY DEF NoTime, WorkerAt, TypeOK, WorkerInv, FileInv, SeatInv, Taken, Alive, runnerVars
<1> QED BY <1>1, <1>2, <1>3, WorkerTypesSuffice DEF NoTime

LEMMA ReplyInv ==
  ASSUME PoolInv, NEW s \in Seats, NEW reply \in Replies, Reply(s, reply)
  PROVE  PoolInv'
<1> USE DEF PoolInv
<1> DEFINE new == After(result[s], reply)
<1>1. /\ wpc[s] = "call" /\ result[s].attempts + 1 = sent[s]
      /\ sent[s] = number[s] /\ sent[s] \in 0..(Retries + 1)
      /\ result[s] \in Result /\ result[s].attempts \in Nat
  BY SettingsAssumption DEF Reply, WorkerAt, WorkerInv, TypeOK, Result
<1>2. /\ new \in Result /\ new.attempts = sent[s]
      /\ new.status \in {"ok", "failed"} /\ new.reason \in {"none", "own"}
      /\ new.status = "ok" => new.text = TRUE
  <2>1. result[s].attempts <= Retries
    BY <1>1, SettingsAssumption
  <2>2. new \in Result
    BY <1>1, <2>1, ResultTypes
  <2>3. new.status = "ok" => new.text = TRUE
    BY Zenon DEF After
  <2> QED BY <1>1, <2>2, <2>3 DEF After
<1>3. WorkerTypes'
  <2>1. MayRetry(s, reply) => number[s] + 1 \in 0..(Retries + 1)
    BY <1>1, SettingsAssumption DEF MayRetry
  <2>2. lost' \in [Seats -> BOOLEAN]
    BY Zenon DEF Reply, TypeOK
  <2> QED BY <1>2, <2>1, <2>2 DEF Reply, WorkerAt, Ends, TypeOK, WorkerTypes
<1>4. ASSUME NEW z \in Seats PROVE (WorkerInv(z) /\ FileInv(z) /\ SeatInv(z))'
  <2>1. WorkerInv(z)'
    <3>1. lost'[z] = TRUE => wpc'[z] \in {"write", "writing"}
      <4>1. CASE z = s
        <5>1. lost[s] = FALSE
          BY <1>1 DEF WorkerInv, TypeOK
        <5>2. lost'[s] = (lost[s] \/ reply = "lost")
          BY Zenon DEF Reply, TypeOK
        <5>3. lost'[s] = TRUE => reply = "lost"
          BY <5>1, <5>2
        <5> QED BY <4>1, <5>3 DEF Reply, WorkerAt, MayRetry, Malformed, TypeOK
      <4>2. CASE z # s
        BY <4>2 DEF Reply, WorkerAt, WorkerInv, TypeOK
      <4> QED BY <4>1, <4>2
    <3>2. (wpc'[z] = "ask" => number'[z] = sent'[z] + 1 /\ result'[z].attempts = sent'[z])
      BY <1>1, <1>2 DEF Reply, WorkerAt, Ends, TypeOK, WorkerInv
    <3> QED BY <1>1, <1>2, <3>1, <3>2 DEF Reply, WorkerAt, Ends, TypeOK, WorkerInv
  <2>2. FileInv(z)' /\ SeatInv(z)'
    BY <1>1 DEF Reply, WorkerAt, TypeOK, FileInv, SeatInv, Taken, Alive, runnerVars
  <2> QED BY <2>1, <2>2
<1> QED BY <1>3, <1>4, WorkerTypesSuffice DEF Reply

LEMMA RaisesInv ==
  ASSUME PoolInv, NEW s \in Seats, Raises(s)
  PROVE  PoolInv'
<1> USE DEF PoolInv
<1>1. Failed("crashed") \in Result
  BY ResultTypes DEF Failed, Statuses, Reasons
<1>2. WorkerTypes'
  BY <1>1 DEF Raises, WorkerAt, Ends, TypeOK, WorkerTypes
<1>3. ASSUME NEW z \in Seats \ {s} PROVE (WorkerInv(z) /\ FileInv(z) /\ SeatInv(z))'
  BY OthersKeep DEF Raises, WorkerAt, Ends, TypeOK
<1>4. /\ wpc[s] \in {"boot", "ask", "call"} /\ wpc'[s] = "write"
      /\ result'[s].status = "failed" /\ result'[s].reason = "crashed"
      /\ result'[s].attempts = 0
  BY Blank DEF Raises, WorkerAt, Ends, TypeOK, Reasons
<1>5. (WorkerInv(s) /\ FileInv(s) /\ SeatInv(s))'
  BY <1>4 DEF Raises, WorkerInv, FileInv, SeatInv, Taken, Alive, runnerVars
<1> QED BY <1>2, <1>3, <1>5, WorkerTypesSuffice DEF Raises

LEMMA OpenFileInv ==
  ASSUME PoolInv, NEW s \in Seats, OpenFile(s)
  PROVE  PoolInv'
<1> USE DEF PoolInv
<1>1. Nothing("torn", "none") \in Result
  BY ResultTypes DEF Statuses, Reasons
<1>2. WorkerTypes'
  BY <1>1 DEF OpenFile, WorkerAt, TypeOK, WorkerTypes
<1>3. ASSUME NEW z \in Seats \ {s} PROVE (WorkerInv(z) /\ FileInv(z) /\ SeatInv(z))'
  BY OthersKeep DEF OpenFile, WorkerAt, TypeOK
<1>4. /\ wpc[s] = "write" /\ wpc'[s] = "writing"
      /\ file'[s].status = "torn" /\ file'[s].attempts = 0
  BY Blank DEF OpenFile, WorkerAt, TypeOK, Reasons, Statuses
<1>5. (WorkerInv(s) /\ FileInv(s) /\ SeatInv(s))'
  <2>1. ~Taken(s) /\ s \in running
    BY <1>4, AliveHeld DEF Alive
  <2>2. sent[s] \in Nat
    BY SettingsAssumption DEF TypeOK
  <2> QED BY <1>4, <2>1, <2>2
     DEF OpenFile, WorkerInv, FileInv, SeatInv, Taken, Alive, runnerVars
<1> QED BY <1>2, <1>3, <1>5, WorkerTypesSuffice DEF OpenFile

LEMMA WriteResultInv ==
  ASSUME PoolInv, NEW s \in Seats, WriteResult(s)
  PROVE  PoolInv'
<1> USE DEF PoolInv
<1>1. Pending \in Result /\ 0 \in 0..MaxTime /\ 0 \in 0..(Retries + 1)
  BY ResultTypes, SettingsAssumption DEF Pending, Statuses, Reasons
<1>2. WorkerTypes'
  BY <1>1 DEF WriteResult, Gone, TypeOK, WorkerTypes
<1>3. ASSUME NEW z \in Seats PROVE (WorkerInv(z) /\ FileInv(z) /\ SeatInv(z))'
  <2>1. ~Taken(s) /\ s \in running
    BY AliveHeld DEF WriteResult, Alive
  <2>2. sent[z] \in Nat
    BY SettingsAssumption DEF TypeOK
  <2> QED BY SMTT(40), <2>1, <2>2, Blank
     DEF WriteResult, Gone, TypeOK, WorkerInv, FileInv, SeatInv, Taken, Alive, runnerVars
<1> QED BY <1>2, <1>3, WorkerTypesSuffice DEF WriteResult

LEMMA DiesInv ==
  ASSUME PoolInv, NEW s \in Seats, Dies(s)
  PROVE  PoolInv'
<1> USE DEF PoolInv
<1>1. Pending \in Result /\ 0 \in 0..MaxTime /\ 0 \in 0..(Retries + 1)
  BY ResultTypes, SettingsAssumption DEF Pending, Statuses, Reasons
<1>2. WorkerTypes'
  BY <1>1 DEF Dies, Gone, TypeOK, WorkerTypes
<1>3. ASSUME NEW z \in Seats PROVE (WorkerInv(z) /\ FileInv(z) /\ SeatInv(z))'
  BY SMTT(40), AliveHeld, Blank
     DEF Dies, Gone, TypeOK, WorkerInv, FileInv, SeatInv, Taken, Alive, runnerVars
<1> QED BY <1>2, <1>3, WorkerTypesSuffice DEF Dies

LEMMA WorkerInvStep ==
  ASSUME PoolInv, NEW s \in Seats, WorkerStep(s)
  PROVE  PoolInv'
  BY BootInv, WrongSnapshotInv, AskInv, NoTimeInv, ReplyInv, RaisesInv, OpenFileInv,
     WriteResultInv, DiesInv DEF WorkerStep

-------------------------------------------------------------------------------
(* The runner's steps *)

(* Steps that only move the loop: no seat is touched.                       *)
LEMMA SeatsKeep ==
  ASSUME PoolInv, UNCHANGED <<now, running, slot, file, workerVars>>
  PROVE  \A z \in Seats : (WorkerInv(z) /\ FileInv(z) /\ SeatInv(z))'
<1> TAKE z \in Seats
<1>1. WorkerInv(z) /\ FileInv(z) /\ SeatInv(z)
  BY DEF PoolInv
<1> QED BY <1>1 DEF WorkerInv, FileInv, SeatInv, Taken, Alive, workerVars

LEMMA LoopStepInv ==
  ASSUME PoolInv,
         \/ LoopEnds \/ SweepEnds
         \/ \E s \in Seats : LeaveRunning(s) \/ Condemn(s)
  PROVE  PoolInv'
<1>1. UNCHANGED <<width, now, queue, running, started, slot, reports, file,
                  workerVars>>
  BY DEF LoopEnds, SweepEnds, LeaveRunning, Condemn
<1>2. /\ over' \in BOOLEAN /\ victim' \in Seats \cup {Nobody} /\ sweep' \subseteq Seats
      /\ pc' \in {"top", "sweep", "kill", "done"}
  BY DEF PoolInv, TypeOK, LoopEnds, SweepEnds, LeaveRunning, Condemn, RunnerAt
<1>3. TypeOK'
  BY <1>1, <1>2 DEF PoolInv, TypeOK, workerVars
<1>4. QueueInv' /\ ReportInv'
  BY <1>1 DEF PoolInv, QueueInv, ReportInv, ReportsAgree, Taken
<1>5. LoopInv'
  BY DEF PoolInv, LoopInv, LoopEnds, SweepEnds, LeaveRunning, Condemn, RunnerAt
<1>6. \A z \in Seats : (WorkerInv(z) /\ FileInv(z) /\ SeatInv(z))'
  BY <1>1, SeatsKeep
<1> QED BY <1>3, <1>4, <1>5, <1>6 DEF PoolInv

(* The seats the runner holds are finitely many, and fewer once one of them *)
(* is finished.                                                             *)
LEMMA HeldBound ==
  ASSUME TypeOK
  PROVE  /\ IsFiniteSet(running) /\ Cardinality(running) \in Nat
         /\ width \in Nat
         /\ \A s \in running : Cardinality(running \ {s}) = Cardinality(running) - 1
<1>1. IsFiniteSet(running)
  BY FS_Subset, SettingsAssumption DEF TypeOK
<1>2. Cardinality(running) \in Nat
  BY <1>1, FS_CardinalityType
<1>3. \A s \in running : Cardinality(running \ {s}) = Cardinality(running) - 1
  BY <1>1, FS_RemoveElement
<1>4. width \in Nat
  BY SettingsAssumption DEF TypeOK
<1> QED BY <1>1, <1>2, <1>3, <1>4

(* A record is of the seat, and accepted when its outcome is ok.            *)
LEMMA RecordForm ==
  ASSUME NEW s, NEW res
  PROVE  /\ res.status = "ok" => RecordOf(s, res) \subseteq {[seat |-> s, accepted |-> TRUE]}
         /\ res.status = "ok" /\ res.text = TRUE
              => [seat |-> s, accepted |-> TRUE] \in RecordOf(s, res)
         /\ res.status # "ok" => RecordOf(s, res) \subseteq {[seat |-> s, accepted |-> FALSE]}
<1> DEFINE ok == res.status = "ok"
<1>1. ok \in BOOLEAN
  BY DEF ok
<1>2. RecordOf(s, res) = IF res.text THEN {[seat |-> s, accepted |-> ok]} ELSE {}
  BY Zenon DEF RecordOf
<1>3. CASE ok = TRUE
  BY <1>2, <1>3, Zenon DEF ok
<1>4. CASE ok = FALSE
  BY <1>2, <1>4, Zenon DEF ok
<1> QED BY <1>1, <1>3, <1>4

(* Finishing a seat whose process is gone.                                  *)
LEMMA FinishInv ==
  ASSUME PoolInv, NEW s \in sweep,
         NEW killed \in {"none", "worker_deadline", "cycle_deadline"}, Finish(s, killed),
         UNCHANGED <<width, now, queue, sent>>,
         victim' \in Seats \cup {Nobody}, over' \in BOOLEAN,
         pc' = "sweep", wpc'[s] = "exited", lost'[s] = FALSE,
         result'[s].reason \in {"none", "own", "crashed"},
         result'[s].status = "ok" => result'[s].text = TRUE,
         result'[s].status # "torn",
         \A z \in Seats \ {s} :
           /\ wpc'[z] = wpc[z] /\ wstart'[z] = wstart[z] /\ number'[z] = number[z]
           /\ until'[z] = until[z] /\ result'[z] = result[z] /\ lost'[z] = lost[z],
         file' \in [Seats -> Result] => WorkerTypes'
  PROVE  PoolInv'
<1> DEFINE out == Outcome(s, killed)
<1>1. s \in Seats /\ s \in running /\ ~Taken(s)
  BY DEF PoolInv, LoopInv, TypeOK, QueueInv
<1>2. WorkerInv(s) /\ FileInv(s) /\ SeatInv(s)
  BY <1>1 DEF PoolInv
<1>3. /\ out \in Result /\ out.status \in {"ok", "failed"} /\ out.attempts <= sent[s]
      /\ \/ out.reason \in {"worker_deadline", "cycle_deadline", "crashed", killed} \ {"none"}
         \/ out.attempts = sent[s]
      /\ out.status = "ok" => out.text = TRUE
  <2>1. TypeOK
    BY DEF PoolInv
  <2>2. killed \in Reasons
    BY DEF Reasons
  <2> QED BY <1>1, <1>2, <2>1, <2>2, OutcomeTypes, ZenonT(40)
<1> HIDE DEF out
<1>4. /\ slot' = [slot EXCEPT ![s] = out] /\ file' = [file EXCEPT ![s] = out]
      /\ reports' = reports \cup RecordOf(s, out)
      /\ running' = running \ {s} /\ started' = [started EXCEPT ![s] = 0]
      /\ sweep' = sweep \ {s}
  BY DEF Finish, Put, out
<1>5. RecordOf(s, out) \subseteq [seat : Seats, accepted : BOOLEAN]
  <2>1. /\ [seat |-> s, accepted |-> TRUE] \in [seat : Seats, accepted : BOOLEAN]
        /\ [seat |-> s, accepted |-> FALSE] \in [seat : Seats, accepted : BOOLEAN]
    BY <1>1
  <2>2. \/ RecordOf(s, out) \subseteq {[seat |-> s, accepted |-> TRUE]}
        \/ RecordOf(s, out) \subseteq {[seat |-> s, accepted |-> FALSE]}
    BY RecordForm, Zenon
  <2> QED BY <2>1, <2>2
<1>6. TypeOK'
  <2>1. slot' \in [Seats -> Result] /\ file' \in [Seats -> Result]
    BY <1>1, <1>3, <1>4 DEF PoolInv, TypeOK
  <2>2. started' \in [Seats -> 0..MaxTime]
    BY <1>4, SettingsAssumption DEF PoolInv, TypeOK
  <2>3. reports' \subseteq [seat : Seats, accepted : BOOLEAN]
    BY <1>4, <1>5 DEF PoolInv, TypeOK
  <2>4. WorkerTypes'
    BY <2>1
  <2> QED BY <1>4, <2>1, <2>2, <2>3, <2>4 DEF PoolInv, TypeOK, WorkerTypes
<1>7. /\ Taken(s)' /\ slot'[s] = out /\ file'[s] = out
      /\ \A z \in Seats \ {s} :
           /\ slot'[z] = slot[z] /\ file'[z] = file[z] /\ Taken(z)' = Taken(z)
  BY <1>1, <1>3, <1>4 DEF PoolInv, TypeOK, Taken
<1>8. QueueInv'
  <2>1. Cardinality(running') <= width
    <3>1. /\ Cardinality(running) \in Nat /\ Cardinality(running) <= width
          /\ Cardinality(running') = Cardinality(running) - 1
          /\ width \in Nat /\ width' = width
      BY <1>1, <1>4, HeldBound DEF PoolInv, QueueInv
    <3> QED BY <3>1
  <2>2. \A z \in Seats : z \in Range(queue') <=> z \notin running' /\ ~Taken(z)'
    BY <1>1, <1>4, <1>7 DEF PoolInv, QueueInv
  <2>3. \A z \in running' : ~Taken(z)'
    BY <1>4, <1>6, <1>7 DEF PoolInv, QueueInv, TypeOK
  <2> QED BY <2>1, <2>2, <2>3 DEF PoolInv, QueueInv
<1>9. LoopInv'
  BY <1>4 DEF PoolInv, LoopInv
<1>10. ReportInv'
  <2>1. \A rec \in reports : rec.seat \in Seats \ {s}
    BY <1>1 DEF PoolInv, ReportInv, TypeOK
  <2>2. \A rec \in reports : Taken(rec.seat)' /\ (rec.accepted <=> slot'[rec.seat].status = "ok")
    BY <1>7, <2>1 DEF PoolInv, ReportInv, ReportsAgree
  <2>3. \A rec \in RecordOf(s, out) :
          rec.seat = s /\ (rec.accepted <=> out.status = "ok")
    <3>1. CASE out.status = "ok"
      <4>1. RecordOf(s, out) \subseteq {[seat |-> s, accepted |-> TRUE]}
        BY <3>1, RecordForm, Zenon
      <4> QED BY <3>1, <4>1
    <3>2. CASE out.status # "ok"
      <4>1. RecordOf(s, out) \subseteq {[seat |-> s, accepted |-> FALSE]}
        BY <3>2, RecordForm, Zenon
      <4> QED BY <3>2, <4>1
    <3> QED BY <3>1, <3>2
  <2>4. out.status = "ok" => [seat |-> s, accepted |-> TRUE] \in RecordOf(s, out)
    BY <1>3, RecordForm
  <2>5. \A z \in Seats : slot'[z].status = "ok" => [seat |-> z, accepted |-> TRUE] \in reports'
    <3> TAKE z \in Seats
    <3>1. CASE z = s
      BY <3>1, <1>4, <1>7, <2>4
    <3>2. CASE z # s
      BY <3>2, <1>4, <1>7 DEF PoolInv, ReportInv, ReportsAgree
    <3> QED BY <3>1, <3>2
  <2>6. \A rec \in reports' : Taken(rec.seat)' /\ (rec.accepted <=> slot'[rec.seat].status = "ok")
    BY <1>4, <1>7, <2>2, <2>3
  <2> QED BY <2>5, <2>6 DEF ReportInv, ReportsAgree
<1>11. ASSUME NEW z \in Seats PROVE (WorkerInv(z) /\ FileInv(z) /\ SeatInv(z))'
  <2>1. CASE z = s
    <3>1. WorkerInv(s)'
      BY DEF WorkerInv
    <3>2. FileInv(s)'
      BY <1>3, <1>7 DEF FileInv
    <3>3. SeatInv(s)'
      BY <1>3, <1>4, <1>7 DEF SeatInv, Alive, Taken
    <3> QED BY <2>1, <3>1, <3>2, <3>3
  <2>2. CASE z # s
    <3>1. WorkerInv(z) /\ FileInv(z) /\ SeatInv(z)
      BY DEF PoolInv
    <3>2. WorkerInv(z)' /\ FileInv(z)'
      BY <2>2, <3>1, <1>7 DEF WorkerInv, FileInv
    <3>3. SeatInv(z)'
      BY <2>2, <3>1, <1>4, <1>7 DEF SeatInv, Alive, Taken
    <3> QED BY <3>2, <3>3
  <2> QED BY <2>1, <2>2
<1> QED BY <1>6, <1>8, <1>9, <1>10, <1>11 DEF PoolInv

LEMMA CollectInv ==
  ASSUME PoolInv, NEW s \in Seats, Collect(s)
  PROVE  PoolInv'
<1>1. s \in sweep /\ s \in running /\ wpc[s] = "exited"
  BY DEF Collect, PoolInv, LoopInv, SeatInv, Alive
<1>2. WorkerInv(s) /\ lost[s] \in BOOLEAN
  BY DEF PoolInv, TypeOK
<1>3. lost[s] = FALSE
  BY <1>1, <1>2 DEF WorkerInv
<1>4. /\ Finish(s, "none") /\ pc' = "sweep"
      /\ UNCHANGED <<width, now, over, queue, victim, wpc, wstart, number, until,
                     result, sent, lost>>
  BY DEF Collect, workerVars
<1>5. file' \in [Seats -> Result] => WorkerTypes'
  BY <1>4 DEF PoolInv, TypeOK, WorkerTypes
<1>6. over' \in BOOLEAN /\ victim' \in Seats \cup {Nobody}
  BY <1>4 DEF PoolInv, TypeOK
<1>7. /\ result'[s].reason \in {"none", "own", "crashed"}
      /\ result'[s].status = "ok" => result'[s].text = TRUE
      /\ result'[s].status # "torn"
      /\ wpc'[s] = "exited" /\ lost'[s] = FALSE
  BY <1>1, <1>2, <1>3, <1>4 DEF WorkerInv
<1> QED BY <1>1, <1>4, <1>5, <1>6, <1>7, FinishInv

LEMMA KillInv ==
  ASSUME PoolInv, Kill
  PROVE  PoolInv'
<1> DEFINE killed == IF over THEN "cycle_deadline" ELSE "worker_deadline"
<1>1. victim \in sweep /\ victim \in Seats
  BY DEF Kill, RunnerAt, PoolInv, LoopInv, TypeOK
<1>2. /\ Finish(victim, killed) /\ pc' = "sweep" /\ killed \in {"worker_deadline", "cycle_deadline"}
      /\ UNCHANGED <<width, now, over, queue, sent>> /\ victim' = Nobody
  BY DEF Kill, RunnerAt
<1>3. Pending \in Result /\ 0 \in 0..MaxTime /\ 0 \in 0..(Retries + 1)
  BY ResultTypes, SettingsAssumption DEF Pending, Statuses, Reasons
<1>4. file' \in [Seats -> Result] => WorkerTypes'
  BY <1>2, <1>3 DEF Kill, Gone, PoolInv, TypeOK, WorkerTypes
<1>5. /\ wpc'[victim] = "exited" /\ lost'[victim] = FALSE
      /\ result'[victim] = Pending
      /\ \A z \in Seats \ {victim} :
           /\ wpc'[z] = wpc[z] /\ wstart'[z] = wstart[z] /\ number'[z] = number[z]
           /\ until'[z] = until[z] /\ result'[z] = result[z] /\ lost'[z] = lost[z]
  BY <1>1 DEF Kill, Gone, PoolInv, TypeOK
<1>6. over' \in BOOLEAN /\ victim' \in Seats \cup {Nobody}
  BY <1>2 DEF PoolInv, TypeOK
<1> HIDE DEF killed
<1> QED BY <1>1, <1>2, <1>4, <1>5, <1>6, FinishInv, Blank

(* Taking the first n of a queue that names nobody twice splits it in two:  *)
(* at most n are taken, and none of them is left.                           *)
LEMMA Split ==
  ASSUME NEW q \in Seq(Seats), NEW n \in 0..Len(q),
         \A i, j \in 1..Len(q) : q[i] = q[j] => i = j
  PROVE  LET head == SubSeq(q, 1, n)
             tail == SubSeq(q, n + 1, Len(q))
         IN /\ tail \in Seq(Seats)
            /\ \A i, j \in 1..Len(tail) : tail[i] = tail[j] => i = j
            /\ Range(head) \cup Range(tail) = Range(q)
            /\ Range(head) \cap Range(tail) = {}
            /\ Range(head) \subseteq Seats
            /\ IsFiniteSet(Range(head)) /\ Cardinality(Range(head)) <= n
<1> DEFINE head == SubSeq(q, 1, n)
           tail == SubSeq(q, n + 1, Len(q))
<1>1. /\ Len(q) \in Nat /\ n \in Nat /\ n <= Len(q)
      /\ \A i \in 1..Len(q) : q[i] \in Seats
      /\ DOMAIN q = 1..Len(q)
  OBVIOUS
<1>2. head \in Seq(Seats) /\ Len(head) = n /\ \A i \in 1..n : head[i] = q[i]
  BY <1>1
<1>3. tail \in Seq(Seats) /\ Len(tail) = Len(q) - n
      /\ \A i \in 1..(Len(q) - n) : tail[i] = q[i + n]
  <2>1. n + 1 \in Int /\ Len(q) \in Int /\ \A i \in (n + 1)..Len(q) : q[i] \in Seats
    BY <1>1
  <2>2. /\ tail \in Seq(Seats)
        /\ Len(tail) = IF n + 1 <= Len(q) THEN Len(q) - (n + 1) + 1 ELSE 0
        /\ \A i \in 1..(Len(q) - (n + 1) + 1) : tail[i] = q[(n + 1) + i - 1]
    BY <2>1, SubSeqProperties
  <2> HIDE DEF tail
  <2>3. Len(tail) = Len(q) - n
    <3>1. ASSUME NEW a \in Nat, NEW b \in Nat, a <= b
          PROVE  (IF a + 1 <= b THEN b - (a + 1) + 1 ELSE 0) = b - a
      BY <3>1
    <3> QED BY <1>1, <2>2, <3>1
  <2>4. ASSUME NEW i \in 1..(Len(q) - n) PROVE tail[i] = q[i + n]
    <3>1. i \in 1..(Len(q) - (n + 1) + 1) /\ (n + 1) + i - 1 = i + n
      BY <1>1
    <3>2. tail[i] = q[(n + 1) + i - 1]
      BY <2>2, <3>1
    <3> QED BY <3>1, <3>2
  <2> QED BY <2>2, <2>3, <2>4
<1> HIDE DEF head, tail
<1>4. DOMAIN head = 1..n /\ DOMAIN tail = 1..(Len(q) - n)
  BY <1>1, <1>2, <1>3
<1>5. /\ Range(head) = {q[i] : i \in 1..n}
      /\ Range(tail) = {q[i] : i \in (n + 1)..Len(q)}
      /\ Range(q) = {q[i] : i \in 1..Len(q)}
  <2>1. Range(head) = {q[i] : i \in 1..n}
    BY <1>2, <1>4 DEF Range
  <2>2. Range(tail) = {q[i] : i \in (n + 1)..Len(q)}
    <3>1. \A i \in (n + 1)..Len(q) : i - n \in 1..(Len(q) - n) /\ tail[i - n] = q[i]
      BY <1>1, <1>3
    <3>2. \A i \in 1..(Len(q) - n) : i + n \in (n + 1)..Len(q) /\ tail[i] = q[i + n]
      BY <1>1, <1>3
    <3>3. Range(tail) = {tail[i] : i \in 1..(Len(q) - n)}
      BY <1>4 DEF Range
    <3> QED BY <3>1, <3>2, <3>3
  <2> QED BY <1>1, <2>1, <2>2 DEF Range
<1>6. \A i, j \in 1..Len(tail) : tail[i] = tail[j] => i = j
  BY <1>1, <1>3
<1>7. Range(head) \cup Range(tail) = Range(q) /\ Range(head) \subseteq Seats
  <2>1. \A i \in 1..Len(q) : i \in 1..n \/ i \in (n + 1)..Len(q)
    BY <1>1
  <2> QED BY <1>1, <1>5, <2>1
<1>8. Range(head) \cap Range(tail) = {}
  BY <1>1, <1>5
<1>9. IsFiniteSet(Range(head)) /\ Cardinality(Range(head)) <= n
  <2>1. IsFiniteSet(1..n) /\ Cardinality(1..n) = n
    BY <1>1, FS_Interval
  <2>2. head \in Surjection(1..n, Range(head))
    BY <1>2, <1>4 DEF Surjection, Range
  <2> QED BY <2>1, <2>2, FS_Surjection
<1> QED BY <1>3, <1>6, <1>7, <1>8, <1>9 DEF head, tail

LEMMA TurnInv ==
  ASSUME PoolInv, Turn
  PROVE  PoolInv'
<1> DEFINE room    == Min({Len(queue), width - Cardinality(running)})
           taken   == IF over' THEN {} ELSE Range(SubSeq(queue, 1, room))
           dropped == IF over' THEN Range(queue) ELSE {}
<1>1. /\ queue \in Seq(Seats) /\ Len(queue) \in Nat /\ over' \in BOOLEAN
      /\ running \subseteq Seats /\ Range(queue) \subseteq Seats
      /\ \A s \in Seats : s \in Range(queue) => s \notin running /\ ~Taken(s)
  <2>1. queue \in Seq(Seats) /\ Len(queue) \in Nat /\ over' \in BOOLEAN /\ running \subseteq Seats
    BY SMTT(40) DEF PoolInv, TypeOK, Turn
  <2>2. \A i \in DOMAIN queue : queue[i] \in Seats
    BY <2>1
  <2>3. Range(queue) \subseteq Seats
    BY <2>2 DEF Range
  <2> QED BY <2>1, <2>3 DEF PoolInv, QueueInv
<1>2. /\ room \in 0..Len(queue) /\ room <= width - Cardinality(running)
      /\ Cardinality(running) \in Nat /\ IsFiniteSet(running)
      /\ width \in Nat
  <2>1. width - Cardinality(running) \in Nat
    BY HeldBound DEF PoolInv, QueueInv
  <2>2. room = IF Len(queue) <= width - Cardinality(running) THEN Len(queue)
               ELSE width - Cardinality(running)
    BY <1>1, <2>1, MinOfTwo
  <2> QED BY <1>1, <2>1, <2>2, HeldBound DEF PoolInv
<1>3. /\ queue' = IF over' THEN <<>> ELSE SubSeq(queue, room + 1, Len(queue))
      /\ running' = running \cup taken /\ sweep' = running'
      /\ started' = [s \in Seats |-> IF s \in taken THEN now ELSE started[s]]
      /\ wpc'  = [s \in Seats |-> IF s \in taken THEN "boot" ELSE wpc[s]]
      /\ slot' = [s \in Seats |-> IF s \in dropped THEN Failed("cycle_deadline") ELSE slot[s]]
      /\ file' = [s \in Seats |-> IF s \in dropped THEN Failed("cycle_deadline") ELSE file[s]]
      /\ UNCHANGED <<width, now, victim, reports, wstart, number, until, result,
                     sent, lost>>
      /\ pc' = "sweep"
  BY DEF Turn, RunnerAt
<1>4. /\ queue' \in Seq(Seats)
      /\ \A i, j \in 1..Len(queue') : queue'[i] = queue'[j] => i = j
      /\ taken \cup dropped \cup Range(queue') = Range(queue)
      /\ Range(queue') \cap (taken \cup dropped) = {}
      /\ taken \cap dropped = {}
      /\ IsFiniteSet(taken) /\ Cardinality(taken) <= width - Cardinality(running)
  <2>1. CASE over' = TRUE
    <3>1. queue' = <<>> /\ taken = {} /\ dropped = Range(queue)
      BY <2>1, <1>3, Zenon
    <3>2. Range(queue') = {}
      BY <3>1 DEF Range
    <3>3. IsFiniteSet({}) /\ Cardinality({}) = 0
      BY FS_EmptySet
    <3>4. 0 <= width - Cardinality(running)
      BY <1>2 DEF PoolInv, QueueInv
    <3> HIDE DEF room, taken, dropped
    <3> QED BY <3>1, <3>2, <3>3, <3>4
  <2>2. CASE over' = FALSE
    <3>1. /\ queue' = SubSeq(queue, room + 1, Len(queue))
          /\ taken = Range(SubSeq(queue, 1, room)) /\ dropped = {}
      BY <2>2, <1>3, Zenon
    <3>2. \A i, j \in 1..Len(queue) : queue[i] = queue[j] => i = j
      BY DEF PoolInv, QueueInv
    <3> HIDE DEF room, taken, dropped
    <3>3. /\ queue' \in Seq(Seats)
          /\ \A i, j \in 1..Len(queue') : queue'[i] = queue'[j] => i = j
          /\ taken \cup Range(queue') = Range(queue)
          /\ taken \cap Range(queue') = {}
          /\ IsFiniteSet(taken) /\ Cardinality(taken) <= room
      <4> DEFINE head == SubSeq(queue, 1, room)
                 tail == SubSeq(queue, room + 1, Len(queue))
      <4>1. /\ tail \in Seq(Seats)
            /\ \A i, j \in 1..Len(tail) : tail[i] = tail[j] => i = j
            /\ Range(head) \cup Range(tail) = Range(queue)
            /\ Range(head) \cap Range(tail) = {}
            /\ IsFiniteSet(Range(head)) /\ Cardinality(Range(head)) <= room
        BY <3>2, <1>1, <1>2, Split
      <4> HIDE DEF head, tail
      <4>2. queue' = tail /\ taken = Range(head)
        BY <3>1 DEF head, tail
      <4> QED BY <4>1, <4>2
    <3>4. Cardinality(taken) \in Nat
      BY <3>3, FS_CardinalityType
    <3>5. Cardinality(taken) <= width - Cardinality(running)
      BY <3>3, <3>4, <1>2
    <3> QED BY <3>1, <3>3, <3>5
  <2> QED BY <2>1, <2>2, <1>1
<1> HIDE DEF room, taken, dropped
<1>5. Failed("cycle_deadline") \in Result /\ now \in 0..MaxTime
  BY ResultTypes DEF Failed, Statuses, Reasons, PoolInv, TypeOK
<1>6. /\ taken \subseteq Seats /\ dropped \subseteq Seats
      /\ \A s \in taken \cup dropped : s \notin running /\ ~Taken(s)
  BY <1>1, <1>4
<1>7. TypeOK'
  <2>1. slot' \in [Seats -> Result] /\ file' \in [Seats -> Result]
    BY <1>3, <1>5 DEF PoolInv, TypeOK
  <2>2. started' \in [Seats -> 0..MaxTime]
    BY <1>3, <1>5 DEF PoolInv, TypeOK
  <2>3. wpc' \in [Seats -> {"off", "boot", "ask", "call", "write", "writing", "exited"}]
    BY <1>3 DEF PoolInv, TypeOK
  <2>4. running' \subseteq Seats /\ sweep' \subseteq Seats
    BY <1>1, <1>3, <1>6
  <2> QED BY <1>1, <1>3, <1>4, <2>1, <2>2, <2>3, <2>4 DEF PoolInv, TypeOK
<1>8. /\ \A s \in dropped : /\ slot'[s] = Failed("cycle_deadline")
                            /\ file'[s] = Failed("cycle_deadline") /\ Taken(s)'
      /\ \A s \in Seats \ dropped : /\ slot'[s] = slot[s] /\ file'[s] = file[s]
                                    /\ Taken(s)' = Taken(s)
  BY <1>3, <1>6, Blank DEF Taken, Reasons
<1>9. QueueInv'
  <2>1. \A z \in Seats : z \in Range(queue') <=> z \notin running' /\ ~Taken(z)'
    BY <1>3, <1>4, <1>6, <1>8 DEF PoolInv, QueueInv
  <2>2. \A z \in running' : ~Taken(z)'
    BY <1>1, <1>3, <1>4, <1>6, <1>8 DEF PoolInv, QueueInv
  <2>3. Cardinality(running') <= width
    <3>1. Cardinality(running') = Cardinality(running) + Cardinality(taken) - Cardinality(running \cap taken)
      BY <1>2, <1>3, <1>4, FS_Union
    <3>2. running \cap taken = {}
      BY <1>6
    <3>3. Cardinality(running \cap taken) = 0 /\ Cardinality(taken) \in Nat
      BY <3>2, <1>4, FS_EmptySet, FS_CardinalityType
    <3>4. Cardinality(taken) <= width - Cardinality(running)
      BY <1>4
    <3> QED BY <3>1, <3>3, <3>4, <1>2, <1>3
  <2> QED BY <1>3, <1>4, <2>1, <2>2, <2>3 DEF QueueInv
<1>10. LoopInv'
  BY <1>3 DEF LoopInv
<1>11. ReportInv'
  <2>1. \A z \in dropped : slot'[z].status = "failed" /\ slot[z].status # "ok"
    BY <1>6, <1>8, Blank DEF Taken, Reasons
  <2>2. \A rec \in reports : rec.seat \in Seats /\ rec.seat \notin dropped
    BY <1>6 DEF PoolInv, ReportInv, TypeOK
  <2> QED BY <1>3, <1>8, <2>1, <2>2 DEF PoolInv, ReportInv, ReportsAgree
<1>12. ASSUME NEW z \in Seats PROVE (WorkerInv(z) /\ FileInv(z) /\ SeatInv(z))'
  <2>1. /\ WorkerInv(z) /\ FileInv(z) /\ SeatInv(z)
        /\ sent[z] \in Nat
    BY SettingsAssumption DEF PoolInv, TypeOK
  <2>2. CASE z \in taken
    <3>1. wpc[z] = "off" /\ wpc'[z] = "boot" /\ z \notin dropped
      BY <2>1, <2>2, <1>3, <1>4, <1>6 DEF SeatInv
    <3> QED BY <2>1, <2>2, <3>1, <1>3, <1>6, <1>8
       DEF WorkerInv, FileInv, SeatInv, Alive, Taken
  <2>3. CASE z \in dropped
    <3>1. wpc[z] = "off" /\ wpc'[z] = "off" /\ z \notin taken
      BY <2>1, <2>3, <1>3, <1>4, <1>6 DEF SeatInv
    <3>2. /\ file'[z] = slot'[z] /\ slot'[z].status = "failed" /\ slot'[z].attempts = 0
          /\ slot'[z].reason = "cycle_deadline" /\ z \notin running'
      BY <2>3, <3>1, <1>3, <1>6, <1>8, Blank DEF Reasons
    <3> QED BY <2>1, <3>1, <3>2, <1>3
       DEF WorkerInv, FileInv, SeatInv, Alive, Taken
  <2>4. CASE z \notin taken \cup dropped
    BY <2>1, <2>4, <1>3, <1>8 DEF WorkerInv, FileInv, SeatInv, Alive, Taken
  <2> QED BY <2>2, <2>3, <2>4
<1> QED BY <1>7, <1>9, <1>10, <1>11, <1>12 DEF PoolInv

(* Time passes no call's deadline.                                          *)
LEMMA TickInv ==
  ASSUME PoolInv, Tick
  PROVE  PoolInv'
<1>1. TypeOK'
  <2>1. now' \in 0..MaxTime
    BY SettingsAssumption DEF Tick, PoolInv, TypeOK
  <2> QED BY <2>1 DEF Tick, PoolInv, TypeOK, runnerVars, workerVars
<1>2. QueueInv' /\ LoopInv' /\ ReportInv'
  BY DEF Tick, PoolInv, QueueInv, LoopInv, ReportInv, ReportsAgree, Taken, runnerVars
<1>3. ASSUME NEW z \in Seats PROVE (WorkerInv(z) /\ FileInv(z) /\ SeatInv(z))'
  <2>1. WorkerInv(z) /\ FileInv(z) /\ SeatInv(z)
    BY DEF PoolInv
  <2>2. wpc[z] = "call" => now + 1 <= until[z]
    BY SettingsAssumption DEF Tick, PoolInv, TypeOK
  <2> QED BY <2>1, <2>2
     DEF Tick, WorkerInv, FileInv, SeatInv, Taken, Alive, runnerVars, workerVars
<1> QED BY <1>1, <1>2, <1>3 DEF PoolInv

LEMMA StutterInv ==
  ASSUME PoolInv, UNCHANGED vars
  PROVE  PoolInv'
<1>1. UNCHANGED <<now, queue, running, slot, file, workerVars>>
      /\ UNCHANGED <<now, runnerVars>>
  BY DEF vars, workerVars, runnerVars
<1>2. TypeOK'
  BY DEF PoolInv, TypeOK, vars
<1> QED BY <1>1, <1>2, WorkerKeepsRunner, SeatsKeep DEF PoolInv

LEMMA NextInv ==
  ASSUME PoolInv, [Next]_vars
  PROVE  PoolInv'
  BY TurnInv, LoopStepInv, KillInv, CollectInv, WorkerInvStep, TickInv, StutterInv
     DEF Next, RunnerStep, Finished

(* What the runner and its workers do keeps the invariant.                  *)
LEMMA PoolInvariant == Spec => []PoolInv
  BY InitInv, NextInv, PTL DEF Spec

-------------------------------------------------------------------------------
(* What the runs check, for every instance *)

(* Types: no count passes what the settings allow it.                       *)
THEOREM PoolTypes == Spec => []TypeOK
<1>1. PoolInv => TypeOK
  BY DEF PoolInv
<1> QED BY <1>1, PoolInvariant, PTL

(* The transport ends a call while the worker still has time to record it,  *)
(* unless the process took longer than the margin to start.                 *)
THEOREM TransportEnds == Spec => []TransportEndsFirst
<1>1. PoolInv => TransportEndsFirst
  <2> SUFFICES ASSUME PoolInv, NEW s \in Seats,
                      wpc[s] = "call", now > started[s] + WorkerDeadline
               PROVE  wstart[s] > started[s] + Margin
    BY DEF TransportEndsFirst
  <2>1. now <= wstart[s] + Transport
    BY SettingsAssumption DEF PoolInv, WorkerInv, TypeOK
  <2>2. now \in Nat /\ wstart[s] \in Nat /\ started[s] \in Nat
    BY SettingsAssumption DEF PoolInv, TypeOK
  <2> QED BY <2>1, <2>2, SettingsAssumption DEF Margin
<1> QED BY <1>1, PoolInvariant, PTL

(* Every call a seat sent is one of its recorded attempts, unless its       *)
(* worker was killed or crashed: then no more are recorded than were sent.  *)
THEOREM CallsAreAccounted == Spec => []CallsAccounted
<1>1. PoolInv => CallsAccounted
  BY DEF PoolInv, CallsAccounted, FileInv, SeatInv, Taken
<1> QED BY <1>1, PoolInvariant, PTL

(* The report store and the cycle agree on which replies were accepted.     *)
THEOREM ReportsAndSlotsAgree == Spec => []ReportsAgree
<1>1. PoolInv => ReportsAgree
  BY DEF PoolInv, ReportInv
<1> QED BY <1>1, PoolInvariant, PTL

(* At most `width` processes run at once, whatever order the queue is in.     *)
WidthHeld ==
  /\ Cardinality(running) <= width
  /\ \A s \in Seats : Alive(s) => s \in running

THEOREM PoolWidth == Spec => []WidthHeld
<1>1. PoolInv => WidthHeld
  BY DEF PoolInv, WidthHeld, QueueInv, SeatInv
<1> QED BY <1>1, PoolInvariant, PTL

(* The loop ends only when every seat has an outcome and no process is      *)
(* left: no seat is dropped between the queue and the sweep.                *)
EndsWhole ==
  pc = "done" => \A s \in Seats : slot[s].status \in {"ok", "failed"} /\ ~Alive(s)

THEOREM PoolEndsWhole == Spec => []EndsWhole
<1>1. PoolInv => EndsWhole
  <2> SUFFICES ASSUME PoolInv, pc = "done", NEW s \in Seats
               PROVE  slot[s].status \in {"ok", "failed"} /\ ~Alive(s)
    BY DEF EndsWhole
  <2>1. queue = <<>> /\ running = {}
    BY DEF PoolInv, LoopInv
  <2>2. Range(queue) = {}
    BY <2>1 DEF Range
  <2>3. Taken(s)
    BY <2>1, <2>2 DEF PoolInv, QueueInv
  <2> QED BY <2>1, <2>3 DEF PoolInv, SeatInv
<1> QED BY <1>1, PoolInvariant, PTL

-------------------------------------------------------------------------------
(* What no step does *)

(* A finished seat's file and slot are not written again.                   *)
LEMMA OutcomeStays ==
  ASSUME PoolInv, [Next]_vars, NEW s \in Seats, slot[s].status # "pending"
  PROVE  /\ file[s] = slot[s]
         /\ slot'[s] = slot[s] /\ file'[s] = file[s]
<1>1. /\ Taken(s) /\ file[s] = slot[s] /\ ~Alive(s)
      /\ s \notin running /\ s \notin Range(queue)
      /\ slot \in [Seats -> Result] /\ file \in [Seats -> Result]
  BY DEF PoolInv, SeatInv, QueueInv, Taken, TypeOK
<1>2. CASE Turn
  BY <1>1, <1>2 DEF Turn
<1>3. ASSUME NEW z \in sweep, NEW killed, Finish(z, killed)
      PROVE  slot'[s] = slot[s] /\ file'[s] = file[s]
  <2>1. z # s
    BY <1>1 DEF PoolInv, LoopInv
  <2> QED BY <1>1, <1>3, <2>1 DEF Finish
<1>4. CASE Kill
  <2>1. victim \in sweep
    BY <1>4 DEF Kill, RunnerAt, PoolInv, LoopInv
  <2>2. \E killed : Finish(victim, killed)
    BY <1>4 DEF Kill
  <2> QED BY <1>1, <1>3, <2>1, <2>2
<1>5. ASSUME NEW z \in Seats, Collect(z)
      PROVE  slot'[s] = slot[s] /\ file'[s] = file[s]
  BY <1>3, <1>5 DEF Collect
<1>6. ASSUME NEW z \in Seats, WorkerStep(z)
      PROVE  slot'[s] = slot[s] /\ file'[s] = file[s]
  <2>1. slot' = slot
    BY <1>6 DEF WorkerStep, Boot, WrongSnapshot, Ask, NoTime, Reply, Raises, OpenFile,
                WriteResult, Dies, runnerVars
  <2>2. CASE OpenFile(z) \/ WriteResult(z)
    <3>1. z # s
      BY <1>1, <2>2 DEF OpenFile, WriteResult, WorkerAt, Alive
    <3> QED BY <1>1, <2>1, <2>2, <3>1 DEF OpenFile, WriteResult
  <2>3. CASE ~OpenFile(z) /\ ~WriteResult(z)
    BY <1>6, <2>1, <2>3 DEF WorkerStep, Boot, WrongSnapshot, Ask, NoTime, Reply, Raises, Dies
  <2> QED BY <2>2, <2>3
<1>7. CASE \/ LoopEnds \/ SweepEnds \/ Tick \/ UNCHANGED vars
           \/ \E z \in Seats : LeaveRunning(z) \/ Condemn(z)
  <2>1. UNCHANGED <<slot, file>>
    BY <1>7 DEF LoopEnds, SweepEnds, Tick, LeaveRunning, Condemn, vars, runnerVars
  <2> QED BY <1>1, <2>1
<1> QED BY <1>1, <1>2, <1>4, <1>5, <1>6, <1>7 DEF Next, RunnerStep, Finished

(* Once a seat is finished neither its slot nor its file changes again: a   *)
(* killed worker has no last word.                                          *)
THEOREM OutcomesStand == Spec => OutcomeStands
<1>1. PoolInv /\ [Next]_vars
        => [\A s \in Seats : slot[s].status # "pending" =>
              /\ file[s] = slot[s]
              /\ slot'[s] = slot[s] /\ file'[s] = file[s]]_vars
  BY OutcomeStays
<1> QED BY <1>1, PoolInvariant, PTL DEF Spec, OutcomeStands

(* A seat whose call was lost sends no other.                               *)
THEOREM LostIsLast == Spec => LostNeverRetried
<1>1. PoolInv /\ [Next]_vars
        => [\A s \in Seats : lost[s] => sent'[s] = sent[s]]_vars
  <2> SUFFICES ASSUME PoolInv, [Next]_vars, NEW s \in Seats, lost[s]
               PROVE  sent'[s] = sent[s]
    OBVIOUS
  <2>1. lost[s] = TRUE
    BY DEF PoolInv, TypeOK
  <2>2. wpc[s] # "ask"
    BY <2>1 DEF PoolInv, WorkerInv
  <2>3. ASSUME NEW z \in Seats, Ask(z)
        PROVE  sent'[s] = sent[s]
    BY <2>2, <2>3 DEF Ask, WorkerAt, PoolInv, TypeOK
  <2>4. ASSUME NEW z \in Seats, WorkerStep(z), ~Ask(z)
        PROVE  sent'[s] = sent[s]
    BY <2>4 DEF WorkerStep, Boot, WrongSnapshot, NoTime, Reply, Raises, OpenFile,
                WriteResult, Dies
  <2>5. CASE RunnerStep \/ Tick \/ UNCHANGED vars
    BY <2>5 DEF RunnerStep, Turn, LoopEnds, Kill, SweepEnds, Collect, LeaveRunning,
                Condemn, Tick, vars, workerVars
  <2> QED BY <2>3, <2>4, <2>5 DEF Next, Finished
<1> QED BY <1>1, PoolInvariant, PTL DEF Spec, LostNeverRetried

=============================================================================
