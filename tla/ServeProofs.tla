------------------------------ MODULE ServeProofs ------------------------------
(***************************************************************************)
(* Proofs about Serve, for any number of requests, seats, cycles started    *)
(* and lines in a pipe.                                                     *)
(***************************************************************************)
EXTENDS Serve, FiniteSetTheorems, SequenceTheorems,
        WellFoundedInduction, TLAPS

-------------------------------------------------------------------------------
(* The inductive invariant *)

WatchStates == {"off", "boot", "read", "wait", "end"}
SeatStates  == {"off", "scan", "found", "marked", "end"}

(* Types of what TypeOK says value by value.                                *)
Types2 ==
  /\ taken \in [Runs -> 0..Len(Lines)]
  /\ pending \in [Runs -> Seq(Tasks)]
  /\ spot \in [Runs -> Seats \cup {NoSeat}]

(* A request that is served has a cycle to start.                           *)
RoomInv == Cardinality(Posting) <= Free

(* The process is a child that was started, and so is what a thread reads,  *)
(* waits for or looks into.                                                 *)
ProcessInv ==
  /\ process # 0 => child[process] # "none"
  /\ \A r \in Runs :
       /\ child[r] = "none" => wpc[r] = "off"
       /\ wpc[r] # "off" => process # 0
       /\ wpc[r] \in {"read", "wait", "end"}
            => reads[r] # 0 /\ child[reads[r]] # "none"
       /\ spc[r] \notin {"off", "end"} => dir[r] # 0
       /\ wpc[r] \in {"off", "boot"} =>
            spc[r] = "off" /\ pending[r] = <<>> /\ seen[r] = {}

(* The line that starts the analysts was taken from what a thread reads, or *)
(* no line is left to take: an output has only one such line.               *)
AnalystsPast(r) ==
  \/ taken[reads[r]] >= AnalystsAt
  \/ child[reads[r]] = "exited" /\ printed[reads[r]] = taken[reads[r]]

Aggregate == [do |-> "emit", type |-> "aggregate.start"]

(* What a watcher has still to do: it starts its thread over the seats      *)
(* once, last, and says that the aggregation begins last, when it has       *)
(* reported every seat or is about to.                                      *)
PendingInv(r) ==
  /\ pending[r] # <<>> => wpc[r] \in {"read", "end"}
  /\ wpc[r] = "read" /\ spc[r] # "off" => AnalystsPast(r)
  /\ wpc[r] = "read" /\ spc[r] \notin {"off", "end"} => dir[r] = reads[r]
  /\ \A i \in 1..Len(pending[r]) :
       /\ pending[r][i].do = "seats" =>
            /\ i = Len(pending[r]) /\ wpc[r] = "read" /\ spc[r] = "off"
            /\ AnalystsPast(r)
       /\ pending[r][i] = Aggregate =>
            /\ wpc[r] = "read"
            /\ \A s \in Seats :
                 \/ s \in seen[r]
                 \/ \E j \in 1..(i - 1) : pending[r][j] = [do |-> "seat", seat |-> s]

(* A seat the watcher of the newest cycle has reported is in the log, or in *)
(* the hand of its thread, unless the log was emptied for the next cycle.   *)
SeenInv(r) ==
  wpc[r] = "read" /\ reads[r] = process /\ (\A q \in Requests : req[q] # "spawn")
    => \A s \in seen[r] :
         \/ [type |-> "analyst.done", seat |-> s, run |-> reads[r]] \in events
         \/ spc[r] = "marked" /\ spot[r] = s

ServeInv ==
  /\ TypeOK /\ Types2 /\ RoomInv /\ ProcessInv
  /\ \A r \in Runs : PendingInv(r) /\ SeenInv(r)

-------------------------------------------------------------------------------
(* Operators *)

(* A set of numbers that has a member has a least one.                      *)
LEMMA LeastOf ==
  ASSUME NEW S \in SUBSET Nat, S # {}
  PROVE  \E n \in S : \A m \in S : n <= m
<1>1. \E n \in S : \A m \in S : ~ (<<m, n>> \in OpToRel(<, Nat))
  BY NatLessThanWellFounded, WFMin
<1>2. PICK n \in S : \A m \in S : ~ (<<m, n>> \in OpToRel(<, Nat))
  BY <1>1
<1>3. \A m \in S : ~ (m < n)
  BY <1>2 DEF OpToRel
<1> QED BY <1>3

(* The seats in a sequence: each of them is in it.                          *)
LEMMA OpenAll ==
  /\ Open \in Seq(Tasks) /\ Len(Open) = Cardinality(Seats) /\ Cardinality(Seats) \in Nat
  /\ \A i \in 1..Len(Open) : Open[i].do = "seat"
  /\ \A s \in Seats : \E j \in 1..Len(Open) : Open[j] = [do |-> "seat", seat |-> s]
<1> DEFINE n == Cardinality(Seats)
           f == SetToSeq(Seats)
<1>1. n \in Nat /\ ExistsBijection(1..n, Seats)
  BY BoundsAssumption, FS_CardinalityType
<1>2. f \in [1..n -> Seats] /\ IsInjective(f)
  <2>1. \E g \in [1..n -> Seats] : IsInjective(g)
    BY <1>1 DEF ExistsBijection, Bijection, Injection
  <2> QED BY <2>1 DEF SetToSeq
<1>3. f \in Surjection(1..n, Seats)
  <2>1. f \in Injection(1..n, Seats)
    BY <1>2 DEF Injection
  <2>2. Cardinality(1..n) = n
    BY <1>1, FS_Interval
  <2> QED BY <2>1, <2>2, BoundsAssumption, FS_Injection
<1>4. \A s \in Seats : \E j \in 1..n : f[j] = s
  BY <1>3 DEF Surjection
<1> HIDE DEF n, f
<1>5. Open = [i \in 1..n |-> [do |-> "seat", seat |-> f[i]]]
  BY DEF Open, n, f
<1>6. \A i \in 1..n : [do |-> "seat", seat |-> f[i]] \in Tasks
  BY <1>2 DEF Tasks
<1>7. Open \in Seq(Tasks) /\ Len(Open) = n
  BY <1>1, <1>5, <1>6
<1> QED BY <1>1, <1>4, <1>5, <1>7 DEF n

(* What a line calls for: the thread over the seats for the second only,    *)
(* and the aggregation for the third only, after every seat.                *)
LEMMA TasksForm ==
  ASSUME NEW k \in 1..Len(Lines)
  PROVE  LET T == TasksOf(Lines[k])
         IN /\ T \in Seq(Tasks)
            /\ \A i \in 1..Len(T) : T[i].do = "seats" => k = AnalystsAt /\ i = Len(T)
            /\ \A i \in 1..Len(T) : T[i] = Aggregate =>
                 \A s \in Seats :
                   \E j \in 1..(i - 1) : T[j] = [do |-> "seat", seat |-> s]
<1>1. /\ \A type \in Types : [do |-> "emit", type |-> type] \in Tasks
      /\ [do |-> "seats"] \in Tasks
  BY DEF Tasks
<1>2. \A type \in Types :
        /\ Say(<<type>>) \in Seq(Tasks) /\ Len(Say(<<type>>)) = 1
        /\ Say(<<type>>)[1] = [do |-> "emit", type |-> type]
  <2> TAKE type \in Types
  <2> DEFINE e == [do |-> "emit", type |-> type]
  <2>1. Len(<<type>>) = 1 /\ \A i \in 1..1 : <<type>>[i] = type
    OBVIOUS
  <2>2. Say(<<type>>) = [i \in 1..1 |-> e]
    BY <2>1 DEF Say
  <2>3. e \in Tasks
    BY <1>1
  <2> HIDE DEF e
  <2>4. [i \in 1..1 |-> e] \in Seq(Tasks) /\ Len([i \in 1..1 |-> e]) = 1
        /\ [i \in 1..1 |-> e][1] = e
    BY <2>3
  <2> QED BY <2>2, <2>4 DEF e
<1>3. Len(Lines) = 4 /\ Lines[1] = "1/3" /\ Lines[2] = "2/3" /\ Lines[3] = "3/3"
      /\ Lines[4] = "summary"
  BY DEF Lines
<1>4. CASE k = 1
  <2>1. TasksOf(Lines[k]) = Say(<<"snapshot.start">>)
    BY <1>3, <1>4 DEF TasksOf
  <2> QED BY <1>2, <2>1 DEF Types, Aggregate
<1>5. CASE k = 2
  <2> DEFINE a == Say(<<"analysts.start">>)
             b == <<[do |-> "seats"]>>
  <2>1. TasksOf(Lines[k]) = a \o b
    BY <1>3, <1>5 DEF TasksOf
  <2>2. /\ a \in Seq(Tasks) /\ Len(a) = 1 /\ a[1] = [do |-> "emit", type |-> "analysts.start"]
        /\ b \in Seq(Tasks) /\ Len(b) = 1 /\ b[1] = [do |-> "seats"]
    BY <1>1, <1>2 DEF Types
  <2> HIDE DEF a, b
  <2>3. /\ a \o b \in Seq(Tasks) /\ Len(a \o b) = 2
        /\ (a \o b)[1] = [do |-> "emit", type |-> "analysts.start"]
        /\ (a \o b)[2] = [do |-> "seats"]
    BY <2>2, ConcatProperties
  <2> QED BY <1>5, <2>1, <2>3 DEF Aggregate, AnalystsAt
<1>6. CASE k = 3
  <2> DEFINE b == Say(<<"aggregate.start">>)
             n == Len(Open)
  <2>1. TasksOf(Lines[k]) = Open \o b
    BY <1>3, <1>6 DEF TasksOf
  <2>2. /\ b \in Seq(Tasks) /\ Len(b) = 1 /\ b[1] = Aggregate
        /\ Open \in Seq(Tasks) /\ n \in Nat
    BY <1>2, OpenAll DEF Types, Aggregate
  <2> HIDE DEF b
  <2>3. /\ Open \o b \in Seq(Tasks) /\ Len(Open \o b) = n + 1
        /\ \A i \in 1..n : (Open \o b)[i] = Open[i]
        /\ (Open \o b)[n + 1] = Aggregate
    <3>1. /\ Open \o b \in Seq(Tasks) /\ Len(Open \o b) = n + 1
          /\ \A i \in 1..(n + 1) :
               (Open \o b)[i] = IF i <= n THEN Open[i] ELSE b[i - n]
      <4>1. /\ Open \o b \in Seq(Tasks) /\ Len(Open \o b) = Len(Open) + Len(b)
            /\ \A i \in 1 .. Len(Open) + Len(b) :
                 (Open \o b)[i] = IF i <= Len(Open) THEN Open[i] ELSE b[i - Len(Open)]
        BY <2>2, ConcatProperties, Zenon
      <4> QED BY <2>2, <4>1
    <3>2. n + 1 \in 1..(n + 1) /\ ~ (n + 1 <= n) /\ n + 1 - n = 1
      BY <2>2
    <3>3. (Open \o b)[n + 1] = b[1]
      BY <3>1, <3>2
    <3>4. \A i \in 1..n : i \in 1..(n + 1) /\ i <= n
      BY <2>2
    <3> QED BY <2>2, <3>1, <3>3, <3>4
  <2>4. \A i \in 1..n : Open[i].do = "seat"
    BY OpenAll
  <2>5. \A i \in 1..(n + 1) : (Open \o b)[i].do # "seats"
    BY <2>2, <2>3, <2>4 DEF Aggregate
  <2>6. ASSUME NEW i \in 1..(n + 1), (Open \o b)[i] = Aggregate, NEW s \in Seats
        PROVE  \E j \in 1..(i - 1) : (Open \o b)[j] = [do |-> "seat", seat |-> s]
    <3>1. i = n + 1
      BY <2>2, <2>3, <2>4, <2>6 DEF Aggregate
    <3>2. PICK j \in 1..n : Open[j] = [do |-> "seat", seat |-> s]
      BY OpenAll
    <3> QED BY <2>2, <2>3, <3>1, <3>2
  <2> QED BY <2>1, <2>3, <2>5, <2>6
<1>7. CASE k = 4
  <2>1. TasksOf(Lines[k]) = Say(<<"treasurer.done">>)
    BY <1>3, <1>7 DEF TasksOf
  <2> QED BY <1>2, <2>1 DEF Types, Aggregate
<1> QED BY <1>3, <1>4, <1>5, <1>6, <1>7

(* What is left of a sequence of tasks once the first is done.              *)
LEMMA TasksLeft ==
  ASSUME NEW T \in Seq(Tasks), T # <<>>
  PROVE  /\ Tail(T) \in Seq(Tasks) /\ Len(Tail(T)) = Len(T) - 1
         /\ Len(T) \in Nat \ {0} /\ Head(T) = T[1] /\ Head(T) \in Tasks
         /\ \A i \in 1..Len(Tail(T)) : i + 1 \in 1..Len(T) /\ Tail(T)[i] = T[i + 1]
  OBVIOUS

-------------------------------------------------------------------------------
(* What a step may leave as it is *)

LEMMA RoomKeeps ==
  ASSUME RoomInv, Posting' = Posting,
         \A r \in Runs : child'[r] = "none" <=> child[r] = "none"
  PROVE  RoomInv'
<1>1. {r \in Runs : child'[r] = "none"} = {r \in Runs : child[r] = "none"}
  OBVIOUS
<1> QED BY <1>1 DEF RoomInv, Free

(* A thread that is left alone keeps what it has still to do.               *)
LEMMA PendingKeeps ==
  ASSUME NEW r \in Runs, PendingInv(r), wpc'[r] = wpc[r], reads'[r] = reads[r],
         pending'[r] = pending[r], spc'[r] = spc[r], dir'[r] = dir[r],
         seen[r] \subseteq seen'[r],
         wpc[r] = "read" /\ AnalystsPast(r) => AnalystsPast(r)'
  PROVE  PendingInv(r)'
  BY DEF PendingInv

(* A thread that has done the first of its tasks, and nothing else, but for *)
(* what the task says.                                                      *)
LEMMA DoneKeeps ==
  ASSUME NEW r \in Runs, PendingInv(r), pending[r] \in Seq(Tasks), pending[r] # <<>>,
         wpc'[r] = wpc[r], reads'[r] = reads[r],
         pending'[r] = Tail(pending[r]), spc'[r] = spc[r], dir'[r] = dir[r],
         seen[r] \subseteq seen'[r],
         \A s \in Seats : Head(pending[r]) = [do |-> "seat", seat |-> s] => s \in seen'[r],
         UNCHANGED childVars
  PROVE  PendingInv(r)'
<1> DEFINE T == pending[r]
<1>1. /\ Len(Tail(T)) = Len(T) - 1 /\ Len(T) \in Nat \ {0} /\ Head(T) = T[1]
      /\ \A i \in 1..Len(Tail(T)) : i + 1 \in 1..Len(T) /\ Tail(T)[i] = T[i + 1]
  BY TasksLeft
<1>2. AnalystsPast(r)' <=> AnalystsPast(r)
  BY DEF AnalystsPast, childVars
<1>3. /\ wpc[r] \in {"read", "end"}
      /\ wpc'[r] = "read" /\ spc'[r] # "off" => AnalystsPast(r)'
      /\ wpc'[r] = "read" /\ spc'[r] \notin {"off", "end"} => dir'[r] = reads'[r]
  BY <1>2 DEF PendingInv
<1>4. ASSUME NEW i \in 1..Len(Tail(T)), Tail(T)[i].do = "seats"
      PROVE  /\ i = Len(Tail(T)) /\ wpc'[r] = "read" /\ spc'[r] = "off"
             /\ AnalystsPast(r)'
  <2>1. i + 1 \in 1..Len(T) /\ T[i + 1].do = "seats"
    BY <1>1, <1>4
  <2>2. i + 1 = Len(T) /\ wpc[r] = "read" /\ spc[r] = "off" /\ AnalystsPast(r)
    BY <2>1 DEF PendingInv
  <2> QED BY <1>1, <1>2, <2>2
<1>5. ASSUME NEW i \in 1..Len(Tail(T)), Tail(T)[i] = Aggregate
      PROVE  /\ wpc'[r] = "read"
             /\ \A s \in Seats :
                  \/ s \in seen'[r]
                  \/ \E j \in 1..(i - 1) : Tail(T)[j] = [do |-> "seat", seat |-> s]
  <2>1. i + 1 \in 1..Len(T) /\ T[i + 1] = Aggregate /\ i \in Nat
    BY <1>1, <1>5
  <2>2. /\ wpc[r] = "read"
        /\ \A s \in Seats :
             \/ s \in seen[r]
             \/ \E j \in 1..i : T[j] = [do |-> "seat", seat |-> s]
    <3>1. i + 1 - 1 = i
      BY <2>1
    <3> QED BY <2>1, <3>1 DEF PendingInv
  <2>3. ASSUME NEW s \in Seats, NEW j \in 1..i, T[j] = [do |-> "seat", seat |-> s]
        PROVE  \/ s \in seen'[r]
               \/ \E k \in 1..(i - 1) : Tail(T)[k] = [do |-> "seat", seat |-> s]
    <3>1. CASE j = 1
      BY <1>1, <2>3, <3>1
    <3>2. CASE j # 1
      <4>1. j - 1 \in 1..(i - 1) /\ j - 1 \in 1..Len(Tail(T)) /\ (j - 1) + 1 = j
        BY <1>1, <2>1, <3>2
      <4>2. Tail(T)[j - 1] = T[j]
        BY <1>1, <4>1
      <4> QED BY <2>3, <4>1, <4>2
    <3> QED BY <3>1, <3>2
  <2> QED BY <2>2, <2>3
<1> HIDE DEF T
<1>6. pending'[r] = Tail(T)
  BY DEF T
<1>7. ASSUME NEW i \in 1..Len(pending'[r])
      PROVE
        /\ pending'[r][i].do = "seats" =>
             /\ i = Len(pending'[r]) /\ wpc'[r] = "read" /\ spc'[r] = "off"
             /\ AnalystsPast(r)'
        /\ pending'[r][i] = Aggregate =>
             /\ wpc'[r] = "read"
             /\ \A s \in Seats :
                  \/ s \in seen'[r]
                  \/ \E j \in 1..(i - 1) : pending'[r][j] = [do |-> "seat", seat |-> s]
  <2>1. i \in 1..Len(Tail(T))
    BY <1>6, Zenon
  <2>2. CASE Tail(T)[i].do = "seats" /\ Tail(T)[i] # Aggregate
    BY <1>4, <1>6, <2>1, <2>2, Zenon
  <2>3. CASE Tail(T)[i] = Aggregate
    <3>1. Tail(T)[i].do # "seats"
      <4>1. Aggregate.do = "emit"
        BY DEF Aggregate
      <4> QED BY <2>3, <4>1
    <3> QED BY <1>5, <1>6, <2>1, <2>3, <3>1, ZenonT(40)
  <2>4. CASE Tail(T)[i].do # "seats" /\ Tail(T)[i] # Aggregate
    BY <1>6, <2>4, Zenon
  <2> QED BY <2>2, <2>3, <2>4, Zenon
<1>8. wpc'[r] \in {"read", "end"}
  BY <1>3
<1> QED BY <1>3, <1>7, <1>8, Zenon DEF PendingInv, Aggregate

(* The log grows, and what a thread has reported stays reported.            *)
LEMMA SeenKeeps ==
  ASSUME NEW r \in Runs, SeenInv(r), wpc'[r] = wpc[r], reads'[r] = reads[r],
         process' = process, events \subseteq events',
         (\A q \in Requests : req'[q] # "spawn") => (\A q \in Requests : req[q] # "spawn"),
         seen'[r] = seen[r], spc'[r] = spc[r], spot'[r] = spot[r]
  PROVE  SeenInv(r)'
  BY DEF SeenInv

(* A number of a process is that of a run.                                  *)
LEMMA RunOf ==
  ASSUME NEW p \in 0..MaxRuns, p # 0
  PROVE  p \in Runs
  BY BoundsAssumption DEF Runs

(* The types, run by run.                                                   *)
LEMMA RunTypes ==
  ASSUME ServeInv, NEW r \in Runs
  PROVE  /\ child[r] \in {"none", "alive", "exited"}
         /\ taken[r] \in Nat /\ printed[r] \in Nat /\ taken[r] <= printed[r]
         /\ printed[r] \in 0..4 /\ taken[r] \in 0..4 /\ results[r] \subseteq Seats
         /\ wpc[r] \in WatchStates /\ reads[r] \in 0..MaxRuns
         /\ pending[r] \in Seq(Tasks) /\ seen[r] \subseteq Seats
         /\ spc[r] \in SeatStates /\ dir[r] \in 0..MaxRuns
         /\ spot[r] \in Seats <=> spc[r] \in {"found", "marked"}
         /\ PendingInv(r) /\ SeenInv(r)
         /\ wpc[r] \in {"read", "wait", "end"}
              => reads[r] \in Runs /\ child[reads[r]] # "none"
         /\ spc[r] \notin {"off", "end"} => dir[r] \in Runs
         /\ wpc[r] # "off" => process \in Runs /\ child[process] # "none"
<1>1. Len(Lines) = 4
  BY DEF Lines
<1>2. /\ child[r] \in {"none", "alive", "exited"}
      /\ printed[r] \in 0..4 /\ taken[r] \in 0..4 /\ taken[r] \in 0..printed[r]
      /\ results[r] \subseteq Seats
      /\ wpc[r] \in WatchStates /\ reads[r] \in 0..MaxRuns
      /\ pending[r] \in Seq(Tasks) /\ seen[r] \subseteq Seats
      /\ spc[r] \in SeatStates /\ dir[r] \in 0..MaxRuns /\ process \in 0..MaxRuns
      /\ spot[r] \in Seats <=> spc[r] \in {"found", "marked"}
  BY <1>1 DEF ServeInv, TypeOK, Types2, WatchStates, SeatStates
<1>3. /\ wpc[r] \in {"read", "wait", "end"}
              => reads[r] # 0 /\ child[reads[r]] # "none"
      /\ spc[r] \notin {"off", "end"} => dir[r] # 0
      /\ wpc[r] # "off" => process # 0 /\ child[process] # "none"
      /\ PendingInv(r) /\ SeenInv(r)
  BY DEF ServeInv, ProcessInv
<1> QED BY <1>2, <1>3, RunOf

(* An output whose second line was taken stays so.                          *)
LEMMA PastStays ==
  ASSUME ServeInv, NEW w \in Runs, wpc[w] = "read", AnalystsPast(w),
         reads'[w] = reads[w],
         \/ UNCHANGED childVars
         \/ \E r \in Runs : \/ PrintLine(r) \/ Exits(r) \/ ReadLine(r) \/ OutputEnds(r)
                            \/ (\E s \in Seats : SeatEnds(r, s)) \/ SeatsEnd(r)
                            \/ child[r] = "none" /\ child' = [child EXCEPT ![r] = "alive"]
                                 /\ UNCHANGED <<printed, taken>>
  PROVE  AnalystsPast(w)'
<1> DEFINE p == reads[w]
<1>1. /\ p \in Runs /\ child[p] # "none"
      /\ taken[p] \in Nat /\ printed[p] \in Nat /\ taken[p] <= printed[p]
      /\ printed \in [Runs -> 0..Len(Lines)] /\ taken \in [Runs -> 0..Len(Lines)]
      /\ child \in [Runs -> {"none", "alive", "exited"}]
  <2>1. p \in Runs /\ child[p] # "none"
    BY RunTypes
  <2>2. /\ printed \in [Runs -> 0..Len(Lines)] /\ taken \in [Runs -> 0..Len(Lines)]
        /\ child \in [Runs -> {"none", "alive", "exited"}]
    BY DEF ServeInv, TypeOK, Types2
  <2>3. taken[p] \in Nat /\ printed[p] \in Nat /\ taken[p] <= printed[p]
    BY <2>1, RunTypes
  <2> QED BY <2>1, <2>2, <2>3
<1>2. CASE UNCHANGED childVars
  BY <1>2 DEF childVars, AnalystsPast
<1>3. ASSUME NEW r \in Runs, PrintLine(r) PROVE AnalystsPast(w)'
  BY <1>1, <1>3 DEF PrintLine, AnalystsPast
<1>4. ASSUME NEW r \in Runs, Exits(r) PROVE AnalystsPast(w)'
  BY <1>1, <1>4 DEF Exits, AnalystsPast
<1>5. ASSUME NEW r \in Runs, ReadLine(r) PROVE AnalystsPast(w)'
  BY <1>1, <1>5 DEF ReadLine, AnalystsPast, AnalystsAt
<1>6. ASSUME NEW r \in Runs, OutputEnds(r) PROVE AnalystsPast(w)'
  BY <1>1, <1>6 DEF OutputEnds, AnalystsPast
<1>7. ASSUME NEW r \in Runs, NEW s \in Seats, SeatEnds(r, s) PROVE AnalystsPast(w)'
  BY <1>7 DEF SeatEnds, AnalystsPast
<1>8. ASSUME NEW r \in Runs, SeatsEnd(r) PROVE AnalystsPast(w)'
  BY <1>8 DEF SeatsEnd, AnalystsPast
<1>9. ASSUME NEW r \in Runs, child[r] = "none", child' = [child EXCEPT ![r] = "alive"],
             UNCHANGED <<printed, taken>>
      PROVE  AnalystsPast(w)'
  BY <1>1, <1>9 DEF AnalystsPast
<1> QED BY <1>2, <1>3, <1>4, <1>5, <1>6, <1>7, <1>8, <1>9

-------------------------------------------------------------------------------
(* Types *)

(* The child a request starts: there is room for it.                        *)
LEMMA SpawnPick ==
  ASSUME ServeInv, NEW q \in Requests, Spawn(q)
  PROVE  \E r \in Runs : /\ child[r] = "none" /\ process' = r
                         /\ child' = [child EXCEPT ![r] = "alive"]
                         /\ wpc' = [wpc EXCEPT ![r] = "boot"]
<1> DEFINE F == {r \in Runs : child[r] = "none"}
           P(n) == child[n] = "none" /\ \A m \in 1..(n - 1) : child[m] # "none"
           c == CHOOSE n \in Runs : P(n)
<1>1. IsFiniteSet(Posting) /\ q \in Posting
  <2>1. Posting \subseteq Requests /\ q \in Posting
    BY DEF Posting, Spawn
  <2> QED BY <2>1, BoundsAssumption, FS_Subset
<1>2. Cardinality(Posting) \in Nat /\ Cardinality(Posting) # 0
  <2>1. Posting # {}
    BY <1>1
  <2> QED BY <1>1, <2>1, FS_CardinalityType, FS_EmptySet
<1>3. F # {}
  <2>1. SUFFICES ASSUME F = {} PROVE FALSE
    OBVIOUS
  <2>2. Free = 0
    BY <2>1, FS_EmptySet DEF Free
  <2> QED BY <1>2, <2>2 DEF ServeInv, RoomInv
<1>4. F \in SUBSET Nat /\ F \subseteq Runs
  BY BoundsAssumption DEF Runs
<1>5. PICK n \in F : \A m \in F : n <= m
  BY <1>3, <1>4, LeastOf
<1>6. n \in Runs /\ P(n)
  <2>1. n \in 1..MaxRuns /\ child[n] = "none"
    BY <1>4, <1>5 DEF Runs
  <2>2. ASSUME NEW m \in 1..(n - 1) PROVE child[m] # "none"
    <3>1. m \in 1..MaxRuns /\ ~ (n <= m)
      BY <2>1, <2>2, BoundsAssumption
    <3> QED BY <1>5, <3>1 DEF Runs
  <2> QED BY <2>1, <2>2 DEF Runs
<1>7. c \in Runs /\ P(c)
  <2> HIDE DEF P
  <2> QED BY <1>6
<1>8. process' = c /\ child' = [child EXCEPT ![c] = "alive"] /\ wpc' = [wpc EXCEPT ![c] = "boot"]
  BY DEF Spawn
<1> HIDE DEF c
<1> QED BY <1>7, <1>8

(* An event of a run that was started.                                      *)
LEMMA EmitTypes ==
  ASSUME TypeOK, NEW type \in Types, NEW seat \in Seats \cup {NoSeat}, NEW run \in Runs,
         Emit(type, seat, run)
  PROVE  events' \subseteq Event
<1>1. [type |-> type, seat |-> seat, run |-> run] \in Event
  BY DEF Event
<1> QED BY <1>1 DEF Emit, TypeOK

(* What is said when the process has ended: no aggregation, and no thread.  *)
LEMMA EndSays ==
  ASSUME NEW T, \/ T = Say(<<"cycle.finished">>)
                \/ T = Say(<<"treasurer.done", "cycle.finished">>)
  PROVE  /\ T \in Seq(Tasks)
         /\ \A i \in 1..Len(T) : T[i].do = "emit" /\ T[i] # Aggregate
<1> DEFINE e(type) == [do |-> "emit", type |-> type]
<1>1. /\ e("treasurer.done") \in Tasks /\ e("cycle.finished") \in Tasks
      /\ e("treasurer.done").do = "emit" /\ e("cycle.finished").do = "emit"
      /\ e("treasurer.done") # Aggregate /\ e("cycle.finished") # Aggregate
  <2>1. Aggregate.type = "aggregate.start"
    BY DEF Aggregate
  <2>2. e("treasurer.done").type = "treasurer.done" /\ e("cycle.finished").type = "cycle.finished"
    OBVIOUS
  <2>3. e("treasurer.done") # Aggregate /\ e("cycle.finished") # Aggregate
    BY <2>1, <2>2
  <2> QED BY <2>3 DEF Tasks, Types
<1>2. CASE T = Say(<<"cycle.finished">>)
  <2>1. T = [i \in 1..1 |-> e("cycle.finished")]
    BY <1>2 DEF Say
  <2> HIDE DEF e
  <2> QED BY <1>1, <2>1
<1>3. CASE T = Say(<<"treasurer.done", "cycle.finished">>)
  <2>1. T = [i \in 1..2 |-> IF i = 1 THEN e("treasurer.done") ELSE e("cycle.finished")]
    BY <1>3 DEF Say
  <2> HIDE DEF e
  <2> QED BY <1>1, <2>1
<1> QED BY <1>2, <1>3

LEMMA TypeStep ==
  ASSUME ServeInv, Next
  PROVE  TypeOK' /\ Types2'
<1> USE DEF TypeOK, Types2
<1>1. TypeOK /\ Types2 /\ Len(Lines) = 4 /\ AnalystsAt \in 0..4
  BY DEF ServeInv, Lines, AnalystsAt
<1>2. ASSUME NEW q \in Requests, Post(q) \/ Start(q) PROVE TypeOK' /\ Types2'
  <2>1. PICK x \in {"none", "start", "clear"} : req' = [req EXCEPT ![q] = x]
    BY <1>2, Zenon DEF Post, Start
  <2>2. UNCHANGED <<process, events, child, printed, taken, results, wpc, reads, pending,
                    seen, spc, dir, spot>>
    BY <1>2 DEF Post, Start, childVars, watchVars, seatVars
  <2> QED BY <1>1, <2>1, <2>2
<1>3. ASSUME NEW q \in Requests, Clear(q) PROVE TypeOK' /\ Types2'
  BY <1>1, <1>3 DEF Clear, childVars, watchVars, seatVars
<1>4. ASSUME NEW q \in Requests, Spawn(q) PROVE TypeOK' /\ Types2'
  <2>1. PICK r \in Runs : /\ child[r] = "none" /\ process' = r
                         /\ child' = [child EXCEPT ![r] = "alive"]
                         /\ wpc' = [wpc EXCEPT ![r] = "boot"]
    BY <1>4, SpawnPick
  <2>2. process' \in 0..MaxRuns
    BY <2>1, BoundsAssumption DEF Runs
  <2>3. /\ req' = [req EXCEPT ![q] = "none"]
        /\ UNCHANGED <<events, printed, taken, results, reads, pending, seen, spc, dir, spot>>
    BY <1>4 DEF Spawn, seatVars
  <2> QED BY <1>1, <2>1, <2>2, <2>3
<1>5. ASSUME NEW r \in Runs, PrintLine(r) PROVE TypeOK' /\ Types2'
  <2>1. printed[r] \in 0..3 /\ printed' = [printed EXCEPT ![r] = printed[r] + 1]
    BY <1>1, <1>5 DEF PrintLine
  <2>2. printed[r] + 1 \in 0..4 /\ \A n : n \in 0..printed[r] => n \in 0..(printed[r] + 1)
    BY <2>1
  <2>3. UNCHANGED <<process, events, req, child, taken, results, wpc, reads, pending, seen,
                    spc, dir, spot>>
    BY <1>5 DEF PrintLine, serverVars, watchVars, seatVars
  <2> DEFINE n == printed[r] + 1
  <2> HIDE DEF n
  <2>4. printed' = [printed EXCEPT ![r] = n] /\ n \in 0..4
        /\ \A m : m \in 0..printed[r] => m \in 0..n
    BY <2>1, <2>2 DEF n
  <2>5. printed' \in [Runs -> 0..4] /\ \A w \in Runs : taken[w] \in 0..printed'[w]
    BY <1>1, <2>4
  <2> QED BY <1>1, <2>3, <2>5
<1>6. ASSUME NEW r \in Runs, NEW s \in Seats, SeatEnds(r, s) PROVE TypeOK' /\ Types2'
  BY <1>1, <1>6 DEF SeatEnds, serverVars, watchVars, seatVars
<1>7. ASSUME NEW r \in Runs, Exits(r) PROVE TypeOK' /\ Types2'
  BY <1>1, <1>7 DEF Exits, serverVars, watchVars, seatVars
<1>8. ASSUME NEW r \in Runs, WatchStarts(r) PROVE TypeOK' /\ Types2'
  BY <1>1, <1>8 DEF WatchStarts, WatchAt, serverVars, childVars, seatVars
<1>9. ASSUME NEW r \in Runs, ReadLine(r) PROVE TypeOK' /\ Types2'
  <2> DEFINE p == reads[r]
  <2>1. p \in Runs /\ taken[p] < printed[p] /\ taken[p] \in 0..4 /\ printed[p] \in 0..4
    BY <1>9, RunTypes DEF ReadLine
  <2>2. TasksOf(Lines[taken[p] + 1]) \in Seq(Tasks)
    <3>1. taken[p] + 1 \in 1..Len(Lines)
      BY <1>1, <2>1
    <3> QED BY <3>1, TasksForm
  <2>3. /\ pending' = [pending EXCEPT ![r] = TasksOf(Lines[taken[p] + 1])]
        /\ taken' = [taken EXCEPT ![p] = @ + 1]
        /\ UNCHANGED <<process, events, req, child, printed, results, wpc, reads, seen, spc, dir, spot>>
    BY <1>9 DEF ReadLine, serverVars, seatVars
  <2>4. taken[p] + 1 \in 0..4 /\ taken[p] + 1 \in 0..printed[p]
    BY <2>1
  <2> DEFINE n == taken[p] + 1
             T == TasksOf(Lines[taken[p] + 1])
  <2> HIDE DEF p, n, T
  <2>5. taken' = [taken EXCEPT ![p] = n] /\ n \in 0..4 /\ n \in 0..printed[p]
    BY <2>3, <2>4 DEF n
  <2>6. taken' \in [Runs -> 0..4] /\ \A w \in Runs : taken'[w] \in 0..printed[w]
    BY SMTT(40), <1>1, <2>1, <2>5
  <2>7. pending' = [pending EXCEPT ![r] = T] /\ T \in Seq(Tasks)
    BY <2>2, <2>3 DEF T
  <2>8. pending' \in [Runs -> Seq(Tasks)]
    BY <1>1, <2>7
  <2> QED BY <1>1, <2>3, <2>6, <2>8
<1>10. ASSUME NEW r \in Runs, WatchEmits(r) PROVE TypeOK' /\ Types2'
  <2>1. pending[r] # <<>> /\ Head(pending[r]) \in Tasks /\ Tail(pending[r]) \in Seq(Tasks)
        /\ wpc[r] \in {"read", "end"} /\ reads[r] \in Runs /\ Head(pending[r]).do = "emit"
    BY <1>10, RunTypes, TasksLeft DEF WatchEmits, PendingInv
  <2>2. Head(pending[r]).type \in Types
    BY <2>1 DEF Tasks
  <2>3. events' \subseteq Event
    BY <1>1, <1>10, <2>1, <2>2, EmitTypes DEF WatchEmits
  <2>4. /\ pending' = [pending EXCEPT ![r] = Tail(pending[r])]
        /\ UNCHANGED <<process, req, child, printed, taken, results, wpc, reads, seen, spc, dir, spot>>
    BY <1>10 DEF WatchEmits, Done, childVars, seatVars
  <2> QED BY <1>1, <2>1, <2>3, <2>4
<1>11. ASSUME NEW r \in Runs, WatchClosesSeat(r) PROVE TypeOK' /\ Types2'
  <2> DEFINE s == Head(pending[r]).seat
  <2>1. pending[r] # <<>> /\ Head(pending[r]) \in Tasks /\ Tail(pending[r]) \in Seq(Tasks)
        /\ wpc[r] \in {"read", "end"} /\ reads[r] \in Runs /\ Head(pending[r]).do = "seat"
    BY <1>11, RunTypes, TasksLeft DEF WatchClosesSeat, PendingInv
  <2>2. s \in Seats
    BY <2>1 DEF Tasks
  <2>3. events' \subseteq Event
    <3>1. "analyst.done" \in Types
      BY DEF Types
    <3>2. UNCHANGED events \/ Emit("analyst.done", s, reads[r])
      BY <1>11 DEF WatchClosesSeat
    <3> HIDE DEF s
    <3> QED BY <1>1, <2>1, <2>2, <3>1, <3>2, EmitTypes
  <2>4. /\ pending' = [pending EXCEPT ![r] = Tail(pending[r])]
        /\ seen' = [seen EXCEPT ![r] = @ \cup {s}]
        /\ UNCHANGED <<process, req, child, printed, taken, results, wpc, reads, spc, dir, spot>>
    BY <1>11 DEF WatchClosesSeat, Done, childVars, seatVars
  <2> HIDE DEF s
  <2> QED BY SMTT(40), <1>1, <2>1, <2>2, <2>3, <2>4
<1>12. ASSUME NEW r \in Runs, WatchStartsSeats(r) PROVE TypeOK' /\ Types2'
  <2>1. Tail(pending[r]) \in Seq(Tasks) /\ wpc[r] \in {"read", "end"} /\ spc[r] = "off"
    <3>1. pending[r] # <<>> /\ pending[r] \in Seq(Tasks) /\ PendingInv(r)
          /\ Head(pending[r]).do = "seats"
      BY <1>12, RunTypes DEF WatchStartsSeats
    <3>2. /\ Tail(pending[r]) \in Seq(Tasks) /\ 1 \in 1..Len(pending[r])
          /\ pending[r][1].do = "seats"
      BY <3>1, TasksLeft
    <3> QED BY <3>1, <3>2 DEF PendingInv
  <2>2. /\ pending' = [pending EXCEPT ![r] = Tail(pending[r])]
        /\ spc' = [spc EXCEPT ![r] = "scan"] /\ dir' = [dir EXCEPT ![r] = reads[r]]
        /\ UNCHANGED <<process, events, req, child, printed, taken, results, wpc, reads, seen, spot>>
    BY <1>12 DEF WatchStartsSeats, Done, serverVars, childVars
  <2> QED BY <1>1, <2>1, <2>2
<1>13. ASSUME NEW r \in Runs, OutputEnds(r) PROVE TypeOK' /\ Types2'
  <2>1. reads[r] \in Runs
    BY <1>13, RunTypes DEF OutputEnds, WatchAt
  <2> QED BY <1>1, <1>13, <2>1 DEF OutputEnds, WatchAt, serverVars, seatVars
<1>14. ASSUME NEW r \in Runs, ProcessEnds(r) PROVE TypeOK' /\ Types2'
  <2>1. PICK T : /\ pending' = [pending EXCEPT ![r] = T]
                 /\ T = Say(<<"cycle.finished">>) \/ T = Say(<<"treasurer.done", "cycle.finished">>)
    BY <1>14 DEF ProcessEnds
  <2>2. T \in Seq(Tasks)
    BY <2>1, EndSays
  <2>3. /\ wpc' = [wpc EXCEPT ![r] = "end"]
        /\ seen' = [seen EXCEPT ![r] = IF spc[r] \in {"off", "end"} THEN {} ELSE @]
        /\ UNCHANGED <<process, events, req, child, printed, taken, results, reads, spc, dir, spot>>
    BY <1>14 DEF ProcessEnds, WatchAt, serverVars, childVars, seatVars
  <2> QED BY <1>1, <2>1, <2>2, <2>3
<1>15. ASSUME NEW r \in Runs, NEW s \in Seats, FindSeat(r, s) PROVE TypeOK' /\ Types2'
  BY <1>1, <1>15 DEF FindSeat, SeatsAt, serverVars, childVars, watchVars
<1>16. ASSUME NEW r \in Runs, MarkSeat(r) PROVE TypeOK' /\ Types2'
  BY <1>1, <1>16 DEF MarkSeat, SeatsAt, serverVars, childVars
<1>17. ASSUME NEW r \in Runs, EmitSeat(r) PROVE TypeOK' /\ Types2'
  <2>1. spot[r] \in Seats /\ dir[r] \in Runs
    BY <1>17, RunTypes DEF EmitSeat, SeatsAt
  <2>2. "analyst.done" \in Types
    BY DEF Types
  <2>3. events' \subseteq Event
    BY <1>1, <1>17, <2>1, <2>2, EmitTypes DEF EmitSeat
  <2>4. /\ spc' = [spc EXCEPT ![r] = "scan"] /\ spot' = [spot EXCEPT ![r] = NoSeat]
        /\ UNCHANGED <<process, req, child, printed, taken, results, wpc, reads, pending, seen, dir>>
    BY <1>17 DEF EmitSeat, SeatsAt, childVars, watchVars
  <2> QED BY <1>1, <2>3, <2>4, BoundsAssumption
<1>18. ASSUME NEW r \in Runs, SeatsEnd(r) PROVE TypeOK' /\ Types2'
  <2>1. /\ dir' = [dir EXCEPT ![r] = 0] /\ spc' = [spc EXCEPT ![r] = "end"]
        /\ seen' = [seen EXCEPT ![r] = IF wpc[r] = "end" THEN {} ELSE @]
        /\ spc[r] = "scan"
        /\ UNCHANGED <<process, events, req, child, printed, taken, wpc, reads, pending, spot>>
    BY <1>18 DEF SeatsEnd, SeatsAt, serverVars
  <2>2. 0 \in 0..MaxRuns
    BY BoundsAssumption
  <2>3. results' \in [Runs -> SUBSET Seats]
    BY <1>1, <1>18 DEF SeatsEnd
  <2>4. dir' \in [Runs -> 0..MaxRuns]
    BY <1>1, <2>1, <2>2
  <2>5. spc' \in [Runs -> SeatStates] /\ seen' \in [Runs -> SUBSET Seats]
        /\ \A w \in Runs : spot'[w] \in Seats <=> spc'[w] \in {"found", "marked"}
    BY <1>1, <2>1 DEF SeatStates
  <2> QED BY <1>1, <2>1, <2>3, <2>4, <2>5 DEF SeatStates
<1>19. CASE UNCHANGED vars
  BY <1>1, <1>19 DEF vars, serverVars, childVars, watchVars, seatVars
<1> QED
  BY <1>2, <1>3, <1>4, <1>5, <1>6, <1>7, <1>8, <1>9, <1>10, <1>11, <1>12, <1>13, <1>14, <1>15,
     <1>16, <1>17, <1>18, <1>19
  DEF Next, ServerStep, ChildStep, ChildEnds, ChildFails, WatchStep, SeatsStep, Quiet

-------------------------------------------------------------------------------
(* Room for the cycles asked for *)

LEMMA RoomStep ==
  ASSUME ServeInv, Next
  PROVE  RoomInv'
<1> DEFINE F == {r \in Runs : child[r] = "none"}
<1>1. /\ RoomInv /\ req \in [Requests -> {"none", "start", "clear", "spawn"}]
      /\ child \in [Runs -> {"none", "alive", "exited"}]
  BY DEF ServeInv, TypeOK
<1>2. IsFiniteSet(Posting) /\ IsFiniteSet(F)
      /\ Cardinality(Posting) \in Nat /\ Cardinality(F) \in Nat
  <2>1. IsFiniteSet(Posting)
    BY BoundsAssumption, FS_Subset DEF Posting
  <2>2. IsFiniteSet(F)
    <3>1. IsFiniteSet(Runs)
      BY BoundsAssumption, FS_Interval DEF Runs
    <3> QED BY <3>1, FS_Subset
  <2> QED BY <2>1, <2>2, FS_CardinalityType
<1>3. ASSUME Posting' = Posting,
             \A r \in Runs : child'[r] = "none" <=> child[r] = "none"
      PROVE  RoomInv'
  BY <1>1, <1>3, RoomKeeps
<1>4. ASSUME NEW q \in Requests, Post(q) PROVE RoomInv'
  <2>1. Cardinality(Posting) < Free /\ q \notin Posting /\ child' = child
        /\ req' = [req EXCEPT ![q] = "start"]
    BY <1>4 DEF Post, Posting, childVars
  <2>2. Posting' = Posting \cup {q}
    BY <1>1, <2>1 DEF Posting
  <2>3. Cardinality(Posting') = Cardinality(Posting) + 1
    BY <1>2, <2>1, <2>2, FS_AddElement
  <2>4. Free' = Free /\ Free \in Nat
    BY <1>2, <2>1 DEF Free
  <2> QED BY <1>2, <2>1, <2>3, <2>4 DEF RoomInv
<1>5. ASSUME NEW q \in Requests, Start(q) PROVE RoomInv'
  <2>1. req[q] = "start" /\ child' = child
        /\ \/ req' = [req EXCEPT ![q] = "none"] \/ req' = [req EXCEPT ![q] = "clear"]
    BY <1>5 DEF Start, childVars
  <2>2. Posting' = Posting \/ (Posting' = Posting \ {q} /\ q \in Posting)
    BY <1>1, <2>1 DEF Posting
  <2>3. Cardinality(Posting') <= Cardinality(Posting) /\ Cardinality(Posting') \in Nat
    <3>1. CASE Posting' = Posting
      BY <1>2, <3>1
    <3>2. CASE Posting' = Posting \ {q} /\ q \in Posting
      <4>1. Cardinality(Posting') = Cardinality(Posting) - 1
        BY <1>2, <3>2, FS_RemoveElement
      <4>2. Cardinality(Posting') \in Nat
        BY <1>2, <3>2, FS_Subset, FS_CardinalityType
      <4> QED BY <1>2, <4>1, <4>2
    <3> QED BY <2>2, <3>1, <3>2
  <2>4. Free' = Free /\ Free \in Nat
    BY <1>2, <2>1 DEF Free
  <2> QED BY <1>1, <1>2, <2>3, <2>4 DEF RoomInv
<1>6. ASSUME NEW q \in Requests, Clear(q) PROVE RoomInv'
  <2>1. Posting' = Posting
    BY <1>1, <1>6 DEF Clear, Posting
  <2> QED BY <1>3, <1>6, <2>1 DEF Clear, childVars
<1>7. ASSUME NEW q \in Requests, Spawn(q) PROVE RoomInv'
  <2>1. PICK r \in Runs : child[r] = "none" /\ child' = [child EXCEPT ![r] = "alive"]
    BY <1>7, SpawnPick
  <2>2. Posting' = Posting \ {q} /\ q \in Posting
    BY <1>1, <1>7 DEF Spawn, Posting
  <2>3. {w \in Runs : child'[w] = "none"} = F \ {r} /\ r \in F
    BY <1>1, <2>1
  <2>4. Cardinality(Posting') = Cardinality(Posting) - 1
    BY <1>2, <2>2, FS_RemoveElement
  <2>5. Free' = Free - 1 /\ Free \in Nat
    BY <1>2, <2>3, FS_RemoveElement DEF Free
  <2> QED BY <1>1, <1>2, <2>4, <2>5 DEF RoomInv
<1>8. ASSUME NEW r \in Runs, Exits(r) PROVE RoomInv'
  BY <1>1, <1>3, <1>8 DEF Exits, serverVars, Posting
<1>9. ASSUME UNCHANGED <<req, child>> PROVE RoomInv'
  BY <1>3, <1>9 DEF Posting
<1>10. ASSUME NEW r \in Runs,
              ChildStep(r) \/ ChildFails(r) \/ WatchStep(r) \/ SeatsStep(r)
       PROVE  RoomInv'
  <2>1. ASSUME \/ PrintLine(r) \/ \E s \in Seats : SeatEnds(r, s)
               \/ WatchStarts(r) \/ ReadLine(r) \/ WatchEmits(r)
        PROVE  UNCHANGED <<req, child>>
    BY <2>1 DEF PrintLine, SeatEnds, WatchStarts, ReadLine, WatchEmits, serverVars, childVars
  <2>2. ASSUME \/ WatchClosesSeat(r) \/ WatchStartsSeats(r) \/ OutputEnds(r) \/ ProcessEnds(r)
               \/ (\E s \in Seats : FindSeat(r, s)) \/ MarkSeat(r) \/ EmitSeat(r) \/ SeatsEnd(r)
        PROVE  UNCHANGED <<req, child>>
    BY <2>2 DEF WatchClosesSeat, WatchStartsSeats, OutputEnds, ProcessEnds, FindSeat, MarkSeat,
                EmitSeat, SeatsEnd, serverVars, childVars
  <2> QED BY <1>8, <1>9, <1>10, <2>1, <2>2
          DEF ChildStep, ChildEnds, ChildFails, WatchStep, SeatsStep
<1>11. CASE UNCHANGED vars
  BY <1>9, <1>11 DEF vars, serverVars, childVars
<1> QED BY <1>4, <1>5, <1>6, <1>7, <1>10, <1>11 DEF Next, ServerStep, Quiet

-------------------------------------------------------------------------------
(* What a thread reads was started *)

LEMMA ProcessStep ==
  ASSUME ServeInv, Next
  PROVE  ProcessInv'
<1>1. /\ ProcessInv /\ child \in [Runs -> {"none", "alive", "exited"}]
      /\ wpc \in [Runs -> WatchStates] /\ reads \in [Runs -> 0..MaxRuns]
      /\ pending \in [Runs -> Seq(Tasks)] /\ seen \in [Runs -> SUBSET Seats]
      /\ spc \in [Runs -> SeatStates] /\ dir \in [Runs -> 0..MaxRuns]
      /\ process \in 0..MaxRuns
  BY DEF ServeInv, TypeOK, Types2, WatchStates, SeatStates
<1>2. ASSUME UNCHANGED <<process, child, wpc, reads, spc, dir, pending, seen>> PROVE ProcessInv'
  BY <1>1, <1>2 DEF ProcessInv
<1>3. ASSUME NEW q \in Requests, Post(q) \/ Start(q) \/ Clear(q) PROVE ProcessInv'
  <2>1. UNCHANGED <<process, child, wpc, reads, spc, dir, pending, seen>>
    BY <1>3 DEF Post, Start, Clear, childVars, watchVars, seatVars
  <2> QED BY <1>2, <2>1
<1>4. ASSUME NEW q \in Requests, Spawn(q) PROVE ProcessInv'
  <2>1. PICK r \in Runs : /\ child[r] = "none" /\ process' = r
                         /\ child' = [child EXCEPT ![r] = "alive"]
                         /\ wpc' = [wpc EXCEPT ![r] = "boot"]
    BY <1>4, SpawnPick
  <2>2. UNCHANGED <<reads, pending, seen, spc, dir>>
    BY <1>4 DEF Spawn, seatVars
  <2>3. wpc[r] = "off" /\ r # 0 /\ child'[r] = "alive" /\ wpc'[r] = "boot"
    BY <1>1, <2>1, BoundsAssumption DEF ProcessInv, Runs
  <2>4. \A w \in Runs : w # r => child'[w] = child[w] /\ wpc'[w] = wpc[w]
    BY <1>1, <2>1
  <2>5. ASSUME NEW w \in Runs, wpc[w] \in {"read", "wait", "end"}
        PROVE  reads[w] # 0 /\ child'[reads[w]] # "none"
    <3>1. reads[w] \in Runs /\ child[reads[w]] # "none" /\ reads[w] # 0
      BY <2>5, RunTypes, BoundsAssumption DEF Runs
    <3> QED BY <2>1, <2>4, <3>1
  <2> QED BY <1>1, <2>1, <2>2, <2>3, <2>4, <2>5 DEF ProcessInv
<1>5. ASSUME NEW r \in Runs, PrintLine(r) \/ \E s \in Seats : SeatEnds(r, s) PROVE ProcessInv'
  BY <1>2, <1>5 DEF PrintLine, SeatEnds, serverVars, watchVars, seatVars
<1>6. ASSUME NEW r \in Runs, Exits(r) PROVE ProcessInv'
  <2>1. child' = [child EXCEPT ![r] = "exited"] /\ child[r] = "alive"
        /\ UNCHANGED <<process, wpc, reads, spc, dir, pending, seen>>
    BY <1>6 DEF Exits, serverVars, watchVars, seatVars
  <2>2. \A w : w = r \/ child'[w] = child[w]
    BY <1>1, <2>1
  <2> QED BY <1>1, <2>1, <2>2 DEF ProcessInv
<1>7. ASSUME NEW r \in Runs, WatchStarts(r) PROVE ProcessInv'
  <2>1. wpc[r] = "boot" /\ wpc' = [wpc EXCEPT ![r] = "read"] /\ reads' = [reads EXCEPT ![r] = process]
        /\ UNCHANGED <<process, child, spc, dir, pending, seen>>
    BY <1>7 DEF WatchStarts, WatchAt, serverVars, childVars, seatVars
  <2> QED BY <1>1, <2>1 DEF ProcessInv
<1>8. ASSUME NEW r \in Runs, ReadLine(r) PROVE ProcessInv'
  <2>1. wpc[r] = "read" /\ (\A w \in Runs : w # r => pending'[w] = pending[w])
        /\ UNCHANGED <<process, child, wpc, reads, spc, dir, seen>>
    BY <1>1, <1>8 DEF ReadLine, serverVars, seatVars
  <2> QED BY <1>1, <2>1 DEF ProcessInv
<1>9. ASSUME NEW r \in Runs, WatchEmits(r) \/ WatchClosesSeat(r) PROVE ProcessInv'
  <2>1. pending[r] # <<>> /\ UNCHANGED <<process, child, wpc, reads, spc, dir>>
    BY <1>9 DEF WatchEmits, WatchClosesSeat, childVars, seatVars
  <2>2. \A w \in Runs : w # r => pending'[w] = pending[w] /\ seen'[w] = seen[w]
    BY <1>1, <1>9 DEF WatchEmits, WatchClosesSeat, Done
  <2> QED BY <1>1, <2>1, <2>2 DEF ProcessInv
<1>10. ASSUME NEW r \in Runs, WatchStartsSeats(r) PROVE ProcessInv'
  <2>1. pending[r] # <<>> /\ UNCHANGED <<process, child, wpc, reads, seen>>
        /\ spc' = [spc EXCEPT ![r] = "scan"] /\ dir' = [dir EXCEPT ![r] = reads[r]]
        /\ wpc[r] \in {"read", "end"}
    BY <1>10, RunTypes DEF WatchStartsSeats, serverVars, childVars, PendingInv
  <2>2. \A w \in Runs : w # r => pending'[w] = pending[w]
    BY <1>1, <1>10 DEF WatchStartsSeats, Done
  <2> QED BY <1>1, <2>1, <2>2 DEF ProcessInv
<1>11. ASSUME NEW r \in Runs, OutputEnds(r) PROVE ProcessInv'
  <2>1. wpc[r] = "read" /\ wpc' = [wpc EXCEPT ![r] = "wait"] /\ reads' = [reads EXCEPT ![r] = process]
        /\ UNCHANGED <<process, child, spc, dir, pending, seen>>
    BY <1>11 DEF OutputEnds, WatchAt, serverVars, seatVars
  <2> QED BY <1>1, <2>1 DEF ProcessInv
<1>12. ASSUME NEW r \in Runs, ProcessEnds(r) PROVE ProcessInv'
  <2>1. wpc[r] = "wait" /\ wpc' = [wpc EXCEPT ![r] = "end"]
        /\ UNCHANGED <<process, child, reads, spc, dir>>
    BY <1>12 DEF ProcessEnds, WatchAt, serverVars, childVars, seatVars
  <2>2. \A w \in Runs : w # r => pending'[w] = pending[w] /\ seen'[w] = seen[w]
    BY <1>1, <1>12 DEF ProcessEnds
  <2> QED BY <1>1, <2>1, <2>2 DEF ProcessInv
<1>13. ASSUME NEW r \in Runs, (\E s \in Seats : FindSeat(r, s)) \/ MarkSeat(r) \/ EmitSeat(r)
       PROVE  ProcessInv'
  <2>1. UNCHANGED <<process, child, wpc, reads, pending, dir>>
    BY <1>13 DEF FindSeat, MarkSeat, EmitSeat, serverVars, childVars, watchVars
  <2>2. spc[r] \in {"scan", "found", "marked"}
        /\ \A w \in Runs : w # r => spc'[w] = spc[w] /\ seen'[w] = seen[w]
    BY <1>1, <1>13 DEF FindSeat, MarkSeat, EmitSeat, SeatsAt, watchVars
  <2>3. wpc[r] \notin {"off", "boot"} /\ dir[r] # 0
    BY <1>1, <2>2 DEF ProcessInv
  <2> QED BY <1>1, <2>1, <2>2, <2>3 DEF ProcessInv
<1>14. ASSUME NEW r \in Runs, SeatsEnd(r) PROVE ProcessInv'
  <2>1. spc[r] = "scan" /\ spc' = [spc EXCEPT ![r] = "end"] /\ dir' = [dir EXCEPT ![r] = 0]
        /\ UNCHANGED <<process, child, wpc, reads, pending>>
    BY <1>14 DEF SeatsEnd, SeatsAt, serverVars
  <2>2. \A w \in Runs : w # r => seen'[w] = seen[w]
    BY <1>1, <1>14 DEF SeatsEnd
  <2> QED BY <1>1, <2>1, <2>2 DEF ProcessInv
<1>15. CASE UNCHANGED vars
  BY <1>2, <1>15 DEF vars, serverVars, childVars, watchVars, seatVars
<1> QED
  BY <1>3, <1>4, <1>5, <1>6, <1>7, <1>8, <1>9, <1>10, <1>11, <1>12, <1>13, <1>14, <1>15
  DEF Next, ServerStep, ChildStep, ChildEnds, ChildFails, WatchStep, SeatsStep, Quiet

-------------------------------------------------------------------------------
(* What a thread has still to do *)

LEMMA PendingStep ==
  ASSUME ServeInv, Next, NEW w \in Runs
  PROVE  PendingInv(w)'
<1>1. /\ PendingInv(w) /\ pending[w] \in Seq(Tasks)
      /\ child \in [Runs -> {"none", "alive", "exited"}]
      /\ wpc \in [Runs -> WatchStates] /\ reads \in [Runs -> 0..MaxRuns]
      /\ pending \in [Runs -> Seq(Tasks)] /\ seen \in [Runs -> SUBSET Seats]
      /\ spc \in [Runs -> SeatStates] /\ dir \in [Runs -> 0..MaxRuns]
      /\ taken \in [Runs -> 0..Len(Lines)] /\ printed \in [Runs -> 0..Len(Lines)]
  BY DEF ServeInv, TypeOK, Types2, WatchStates, SeatStates
<1>2. ASSUME wpc'[w] = wpc[w], reads'[w] = reads[w], pending'[w] = pending[w],
             spc'[w] = spc[w], dir'[w] = dir[w], seen[w] \subseteq seen'[w],
             wpc[w] = "read" /\ AnalystsPast(w) => AnalystsPast(w)'
      PROVE  PendingInv(w)'
  BY <1>1, <1>2, PendingKeeps
<1>3. ASSUME NEW q \in Requests, Post(q) \/ Start(q) \/ Clear(q) PROVE PendingInv(w)'
  <2>1. UNCHANGED childVars /\ UNCHANGED <<wpc, reads, pending, spc, dir, seen>>
    BY <1>3 DEF Post, Start, Clear, watchVars, seatVars
  <2> QED BY <1>2, <2>1, PastStays
<1>4. ASSUME NEW q \in Requests, Spawn(q) PROVE PendingInv(w)'
  <2>1. PICK r \in Runs : /\ child[r] = "none"
                         /\ child' = [child EXCEPT ![r] = "alive"]
                         /\ wpc' = [wpc EXCEPT ![r] = "boot"]
    BY <1>4, SpawnPick
  <2>2. UNCHANGED <<printed, taken, reads, pending, seen, spc, dir>>
    BY <1>4 DEF Spawn, seatVars
  <2>3. CASE w = r
    <3>1. wpc[w] = "off"
      BY <2>1, <2>3 DEF ServeInv, ProcessInv
    <3>2. spc[w] = "off" /\ pending[w] = <<>> /\ wpc'[w] = "boot"
      BY <1>1, <2>1, <2>3, <3>1 DEF ServeInv, ProcessInv
    <3> QED BY <2>2, <3>2 DEF PendingInv
  <2>4. CASE w # r
    <3>1. wpc'[w] = wpc[w]
      BY <1>1, <2>1, <2>4
    <3>2. wpc[w] = "read" /\ AnalystsPast(w) => AnalystsPast(w)'
      BY <2>1, <2>2, PastStays
    <3> QED BY <1>2, <2>2, <3>1, <3>2
  <2> QED BY <2>3, <2>4
<1>5. ASSUME NEW r \in Runs, PrintLine(r) \/ Exits(r) \/ \E s \in Seats : SeatEnds(r, s)
      PROVE  PendingInv(w)'
  <2>1. UNCHANGED <<wpc, reads, pending, spc, dir, seen>>
    BY <1>5 DEF PrintLine, Exits, SeatEnds, watchVars, seatVars
  <2> QED BY <1>2, <1>5, <2>1, PastStays
<1>6. ASSUME NEW r \in Runs, WatchStarts(r) PROVE PendingInv(w)'
  <2>1. UNCHANGED childVars /\ UNCHANGED <<pending, spc, dir, seen>>
        /\ wpc[r] = "boot" /\ \A v \in Runs : v # r => wpc'[v] = wpc[v] /\ reads'[v] = reads[v]
    BY <1>1, <1>6 DEF WatchStarts, WatchAt, seatVars
  <2>2. CASE w = r
    <3>1. spc[w] = "off" /\ pending[w] = <<>>
      BY <2>1, <2>2 DEF ServeInv, ProcessInv
    <3> QED BY <2>1, <3>1 DEF PendingInv
  <2>3. CASE w # r
    BY <1>2, <2>1, <2>3, PastStays
  <2> QED BY <2>2, <2>3
<1>7. ASSUME NEW r \in Runs, ReadLine(r) PROVE PendingInv(w)'
  <2>1. UNCHANGED <<wpc, reads, spc, dir, seen>>
    BY <1>7 DEF ReadLine, serverVars, seatVars
  <2>2. wpc[w] = "read" /\ AnalystsPast(w) => AnalystsPast(w)'
    BY <1>7, <2>1, PastStays
  <2>3. CASE w # r
    <3>1. pending'[w] = pending[w]
      BY <1>1, <1>7, <2>3 DEF ReadLine
    <3> QED BY <1>2, <2>1, <2>2, <3>1
  <2>4. CASE w = r
    <3> DEFINE k == taken[reads[w]] + 1
               T == TasksOf(Lines[k])
    <3>1. /\ wpc[w] = "read" /\ pending'[w] = T /\ child' = child /\ printed' = printed
          /\ taken' = [taken EXCEPT ![reads[w]] = k] /\ taken[reads[w]] < printed[reads[w]]
      BY <1>1, <1>7, <2>4 DEF ReadLine
    <3>2. reads[w] \in Runs /\ taken[reads[w]] \in 0..4 /\ printed[reads[w]] \in 0..4
      BY <3>1, RunTypes
    <3>3. k \in 1..4 /\ k \in 1..Len(Lines) /\ taken'[reads[w]] = k
      BY <1>1, <3>1, <3>2 DEF Lines
    <3>4. k = AnalystsAt => AnalystsPast(w)' /\ spc[w] = "off"
      <4>1. ASSUME k = AnalystsAt PROVE AnalystsPast(w)'
        BY <2>1, <3>3, <4>1 DEF AnalystsPast, AnalystsAt
      <4>2. ASSUME k = AnalystsAt PROVE ~ AnalystsPast(w)
        BY <3>1, <3>2, <4>2 DEF AnalystsPast, AnalystsAt
      <4> QED BY <1>1, <3>1, <4>1, <4>2 DEF PendingInv
    <3>5. /\ \A i \in 1..Len(T) : T[i].do = "seats" => k = AnalystsAt /\ i = Len(T)
          /\ \A i \in 1..Len(T) : T[i] = Aggregate =>
               \A s \in Seats :
                 \E j \in 1..(i - 1) : T[j] = [do |-> "seat", seat |-> s]
      BY <3>3, TasksForm
    <3> HIDE DEF k, T
    <3>6. wpc'[w] = "read" /\ spc'[w] = spc[w] /\ dir'[w] = dir[w] /\ reads'[w] = reads[w]
      BY <2>1, <3>1
    <3>7. /\ wpc[w] = "read" /\ spc[w] # "off" => AnalystsPast(w)
          /\ wpc[w] = "read" /\ spc[w] \notin {"off", "end"} => dir[w] = reads[w]
      BY <1>1 DEF PendingInv
    <3>8. \A i \in 1..Len(pending'[w]) :
            /\ pending'[w][i].do = "seats" =>
                 /\ i = Len(pending'[w]) /\ wpc'[w] = "read" /\ spc'[w] = "off"
                 /\ AnalystsPast(w)'
            /\ pending'[w][i] = Aggregate =>
                 /\ wpc'[w] = "read"
                 /\ \A s \in Seats :
                      \/ s \in seen'[w]
                      \/ \E j \in 1..(i - 1) : pending'[w][j] = [do |-> "seat", seat |-> s]
      BY <3>1, <3>4, <3>5, <3>6, Zenon
    <3> QED BY <2>2, <3>1, <3>6, <3>7, <3>8, Zenon DEF PendingInv, Aggregate
  <2> QED BY <2>3, <2>4
<1>8. ASSUME NEW r \in Runs, WatchEmits(r) \/ WatchClosesSeat(r) PROVE PendingInv(w)'
  <2>1. UNCHANGED childVars /\ UNCHANGED <<wpc, reads, spc, dir>>
        /\ pending' = [pending EXCEPT ![r] = Tail(pending[r])] /\ pending[r] # <<>>
    BY <1>8 DEF WatchEmits, WatchClosesSeat, Done, seatVars
  <2>2. seen[w] \subseteq seen'[w]
    BY <1>1, <1>8 DEF WatchEmits, WatchClosesSeat
  <2>3. CASE w # r
    <3>1. pending'[w] = pending[w]
      BY <1>1, <2>1, <2>3
    <3> QED BY <1>2, <2>1, <2>2, <3>1, PastStays
  <2>4. CASE w = r
    <3>1. pending'[w] = Tail(pending[w]) /\ pending[w] # <<>>
      BY <1>1, <2>1, <2>4
    <3>2. ASSUME NEW s \in Seats, Head(pending[w]) = [do |-> "seat", seat |-> s]
          PROVE  s \in seen'[w]
      <4>1. Head(pending[r]).do = "seat" /\ Head(pending[r]).seat = s
        BY <2>4, <3>2
      <4>2. WatchClosesSeat(r)
        BY <1>8, <4>1 DEF WatchEmits
      <4>3. seen' = [seen EXCEPT ![r] = @ \cup {s}]
        BY <4>1, <4>2 DEF WatchClosesSeat
      <4> QED BY <1>1, <2>4, <4>3
    <3> QED BY <1>1, <2>1, <2>2, <3>1, <3>2, DoneKeeps
  <2> QED BY <2>3, <2>4
<1>9. ASSUME NEW r \in Runs, WatchStartsSeats(r) PROVE PendingInv(w)'
  <2>1. UNCHANGED childVars /\ UNCHANGED <<wpc, reads, seen>>
        /\ pending' = [pending EXCEPT ![r] = Tail(pending[r])] /\ pending[r] # <<>>
        /\ spc' = [spc EXCEPT ![r] = "scan"] /\ dir' = [dir EXCEPT ![r] = reads[r]]
        /\ Head(pending[r]).do = "seats"
    BY <1>9 DEF WatchStartsSeats, Done
  <2>2. CASE w # r
    <3>1. pending'[w] = pending[w] /\ spc'[w] = spc[w] /\ dir'[w] = dir[w]
      BY <1>1, <2>1, <2>2
    <3> QED BY <1>2, <2>1, <3>1, PastStays
  <2>3. CASE w = r
    <3>1. pending[w] # <<>> /\ pending[w][1].do = "seats" /\ 1 \in 1..Len(pending[w])
          /\ Tail(pending[w]) \in Seq(Tasks) /\ Len(Tail(pending[w])) = Len(pending[w]) - 1
          /\ Len(pending[w]) \in Nat
      BY <1>1, <2>1, <2>3, TasksLeft
    <3>2. Len(pending[w]) = 1 /\ wpc[w] = "read" /\ AnalystsPast(w)
      BY <1>1, <3>1 DEF PendingInv
    <3>3. pending'[w] = <<>> /\ dir'[w] = reads'[w] /\ spc'[w] = "scan"
      BY <1>1, <2>1, <2>3, <3>1, <3>2
    <3>4. AnalystsPast(w)'
      BY <2>1, <3>2, PastStays
    <3> QED BY <2>1, <3>2, <3>3, <3>4 DEF PendingInv
  <2> QED BY <2>2, <2>3
<1>10. ASSUME NEW r \in Runs, OutputEnds(r) PROVE PendingInv(w)'
  <2>1. UNCHANGED <<pending, seen, spc, dir>> /\ pending[r] = <<>>
        /\ wpc' = [wpc EXCEPT ![r] = "wait"] /\ reads' = [reads EXCEPT ![r] = process]
    BY <1>10 DEF OutputEnds, WatchAt, seatVars
  <2>2. CASE w # r
    <3>1. wpc'[w] = wpc[w] /\ reads'[w] = reads[w]
      BY <1>1, <2>1, <2>2
    <3>2. wpc[w] = "read" /\ AnalystsPast(w) => AnalystsPast(w)'
      BY <1>10, <3>1, PastStays
    <3> QED BY <1>2, <2>1, <3>1, <3>2
  <2>3. CASE w = r
    <3>1. pending'[w] = <<>> /\ wpc'[w] = "wait"
      BY <1>1, <2>1, <2>3
    <3> QED BY <3>1 DEF PendingInv
  <2> QED BY <2>2, <2>3
<1>11. ASSUME NEW r \in Runs, ProcessEnds(r) PROVE PendingInv(w)'
  <2>1. UNCHANGED childVars /\ UNCHANGED <<reads, spc, dir>> /\ wpc' = [wpc EXCEPT ![r] = "end"]
    BY <1>11 DEF ProcessEnds, WatchAt, seatVars
  <2>2. PICK T : /\ pending' = [pending EXCEPT ![r] = T]
                 /\ T = Say(<<"cycle.finished">>) \/ T = Say(<<"treasurer.done", "cycle.finished">>)
    BY <1>11 DEF ProcessEnds
  <2>3. CASE w # r
    <3>1. wpc'[w] = wpc[w] /\ pending'[w] = pending[w] /\ seen'[w] = seen[w]
      BY <1>1, <1>11, <2>1, <2>2, <2>3 DEF ProcessEnds
    <3> QED BY <1>2, <2>1, <3>1, PastStays
  <2>4. CASE w = r
    <3>1. pending'[w] = T /\ wpc'[w] = "end"
      BY <1>1, <2>1, <2>2, <2>4
    <3>2. \A i \in 1..Len(T) : T[i].do # "seats" /\ T[i] # Aggregate
      <4>1. \A i \in 1..Len(T) : T[i].do = "emit" /\ T[i] # Aggregate
        BY <2>2, EndSays
      <4> QED BY <4>1
    <3> QED BY <3>1, <3>2 DEF PendingInv
  <2> QED BY <2>3, <2>4
<1>12. ASSUME NEW r \in Runs, (\E s \in Seats : FindSeat(r, s)) \/ MarkSeat(r) \/ EmitSeat(r)
       PROVE  PendingInv(w)'
  <2>1. UNCHANGED childVars /\ UNCHANGED <<wpc, reads, pending, dir>>
    BY <1>12 DEF FindSeat, MarkSeat, EmitSeat, watchVars
  <2>2. spc[r] \in {"scan", "found", "marked"} /\ spc'[r] \in {"scan", "found", "marked"}
        /\ \A v \in Runs : /\ v # r => spc'[v] = spc[v]
                           /\ seen[v] \subseteq seen'[v]
    BY SMTT(40), <1>1, <1>12 DEF FindSeat, MarkSeat, EmitSeat, SeatsAt, watchVars
  <2>3. wpc[w] = "read" /\ AnalystsPast(w) => AnalystsPast(w)'
    BY <2>1, PastStays
  <2>4. CASE w # r
    BY <1>2, <2>1, <2>2, <2>3, <2>4
  <2>5. CASE w = r
    <3>1. \A i \in 1..Len(pending[w]) : pending[w][i].do # "seats"
      BY <1>1, <2>2, <2>5 DEF PendingInv
    <3> QED BY <1>1, <2>1, <2>2, <2>3, <2>5, <3>1 DEF PendingInv
  <2> QED BY <2>4, <2>5
<1>13. ASSUME NEW r \in Runs, SeatsEnd(r) PROVE PendingInv(w)'
  <2>1. UNCHANGED <<wpc, reads, pending>> /\ spc[r] = "scan"
        /\ spc' = [spc EXCEPT ![r] = "end"] /\ dir' = [dir EXCEPT ![r] = 0]
        /\ seen' = [seen EXCEPT ![r] = IF wpc[r] = "end" THEN {} ELSE @]
    BY <1>13 DEF SeatsEnd, SeatsAt
  <2>2. wpc[w] = "read" /\ AnalystsPast(w) => AnalystsPast(w)'
    BY <1>13, <2>1, PastStays
  <2>3. CASE w # r
    <3>1. spc'[w] = spc[w] /\ dir'[w] = dir[w] /\ seen'[w] = seen[w]
      BY <1>1, <2>1, <2>3
    <3> QED BY <1>2, <2>1, <2>2, <3>1
  <2>4. CASE w = r
    <3>1. spc'[w] = "end" /\ (wpc[w] = "read" => seen'[w] = seen[w]) /\ spc[w] = "scan"
      BY <1>1, <2>1, <2>4
    <3>2. \A i \in 1..Len(pending[w]) : pending[w][i].do # "seats"
      BY <1>1, <3>1 DEF PendingInv
    <3> QED BY <1>1, <2>1, <2>2, <3>1, <3>2 DEF PendingInv
  <2> QED BY <2>3, <2>4
<1>14. CASE UNCHANGED vars
  <2>1. UNCHANGED childVars /\ UNCHANGED <<wpc, reads, pending, spc, dir, seen>>
    BY <1>14 DEF vars, watchVars, seatVars
  <2> QED BY <1>2, <2>1, PastStays
<1> QED
  BY <1>3, <1>4, <1>5, <1>6, <1>7, <1>8, <1>9, <1>10, <1>11, <1>12, <1>13, <1>14
  DEF Next, ServerStep, ChildStep, ChildEnds, ChildFails, WatchStep, SeatsStep, Quiet

-------------------------------------------------------------------------------
(* What a thread has reported *)

LEMMA SeenStep ==
  ASSUME ServeInv, Next, NEW w \in Runs
  PROVE  SeenInv(w)'
<1> DEFINE told(s) == [type |-> "analyst.done", seat |-> s, run |-> reads[w]]
<1>1. /\ SeenInv(w) /\ PendingInv(w)
      /\ req \in [Requests -> {"none", "start", "clear", "spawn"}]
      /\ wpc \in [Runs -> WatchStates] /\ reads \in [Runs -> 0..MaxRuns]
      /\ seen \in [Runs -> SUBSET Seats] /\ spc \in [Runs -> SeatStates]
      /\ spot \in [Runs -> Seats \cup {NoSeat}]
  BY DEF ServeInv, TypeOK, Types2, WatchStates, SeatStates
<1>2. ASSUME wpc'[w] = wpc[w], reads'[w] = reads[w], process' = process, events \subseteq events',
             (\A q \in Requests : req'[q] # "spawn") => (\A q \in Requests : req[q] # "spawn"),
             seen'[w] = seen[w], spc'[w] = spc[w], spot'[w] = spot[w]
      PROVE  SeenInv(w)'
  BY <1>1, <1>2, SeenKeeps
<1>3. ASSUME NEW q \in Requests, Post(q) \/ Start(q) PROVE SeenInv(w)'
  <2>1. UNCHANGED <<process, events, wpc, reads, seen, spc, spot>>
    BY <1>3 DEF Post, Start, watchVars, seatVars
  <2>2. (\A o \in Requests : req'[o] # "spawn") => (\A o \in Requests : req[o] # "spawn")
    BY <1>1, <1>3 DEF Post, Start
  <2> QED BY <1>2, <2>1, <2>2
<1>4. ASSUME NEW q \in Requests, Clear(q) PROVE SeenInv(w)'
  <2>1. req'[q] = "spawn"
    BY <1>1, <1>4 DEF Clear
  <2> QED BY <2>1 DEF SeenInv
<1>5. ASSUME NEW q \in Requests, Spawn(q) PROVE SeenInv(w)'
  <2>1. PICK r \in Runs : /\ child[r] = "none" /\ process' = r
                         /\ wpc' = [wpc EXCEPT ![r] = "boot"]
    BY <1>5, SpawnPick
  <2>2. reads' = reads
    BY <1>5 DEF Spawn
  <2>3. ASSUME wpc'[w] = "read" PROVE reads'[w] # process'
    <3>1. wpc[w] = "read"
      BY <1>1, <2>1, <2>3
    <3>2. child[reads[w]] # "none"
      BY <3>1, RunTypes
    <3> QED BY <2>1, <2>2, <3>2
  <2> QED BY <2>3 DEF SeenInv
<1>6. ASSUME NEW r \in Runs, PrintLine(r) \/ Exits(r) \/ \E s \in Seats : SeatEnds(r, s)
      PROVE  SeenInv(w)'
  <2>1. UNCHANGED <<process, events, req, wpc, reads, seen, spc, spot>>
    BY <1>6 DEF PrintLine, Exits, SeatEnds, serverVars, watchVars, seatVars
  <2> QED BY <1>2, <2>1
<1>7. ASSUME NEW r \in Runs, WatchStarts(r) PROVE SeenInv(w)'
  <2>1. UNCHANGED <<process, events, req, seen, spc, spot>> /\ wpc[r] = "boot"
        /\ \A v \in Runs : v # r => wpc'[v] = wpc[v] /\ reads'[v] = reads[v]
    BY <1>1, <1>7 DEF WatchStarts, WatchAt, serverVars, seatVars
  <2>2. CASE w # r
    BY <1>2, <2>1, <2>2
  <2>3. CASE w = r
    <3>1. seen'[w] = {}
      BY <2>1, <2>3 DEF ServeInv, ProcessInv
    <3> QED BY <3>1 DEF SeenInv
  <2> QED BY <2>2, <2>3
<1>8. ASSUME NEW r \in Runs, ReadLine(r) PROVE SeenInv(w)'
  BY <1>2, <1>8 DEF ReadLine, serverVars, seatVars
<1>9. ASSUME NEW r \in Runs, WatchEmits(r) PROVE SeenInv(w)'
  <2>1. UNCHANGED <<process, req, wpc, reads, seen, spc, spot>> /\ events \subseteq events'
    BY <1>9 DEF WatchEmits, Emit, seatVars
  <2> QED BY <1>2, <2>1
<1>10. ASSUME NEW r \in Runs, WatchClosesSeat(r) PROVE SeenInv(w)'
  <2> DEFINE s == Head(pending[r]).seat
  <2>1. UNCHANGED <<process, req, wpc, reads, spc, spot>> /\ events \subseteq events'
        /\ seen' = [seen EXCEPT ![r] = @ \cup {s}]
    BY <1>10 DEF WatchClosesSeat, Emit, seatVars
  <2>2. s \in seen[r] \/ [type |-> "analyst.done", seat |-> s, run |-> reads[r]] \in events'
    BY <1>10 DEF WatchClosesSeat, Emit
  <2> HIDE DEF s
  <2>3. CASE w # r
    <3>1. seen'[w] = seen[w]
      BY <1>1, <2>1, <2>3
    <3> QED BY <1>2, <2>1, <3>1
  <2>4. CASE w = r
    <3>1. seen'[w] = seen[w] \cup {s} /\ (s \in seen[w] \/ told(s) \in events')
      BY <1>1, <2>1, <2>2, <2>4
    <3> QED BY <1>1, <2>1, <3>1 DEF SeenInv
  <2> QED BY <2>3, <2>4
<1>11. ASSUME NEW r \in Runs, WatchStartsSeats(r) PROVE SeenInv(w)'
  <2>1. UNCHANGED <<process, events, req, wpc, reads, seen, spot>>
        /\ spc' = [spc EXCEPT ![r] = "scan"]
    BY <1>11 DEF WatchStartsSeats, serverVars
  <2>2. CASE w # r
    <3>1. spc'[w] = spc[w]
      BY <1>1, <2>1, <2>2
    <3> QED BY <1>2, <2>1, <3>1
  <2>3. CASE w = r
    <3>1. pending[w] # <<>> /\ Head(pending[w]).do = "seats" /\ pending[w] \in Seq(Tasks)
      BY <1>11, <2>3, RunTypes DEF WatchStartsSeats
    <3>2. 1 \in 1..Len(pending[w]) /\ pending[w][1].do = "seats"
      BY <3>1, TasksLeft
    <3>3. spc[w] = "off"
      BY <1>1, <3>2 DEF PendingInv
    <3> QED BY <1>1, <2>1, <3>3 DEF SeenInv
  <2> QED BY <2>2, <2>3
<1>12. ASSUME NEW r \in Runs, OutputEnds(r) PROVE SeenInv(w)'
  <2>1. UNCHANGED <<process, events, req, seen, spc, spot>> /\ wpc' = [wpc EXCEPT ![r] = "wait"]
        /\ reads' = [reads EXCEPT ![r] = process]
    BY <1>12 DEF OutputEnds, WatchAt, serverVars, seatVars
  <2>2. CASE w # r
    <3>1. wpc'[w] = wpc[w] /\ reads'[w] = reads[w]
      BY <1>1, <2>1, <2>2
    <3> QED BY <1>2, <2>1, <3>1
  <2>3. CASE w = r
    BY <1>1, <2>1, <2>3 DEF SeenInv
  <2> QED BY <2>2, <2>3
<1>13. ASSUME NEW r \in Runs, ProcessEnds(r) PROVE SeenInv(w)'
  <2>1. UNCHANGED <<process, events, req, reads, spc, spot>> /\ wpc' = [wpc EXCEPT ![r] = "end"]
        /\ \A v \in Runs : v # r => seen'[v] = seen[v]
    BY <1>1, <1>13 DEF ProcessEnds, WatchAt, serverVars, seatVars
  <2>2. CASE w # r
    <3>1. wpc'[w] = wpc[w]
      BY <1>1, <2>1, <2>2
    <3> QED BY <1>2, <2>1, <2>2, <3>1
  <2>3. CASE w = r
    BY <1>1, <2>1, <2>3 DEF SeenInv
  <2> QED BY <2>2, <2>3
<1>14. ASSUME NEW r \in Runs, NEW s \in Seats, FindSeat(r, s) PROVE SeenInv(w)'
  <2>1. UNCHANGED <<process, events, req, wpc, reads, seen>> /\ spc[r] = "scan"
        /\ \A v \in Runs : v # r => spc'[v] = spc[v] /\ spot'[v] = spot[v]
    BY <1>1, <1>14 DEF FindSeat, SeatsAt, serverVars, watchVars
  <2>2. CASE w # r
    BY <1>2, <2>1, <2>2
  <2>3. CASE w = r
    BY <1>1, <2>1, <2>3 DEF SeenInv
  <2> QED BY <2>2, <2>3
<1>15. ASSUME NEW r \in Runs, MarkSeat(r) PROVE SeenInv(w)'
  <2>1. UNCHANGED <<process, events, req, wpc, reads, spot>> /\ spc[r] = "found"
        /\ spc' = [spc EXCEPT ![r] = "marked"] /\ seen' = [seen EXCEPT ![r] = @ \cup {spot[r]}]
    BY <1>15 DEF MarkSeat, SeatsAt, serverVars
  <2>2. CASE w # r
    <3>1. seen'[w] = seen[w] /\ spc'[w] = spc[w]
      BY <1>1, <2>1, <2>2
    <3> QED BY <1>2, <2>1, <3>1
  <2>3. CASE w = r
    <3>1. seen'[w] = seen[w] \cup {spot[w]} /\ spc'[w] = "marked"
      BY <1>1, <2>1, <2>3
    <3> QED BY <1>1, <2>1, <2>3, <3>1 DEF SeenInv
  <2> QED BY <2>2, <2>3
<1>16. ASSUME NEW r \in Runs, EmitSeat(r) PROVE SeenInv(w)'
  <2>1. UNCHANGED <<process, req, wpc, reads, seen>> /\ spc[r] = "marked"
        /\ events' = events \cup {[type |-> "analyst.done", seat |-> spot[r], run |-> dir[r]]}
        /\ \A v \in Runs : v # r => spc'[v] = spc[v] /\ spot'[v] = spot[v]
    BY <1>1, <1>16 DEF EmitSeat, SeatsAt, Emit, watchVars
  <2>2. CASE w # r
    BY <1>2, <2>1, <2>2
  <2>3. CASE w = r
    <3>1. wpc[w] = "read" => told(spot[w]) \in events'
      BY <1>1, <2>1, <2>3 DEF PendingInv
    <3> QED BY <1>1, <2>1, <3>1 DEF SeenInv
  <2> QED BY <2>2, <2>3
<1>17. ASSUME NEW r \in Runs, SeatsEnd(r) PROVE SeenInv(w)'
  <2>1. UNCHANGED <<process, events, req, wpc, reads, spot>> /\ spc[r] = "scan"
        /\ spc' = [spc EXCEPT ![r] = "end"]
        /\ seen' = [seen EXCEPT ![r] = IF wpc[r] = "end" THEN {} ELSE @]
    BY <1>17 DEF SeatsEnd, SeatsAt, serverVars
  <2>2. CASE w # r
    <3>1. seen'[w] = seen[w] /\ spc'[w] = spc[w]
      BY <1>1, <2>1, <2>2
    <3> QED BY <1>2, <2>1, <3>1
  <2>3. CASE w = r
    <3>1. wpc[w] = "read" => seen'[w] = seen[w]
      BY <1>1, <2>1, <2>3
    <3> QED BY <1>1, <2>1, <2>3, <3>1 DEF SeenInv
  <2> QED BY <2>2, <2>3
<1>18. CASE UNCHANGED vars
  BY <1>2, <1>18 DEF vars, serverVars, watchVars, seatVars
<1> QED
  BY <1>3, <1>4, <1>5, <1>6, <1>7, <1>8, <1>9, <1>10, <1>11, <1>12, <1>13, <1>14, <1>15, <1>16,
     <1>17, <1>18
  DEF Next, ServerStep, ChildStep, ChildEnds, ChildFails, WatchStep, SeatsStep, Quiet

-------------------------------------------------------------------------------
(* The server *)

LEMMA ServeInit ==
  ASSUME Init
  PROVE  ServeInv
<1>1. MaxRuns \in Nat \ {0} /\ 0 \in 0..MaxRuns /\ NoSeat \notin Seats
  BY BoundsAssumption
<1>2. Len(Lines) = 4
  BY DEF Lines
<1>3. TypeOK /\ Types2
  BY <1>1, <1>2 DEF Init, TypeOK, Types2
<1>4. RoomInv
  <2>1. Posting = {}
    BY DEF Init, Posting
  <2>2. IsFiniteSet({r \in Runs : child[r] = "none"})
    <3>1. IsFiniteSet(Runs)
      BY <1>1, FS_Interval DEF Runs
    <3> QED BY <3>1, FS_Subset
  <2>3. Free \in Nat /\ Cardinality(Posting) = 0
    BY <2>1, <2>2, FS_CardinalityType, FS_EmptySet DEF Free
  <2> QED BY <2>3 DEF RoomInv
<1>5. ProcessInv
  BY DEF Init, ProcessInv
<1>6. \A r \in Runs : PendingInv(r) /\ SeenInv(r)
  BY DEF Init, PendingInv, SeenInv
<1> QED BY <1>3, <1>4, <1>5, <1>6 DEF ServeInv

LEMMA ServeStep ==
  ASSUME ServeInv, [Next]_vars
  PROVE  ServeInv'
<1>1. CASE Next
  BY <1>1, TypeStep, RoomStep, ProcessStep, PendingStep, SeenStep DEF ServeInv
<1>2. CASE UNCHANGED vars
  <2>1. UNCHANGED <<process, events, req, child, printed, taken, results, wpc, reads, pending, seen,
                    spc, dir, spot>>
    BY <1>2 DEF vars, serverVars, childVars, watchVars, seatVars
  <2>2. TypeOK' /\ Types2'
    BY <2>1 DEF ServeInv, TypeOK, Types2
  <2>3. RoomInv' /\ ProcessInv'
    BY <2>1 DEF ServeInv, RoomInv, Posting, Free, ProcessInv
  <2>4. ASSUME NEW r \in Runs PROVE PendingInv(r)' /\ SeenInv(r)'
    <3>1. PendingInv(r) /\ SeenInv(r)
      BY DEF ServeInv
    <3>2. AnalystsPast(r)' <=> AnalystsPast(r)
      BY <2>1 DEF AnalystsPast
    <3> QED BY <2>1, <3>1, <3>2 DEF PendingInv, SeenInv
  <2> QED BY <2>2, <2>3, <2>4 DEF ServeInv
<1> QED BY <1>1, <1>2

LEMMA ServeAlways == Spec => []ServeInv
<1>1. Init => ServeInv
  BY ServeInit
<1>2. ServeInv /\ [Next]_vars => ServeInv'
  BY ServeStep
<1> QED BY <1>1, <1>2, PTL DEF Spec

(* Every variable of the server, its children and its threads has its type. *)
THEOREM ServeTypes == Spec => []TypeOK
<1>1. ServeInv => TypeOK
  BY DEF ServeInv
<1> QED BY <1>1, ServeAlways, PTL

(* serve.Run._watch and _seats: the newest cycle's aggregation is said to   *)
(* begin only after each of its analysts is in the log, but for one a       *)
(* thread over the seats has in its hand, whatever the number of requests,  *)
(* cycles and seats and however their threads interleave.                   *)
THEOREM AggregationAfterReports == Spec => AggregateAfterReports
<1> DEFINE A == \A e \in events' \ events :
                  /\ e.type = "aggregate.start" /\ e.run = process
                  /\ \A q \in Requests : req[q] # "spawn"
                  => \A s \in Seats :
                       \/ [type |-> "analyst.done", seat |-> s, run |-> e.run] \in events
                       \/ \E r \in Runs : spc[r] = "marked" /\ spot[r] = s
<1>1. ASSUME ServeInv, [Next]_vars PROVE [A]_vars
  <2>1. ASSUME NEW e \in events' \ events, e.type = "aggregate.start", e.run = process,
               \A q \in Requests : req[q] # "spawn", NEW s \in Seats, Next
        PROVE  \/ [type |-> "analyst.done", seat |-> s, run |-> e.run] \in events
               \/ \E r \in Runs : spc[r] = "marked" /\ spot[r] = s
    <3>1. ASSUME NEW r \in Runs, WatchEmits(r)
          PROVE  \/ [type |-> "analyst.done", seat |-> s, run |-> e.run] \in events
                 \/ spc[r] = "marked" /\ spot[r] = s
      <4>1. /\ pending[r] # <<>> /\ pending[r] \in Seq(Tasks) /\ PendingInv(r) /\ SeenInv(r)
            /\ Head(pending[r]).do = "emit"
            /\ e = [type |-> Head(pending[r]).type, seat |-> NoSeat, run |-> reads[r]]
        BY <1>1, <2>1, <3>1, RunTypes DEF WatchEmits, Emit
      <4>2. /\ Head(pending[r]) = pending[r][1] /\ Head(pending[r]) \in Tasks
            /\ 1 \in 1..Len(pending[r])
        BY <4>1, TasksLeft
      <4>3. pending[r][1] = Aggregate /\ reads[r] = process
        BY <2>1, <4>1, <4>2 DEF Tasks, Aggregate
      <4>4. wpc[r] = "read" /\ s \in seen[r]
        <5>1. ~ \E j \in 1..(1 - 1) : TRUE
          OBVIOUS
        <5>2. \/ s \in seen[r]
              \/ \E j \in 1..(1 - 1) : pending[r][j] = [do |-> "seat", seat |-> s]
          BY <4>1, <4>2, <4>3 DEF PendingInv
        <5>3. wpc[r] = "read"
          BY <4>1, <4>2, <4>3 DEF PendingInv
        <5> QED BY <5>1, <5>2, <5>3
      <4> QED BY <2>1, <4>1, <4>3, <4>4 DEF SeenInv
    <3>2. ASSUME NEW r \in Runs, WatchClosesSeat(r) \/ EmitSeat(r) PROVE FALSE
      <4>1. e.type = "analyst.done"
        BY <2>1, <3>2 DEF WatchClosesSeat, EmitSeat, Emit
      <4> QED BY <2>1, <4>1
    <3>3. ASSUME UNCHANGED events \/ events' = {} PROVE FALSE
      BY <2>1, <3>3
    <3>4. ASSUME NEW q \in Requests, Post(q) \/ ServerStep(q) PROVE FALSE
      BY <3>3, <3>4 DEF Post, ServerStep, Start, Clear, Spawn
    <3>5. ASSUME NEW r \in Runs, ChildStep(r) \/ ChildFails(r) PROVE FALSE
      BY <3>3, <3>5 DEF ChildStep, ChildEnds, ChildFails, PrintLine, SeatEnds, Exits, serverVars
    <3>6. ASSUME NEW r \in Runs, SeatsStep(r) PROVE FALSE
      BY <3>2, <3>3, <3>6 DEF SeatsStep, FindSeat, MarkSeat, SeatsEnd, serverVars
    <3>7. ASSUME NEW r \in Runs,
                 WatchStarts(r) \/ ReadLine(r) \/ WatchStartsSeats(r) \/ OutputEnds(r) \/ ProcessEnds(r)
          PROVE  FALSE
      BY <3>3, <3>7 DEF WatchStarts, ReadLine, WatchStartsSeats, OutputEnds, ProcessEnds, serverVars
    <3>8. Quiet => FALSE
      BY <3>3 DEF Quiet, vars, serverVars
    <3> QED BY <2>1, <3>1, <3>2, <3>4, <3>5, <3>6, <3>7, <3>8 DEF Next, WatchStep
  <2> QED BY <1>1, <2>1
<1> QED BY <1>1, ServeAlways, PTL DEF Spec, AggregateAfterReports

=============================================================================
