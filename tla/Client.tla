------------------------------- MODULE Client -------------------------------
(***************************************************************************)
(* The HTTP client every adapter sends through, the recorder that keeps its *)
(* exchanges, and the replayer that serves them back.                       *)
(*                                                                         *)
(* What the other side does with one request is a script: the outcome of    *)
(* the first try, of the second, and so on, pass by pass over the           *)
(* endpoints.  The client decides how much of the script it runs.           *)
(***************************************************************************)
EXTENDS Integers, FiniteSetsExt, Sequences

CONSTANTS Attempts,    \* attempts_per_endpoint, attempts
          Endpoints,   \* how many endpoints, in failover order
          Timeout      \* request_timeout_seconds

ASSUME ClientAssumption ==
  /\ Attempts \in Nat \ {0} /\ Endpoints \in Nat \ {0} /\ Timeout \in Nat \ {0}

(***************************************************************************)
(* Outcomes of one try.  A hang is abandoned at the deadline, but its       *)
(* thread runs on: the reply may still come, before the request it belongs  *)
(* to is given up ("own"), or during the next one ("next").                 *)
(***************************************************************************)
Kinds == {"good",      \* a 200 the accept hook takes
          "garbled",   \* a 200 whose body is not what was asked for
          "transient", \* a 200 the accept hook retries
          "limited",   \* 429 or 503
          "error",     \* any other status
          "dead",      \* the transport raised
          "hang"}

Outcome == [kind : Kinds,
            hint : {"none", "long", "dated"},    \* of a limited answer
            late : {"never", "own", "next"}]     \* of a hang

Script == [1..(Attempts * Endpoints) -> Outcome]

Plain(kind) == [kind |-> kind, hint |-> "none", late |-> "never"]

PassOf(i) == (i - 1) \div Endpoints + 1

Taken(o) == o.kind \in {"good", "garbled"}

(***************************************************************************)
(* retry_after against the timeout.  A date a minute ahead when it was      *)
(* heard is in the past when it is replayed.                                *)
(***************************************************************************)
TooLong(o, replayed) ==
  /\ o.kind = "limited"
  /\ \/ o.hint = "long"
     \/ o.hint = "dated" /\ ~replayed

\* A pass begins unless an earlier one was told to wait past the deadline.
Begun(script, pass, replayed) ==
  \A i \in DOMAIN script : PassOf(i) < pass => ~TooLong(script[i], replayed)

\* The tries made: up to the first reply taken, or the last pass begun.
Tries(script, replayed) ==
  {i \in DOMAIN script :
     /\ Begun(script, PassOf(i), replayed)
     /\ \A j \in 1..(i - 1) : ~Taken(script[j])}

\* The try whose reply `send` returns, or 0: Unavailable.
Served(script, replayed) ==
  Max({0} \cup {i \in Tries(script, replayed) : Taken(script[i])})

\* Each hang holds the caller for the whole deadline.
Elapsed(script) ==
  Timeout * Cardinality({i \in Tries(script, FALSE) : script[i].kind = "hang"})

(***************************************************************************)
(* Recording keeps the tries made; a replay that makes one more finds no    *)
(* answer for it (ReplayMiss), and one that makes fewer leaves it unused.   *)
(***************************************************************************)
Recorded(script) == Tries(script, FALSE)

ReplayMisses(script) == ~(Tries(script, TRUE) \subseteq Recorded(script))

ReplayLeaves(script) == Recorded(script) \ Tries(script, TRUE)

(***************************************************************************)
(* Late replies.  Requests go out in the order of the sequence `order`,     *)
(* each with its script.  Live, a late reply lands as the outcome says.  In *)
(* a replay nothing waits between answers, and an abandoned try's reply     *)
(* comes a moment after the deadline: it lands in the first request that    *)
(* hangs after it.                                                          *)
(***************************************************************************)
Hangs(order, scripts, replayed) ==
  {x \in (1..Len(order)) \X (1..(Attempts * Endpoints)) :
     /\ x[2] \in Tries(scripts[order[x[1]]], replayed)
     /\ scripts[order[x[1]]][x[2]].kind = "hang"}

After(x, y) == x[1] > y[1] \/ (x[1] = y[1] /\ x[2] > y[2])

LandsLive(order, scripts, x) ==
  CASE scripts[order[x[1]]][x[2]].late = "own" -> x[1]
    [] scripts[order[x[1]]][x[2]].late = "next" -> x[1] + 1
    [] OTHER -> 0

LandsReplayed(order, scripts, x) ==
  LET later == {y \in Hangs(order, scripts, TRUE) : After(y, x)}
  IN IF scripts[order[x[1]]][x[2]].late = "never" \/ later = {}
     THEN 0 ELSE Min({y[1] : y \in later})

\* The late replies that are in hand when the k-th request is given up.
Landed(order, scripts, k, replayed) ==
  {x \in Hangs(order, scripts, replayed) :
     k = IF replayed THEN LandsReplayed(order, scripts, x)
                     ELSE LandsLive(order, scripts, x)}

=============================================================================
