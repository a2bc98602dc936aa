----------------------------- MODULE MCEvidence -----------------------------
(***************************************************************************)
(* Instances of Evidence: two stocks, weeks of eight ticks, and four kinds  *)
(* of world, each with its own budget of faults and of owner's edits.       *)
(***************************************************************************)
EXTENDS Evidence, SequencesExt

RegistriesFour ==
  "r1" :> [aa |-> "ACTIVE", bb |-> "ACTIVE"] @@
  "r2" :> [aa |-> "ACTIVE"] @@
  "r3" :> [bb |-> "HALTED"] @@
  "r4" :> [aa |-> "HALTED"]

Equities == [hours |-> "equities", heartbeat |-> 2]
Always == [hours |-> "none", heartbeat |-> 4]

DirectoriesTwo ==
  "d1" :> [pa |-> Equities, pb |-> Equities, pu |-> Always, pe |-> Always] @@
  "d2" :> [pa |-> Equities, pu |-> Always, pe |-> Always]

FeedOfEach == [aa |-> "pa", usdg |-> "pu", eth |-> "pe", bb |-> "pb"]

SortedTwo(S) == SelectSeq(<<"aa", "bb">>, LAMBDA a : a \in S)

ConfigStart ==
  [margin |-> 1, maxImpact |-> 5,
   sessions |-> [equities |-> [start |-> 5, end |-> 7]]]

(***************************************************************************)
(* Worlds.                                                                  *)
(***************************************************************************)
R(at, answer) == [at |-> at, answer |-> answer, complete |-> TRUE]

Steady == <<R(4, 10), R(12, 10), R(14, 10), R(18, 10), R(19, 10)>>

Healthy ==
  [now |-> 20, sampling |-> "daily_close", registry |-> "r1",
   carried |-> {}, directory |-> "d1", faults |-> 0, edits |-> 0,
   rounds |-> [aa |-> Steady, bb |-> Steady,
               usdg |-> <<R(12, 1), R(16, 1), R(23, 1)>>,
               eth |-> <<R(13, 2), R(17, 2), R(19, 2)>>],
   flag |-> [aa |-> "bool", bb |-> "bool"],
   pausedFrom |-> [aa |-> 22, bb |-> 99],
   balance |-> [aa |-> 0, bb |-> 2, usdg |-> 5, eth |-> 1],
   beacon |-> [aa |-> "issuer", bb |-> "issuer"],
   gecko |-> [a \in {"aa", "bb"} |-> [entries |-> 1, price |-> 10,
                                      volume |-> 9]],
   venue |-> [a \in {"aa", "bb"} |-> [impact |-> -3, echo |-> TRUE]]]

\* The times a stock's feed may publish at; 16 is inside the closed session.
Times == {4, 7, 12, 14, 16, 18, 19, 21}

\* A history with something wrong with the round before its newest or before
\* that one, or nothing wrong.
Flaw == {"none", "units", "incomplete", "order"}

Flawed(r, flaw) ==
  CASE flaw = "units" -> [r EXCEPT !.answer = 100]
    [] flaw = "incomplete" -> [r EXCEPT !.complete = FALSE]
    [] flaw = "order" -> [r EXCEPT !.at = 20]
    [] OTHER -> r

History(times, flaw) ==
  LET s == SetToSortSeq(times, LAMBDA x, y : x < y)
      n == Len(s) - 2
  IN [i \in DOMAIN s |-> IF i = n THEN Flawed(R(s[i], 10), flaw)
                                  ELSE R(s[i], 10)]

Histories ==
  {[Healthy EXCEPT !.rounds.aa = History(times, flaw), !.now = now,
                   !.sampling = sampling] :
     times \in {s \in SUBSET Times : Cardinality(s) \in 3..6},
     flaw \in Flaw, now \in {17, 20},
     sampling \in {"daily_close", "every_round"}}

Markets ==
  {[Healthy EXCEPT !.gecko.aa = g, !.venue.aa = v, !.flag.aa = flag,
                   !.pausedFrom.aa = p, !.beacon.aa = b, !.now = now] :
     g \in {[entries |-> 1, price |-> 10, volume |-> 9],
            [entries |-> 1, price |-> 9, volume |-> 9],
            [entries |-> 1, price |-> 8, volume |-> 9],
            [entries |-> 1, price |-> 10, volume |-> 1],
            [entries |-> 1, price |-> None, volume |-> 9],
            [entries |-> 1, price |-> 0, volume |-> None],
            [entries |-> 0, price |-> 0, volume |-> 0],
            [entries |-> 2, price |-> 10, volume |-> 9]},
     v \in {[impact |-> -3, echo |-> TRUE], [impact |-> 9, echo |-> TRUE],
            [impact |-> None, echo |-> TRUE], [impact |-> 0, echo |-> FALSE]},
     flag \in {"bool", "none"}, p \in {20, 22}, b \in {"issuer", "other"},
     now \in {17, 20}}

Faulty == {[Healthy EXCEPT !.faults = 2, !.edits = 1, !.sampling = s] :
             s \in {"daily_close", "every_round"}}

Refreshed == {[Healthy EXCEPT !.edits = 4, !.registry = "r2",
                              !.carried = {"bb"}],
              [Healthy EXCEPT !.edits = 4]}

\* One of each, and an owner who edits one file of configuration.
Edited == {[w EXCEPT !.edits = 1] :
             w \in {h \in Histories : h.sampling = "every_round"}}

\* In place of Edited: no edit, and a venue that answers late.
Late == {[Healthy EXCEPT !.faults = 2]}

RegistriesOne == "r1" :> RegistriesFour["r1"]
DirectoriesOne == "d1" :> DirectoriesTwo["d1"]

WorldsAll == Histories \cup Markets \cup Faulty \cup Refreshed

(***************************************************************************)
(* The venue's ways of not answering at once.                               *)
(***************************************************************************)
Hang(late) == [kind |-> "hang", hint |-> "none", late |-> late]
Limited(hint) == [kind |-> "limited", hint |-> hint, late |-> "never"]

ScriptsBad ==
  {<<Hang("never"), Plain("good")>>, <<Hang("own"), Plain("dead")>>,
   <<Hang("next"), Plain("dead")>>, <<Hang("never"), Hang("next")>>,
   <<Hang("own"), Hang("never")>>, <<Plain("dead"), Plain("dead")>>,
   <<Plain("error"), Plain("dead")>>, <<Plain("garbled"), Plain("good")>>,
   <<Limited("none"), Plain("good")>>, <<Limited("long"), Plain("good")>>,
   <<Limited("dated"), Plain("good")>>}

=============================================================================
