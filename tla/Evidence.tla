------------------------------ MODULE Evidence ------------------------------
(***************************************************************************)
(* One snapshot build, from loading the pinned universe to replaying the    *)
(* capture, beside an owner who refreshes pins and edits configuration      *)
(* whenever they like.  Every read is at one pinned block; any of them may  *)
(* go wrong, within the behaviour's budget of faults.                       *)
(***************************************************************************)
EXTENDS Snapshot

CONSTANTS Worlds,     \* the chains, markets and budgets a behaviour starts from
          Scripts,    \* what the venue may do with one quote request
          Sorted(_),  \* the stocks of a set, in address order
          FeedOf,     \* the proxy a reviewer maps each asset to
          Config0     \* the configuration at the start, sampling apart

(***************************************************************************)
(* What the outside may be: any chain at all, within the types its readers  *)
(* decode, and any market and wallet.  `faults` and `edits` are budgets.    *)
(***************************************************************************)
World ==
  [now : Nat, sampling : {"daily_close", "every_round"},
   registry : DOMAIN Registries, directory : DOMAIN Directories,
   carried : SUBSET Stocks, faults : Nat, edits : Nat,
   rounds : [Assets -> Seq(Round)],
   flag : [Stocks -> {"bool", "none"}], pausedFrom : [Stocks -> Nat],
   balance : [Assets -> Nat], beacon : [Stocks -> {"issuer", "other"}],
   gecko : [Stocks -> [entries : Nat, price : Nat \cup {None},
                       volume : Nat \cup {None}]],
   venue : [Stocks -> [impact : Int, echo : BOOLEAN]]]

\* WeeklyClosure refuses a span that is empty or covers a week.
Spans ==
  {NoClosure} \cup {c \in Closure : c.start < c.end /\ c.end < c.start + Week}

ASSUME EvidenceAssumption ==
  /\ Worlds \subseteq World
  /\ Scripts \subseteq Script
  /\ \A S \in SUBSET Stocks :
       Sorted(S) \in Seq(S) /\ Range(Sorted(S)) = S /\ IsInjective(Sorted(S))
  /\ Marked \subseteq DOMAIN FeedOf
  /\ \A v \in DOMAIN Directories : \A p \in DOMAIN Directories[v] :
       Directories[v][p].heartbeat \in Nat
  /\ Config0 \in [margin : Nat, maxImpact : Int,
                  sessions : [DOMAIN Config0.sessions -> Spans]]

VARIABLES world,    \* the outside: fixed, but for the budgets left
          pins, feedMap, cfg, plans,  \* config/, and the owner's pending plans
          pc, u, using, reads,        \* the build: what it loaded and read
          doc, capture,               \* the snapshot, and the sealed capture
          rebuilt,                    \* what the replay made of it
          known, careless, torn       \* history: see HoldingKept

config == <<pins, feedMap, cfg>>
build == <<pc, u, using, reads, doc, capture, rebuilt>>
history == <<known, careless, torn>>
vars == <<world, config, plans, build, history>>

NoReads ==
  [block |-> 0, latest |-> <<>>, unpaused |-> <<>>, series |-> <<>>,
   balances |-> <<>>, slots |-> <<>>, gecko |-> <<>>, order |-> <<>>,
   scripts |-> <<>>]

Nothing == [made |-> FALSE]

With(f, a, v) == [x \in DOMAIN f \cup {a} |-> IF x = a THEN v ELSE f[x]]

Files == [pins |-> pins, map |-> feedMap, cfg |-> cfg]

Reviewed(registry, directory) ==
  [registry |-> registry, directory |-> directory,
   entries |-> [a \in (Listed(registry) \cap DOMAIN FeedOf) \cup Marked
                  |-> FeedOf[a]]]

Init ==
  /\ world \in Worlds
  /\ pins = [registry |-> world.registry, directory |-> world.directory,
             carried |-> world.carried]
  /\ feedMap = Reviewed(world.registry, world.directory)
  /\ cfg = [margin |-> Config0.margin, maxImpact |-> Config0.maxImpact,
            sessions |-> Config0.sessions, sampling |-> world.sampling]
  /\ plans = {}
  /\ pc = "begin" /\ u = Nothing /\ using = Nothing /\ reads = NoReads
  /\ doc = Nothing /\ capture = Nothing /\ rebuilt = Nothing
  /\ known = Listed(world.registry) \cup world.carried
  /\ careless = FALSE /\ torn = FALSE

(***************************************************************************)
(* The owner.                                                               *)
(***************************************************************************)
Spend == world.edits > 0 /\ world' = [world EXCEPT !.edits = @ - 1]

Plan(version) ==
  /\ Spend /\ version # pins.registry
  /\ plans' = plans \cup {PlanRefresh(pins, version)}
  /\ UNCHANGED <<config, build, history>>

\* `held` is what the owner says is held, the wallet's stocks or nothing.
HeldByWallet == {a \in Stocks : world.balance[a] > 0}

Accept(plan, held, acknowledged) ==
  /\ Spend /\ Accepts(pins, plan, held, acknowledged)
  /\ pins' = Accepted(pins, plan, held)
  /\ plans' = plans \ {plan}
  /\ known' = known \cup Listed(plan.version)
  /\ careless' = \/ careless
                 \/ held # HeldByWallet
                 \/ plan.removed # PlanRefresh(pins, plan.version).removed
  /\ torn' = (torn \/ pc = "registry")
  /\ UNCHANGED <<feedMap, cfg, build>>

AcceptDirectory(version) ==
  /\ Spend /\ version # pins.directory
  /\ pins' = AcceptedDirectory(pins, version)
  /\ UNCHANGED <<feedMap, cfg, plans, build, history>>

\* The map is reviewed against the pins, or against a planned version ahead
\* of accepting it.
Review(registry) ==
  /\ Spend
  /\ feedMap' = Reviewed(registry, pins.directory)
  /\ feedMap' # feedMap
  /\ UNCHANGED <<pins, cfg, plans, build, history>>

\* Every round the feeds of one schedule have published, as `--sessions` pools
\* them.
Evidenced ==
  {t \in UNION {{r.at : r \in Range(world.rounds[a])} : a \in Stocks} :
     t <= world.now}

\* The proposed span, written into sessions.json.
Rederive ==
  /\ Spend /\ InferClosure(Evidenced) # NoClosure
  /\ cfg' = [cfg EXCEPT !.sessions = [h \in DOMAIN @ |->
                                        InferClosure(Evidenced)]]
  /\ UNCHANGED <<pins, feedMap, plans, build, history>>

EditMargin ==
  /\ Spend /\ cfg' = [cfg EXCEPT !.margin = @ + 1]
  /\ UNCHANGED <<pins, feedMap, plans, build, history>>

\* What the owner does once the build is over changes nothing in it.
Owner ==
  /\ pc \notin {"replay", "done", "stopped"}
  /\ \/ \E version \in DOMAIN Registries : Plan(version)
     \/ \E plan \in plans, held \in {{}, HeldByWallet}, ack \in BOOLEAN :
          Accept(plan, held, ack)
     \/ \E version \in DOMAIN Directories : AcceptDirectory(version)
     \/ \E registry \in {pins.registry} \cup {p.version : p \in plans} :
          Review(registry)
     \/ Rederive
     \/ EditMargin

(***************************************************************************)
(* The build.  `Went(said)` charges a call that is not answered.            *)
(***************************************************************************)
Said == {"answered", "unavailable", "error"}

Went(fine) ==
  /\ fine \/ world.faults > 0
  /\ world' = IF fine THEN world ELSE [world EXCEPT !.faults = @ - 1]

Build(at, next) ==
  pc = at /\ pc' = next /\ UNCHANGED <<config, plans, history>>

\* main: the thresholds and sessions, then universe.load's first look at
\* pins.json, which the carried list is taken from.  It looks again for each
\* input it reads; `using` is what the build has loaded, as far as it got.
Begin ==
  /\ Build("begin", "registry")
  /\ using' = [cfg |-> cfg, pins |-> pins, map |-> feedMap, known |-> known]
  /\ UNCHANGED <<world, u, reads, doc, capture, rebuilt>>

LoadRegistry ==
  /\ Build("registry", "directory")
  /\ using' = [using EXCEPT !.pins.registry = pins.registry]
  /\ UNCHANGED <<world, u, reads, doc, capture, rebuilt>>

LoadDirectory ==
  /\ Build("directory", "load")
  /\ using' = [using EXCEPT !.pins.directory = pins.directory]
  /\ UNCHANGED <<world, u, reads, doc, capture, rebuilt>>

\* The feed map, held against the registry and the directory just read.
Load ==
  /\ Build("load", IF FeedMapOk(feedMap, using.pins) THEN "pin" ELSE "stopped")
  /\ using' = [using EXCEPT !.map = feedMap]
  /\ u' = IF FeedMapOk(feedMap, using.pins)
          THEN Loaded(using.pins, feedMap) ELSE Nothing
  /\ UNCHANGED <<world, reads, doc, capture, rebuilt>>

\* pin_block; an endpoint on another chain, or none, ends the build.
PinBlock ==
  \E fine \in BOOLEAN :
    /\ Build("pin", IF fine THEN "latest" ELSE "stopped") /\ Went(fine)
    /\ reads' = [reads EXCEPT !.block = IF fine THEN world.now ELSE 0,
                              !.order = Sorted(Candidates(u))]
    /\ UNCHANGED <<u, using, doc, capture, rebuilt>>

ReadLatest ==
  \E said \in Said :
    /\ Build("latest", "paused") /\ Went(said = "answered")
    /\ reads' = [reads EXCEPT !.latest =
         [a \in DOMAIN u.feeds |-> LatestRound(world, a, reads.block, said)]]
    /\ UNCHANGED <<u, using, doc, capture, rebuilt>>

ReadPaused ==
  \E said \in Said :
    /\ Build("paused", "series") /\ Went(said = "answered")
    /\ reads' = [reads EXCEPT !.unpaused =
         [a \in Candidates(u) |-> Unpaused(world, a, reads.block, said)]]
    /\ UNCHANGED <<u, using, doc, capture, rebuilt>>

\* One stock's series: its own latest round, then batch by batch.
ReadSeries ==
  \E said \in Said, broken \in 0..((MaxRounds - 1) \div Chunk + 1) :
    LET k == Cardinality(DOMAIN reads.series) + 1
        a == reads.order[k]
        s == SeriesOf(world, a, reads.block, u.feeds[a], using.cfg, said,
                      broken)
        end == k = Len(reads.order) \/ s.read = "raised"
    IN /\ k \in DOMAIN reads.order
       /\ Build("series", IF s.read = "raised" THEN "stopped"
                          ELSE IF end THEN "balances" ELSE "series")
       /\ Went(said = "answered" /\ broken = 0)
       /\ broken # 0 => said = "answered"
       /\ reads' = [reads EXCEPT !.series = With(@, a, s)]
       /\ UNCHANGED <<u, using, doc, capture, rebuilt>>

ReadBalances ==
  \E native, erc20 \in Said :
    /\ Build("balances", "beacons") /\ Went({native, erc20} = {"answered"})
    /\ reads' = [reads EXCEPT !.balances =
         Balances(world, Tokens(u), Gas, [native |-> native, erc20 |-> erc20])]
    /\ UNCHANGED <<u, using, doc, capture, rebuilt>>

\* The universe's slots, and those of stocks held outside it.
HeldOutside ==
  {a \in DOMAIN Records(u) \ DOMAIN u.feeds :
     reads.balances[a].read = "ok" /\ reads.balances[a].value > 0}

ReadBeacons ==
  pc = "beacons" /\
  \E failed \in SUBSET (Candidates(u) \cup HeldOutside), why \in Said :
    LET said == [a \in Candidates(u) \cup HeldOutside |->
                   IF a \in failed THEN why ELSE "answered"]
        slots == BeaconSlots(world, DOMAIN said, said)
    IN /\ why = "answered" <=> failed = {}
       /\ Build("beacons", IF Disagree(slots) = {} THEN "gecko" ELSE "stopped")
       /\ Went(failed = {})
       /\ reads' = [reads EXCEPT !.slots = slots]
       /\ UNCHANGED <<u, using, doc, capture, rebuilt>>

ReadGecko ==
  \E said \in [1..((Len(reads.order) - 1) \div GeckoBatch + 1) -> Said] :
    /\ Build("gecko", "quotes")
    /\ Went(\A n \in DOMAIN said : said[n] = "answered")
    /\ reads' = [reads EXCEPT !.gecko =
                   Corroborations(world, reads.order, said)]
    /\ UNCHANGED <<u, using, doc, capture, rebuilt>>

\* The venue is asked stock by stock, unless there is no size to ask at.
Fine == [i \in 1..(Attempts * Endpoints) |-> Plain("good")]

ReadQuote ==
  \E script \in Scripts \cup {Fine} :
    LET k == Cardinality(DOMAIN reads.scripts) + 1
        a == reads.order[k]
    IN /\ k \in DOMAIN reads.order
       /\ Build("quotes", IF k = Len(reads.order) THEN "seal" ELSE "quotes")
       /\ QuoteSize(world, u, using.cfg, reads) = None => script = Fine
       /\ Went(script = Fine)
       /\ reads' = [reads EXCEPT !.scripts = With(@, a, script)]
       /\ UNCHANGED <<u, using, doc, capture, rebuilt>>

\* The capture is sealed with the configuration as it stands now.
Seal ==
  /\ Build("seal", "assemble")
  /\ capture' = [made |-> FALSE, files |-> Files]
  /\ UNCHANGED <<world, u, using, reads, doc, rebuilt>>

\* assemble and build: the document names the configuration as it stands now.
Assemble ==
  LET refused == Refused(world, reads)
  IN /\ Build("assemble", IF refused THEN "stopped" ELSE "write")
     /\ doc' = IF refused THEN Nothing
               ELSE Document(world, u, using.cfg, reads, Files, FALSE)
     /\ UNCHANGED <<world, u, using, reads, capture, rebuilt>>

\* A mutant: the capture is written whatever happened to the configuration.
WriteCapture_Unchecked ==
  /\ Build("write", "replay")
  /\ capture' = [capture EXCEPT !.made = TRUE]
  /\ UNCHANGED <<world, u, using, reads, doc, rebuilt>>

\* The snapshot is on disk; the capture follows unless configuration changed
\* since it was sealed.
WriteCapture ==
  LET changed == doc.named # capture.files
  IN /\ Build("write", IF changed THEN "stopped" ELSE "replay")
     /\ capture' = [capture EXCEPT !.made = ~changed]
     /\ UNCHANGED <<world, u, using, reads, doc, rebuilt>>

(***************************************************************************)
(* The replay loads the universe and the settings from the capture, then    *)
(* runs the same build over the capture's answers.  A request or a clock    *)
(* reading the capture does not hold ends it.                               *)
(***************************************************************************)
Reload(files) == Loaded(files.pins, files.map)

\* Over the universe v and the configuration c, the build asks what was asked.
SameQuestions(v, c) ==
  /\ DOMAIN v.feeds = DOMAIN u.feeds
  /\ DOMAIN Records(v) = DOMAIN Records(u) /\ v.carried = u.carried
  /\ QuoteSize(world, v, c, reads) = QuoteSize(world, u, using.cfg, reads)
  /\ c.sampling = "daily_close" =>
       \A a \in Candidates(u) :
         SessionOf(c, v.feeds[a]) = SessionOf(using.cfg, u.feeds[a])

Ended == [made |-> FALSE, used |-> FALSE, doc |-> Nothing]

\* What the replay may come to.  Other files may list the same stocks in
\* another order, so in other requests; and what comes of other questions, if
\* not a miss, is not modelled: answers may be left over, the document be any.
Replays(files) ==
  LET missed == \E a \in DOMAIN reads.scripts :
                  ReplayMisses(reads.scripts[a])
      remade == [made |-> TRUE,
                 used |-> \A a \in DOMAIN reads.scripts :
                            ReplayLeaves(reads.scripts[a]) = {},
                 doc |-> Document(world, Reload(files), files.cfg, reads,
                                  files, TRUE)]
  IN IF ~FeedMapOk(files.map, files.pins) THEN {Ended}
     ELSE IF ~SameQuestions(Reload(files), files.cfg)
     THEN {Ended} \cup [made : {TRUE}, used : BOOLEAN, doc : {doc, Nothing}]
     ELSE IF missed THEN {Ended}
     ELSE IF files.pins = using.pins /\ files.map = using.map THEN {remade}
     ELSE {Ended, remade}

Replay ==
  /\ Build("replay", "done")
  /\ rebuilt' \in Replays(capture.files)
  /\ UNCHANGED <<world, u, using, reads, doc, capture>>

Command ==
  \/ Begin \/ LoadRegistry \/ LoadDirectory \/ Load \/ PinBlock \/ ReadLatest
  \/ ReadPaused \/ ReadSeries \/ ReadBalances \/ ReadBeacons \/ ReadGecko
  \/ ReadQuote \/ Seal \/ Assemble \/ WriteCapture \/ Replay

Next == Owner \/ Command

Spec == Init /\ [][Next]_vars

-----------------------------------------------------------------------------

Status == {"tradeable", "not_tradeable", "uncorroborated", "divergence_veto",
           "below_corroborator_line", "short_history", "no_mark",
           "identity_in_doubt", "listed_not_active", "unmarkable",
           "not_a_stock"}

\* The configuration, the loaded universe and the document have their types.
TypeOK ==
  /\ pins \in Pins
  /\ \A h \in DOMAIN cfg.sessions : cfg.sessions[h] \in Closure
  /\ \A a \in DOMAIN reads.latest :
       reads.latest[a].read = "ok" =>
         reads.latest[a].value \in DOMAIN world.rounds[a]
  /\ \A a \in DOMAIN reads.series : reads.series[a].coverage \in Verdict
  /\ doc # Nothing =>
       /\ DOMAIN doc.entries \subseteq DOMAIN Records(u)
       /\ \A a \in DOMAIN doc.entries : doc.entries[a].status.value \in Status
       /\ \A a \in DOMAIN doc.holdings :
            /\ doc.holdings[a].status.value \in Status
            /\ doc.holdings[a].value \in Nat \cup {None}

(***************************************************************************)
(* The chain and the market as they were at the pinned block, whatever any  *)
(* read of them said.                                                       *)
(***************************************************************************)
At(a, n) == world.rounds[a][n].at

Visible(a) == {n \in DOMAIN world.rounds[a] : At(a, n) <= world.now}

OpenTicks(a, since) ==
  Cardinality({t \in since..(world.now - 1) :
                 ~Within(SessionOf(using.cfg, u.feeds[a]), t)})

\* The round in effect at t, had anyone looked then; 0 before the first.
Prevailing(a, t) == Max({0} \cup {n \in Visible(a) : At(a, n) <= t})

TrulyFresh(a) ==
  LET n == Max(Visible(a))
  IN /\ Sound(world.rounds[a][n])
     /\ OpenTicks(a, At(a, n)) <= u.feeds[a].heartbeat + using.cfg.margin

TrulyPriced(a) ==
  LET price == world.rounds[a][Max(Visible(a))].answer
      gecko == world.gecko[a]
      gap == IF price > gecko.price THEN price - gecko.price
                                    ELSE gecko.price - price
  IN /\ gecko.entries = 1 /\ gecko.price > 0 /\ gecko.volume >= MinVolume
     /\ \/ gap * 100 <= MaxDivergence * gecko.price
        \/ Within(SessionOf(using.cfg, u.feeds[a]), world.now)

TrulyQuoted(a) ==
  LET asked == CHOOSE k \in DOMAIN reads.order : reads.order[k] = a
      after == (asked + 1)..Len(reads.order)
  IN /\ \E i \in Recorded(reads.scripts[a]) : reads.scripts[a][i].kind = "good"
     /\ world.venue[a].echo /\ world.venue[a].impact # None
     /\ world.venue[a].impact <= using.cfg.maxImpact
     /\ Waited(reads.order, reads.scripts, after) <= MaxAge

\* A stock the snapshot calls tradeable really was, at its block: listed and
\* active, of the issuer's beacon, unpaused, its newest round sound and recent
\* in open-session time, corroborated by GeckoTerminal, and quoted by the
\* venue for the size asked, lately enough and at a known, bounded impact.  A
\* read that failed, a stale universe or a late reply never makes one so.
TradeableMeansTrue ==
  doc # Nothing =>
    \A a \in DOMAIN doc.entries :
      doc.entries[a].status.value = "tradeable" =>
        /\ Registries[u.registry][a] = "ACTIVE"
        /\ world.beacon[a] = "issuer"
        /\ world.flag[a] = "bool" /\ world.now < world.pausedFrom[a]
        /\ TrulyFresh(a) /\ TrulyPriced(a) /\ TrulyQuoted(a)

\* The days' cuts at which the session is open, from the first instant on.
OpenDays(c) == {t \in Cuts(world.now) : t >= 0 /\ ~Within(c, t)}

\* A price series that says it covers its window is the feed's own history
\* there: every round from the one in effect when the window opens, or the
\* round in effect at each open day's cut and the newest.  Whatever it covers,
\* a close is never taken from another day than one it was in effect on, and
\* between its first point and its last no round changes the units the feed
\* answers in.
SeriesIsHistory ==
  \A a \in DOMAIN reads.series :
    LET s == reads.series[a]
        c == SessionOf(using.cfg, u.feeds[a])
        open == OpenDays(c)
        daily == using.cfg.sampling = "daily_close"
    IN s.points # {} =>
         /\ Max(s.points) = Max(Visible(a))
         /\ \A n \in Min(s.points)..(Max(s.points) - 1), m \in {0, 1} :
              world.rounds[a][n + m].answer
                < ScaleBreak * world.rounds[a][n + 1 - m].answer
         /\ s.coverage = "true" /\ ~daily =>
              s.points = Prevailing(a, WindowStart(world.now))..Max(Visible(a))
         /\ s.coverage = "true" /\ daily =>
              s.points = {Prevailing(a, t) : t \in open} \cup {Max(Visible(a))}
         /\ daily => \A n \in s.points \ {Max(Visible(a))} :
                       \E t \in open : n = Prevailing(a, t)

\* A holding never leaves the book because its asset left the registry: every
\* stock in the wallet that some pinned registry ever listed is in the
\* snapshot's holdings, whatever was refreshed and whatever read failed.  Not
\* so if a refresh was accepted without naming what the wallet holds, or on a
\* diff with a registry no longer pinned, or between the two looks at the pins
\* that the carried list and the registry are taken from.
HoldingKept ==
  doc # Nothing /\ ~careless /\ ~torn =>
    {a \in using.known : world.balance[a] > 0} \subseteq DOMAIN doc.holdings

\* The files sealed are the ones the build had loaded.
SealedAsLoaded ==
  capture.files = [pins |-> using.pins, map |-> using.map, cfg |-> using.cfg]

\* An entry, and a document, but for how a quote that failed failed: whether
\* the venue refused it or no answer came, and which reply said so.
BarFailure(entry) ==
  IF entry.quote.read = "ok" THEN entry ELSE [entry EXCEPT !.quote = Nothing]

BarFailures(d) ==
  [d EXCEPT !.entries = [a \in DOMAIN d.entries |-> BarFailure(d.entries[a])]]

LateReply ==
  \E a \in DOMAIN reads.scripts :
    \E i \in Recorded(reads.scripts[a]) : reads.scripts[a][i].late # "never"

DatedWait ==
  \E a \in DOMAIN reads.scripts :
    \E i \in Recorded(reads.scripts[a]) : reads.scripts[a][i].hint = "dated"

\* A replay of a capture whose files are the ones the build had loaded uses
\* every answer and makes the snapshot again: the same statuses, marks, series
\* and holdings always, and the same document unless some reply came after it
\* was given up, which live and in the replay is taken for other requests'
\* refusals.  It ends early only if some request was told to wait until a date.
ReplayAgrees ==
  rebuilt # Nothing /\ SealedAsLoaded =>
    IF rebuilt.made
    THEN /\ rebuilt.used
         /\ BarFailures(rebuilt.doc) = BarFailures(doc)
         /\ ~LateReply => rebuilt.doc = doc
    ELSE DatedWait

\* A capture that was written replays to the very document it was written
\* beside, of exactly the answers it holds, as its manifest says it must.
CaptureReplays ==
  rebuilt # Nothing => rebuilt.made /\ rebuilt.used /\ rebuilt.doc = doc

\* A closed session proposed from the feeds' rounds holds none of them, in any
\* week, so it never calls closed a time when a feed was seen to publish.
ClosedIsQuiet ==
  \A h \in DOMAIN cfg.sessions :
    cfg.sessions[h] # Config0.sessions[h] =>
      \A t \in Evidenced : ~Within(cfg.sessions[h], t)

=============================================================================
