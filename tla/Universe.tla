------------------------------ MODULE Universe ------------------------------
(***************************************************************************)
(* The pinned universe: the issuer's registry and the feed directory by     *)
(* version, the reviewed feed map, refreshing a pin as a deliberate act, and *)
(* the rules an asset is admitted by.                                       *)
(*                                                                         *)
(* A version stands for the sha256 of its bytes; the bytes are immutable    *)
(* under their hash, so Registries and Directories are functions of the     *)
(* version.                                                                 *)
(***************************************************************************)
EXTENDS ChainReads, Functions

CONSTANTS Registries,   \* version -> (listed stock -> its registry status)
          Directories,  \* version -> (feed proxy -> schedule and heartbeat)
          Cash, Gas     \* the cash leg and the native asset

Listed(version) == DOMAIN Registries[version]

Stocks == UNION {Listed(v) : v \in DOMAIN Registries}

Marked == {Cash, Gas}

Assets == Stocks \cup Marked

Proxies == UNION {DOMAIN Directories[v] : v \in DOMAIN Directories}

ASSUME UniverseAssumption ==
  /\ Cash # Gas /\ Marked \cap Stocks = {}
  /\ DOMAIN Registries # {} /\ DOMAIN Directories # {}

\* pins.json: the pinned versions, and the assets carried because they were
\* held when the registry dropped them.
Pins == [registry : DOMAIN Registries, directory : DOMAIN Directories,
         carried : SUBSET Stocks]

\* feed_map.json: the versions it was reviewed against, and its entries.
FeedMapOk(map, pins) ==
  /\ map.registry = pins.registry /\ map.directory = pins.directory
  /\ DOMAIN map.entries \subseteq Listed(pins.registry) \cup Marked
  /\ Range(map.entries) \subseteq DOMAIN Directories[pins.directory]
  /\ IsInjective(map.entries)

(***************************************************************************)
(* Refresh.  A plan diffs the fetched version with the version pinned when  *)
(* it is made; accepting it uses that diff whatever the pin is by then.     *)
(***************************************************************************)
PlanRefresh(pins, version) ==
  [version |-> version, removed |-> Listed(pins.registry) \ Listed(version)]

Dropped(plan, held) == held \cap plan.removed

\* Accepting fails over an unacknowledged removal of a held asset, and over a
\* dropped asset the pinned registry has no record of.
Accepts(pins, plan, held, acknowledged) ==
  /\ Dropped(plan, held) # {} => acknowledged
  /\ Dropped(plan, held) \subseteq Listed(pins.registry)

\* A mutant: what an earlier refresh carried is forgotten.
Accepted_Forgets(pins, plan, held) ==
  [pins EXCEPT !.registry = plan.version, !.carried = Dropped(plan, held)]

Accepted(pins, plan, held) ==
  [pins EXCEPT !.registry = plan.version,
               !.carried = (@ \cup Dropped(plan, held)) \ Listed(plan.version)]

\* The feed directory has nothing a wallet can hold.
AcceptedDirectory(pins, version) == [pins EXCEPT !.directory = version]

(***************************************************************************)
(* A loaded universe: the registry in force, the carried list, the feeds.   *)
(***************************************************************************)
Loaded(pins, map) ==
  [registry |-> pins.registry, carried |-> pins.carried,
   feeds |-> [a \in DOMAIN map.entries |->
                Directories[pins.directory][map.entries[a]]]]

Records(u) == Registries[u.registry]

Candidates(u) == DOMAIN u.feeds \cap DOMAIN Records(u)

Identity(u, a) == Judged(a \in DOMAIN Records(u))

Standing(u, a) ==
  Judged(a \in DOMAIN Records(u) /\ Records(u)[a] = "ACTIVE")

Markability(u, a) == Judged(a \in DOMAIN u.feeds)

\* The beacon slots read, against the issuer's: any that was read and differs
\* stops the cycle.
Disagree(slots) ==
  {a \in DOMAIN slots : slots[a].read = "ok" /\ slots[a].value # "issuer"}

BeaconChecks(slots) ==
  [a \in DOMAIN slots |-> IF slots[a].read = "ok" THEN "true" ELSE "null"]

Stock(u, a, beacon) ==
  [id |-> a, kind |-> "stock", identity |-> Identity(u, a),
   markability |-> Markability(u, a), beacon |-> beacon]

CashOrGas(u, a) ==
  [id |-> a, kind |-> "marked", identity |-> "true",
   markability |-> Markability(u, a), beacon |-> "null"]

\* A holding is described whatever its standing; what the registry no longer
\* lists has its identity refused and no feed.
HeldAsset(u, a, beacon) ==
  IF a \in Marked THEN CashOrGas(u, a)
  ELSE IF a \in DOMAIN Records(u) THEN Stock(u, a, beacon)
  ELSE [id |-> a, kind |-> "stock", identity |-> "false",
        markability |-> "false", beacon |-> "null"]

\* The first admission rule that does not pass, or "none".
AdmissionRule(u, asset) ==
  IF asset.identity # "true" THEN "identity"
  ELSE IF asset.kind = "stock" /\ Standing(u, asset.id) # "true"
  THEN "standing"
  ELSE IF asset.kind = "stock" /\ asset.beacon # "true" THEN "beacon"
  ELSE IF asset.markability # "true" THEN "markability"
  ELSE "none"

AdmissionStatus(rule) ==
  CASE rule = "standing" -> "listed_not_active"
    [] rule = "markability" -> "unmarkable"
    [] OTHER -> "identity_in_doubt"

=============================================================================
