----------------------------- MODULE LiveLegProofs -----------------------------
(***************************************************************************)
(* Proofs about LiveLeg, for any wallet, marks, amounts, limits, gas and    *)
(* slips, and any number of commands.                                       *)
(***************************************************************************)
EXTENDS LiveLeg, TotalsProofs

-------------------------------------------------------------------------------
(* The inductive invariant *)

(* What the ledger folds, and what it folds to.                             *)
AnyEvent ==
  [kind : {"opening"}, asset : Asset, raw : Nat, usd : Nat]
    \cup [kind : {"fill"}, order : Runs, asset : Asset, raw : Nat, got : Nat, usd : Nat]
    \cup [kind : {"fee"}, order : Runs, asset : {"eth"}, raw : Nat, usd : Nat]

AnyBook == [held : [Asset -> Nat], basis : [Asset -> Int], opened : Int,
            realised : Int, costs : Int, raised : BOOLEAN]

AnyTx == [state : {"none", "sent", "shallow", "deep"}, ok : BOOLEAN,
          got : Nat, gas : Nat, hash : BOOLEAN]

AnyRow == [state : States, sells : Asset, raw : Nat, evidence : BOOLEAN]

Types2 ==
  /\ tx \in [Runs -> AnyTx] /\ row \in [Runs -> AnyRow]
  /\ snap \in [bal : [Asset -> Nat \cup {Unread}], mark : [Asset -> Nat]]
  /\ journal \in Seq(AnyEvent)
  /\ opening \in {<<>>, <<"usdg">>, Holdings}
  /\ outcome = [o \in Runs |-> outcome[o]]

(* The command: at most one order is not final, and where it is agrees with *)
(* where the command is.                                                    *)
ControlInv ==
  /\ pc # "off" => run \in Runs
  /\ \A o \in Runs : o > run => row[o].state = "none"
  /\ \A o, p \in Left : o = p
  /\ pc \in {"open", "opening"} => Left = {}
  /\ pc \in {"resolve", "open", "opening"} => row[run].state = "none"
  /\ pc = "admit" => row[run].state = "prepared"
  /\ pc \in {"send", "read"} => row[run].state = "submitted"
  /\ pc = "record" => row[run].state \in {"unknown", "confirmed", "failed"}
  /\ pc = "send" => tx[run].state = "none"

(* An order and its operation.                                              *)
OrderInv(o) ==
  /\ row[o].state \in {"none", "prepared", "refused"} => tx[o].state = "none"
  /\ row[o].state \in {"confirmed", "failed"} =>
       tx[o].state = "deep" /\ (tx[o].ok = TRUE <=> row[o].state = "confirmed")
  /\ tx[o].state \in {"none", "sent"} =>
       tx[o].gas = 0 /\ tx[o].got = 0 /\ tx[o].ok = FALSE
  /\ row[o].state # "none" => row[o].raw > 0

(* The basis of what is held, and what was paid for it.                     *)
Conserved(b) ==
  b.raised = FALSE =>
    b.basis["eth"] + b.basis["usdg"] = b.opened + b.realised - b.costs

(* What an order did to the wallet, by its operation and its row, and what  *)
(* the one order not yet settled has done.                                  *)
Moved(t, r, a) ==
  (IF t.ok = TRUE THEN IF a = r.sells THEN -r.raw ELSE t.got ELSE 0)
    - (IF a = "eth" THEN t.gas ELSE 0)

DueOf(ts, rs, a) ==
  LET left == {o \in Runs : rs[o].state \in Open}
      one  == CHOOSE o \in left : TRUE
  IN  IF left = {} THEN 0 ELSE Moved(ts[one], rs[one], a)

Due(a) == DueOf(tx, row, a)

-------------------------------------------------------------------------------
(* The ledger's fold *)

Books == INSTANCE FoldSteps WITH Op <- Apply, Base <- Empty

(* The ledger's fold takes one event at a time.                             *)
LEMMA WalkStep ==
  /\ Walk(<<>>) = Empty
  /\ \A s \in Seq(AnyEvent), e \in AnyEvent : Walk(Append(s, e)) = Apply(Walk(s), e)
<1>1. \A s : Walk(s) = Books!Fold(s)
  BY DEF Walk, Books!Fold, Books!FoldLeft, FoldLeft, Books!MapThenFoldSet, MapThenFoldSet,
         Max, Books!Max
<1>2. Books!Fold(<<>>) = Empty
  BY Books!FoldEmpty
<1>3. ASSUME NEW s \in Seq(AnyEvent), NEW e \in AnyEvent
      PROVE  Books!Fold(Append(s, e)) = Apply(Books!Fold(s), e)
  BY Books!FoldAppend
<1> QED BY <1>1, <1>2, <1>3

-------------------------------------------------------------------------------
(* The ledger *)

LEMMA Others == Other("eth") = "usdg" /\ Other("usdg") = "eth"
BY DEF Other, Asset

(* The share of a basis is whole.                                           *)
LEMMA ShareWhole ==
  ASSUME NEW b \in AnyBook, NEW a \in Asset, NEW raw \in Nat, raw <= b.held[a]
  PROVE  Share(b, a, raw) \in Int
<1>1. b.held[a] \in Nat /\ b.basis[a] \in Int
  BY DEF AnyBook
<1>2. CASE raw = b.held[a]
  BY <1>1, <1>2 DEF Share
<1>3. CASE raw # b.held[a]
  <2>1. b.held[a] > 0
    BY <1>1, <1>3
  <2>2. b.basis[a] * raw \in Int
    BY <1>1
  <2>3. \A x \in Int, y \in Nat : y > 0 => x \div y \in Int
    OBVIOUS
  <2> QED BY <1>1, <1>3, <2>1, <2>2, <2>3 DEF Share
<1> QED BY <1>2, <1>3

(* What is bought adds to the book, at what it cost.                        *)
LEMMA AcquireOne ==
  ASSUME NEW b \in AnyBook, NEW a \in Asset, NEW raw \in Nat, NEW usd \in Nat
  PROVE  LET d == Acquire(b, a, raw, usd)
         IN  /\ d \in AnyBook
             /\ d.held[a] = b.held[a] + raw
             /\ d.held[Other(a)] = b.held[Other(a)]
             /\ d.basis["eth"] + d.basis["usdg"] = b.basis["eth"] + b.basis["usdg"] + usd
             /\ d.opened = b.opened /\ d.realised = b.realised /\ d.costs = b.costs
             /\ d.raised = b.raised
<1> DEFINE d == Acquire(b, a, raw, usd)
<1>1. b.held \in [Asset -> Nat] /\ b.basis \in [Asset -> Int]
  BY DEF AnyBook
<1>2. d = [b EXCEPT !.held = [b.held EXCEPT ![a] = b.held[a] + raw],
                    !.basis = [b.basis EXCEPT ![a] = b.basis[a] + usd]]
  BY DEF Acquire, AnyBook
<1>3. /\ d.held = [b.held EXCEPT ![a] = b.held[a] + raw]
      /\ d.basis = [b.basis EXCEPT ![a] = b.basis[a] + usd]
      /\ d.opened = b.opened /\ d.realised = b.realised /\ d.costs = b.costs
      /\ d.raised = b.raised
  BY <1>2 DEF AnyBook
<1>4. d.held \in [Asset -> Nat] /\ d.basis \in [Asset -> Int]
  BY <1>1, <1>3
<1>5. d \in AnyBook
  BY <1>2, <1>3, <1>4 DEF AnyBook
<1>6. CASE a = "eth"
  BY <1>1, <1>3, <1>5, <1>6, Others DEF Asset
<1>7. CASE a = "usdg"
  BY <1>1, <1>3, <1>5, <1>7, Others DEF Asset
<1> QED BY <1>6, <1>7 DEF Asset

(* What is sold leaves it, with its share of what the asset cost.           *)
LEMMA DisposeOne ==
  ASSUME NEW b \in AnyBook, NEW a \in Asset, NEW raw \in Nat, NEW usd \in Nat,
         raw <= b.held[a]
  PROVE  LET d == Dispose(b, a, raw, usd)
         IN  /\ d \in AnyBook
             /\ d.held[a] = b.held[a] - raw
             /\ d.held[Other(a)] = b.held[Other(a)]
             /\ d.basis["eth"] + d.basis["usdg"] - d.realised
                  = b.basis["eth"] + b.basis["usdg"] - b.realised - usd
             /\ d.opened = b.opened /\ d.costs = b.costs
             /\ d.raised = b.raised
<1>1. PICK x \in Int : x = Share(b, a, raw)
  BY ShareWhole
<1>2. Dispose(b, a, raw, usd)
        = [b EXCEPT !.held[a] = @ - raw, !.basis[a] = @ - x, !.realised = @ + usd - x]
  <2>1. ~ (raw > b.held[a])
    BY DEF AnyBook
  <2> QED BY <1>1, <2>1 DEF Dispose
<1>3. b.held \in [Asset -> Nat] /\ b.basis \in [Asset -> Int] /\ b.realised \in Int
  BY DEF AnyBook
<1>4. b.held[a] - raw \in Nat
  BY <1>3
<1> DEFINE d == Dispose(b, a, raw, usd)
<1>5. d = [b EXCEPT !.held = [b.held EXCEPT ![a] = b.held[a] - raw],
                    !.basis = [b.basis EXCEPT ![a] = b.basis[a] - x],
                    !.realised = b.realised + usd - x]
  BY <1>2 DEF AnyBook
<1>6. /\ d.held = [b.held EXCEPT ![a] = b.held[a] - raw]
      /\ d.basis = [b.basis EXCEPT ![a] = b.basis[a] - x]
      /\ d.opened = b.opened /\ d.realised = b.realised + usd - x /\ d.costs = b.costs
      /\ d.raised = b.raised
  BY <1>5 DEF AnyBook
<1>7. d.held \in [Asset -> Nat] /\ d.basis \in [Asset -> Int] /\ d.realised \in Int
  BY <1>3, <1>4, <1>6
<1>8. d \in AnyBook
  BY <1>5, <1>7 DEF AnyBook
<1>9. CASE a = "eth"
  BY <1>3, <1>6, <1>8, <1>9, Others DEF Asset
<1>10. CASE a = "usdg"
  BY <1>3, <1>6, <1>8, <1>10, Others DEF Asset
<1> QED BY <1>9, <1>10 DEF Asset

(* More sold than is held, and the fold has raised.                         *)
LEMMA DisposeTooMuch ==
  ASSUME NEW b \in AnyBook, NEW a \in Asset, NEW raw \in Nat, NEW usd \in Nat,
         raw > b.held[a]
  PROVE  Dispose(b, a, raw, usd) = [b EXCEPT !.raised = TRUE]
BY DEF Dispose

LEMMA EventIs ==
  ASSUME NEW e \in AnyEvent
  PROVE  /\ e.kind \in {"opening", "fill", "fee"}
         /\ e.asset \in Asset /\ e.raw \in Nat /\ e.usd \in Nat
         /\ e.kind = "fill" => e.got \in Nat /\ e.order \in Runs
         /\ e.kind = "fee" => e.asset = "eth" /\ e.order \in Runs
<1>1. CASE e \in [kind : {"opening"}, asset : Asset, raw : Nat, usd : Nat]
  BY <1>1
<1>2. CASE e \in [kind : {"fill"}, order : Runs, asset : Asset, raw : Nat, got : Nat, usd : Nat]
  BY <1>2
<1>3. CASE e \in [kind : {"fee"}, order : Runs, asset : {"eth"}, raw : Nat, usd : Nat]
  <2>1. "eth" \in Asset
    BY DEF Asset
  <2> QED BY <1>3, <2>1
<1> QED BY <1>1, <1>2, <1>3 DEF AnyEvent

(* The basis is conserved by what changes both sides alike.                 *)
LEMMA Carried ==
  ASSUME NEW b \in AnyBook, NEW d \in AnyBook, NEW x \in Int, b.raised = FALSE,
         d.basis["eth"] + d.basis["usdg"] = b.basis["eth"] + b.basis["usdg"] + x,
         d.opened + d.realised - d.costs = b.opened + b.realised - b.costs + x
  PROVE  Conserved(b) => Conserved(d)
<1>1. /\ b.basis["eth"] \in Int /\ b.basis["usdg"] \in Int
      /\ b.opened + b.realised - b.costs \in Int
      /\ d.basis["eth"] \in Int /\ d.basis["usdg"] \in Int
      /\ d.opened + d.realised - d.costs \in Int
  BY DEF AnyBook, Asset
<1> QED BY <1>1 DEF Conserved

(* What each kind of event does to the book.                                *)
LEMMA ApplyOpening ==
  ASSUME NEW b \in AnyBook, b.raised = FALSE, NEW e \in AnyEvent, e.kind = "opening"
  PROVE  LET d == Apply(b, e)
         IN  /\ d \in AnyBook /\ d.raised = FALSE /\ (Conserved(b) => Conserved(d))
             /\ d.held[e.asset] = b.held[e.asset] + e.raw
             /\ d.held[Other(e.asset)] = b.held[Other(e.asset)]
<1> DEFINE c == Acquire(b, e.asset, e.raw, e.usd)
<1>1. /\ c \in AnyBook /\ c.raised = FALSE
      /\ c.held[e.asset] = b.held[e.asset] + e.raw
      /\ c.held[Other(e.asset)] = b.held[Other(e.asset)]
      /\ c.basis["eth"] + c.basis["usdg"] = b.basis["eth"] + b.basis["usdg"] + e.usd
      /\ c.opened = b.opened /\ c.realised = b.realised /\ c.costs = b.costs
  <2>1. e.asset \in Asset /\ e.raw \in Nat /\ e.usd \in Nat
    BY EventIs
  <2> QED BY <2>1, AcquireOne, SMTT(60)
<1>2. Apply(b, e) = [c EXCEPT !.opened = c.opened + e.usd]
  BY <1>1 DEF Apply, AnyBook
<1> HIDE DEF c
<1>3. /\ Apply(b, e) \in AnyBook /\ Apply(b, e).held = c.held
      /\ Apply(b, e).raised = FALSE /\ Apply(b, e).basis = c.basis
      /\ Apply(b, e).opened = c.opened + e.usd
      /\ Apply(b, e).realised = c.realised /\ Apply(b, e).costs = c.costs
  BY <1>1, <1>2, EventIs DEF AnyBook
<1>4. b.basis["eth"] + b.basis["usdg"] \in Int /\ b.opened \in Int /\ b.realised \in Int
      /\ b.costs \in Int
  BY DEF AnyBook, Asset
<1>5. Conserved(b) => Conserved(Apply(b, e))
  <2>1. e.usd \in Int
    BY EventIs
  <2>2. Apply(b, e).basis["eth"] + Apply(b, e).basis["usdg"]
          = b.basis["eth"] + b.basis["usdg"] + e.usd
    BY <1>1, <1>3, <1>4, <2>1
  <2>3. Apply(b, e).opened + Apply(b, e).realised - Apply(b, e).costs
          = b.opened + b.realised - b.costs + e.usd
    BY <1>1, <1>3, <1>4, <2>1
  <2> QED BY <1>3, <2>1, <2>2, <2>3, Carried
<1> QED BY <1>1, <1>3, <1>5

LEMMA ApplyFee ==
  ASSUME NEW b \in AnyBook, b.raised = FALSE, NEW e \in AnyEvent, e.kind = "fee"
  PROVE  LET d == Apply(b, e)
         IN  /\ d \in AnyBook /\ (Conserved(b) => Conserved(d))
             /\ d.raised = TRUE <=> e.raw > b.held["eth"]
             /\ e.raw <= b.held["eth"] =>
                  /\ d.held["eth"] = b.held["eth"] - e.raw
                  /\ d.held["usdg"] = b.held["usdg"]
<1>1. e.asset = "eth" /\ e.raw \in Nat /\ e.usd \in Nat /\ e.asset \in Asset
  BY EventIs
<1>2. b.held["eth"] \in Nat /\ b.costs \in Int /\ b.basis["eth"] \in Int
      /\ b.basis["usdg"] \in Int /\ b.opened \in Int /\ b.realised \in Int
  BY DEF AnyBook, Asset
<1> DEFINE c == Dispose(b, "eth", e.raw, e.usd)
           d == Apply(b, e)
<1>3. d = [c EXCEPT !.costs = @ + e.usd]
  BY <1>1 DEF Apply
<1>4. CASE e.raw > b.held["eth"]
  <2>1. c = [b EXCEPT !.raised = TRUE]
    BY <1>4 DEF Dispose
  <2>2. c.costs = b.costs /\ c \in AnyBook /\ c.raised = TRUE
    BY <2>1 DEF AnyBook
  <2> HIDE DEF c
  <2>3. d \in AnyBook /\ d.raised = TRUE
    BY <1>1, <1>2, <1>3, <2>2 DEF AnyBook
  <2>4. Conserved(d)
    BY <2>3 DEF Conserved
  <2> QED BY <1>1, <1>2, <1>4, <2>3, <2>4
<1>5. CASE ~ (e.raw > b.held["eth"])
  <2>1. e.raw <= b.held["eth"]
    BY <1>1, <1>2, <1>5
  <2>2. /\ c \in AnyBook /\ c.raised = FALSE
        /\ c.held["eth"] = b.held["eth"] - e.raw /\ c.held["usdg"] = b.held["usdg"]
        /\ c.basis["eth"] + c.basis["usdg"] - c.realised
             = b.basis["eth"] + b.basis["usdg"] - b.realised - e.usd
        /\ c.opened = b.opened /\ c.costs = b.costs
    BY <1>1, <2>1, DisposeOne, Others
  <2>3. c.basis["eth"] \in Int /\ c.basis["usdg"] \in Int /\ c.realised \in Int
    BY <2>2 DEF AnyBook, Asset
  <2> HIDE DEF c
  <2>4. /\ d \in AnyBook /\ d.raised = FALSE /\ d.held = c.held /\ d.basis = c.basis
        /\ d.opened = c.opened /\ d.realised = c.realised /\ d.costs = c.costs + e.usd
    BY <1>1, <1>2, <1>3, <2>2 DEF AnyBook
  <2>5. Conserved(b) => Conserved(d)
    <3> HIDE DEF d
    <3>1. PICK z \in Int : c.realised = b.realised + z
      <4>1. c.realised = b.realised + (c.realised - b.realised)
        BY <1>2, <2>3
      <4> QED BY <1>2, <2>3, <4>1
    <3>2. c.basis["eth"] + c.basis["usdg"] = b.basis["eth"] + b.basis["usdg"] + z - e.usd
      BY <1>1, <1>2, <2>2, <2>3, <3>1
    <3>3. PICK x \in Int : x = z - e.usd
      BY <1>1
    <3>4. d.basis["eth"] + d.basis["usdg"] = b.basis["eth"] + b.basis["usdg"] + x
      BY <1>1, <1>2, <2>3, <2>4, <3>2, <3>3
    <3>5. d.opened + d.realised - d.costs = b.opened + b.realised - b.costs + x
      BY <1>1, <1>2, <2>2, <2>4, <3>1, <3>3
    <3> QED BY <2>4, <3>4, <3>5, Carried
  <2> QED BY <1>2, <1>5, <2>1, <2>2, <2>4, <2>5
<1> QED BY <1>4, <1>5

LEMMA ApplyFill ==
  ASSUME NEW b \in AnyBook, b.raised = FALSE, NEW e \in AnyEvent, e.kind = "fill"
  PROVE  LET d == Apply(b, e)
         IN  /\ d \in AnyBook /\ (Conserved(b) => Conserved(d))
             /\ d.raised = TRUE <=> e.raw > b.held[e.asset]
             /\ e.raw <= b.held[e.asset] =>
                  /\ d.held[e.asset] = b.held[e.asset] - e.raw
                  /\ d.held[Other(e.asset)] = b.held[Other(e.asset)] + e.got
<1>1. e.asset \in Asset /\ e.raw \in Nat /\ e.usd \in Nat /\ e.got \in Nat
      /\ Other(e.asset) \in Asset /\ Other(Other(e.asset)) = e.asset
  BY EventIs, Others DEF Asset
<1>2. b.held[e.asset] \in Nat /\ b.basis["eth"] \in Int
      /\ b.basis["usdg"] \in Int /\ b.opened \in Int /\ b.realised \in Int /\ b.costs \in Int
  BY <1>1 DEF AnyBook, Asset
<1> DEFINE c == Dispose(b, e.asset, e.raw, e.usd)
           d == Apply(b, e)
<1>3. d = Acquire(c, Other(e.asset), e.got, e.usd)
  BY DEF Apply
<1>4. CASE e.raw > b.held[e.asset]
  <2>1. c = [b EXCEPT !.raised = TRUE]
    BY <1>1, <1>4, DisposeTooMuch
  <2>2. c \in AnyBook /\ c.raised = TRUE
    BY <2>1 DEF AnyBook
  <2> HIDE DEF c
  <2>3. d \in AnyBook /\ d.raised = TRUE
    <3>1. LET a == Acquire(c, Other(e.asset), e.got, e.usd)
          IN  a \in AnyBook /\ a.raised = c.raised
      BY <1>1, <2>2, AcquireOne
    <3> QED BY <1>3, <2>2, <3>1
  <2>4. Conserved(d)
    BY <2>3 DEF Conserved
  <2> QED BY <1>1, <1>2, <1>4, <2>3, <2>4
<1>5. CASE ~ (e.raw > b.held[e.asset])
  <2>1. e.raw <= b.held[e.asset]
    BY <1>1, <1>2, <1>5
  <2>2. /\ c \in AnyBook /\ c.raised = FALSE
        /\ c.held[e.asset] = b.held[e.asset] - e.raw
        /\ c.held[Other(e.asset)] = b.held[Other(e.asset)]
        /\ c.basis["eth"] + c.basis["usdg"] - c.realised
             = b.basis["eth"] + b.basis["usdg"] - b.realised - e.usd
        /\ c.opened = b.opened /\ c.costs = b.costs
    BY <1>1, <2>1, DisposeOne
  <2> HIDE DEF c
  <2>3. /\ d \in AnyBook /\ d.raised = FALSE
        /\ d.held[Other(e.asset)] = c.held[Other(e.asset)] + e.got
        /\ d.held[e.asset] = c.held[e.asset]
        /\ d.basis["eth"] + d.basis["usdg"] = c.basis["eth"] + c.basis["usdg"] + e.usd
        /\ d.opened = c.opened /\ d.realised = c.realised /\ d.costs = c.costs
    <3>0. PICK o \in Asset : o = Other(e.asset) /\ Other(o) = e.asset
      BY <1>1
    <3> DEFINE a == Acquire(c, o, e.got, e.usd)
    <3>1. /\ a \in AnyBook /\ a.raised = c.raised
          /\ a.held[o] = c.held[o] + e.got
          /\ a.held[Other(o)] = c.held[Other(o)]
          /\ a.basis["eth"] + a.basis["usdg"] = c.basis["eth"] + c.basis["usdg"] + e.usd
          /\ a.opened = c.opened /\ a.realised = c.realised /\ a.costs = c.costs
      <4>1. PICK got \in Nat, usd \in Nat : got = e.got /\ usd = e.usd
        BY <1>1
      <4>2. LET m == Acquire(c, o, got, usd)
            IN  /\ m \in AnyBook /\ m.raised = c.raised
                /\ m.held[o] = c.held[o] + got /\ m.held[Other(o)] = c.held[Other(o)]
                /\ m.basis["eth"] + m.basis["usdg"] = c.basis["eth"] + c.basis["usdg"] + usd
                /\ m.opened = c.opened /\ m.realised = c.realised /\ m.costs = c.costs
        BY <2>2, AcquireOne
      <4> QED BY <4>1, <4>2
    <3> HIDE DEF a
    <3>2. d = a
      BY <1>3, <3>0 DEF a
    <3> HIDE DEF d
    <3> QED BY <2>2, <3>0, <3>1, <3>2
  <2>4. c.basis["eth"] \in Int /\ c.basis["usdg"] \in Int /\ c.realised \in Int
    BY <2>2 DEF AnyBook, Asset
  <2> HIDE DEF d
  <2>5. Conserved(b) => Conserved(d)
    <3>1. PICK z \in Int : c.realised = b.realised + z
      <4>1. c.realised = b.realised + (c.realised - b.realised)
        BY <1>2, <2>4
      <4> QED BY <1>2, <2>4, <4>1
    <3>2. c.basis["eth"] + c.basis["usdg"] = b.basis["eth"] + b.basis["usdg"] + z - e.usd
      BY <1>1, <1>2, <2>2, <2>4, <3>1
    <3>3. d.basis["eth"] + d.basis["usdg"] = b.basis["eth"] + b.basis["usdg"] + z
      BY <1>1, <1>2, <2>3, <2>4, <3>2
    <3>4. d.opened + d.realised - d.costs = b.opened + b.realised - b.costs + z
      BY <1>2, <2>2, <2>3, <3>1
    <3> QED BY <2>3, <3>3, <3>4, Carried
  <2>6. d.raised = FALSE /\ b.held[e.asset] >= e.raw
    BY <1>1, <1>2, <2>1, <2>3
  <2>7. /\ d.held[e.asset] = b.held[e.asset] - e.raw
        /\ d.held[Other(e.asset)] = b.held[Other(e.asset)] + e.got
    BY <2>2, <2>3
  <2> USE DEF d
  <2> QED BY <1>5, <2>3, <2>5, <2>6, <2>7
<1> QED BY <1>4, <1>5

(* Whatever it is, a book stays one, and its basis is conserved.            *)
LEMMA Applied ==
  ASSUME NEW b \in AnyBook, NEW e \in AnyEvent, Conserved(b)
  PROVE  Apply(b, e) \in AnyBook /\ Conserved(Apply(b, e))
<1>1. CASE b.raised = TRUE
  BY <1>1 DEF Apply
<1>2. CASE b.raised = FALSE
  BY <1>2, EventIs, ApplyOpening, ApplyFee, ApplyFill
<1> QED BY <1>1, <1>2 DEF AnyBook

-------------------------------------------------------------------------------
(* The journal, and what is counted of it *)

LEMMA Kept ==
  ASSUME NEW s \in Seq(AnyEvent), NEW e \in AnyEvent, NEW f \in AnyEvent
  PROVE  /\ s \o <<>> = s /\ s \o <<e>> = Append(s, e)
         /\ <<e>> \o <<>> = <<e>>
         /\ s \o (<<e>> \o <<f>>) = Append(Append(s, e), f)
<1>1. <<e>> \in Seq(AnyEvent) /\ <<f>> \in Seq(AnyEvent)
  OBVIOUS
<1>2. s \o (<<e>> \o <<f>>) = (s \o <<e>>) \o <<f>>
  BY <1>1, ConcatAssociative
<1>3. s \o <<e>> = Append(s, e) /\ Append(s, e) \in Seq(AnyEvent)
  BY AppendIsConcat, AppendProperties
<1>4. Append(s, e) \o <<f>> = Append(Append(s, e), f)
  BY <1>3, AppendIsConcat
<1> QED BY <1>1, <1>2, <1>3, <1>4, ConcatEmptySeq

(* What one event counts for, in a sum that leaves an order out.            *)
Counted(o, e) == IF e.kind = "opening" \/ e.order = o THEN 0 ELSE e.usd

LEMMA CountedIsNat ==
  ASSUME NEW o, NEW e \in AnyEvent
  PROVE  Counted(o, e) \in Nat
BY EventIs DEF Counted

LEMMA TradedStep ==
  ASSUME NEW s \in Seq(AnyEvent), NEW e \in AnyEvent, NEW o
  PROVE  TradedBut(o, Append(s, e)) = TradedBut(o, s) + Counted(o, e)
<1> DEFINE Of(u) == [i \in DOMAIN u |-> Counted(o, u[i])]
<1>1. \A u : TradedBut(o, u) = Total(Of(u))
  BY DEF TradedBut, Counted
<1>2. ASSUME NEW u \in Seq(AnyEvent) PROVE Of(u) \in Seq(Int) /\ Len(Of(u)) = Len(u)
  <2>1. \A i \in DOMAIN u : Counted(o, u[i]) \in Int
    BY CountedIsNat
  <2> QED BY <2>1
<1>3. Append(s, e) \in Seq(AnyEvent) /\ Len(Append(s, e)) = Len(s) + 1 /\ Counted(o, e) \in Int
  BY CountedIsNat
<1>4. Of(Append(s, e)) = Append(Of(s), Counted(o, e))
  <2>1. Of(Append(s, e)) \in Seq(Int) /\ Len(Of(Append(s, e))) = Len(s) + 1
    BY <1>2, <1>3
  <2>2. Append(Of(s), Counted(o, e)) \in Seq(Int)
        /\ Len(Append(Of(s), Counted(o, e))) = Len(s) + 1
    BY <1>2, <1>3
  <2>3. ASSUME NEW i \in 1..(Len(s) + 1)
        PROVE  Of(Append(s, e))[i] = Append(Of(s), Counted(o, e))[i]
    <3>1. Of(Append(s, e))[i] = Counted(o, Append(s, e)[i])
      BY <1>3
    <3>2. CASE i = Len(s) + 1
      <4>1. Append(s, e)[i] = e /\ Append(Of(s), Counted(o, e))[i] = Counted(o, e)
        BY <1>2, <1>3, <3>2
      <4> QED BY <3>1, <4>1
    <3>3. CASE i # Len(s) + 1
      <4>1. i \in 1..Len(s) /\ Append(s, e)[i] = s[i]
        BY <3>3
      <4>2. Of(s)[i] = Counted(o, s[i])
        BY <4>1
      <4>3. Append(Of(s), Counted(o, e))[i] = Of(s)[i]
        <5> HIDE DEF Of
        <5> QED BY <1>2, <1>3, <4>1
      <4> QED BY <3>1, <4>1, <4>2, <4>3
    <3> QED BY <3>2, <3>3
  <2> HIDE DEF Of
  <2> QED BY <2>1, <2>2, <2>3, SeqEqual
<1>5. Of(s) \in Seq(Int)
  BY <1>2
<1> HIDE DEF Of
<1>6. Total(Append(Of(s), Counted(o, e))) = Total(Of(s)) + Counted(o, e)
  BY <1>3, <1>5, TotalStep
<1> QED BY <1>1, <1>4, <1>6

(* What is counted is a number, and nothing of an empty journal.            *)
LEMMA TradedIsNat ==
  ASSUME NEW s \in Seq(AnyEvent), NEW o
  PROVE  TradedBut(o, s) \in Nat /\ TradedBut(o, <<>>) = 0
<1>1. [i \in DOMAIN s |-> Counted(o, s[i])] \in Seq(Nat)
  <2>1. \A i \in DOMAIN s : Counted(o, s[i]) \in Nat
    BY CountedIsNat
  <2> QED BY <2>1
<1>2. TradedBut(o, s) \in Nat
  BY <1>1, TotalType DEF TradedBut, Counted
<1>3. [i \in DOMAIN <<>> |-> Counted(o, <<>>[i])] = <<>>
  OBVIOUS
<1>4. TradedBut(o, <<>>) = 0
  BY <1>3, TotalStep DEF TradedBut, Counted
<1> QED BY <1>2, <1>4

(* Two orders no event is of leave the same out.                            *)
LEMMA TradedSame ==
  ASSUME NEW s, NEW o, NEW p,
         \A i \in DOMAIN s : s[i].kind = "opening" \/ (s[i].order # o /\ s[i].order # p)
  PROVE  TradedBut(o, s) = TradedBut(p, s)
<1>1. [i \in DOMAIN s |-> Counted(o, s[i])] = [i \in DOMAIN s |-> Counted(p, s[i])]
  BY DEF Counted
<1> QED BY <1>1 DEF TradedBut, Counted

-------------------------------------------------------------------------------
(* What the orders did to the wallet *)

(* The gas an order's purchase of ETH is charged twice.                     *)
Paid(t, r) == IF r.state = "confirmed" /\ r.sells = Cash THEN t.gas ELSE 0

GasOf(ts, rs) == Total([o \in Runs |-> Paid(ts[o], rs[o])])

LEMMA GasTwiceIs == GasTwice = GasOf(tx, row)
BY DEF GasTwice, GasOf, Paid

LEMMA PaidSeq ==
  ASSUME NEW ts \in [Runs -> AnyTx], NEW rs \in [Runs -> AnyRow]
  PROVE  LET s == [o \in Runs |-> Paid(ts[o], rs[o])]
         IN  s \in Seq(Nat) /\ s \in Seq(Int) /\ Len(s) = MaxRuns /\ DOMAIN s = Runs
<1> DEFINE s == [o \in Runs |-> Paid(ts[o], rs[o])]
<1>1. MaxRuns \in Nat
  BY LiveAssumption
<1>2. \A o \in Runs : Paid(ts[o], rs[o]) \in Nat
  BY DEF Paid, AnyTx
<1>3. s \in [1..MaxRuns -> Nat]
  BY <1>2 DEF Runs
<1> HIDE DEF s
<1>4. s \in Seq(Nat) /\ s \in Seq(Int) /\ Len(s) = MaxRuns /\ DOMAIN s = 1..MaxRuns
  BY <1>1, <1>3
<1> QED BY <1>4 DEF Runs, s

LEMMA GasIsNat ==
  ASSUME NEW ts \in [Runs -> AnyTx], NEW rs \in [Runs -> AnyRow]
  PROVE  GasOf(ts, rs) \in Nat
BY PaidSeq, TotalType DEF GasOf

LEMMA NoGas ==
  ASSUME NEW ts \in [Runs -> AnyTx], NEW rs \in [Runs -> AnyRow],
         \A o \in Runs : rs[o].state # "confirmed"
  PROVE  GasOf(ts, rs) = 0
<1> DEFINE s == [o \in Runs |-> Paid(ts[o], rs[o])]
<1>1. s \in Seq(Int) /\ Len(s) = MaxRuns /\ DOMAIN s = Runs
  BY PaidSeq
<1>2. \A o \in Runs : s[o] = 0
  BY DEF Paid
<1>3. Runs = 1..Len(s)
  BY <1>1 DEF Runs
<1>4. GasOf(ts, rs) = Total(s)
  BY DEF GasOf
<1> HIDE DEF s
<1> QED BY <1>1, <1>2, <1>3, <1>4, TotalZero

(* One order changed.                                                       *)
LEMMA GasChange ==
  ASSUME NEW ts \in [Runs -> AnyTx], NEW rs \in [Runs -> AnyRow],
         NEW us \in [Runs -> AnyTx], NEW qs \in [Runs -> AnyRow], NEW o \in Runs,
         \A p \in Runs \ {o} : Paid(us[p], qs[p]) = Paid(ts[p], rs[p])
  PROVE  GasOf(us, qs) = GasOf(ts, rs) - Paid(ts[o], rs[o]) + Paid(us[o], qs[o])
<1> DEFINE s == [p \in Runs |-> Paid(ts[p], rs[p])]
           u == [p \in Runs |-> Paid(us[p], qs[p])]
           y == Paid(us[o], qs[o])
<1>1. /\ s \in Seq(Int) /\ Len(s) = MaxRuns /\ DOMAIN s = Runs
      /\ u \in Seq(Int) /\ Len(u) = MaxRuns /\ DOMAIN u = Runs
  BY PaidSeq
<1>2. y \in Int /\ s[o] = Paid(ts[o], rs[o])
  BY DEF Paid, AnyTx
<1>3. Runs = 1..Len(s) /\ o \in 1..Len(s)
  BY <1>1 DEF Runs
<1>4. u = [s EXCEPT ![o] = y]
  OBVIOUS
<1>5. GasOf(ts, rs) = Total(s) /\ GasOf(us, qs) = Total(u)
  BY DEF GasOf
<1> HIDE DEF s, u, y
<1>6. Total([s EXCEPT ![o] = y]) = Total(s) - s[o] + y
  BY <1>1, <1>2, <1>3, TotalChange
<1> QED BY <1>2, <1>4, <1>5, <1>6 DEF y

(* What is due when at most one order is not settled.                       *)
LEMMA DueIs ==
  ASSUME NEW ts, NEW rs, NEW a, NEW o \in Runs,
         {p \in Runs : rs[p].state \in Open} \subseteq {o},
         rs[o].state \in Open \/ Moved(ts[o], rs[o], a) = 0
  PROVE  DueOf(ts, rs, a) = Moved(ts[o], rs[o], a)
<1> DEFINE left == {p \in Runs : rs[p].state \in Open}
<1>1. CASE left = {}
  <2>1. ~ (rs[o].state \in Open)
    BY <1>1
  <2> QED BY <1>1, <2>1 DEF DueOf
<1>2. CASE left # {}
  <2>1. left = {o} /\ (CHOOSE p \in left : TRUE) = o
    BY <1>2
  <2> QED BY <2>1 DEF DueOf
<1> QED BY <1>1, <1>2

LEMMA NothingDue ==
  ASSUME NEW ts, NEW rs, NEW a, \A p \in Runs : ~ (rs[p].state \in Open)
  PROVE  DueOf(ts, rs, a) = 0
BY DEF DueOf

-------------------------------------------------------------------------------
(* What a read of an outcome finds *)

LEMMA OrderTypes ==
  ASSUME Types2, NEW o \in Runs
  PROVE  /\ tx[o] \in AnyTx /\ row[o] \in AnyRow
         /\ tx[o].state \in {"none", "sent", "shallow", "deep"} /\ tx[o].ok \in BOOLEAN
         /\ tx[o].got \in Nat /\ tx[o].gas \in Nat
         /\ row[o].state \in States /\ row[o].sells \in Asset /\ row[o].raw \in Nat
         /\ row[o].evidence \in BOOLEAN
<1>1. tx[o] \in AnyTx /\ row[o] \in AnyRow
  BY DEF Types2
<1> QED BY <1>1 DEF AnyTx, AnyRow

LEMMA SnapTypes ==
  ASSUME Types2, NEW a \in Asset
  PROVE  snap.bal[a] \in Nat \cup {Unread} /\ snap.mark[a] \in Nat
BY DEF Types2

LEMMA FeeIs ==
  ASSUME Types2, NEW o \in Runs
  PROVE  /\ Fee(o, tx[o].gas, snap.mark) \in AnyEvent
         /\ FeeEvents(o) = IF tx[o].gas = 0 THEN <<>> ELSE <<Fee(o, tx[o].gas, snap.mark)>>
<1>1. tx[o].gas \in Nat /\ snap.mark["eth"] \in Nat
  BY OrderTypes, SnapTypes DEF Asset
<1>2. tx[o].gas * snap.mark["eth"] \in Nat
  BY <1>1
<1> QED BY <1>1, <1>2 DEF Fee, AnyEvent, FeeEvents

LEMMA FillIs ==
  ASSUME Types2, NEW o \in Runs, Received(o) \in Nat
  PROVE  /\ LiveFill(o) \in AnyEvent
         /\ LiveFill(o).kind = "fill" /\ LiveFill(o).order = o
         /\ LiveFill(o).asset = row[o].sells /\ LiveFill(o).raw = row[o].raw
         /\ LiveFill(o).got = Received(o)
<1>1. row[o].sells \in Asset /\ row[o].raw \in Nat /\ snap.mark[Cash] \in Nat
  BY OrderTypes, SnapTypes DEF Asset, Cash
<1>2. (IF row[o].sells = Cash THEN row[o].raw ELSE Received(o)) * snap.mark[Cash] \in Nat
  BY <1>1
<1> QED BY <1>1, <1>2 DEF LiveFill, Fill, AnyEvent

LEMMA ReceivedIs ==
  ASSUME Types2, NEW o \in Runs
  PROVE  Received(o) \in Int
BY OrderTypes DEF Received

(* A read of an order's outcome, its own command's or a later one's.        *)
Found(o, out) ==
  \/ out = Unknown(FALSE)
  \/ \E readable \in BOOLEAN : out = Outcome(o, readable)

LEMMA OutcomeIs ==
  ASSUME Types2, NEW o \in Runs, NEW out, Found(o, out)
  PROVE  /\ out.state \in {"unknown", "confirmed", "failed"} /\ out.evidence \in BOOLEAN
         /\ out.state = "unknown" => out.events = <<>>
         /\ out.state = "failed" =>
              /\ tx[o].state = "deep" /\ tx[o].ok = FALSE
              /\ out.events = FeeEvents(o)
         /\ out.state = "confirmed" =>
              /\ tx[o].state = "deep" /\ tx[o].ok = TRUE
              /\ Received(o) \in Nat
              /\ out.events = <<LiveFill(o)>> \o FeeEvents(o)
<1>1. CASE out = Unknown(FALSE)
  BY <1>1 DEF Unknown
<1>2. CASE \E readable \in BOOLEAN : out = Outcome(o, readable)
  <2>1. PICK readable \in BOOLEAN : out = Outcome(o, readable)
    BY <1>2
  <2>2. Received(o) \in Int /\ tx[o].ok \in BOOLEAN /\ tx[o].state \in {"none", "sent", "shallow", "deep"}
    BY ReceivedIs, OrderTypes
  <2>3. Received(o) <= 0 \/ Received(o) \in Nat
    BY <2>2
  <2>4. CASE out = Unknown(TRUE)
    BY <2>4 DEF Unknown
  <2>5. CASE /\ tx[o].state = "deep" /\ ~ tx[o].ok
             /\ out = [state |-> "failed", events |-> FeeEvents(o), evidence |-> TRUE]
    BY <2>2, <2>5
  <2>6. CASE /\ tx[o].state = "deep" /\ tx[o].ok /\ ~ (Received(o) <= 0)
             /\ out = [state |-> "confirmed", evidence |-> TRUE,
                       events |-> <<LiveFill(o)>> \o FeeEvents(o)]
    BY <2>2, <2>3, <2>6
  <2>7. CASE out = Unknown(FALSE)
    BY <1>1, <2>7
  <2>8. \/ out = Unknown(FALSE) \/ out = Unknown(TRUE)
        \/ /\ tx[o].state = "deep" /\ ~ tx[o].ok
           /\ out = [state |-> "failed", events |-> FeeEvents(o), evidence |-> TRUE]
        \/ /\ tx[o].state = "deep" /\ tx[o].ok /\ ~ (Received(o) <= 0)
           /\ out = [state |-> "confirmed", evidence |-> TRUE,
                     events |-> <<LiveFill(o)>> \o FeeEvents(o)]
    BY <2>1, <2>2 DEF Outcome
  <2> QED BY <2>4, <2>5, <2>6, <2>7, <2>8
<1> QED BY <1>1, <1>2 DEF Found

LEMMA EventsKept ==
  ASSUME Types2, NEW o \in Runs, NEW out, Found(o, out)
  PROVE  out.events \in Seq(AnyEvent)
<1>1. PICK fee \in AnyEvent : FeeEvents(o) = IF tx[o].gas = 0 THEN <<>> ELSE <<fee>>
  BY FeeIs
<1>2. FeeEvents(o) \in Seq(AnyEvent)
  BY <1>1
<1>3. /\ out.state \in {"unknown", "confirmed", "failed"}
      /\ out.state = "unknown" => out.events = <<>>
      /\ out.state = "failed" => out.events = FeeEvents(o)
      /\ out.state = "confirmed" =>
           Received(o) \in Nat /\ out.events = <<LiveFill(o)>> \o FeeEvents(o)
  BY OutcomeIs
<1>4. CASE out.state = "confirmed"
  <2>1. PICK fill \in AnyEvent : fill = LiveFill(o)
    BY <1>3, <1>4, FillIs
  <2>2. <<fill>> \in Seq(AnyEvent)
    OBVIOUS
  <2>3. <<fill>> \o FeeEvents(o) \in Seq(AnyEvent)
    BY <1>2, <2>2, ConcatProperties
  <2> QED BY <1>3, <1>4, <2>1, <2>3
<1>5. CASE out.state # "confirmed"
  <2>1. <<>> \in Seq(AnyEvent)
    OBVIOUS
  <2> QED BY <1>2, <1>3, <1>5, <2>1
<1> QED BY <1>4, <1>5

LEMMA RunOf ==
  ASSUME TypeOK, Types2, ControlInv
  PROVE  /\ Runs \subseteq Nat \ {0} /\ run \in Nat /\ MaxRuns \in Nat
         /\ pc # "off" => run \in Runs
         /\ run < MaxRuns => run + 1 \in Runs
         /\ \A o \in Runs : o <= MaxRuns
BY LiveAssumption DEF TypeOK, ControlInv, Runs

LEMMA FirstLeft ==
  ASSUME TypeOK, Types2, ControlInv, Left # {}
  PROVE  Min(Left) \in Left
<1>1. Left \in SUBSET Nat
  BY RunOf DEF Left
<1>2. \E o \in Left : \A p \in Left : o <= p
  BY <1>1, LeastNumber
<1> QED BY <1>2 DEF Min

(* An order in flight is settled, or read again and not settled.            *)
Settles(o, out) ==
  /\ o \in Left /\ row[o].state \in InFlight /\ Found(o, out) /\ Settle(o, out)
  /\ UNCHANGED <<wallet, tx, snap, run, outcome>>

LEMMA ResolveIs ==
  ASSUME TypeOK, Types2, ControlInv, Resolve
  PROVE  /\ pc = "resolve" /\ UNCHANGED <<wallet, tx, snap, run, outcome>>
         /\ \/ /\ Left = {} /\ pc' = "open" /\ opening' = Holdings
               /\ UNCHANGED <<journal, row>>
            \/ \E o \in Left : /\ row[o].state = "prepared" /\ Move(o, "refused")
                              /\ UNCHANGED <<journal, pc, opening>>
            \/ Ends /\ UNCHANGED <<journal, row>>
            \/ \E o \in Left : \E out : /\ out.state # "unknown" /\ Settles(o, out)
                                      /\ UNCHANGED <<pc, opening>>
<1>1. CASE Left = {}
  BY <1>1 DEF Resolve
<1>2. CASE Left # {}
  <2> DEFINE o == Min(Left)
  <2>1. o \in Left
    BY <1>2, FirstLeft
  <2>2. \A readable \in BOOLEAN : Found(o, SettledBy(o, readable))
    BY DEF Found, SettledBy
  <2>3. CASE row[o].state = "prepared" /\ Move(o, "refused") /\ UNCHANGED <<journal, pc, opening>>
    BY <2>1, <2>3 DEF Resolve
  <2>4. CASE /\ row[o].state \in InFlight
             /\ \E readable \in BOOLEAN :
                  LET out == SettledBy(o, readable)
                  IN  IF out.state = "unknown"
                      THEN Ends /\ UNCHANGED <<journal, row>>
                      ELSE Settle(o, out) /\ UNCHANGED <<pc, opening>>
    <3>1. PICK readable \in BOOLEAN :
            LET out == SettledBy(o, readable)
            IN  IF out.state = "unknown"
                THEN Ends /\ UNCHANGED <<journal, row>>
                ELSE Settle(o, out) /\ UNCHANGED <<pc, opening>>
      BY <2>4
    <3>2. CASE SettledBy(o, readable).state = "unknown"
      BY <3>1, <3>2 DEF Resolve
    <3>3. CASE SettledBy(o, readable).state # "unknown"
      <4>1. Settles(o, SettledBy(o, readable)) /\ UNCHANGED <<pc, opening>>
        BY <2>1, <2>2, <2>4, <3>1, <3>3 DEF Resolve, Settles
      <4> HIDE DEF o
      <4> QED BY <2>1, <3>3, <4>1 DEF Resolve
    <3> QED BY <3>2, <3>3
  <2> QED BY <1>2, <2>3, <2>4 DEF Resolve
<1> QED BY <1>1, <1>2

LEMMA ReadIs ==
  ASSUME TypeOK, Types2, ControlInv, ReadOutcome
  PROVE  \E out : pc = "read" /\ Settles(run, out) /\ Reports(out.evidence)
<1>1. PICK readable \in BOOLEAN :
        LET out == IF tx[run].hash THEN Outcome(run, readable) ELSE Unknown(FALSE)
        IN  Settle(run, out) /\ Reports(out.evidence)
  BY DEF ReadOutcome
<1> DEFINE out == IF tx[run].hash THEN Outcome(run, readable) ELSE Unknown(FALSE)
<1>2. Settle(run, out) /\ Reports(out.evidence)
  BY <1>1
<1>3. Found(run, out)
  BY DEF Found
<1>4. run \in Left /\ row[run].state \in InFlight
  BY DEF ReadOutcome, ControlInv, Left, InFlight, Open
<1>5. Settles(run, out)
  BY <1>2, <1>3, <1>4 DEF Settles, ReadOutcome
<1> HIDE DEF out
<1> QED BY <1>2, <1>5 DEF ReadOutcome

(* What settling does to the rows and the journal.                          *)
LEMMA SettleIs ==
  ASSUME TypeOK, Types2, ControlInv, NEW o, NEW out, Settles(o, out)
  PROVE  /\ o \in Runs /\ out.events \in Seq(AnyEvent)
         /\ out.state \in {"unknown", "confirmed", "failed"} /\ out.evidence \in BOOLEAN
         /\ journal' = journal \o out.events
         /\ row' = [row EXCEPT ![o] = [row[o] EXCEPT !.state = out.state,
                                                     !.evidence = out.evidence]]
         /\ row' \in [Runs -> AnyRow]
<1>1. o \in Runs
  BY DEF Settles, Left
<1>2. /\ out.events \in Seq(AnyEvent)
      /\ out.state \in {"unknown", "confirmed", "failed"} /\ out.evidence \in BOOLEAN
  BY <1>1, EventsKept, OutcomeIs DEF Settles
<1>3. journal' = journal \o out.events
  BY DEF Settles, Settle, Keep
<1>4. row' = [row EXCEPT ![o] = [row[o] EXCEPT !.state = out.state, !.evidence = out.evidence]]
  BY <1>1 DEF Settles, Settle, Types2, AnyRow
<1>5. [row[o] EXCEPT !.state = out.state, !.evidence = out.evidence] \in AnyRow
  BY <1>1, <1>2, OrderTypes DEF AnyRow, States
<1>6. row' \in [Runs -> AnyRow]
  BY <1>4, <1>5 DEF Types2
<1> QED BY <1>1, <1>2, <1>3, <1>4, <1>6

-------------------------------------------------------------------------------
(* Types *)

LEMMA OpeningIs ==
  ASSUME Types2, NEW a \in Asset, snap.bal[a] # Unread
  PROVE  Opening(a, snap.bal[a], snap.mark[a]) \in AnyEvent
<1>1. snap.bal[a] \in Nat /\ snap.mark[a] \in Nat
  BY SnapTypes DEF Unread
<1>2. snap.bal[a] * snap.mark[a] \in Nat
  BY <1>1
<1> QED BY <1>1, <1>2 DEF Opening, AnyEvent

LEMMA HoldingsLeft ==
  ASSUME NEW s \in {<<>>, <<"usdg">>, Holdings}, s # <<>>
  PROVE  \/ s = Holdings /\ Head(s) = "eth" /\ Tail(s) = <<"usdg">>
         \/ s = <<"usdg">> /\ Head(s) = "usdg" /\ Tail(s) = <<>>
<1>1. Head(Holdings) = "eth" /\ Tail(Holdings) = <<"usdg">>
  BY DEF Holdings
<1>2. Head(<<"usdg">>) = "usdg" /\ Tail(<<"usdg">>) = <<>>
  OBVIOUS
<1> QED BY <1>1, <1>2

(* One holding opened, or one without a balance or a usable mark.           *)
LEMMA OpenOneIs ==
  ASSUME Types2, OpenOne
  PROVE  /\ pc = "opening" /\ UNCHANGED <<wallet, tx, snap, row, run, outcome>>
         /\ \/ Ends /\ UNCHANGED journal
            \/ \E a \in Asset :
                 /\ pc' = pc /\ snap.bal[a] # Unread
                 /\ \/ opening = Holdings /\ a = "eth" /\ opening' = <<"usdg">>
                    \/ opening = <<"usdg">> /\ a = "usdg" /\ opening' = <<>>
                 /\ \/ snap.bal[a] = 0 /\ UNCHANGED journal
                    \/ /\ snap.bal[a] # 0
                       /\ journal' = Append(journal, Opening(a, snap.bal[a], snap.mark[a]))
<1>1. pc = "opening" /\ opening # <<>> /\ UNCHANGED <<wallet, tx, snap, row, run, outcome>>
  BY DEF OpenOne
<1>2. \/ opening = Holdings /\ Head(opening) = "eth" /\ Tail(opening) = <<"usdg">>
      \/ opening = <<"usdg">> /\ Head(opening) = "usdg" /\ Tail(opening) = <<>>
  BY <1>1, HoldingsLeft DEF Types2
<1>3. PICK a \in Asset :
        /\ a = Head(opening)
        /\ \/ opening = Holdings /\ a = "eth" /\ Tail(opening) = <<"usdg">>
           \/ opening = <<"usdg">> /\ a = "usdg" /\ Tail(opening) = <<>>
  BY <1>2 DEF Asset
<1>4. CASE snap.bal[a] = Unread \/ (snap.bal[a] > 0 /\ snap.mark[a] = 0)
  BY <1>1, <1>3, <1>4 DEF OpenOne
<1>5. CASE ~ (snap.bal[a] = Unread \/ (snap.bal[a] > 0 /\ snap.mark[a] = 0))
  <2>1. /\ snap.bal[a] # Unread /\ opening' = Tail(opening) /\ pc' = pc
        /\ Keep(IF snap.bal[a] = 0 THEN <<>> ELSE <<Opening(a, snap.bal[a], snap.mark[a])>>)
    BY <1>3, <1>5 DEF OpenOne
  <2>2. CASE snap.bal[a] = 0
    <3>1. journal' = journal
      BY <2>1, <2>2, ConcatEmptySeq DEF Keep, Types2
    <3> QED BY <1>1, <1>3, <2>1, <2>2, <3>1
  <2>3. CASE snap.bal[a] # 0
    <3>1. PICK e \in AnyEvent : e = Opening(a, snap.bal[a], snap.mark[a])
      BY <2>1, OpeningIs
    <3>2. journal' = journal \o <<e>> /\ journal \in Seq(AnyEvent)
      BY <2>1, <2>3, <3>1 DEF Keep, Types2
    <3>3. journal' = Append(journal, e)
      BY <3>2, AppendIsConcat
    <3> QED BY <1>1, <1>3, <2>1, <2>3, <3>1, <3>3
  <2> QED BY <2>2, <2>3
<1> QED BY <1>4, <1>5

(* An order's row, written or moved.                                        *)
LEMMA MoveIs ==
  ASSUME Types2, NEW o \in Runs, NEW to \in States, Move(o, to)
  PROVE  /\ row' \in [Runs -> AnyRow]
         /\ row' = [row EXCEPT ![o] = [row[o] EXCEPT !.state = to]]
         /\ row'[o].state = to /\ row'[o].sells = row[o].sells /\ row'[o].raw = row[o].raw
         /\ \A p \in Runs \ {o} : row'[p] = row[p]
<1>1. row' = [row EXCEPT ![o] = [row[o] EXCEPT !.state = to]]
  BY DEF Move, Types2
<1>2. [row[o] EXCEPT !.state = to] \in AnyRow
  BY OrderTypes DEF AnyRow
<1> QED BY <1>1, <1>2, OrderTypes DEF Types2, AnyRow

LEMMA NoRowBut ==
  ASSUME NEW a \in Asset, NEW raw \in Nat
  PROVE  [NoRow EXCEPT !.state = "prepared", !.sells = a, !.raw = raw]
           = [state |-> "prepared", sells |-> a, raw |-> raw, evidence |-> FALSE]
<1>1. NoRow \in AnyRow /\ NoRow.evidence = FALSE
  BY DEF NoRow, AnyRow, States, Asset, Cash
<1> DEFINE x == [NoRow EXCEPT !.state = "prepared", !.sells = a, !.raw = raw]
<1>2. x \in AnyRow
  BY <1>1 DEF AnyRow, States
<1>3. x.state = "prepared" /\ x.sells = a /\ x.raw = raw /\ x.evidence = FALSE
  BY <1>1 DEF AnyRow
<1> HIDE DEF x
<1>4. x = [state |-> "prepared", sells |-> a, raw |-> raw, evidence |-> FALSE]
  BY <1>2, <1>3 DEF AnyRow
<1> QED BY <1>4 DEF x

LEMMA UnsentBut ==
  ASSUME NEW hash \in BOOLEAN
  PROVE  [Unsent EXCEPT !.state = "sent", !.hash = hash]
           = [state |-> "sent", ok |-> FALSE, got |-> 0, gas |-> 0, hash |-> hash]
<1>1. Unsent \in AnyTx /\ Unsent.ok = FALSE /\ Unsent.got = 0 /\ Unsent.gas = 0
  BY DEF Unsent, AnyTx
<1> DEFINE x == [Unsent EXCEPT !.state = "sent", !.hash = hash]
<1>2. x \in AnyTx
  BY <1>1 DEF AnyTx
<1>3. x.state = "sent" /\ x.ok = FALSE /\ x.got = 0 /\ x.gas = 0 /\ x.hash = hash
  BY <1>1 DEF AnyTx
<1> HIDE DEF x
<1>4. x = [state |-> "sent", ok |-> FALSE, got |-> 0, gas |-> 0, hash |-> hash]
  BY <1>2, <1>3 DEF AnyTx
<1> QED BY <1>4 DEF x

LEMMA NewRowIs ==
  ASSUME Types2, NEW o \in Runs, NEW a \in Asset, NEW raw \in Sizes,
         row' = [row EXCEPT ![o] = [NoRow EXCEPT !.state = "prepared", !.sells = a, !.raw = raw]]
  PROVE  /\ row' \in [Runs -> AnyRow]
         /\ row'[o].state = "prepared" /\ row'[o].sells = a /\ row'[o].raw = raw
         /\ row'[o].raw > 0 /\ row'[o].evidence = FALSE
         /\ \A p \in Runs \ {o} : row'[p] = row[p]
<1>1. raw \in Nat /\ raw > 0
  BY LiveAssumption
<1>2. [NoRow EXCEPT !.state = "prepared", !.sells = a, !.raw = raw]
        = [state |-> "prepared", sells |-> a, raw |-> raw, evidence |-> FALSE]
  BY <1>1, NoRowBut
<1> QED BY <1>1, <1>2 DEF Types2, AnyRow, States

(* An operation that is taken.                                              *)
LEMMA SendIs ==
  ASSUME Types2, ControlInv, Send
  PROVE  /\ pc = "send" /\ pc' = "read" /\ run \in Runs
         /\ UNCHANGED <<wallet, snap, journal, row, run, opening, outcome>>
         /\ \/ tx' = tx
            \/ \E hash \in BOOLEAN :
                 tx' = [tx EXCEPT ![run] = [state |-> "sent", ok |-> FALSE, got |-> 0,
                                           gas |-> 0, hash |-> hash]]
         /\ tx' \in [Runs -> AnyTx]
<1>1. run \in Runs /\ pc = "send" /\ pc' = "read"
      /\ UNCHANGED <<wallet, snap, journal, row, run, opening, outcome>>
  BY DEF Send, ControlInv
<1>2. CASE tx' = tx
  BY <1>1, <1>2 DEF Types2
<1>3. ASSUME NEW hash \in BOOLEAN, Broadcast(run, hash)
      PROVE  /\ tx' = [tx EXCEPT ![run] = [state |-> "sent", ok |-> FALSE, got |-> 0,
                                           gas |-> 0, hash |-> hash]]
             /\ tx' \in [Runs -> AnyTx]
  <2>1. tx' = [tx EXCEPT ![run] = [state |-> "sent", ok |-> FALSE, got |-> 0,
                                  gas |-> 0, hash |-> hash]]
    BY <1>3, UnsentBut DEF Broadcast
  <2> QED BY <1>1, <2>1 DEF Types2, AnyTx
<1> QED BY <1>1, <1>2, <1>3 DEF Send, Submitted

(* One mined: what it did to the wallet is what it says it did.             *)
LEMMA MineIs ==
  ASSUME TypeOK, Types2, NEW o \in Runs, Mine(o)
  PROVE  \E ok \in BOOLEAN, gas \in Nat, got \in Nat :
           /\ tx[o].state = "sent"
           /\ UNCHANGED <<snap, journal, row, run, pc, opening, outcome>>
           /\ tx' = [tx EXCEPT ![o] = [tx[o] EXCEPT !.state = "shallow", !.ok = ok,
                                       !.gas = gas, !.got = got]]
           /\ tx' \in [Runs -> AnyTx] /\ wallet' \in [Asset -> Nat]
           /\ \A a \in Asset : wallet'[a] = wallet[a] + Moved(tx'[o], row[o], a)
           /\ ok = FALSE => got = 0
<1> DEFINE s == row[o].sells
           raw == row[o].raw
<1>1. PICK ok \in BOOLEAN, gas \in Gas, slip \in Slips, m \in Prices :
       LET got  == Max({1, (raw * m[s]) \div m[Other(s)] + slip})
           paid == [wallet EXCEPT ![s] = @ - raw, ![Other(s)] = @ + got]
           left == IF ok THEN paid ELSE wallet
       IN  /\ wallet[s] >= raw \/ ~ok
           /\ left["eth"] >= gas
           /\ wallet' = [left EXCEPT !["eth"] = @ - gas]
           /\ tx' = [tx EXCEPT ![o] = [@ EXCEPT
                        !.state = "shallow", !.ok = ok, !.gas = gas,
                        !.got = IF ok THEN got ELSE 0]]
  BY DEF Mine
<1>2. tx[o].state = "sent" /\ UNCHANGED <<snap, journal, row, run, pc, opening, outcome>>
  BY DEF Mine
<1> DEFINE fair == (raw * m[s]) \div m[Other(s)] + slip
           got  == Max({1, fair})
           won  == IF ok THEN got ELSE 0
<1>3. /\ gas \in Nat /\ s \in Asset /\ Other(s) \in Asset /\ raw \in Nat
      /\ wallet \in [Asset -> Nat]
  BY LiveAssumption, OrderTypes, Others DEF TypeOK, Asset
<1>4. fair \in Int
  <2>1. m[s] \in Nat /\ m[Other(s)] \in Nat /\ m[Other(s)] > 0 /\ slip \in Int
    BY <1>3, LiveAssumption DEF Prices
  <2>2. raw * m[s] \in Int
    BY <1>3, <2>1
  <2>3. \A x \in Int, y \in Nat : y > 0 => x \div y \in Int
    OBVIOUS
  <2> QED BY <2>1, <2>2, <2>3
<1> HIDE DEF fair
<1>5. got \in Nat
  <2>1. \E x \in {1, fair} : \A y \in {1, fair} : x >= y
    BY <1>4
  <2>2. got \in {1, fair} /\ \A y \in {1, fair} : got >= y
    BY <2>1 DEF Max
  <2> QED BY <1>4, <2>2
<1> HIDE DEF got
<1>6. won \in Nat /\ (ok = FALSE => won = 0)
  BY <1>5
<1>7. tx' = [tx EXCEPT ![o] = [tx[o] EXCEPT !.state = "shallow", !.ok = ok,
                                !.gas = gas, !.got = won]]
  BY <1>1 DEF got, fair, Types2
<1>8. tx' \in [Runs -> AnyTx] /\ tx'[o].ok = ok /\ tx'[o].gas = gas /\ tx'[o].got = won
  <2> DEFINE mined == [tx[o] EXCEPT !.state = "shallow", !.ok = ok, !.gas = gas, !.got = won]
  <2>1. o \in Runs /\ tx \in [Runs -> AnyTx] /\ tx[o] \in AnyTx
    BY OrderTypes DEF Types2
  <2>2. mined \in AnyTx /\ mined.ok = ok /\ mined.gas = gas /\ mined.got = won
    BY <1>3, <1>6, <2>1 DEF AnyTx
  <2>3. tx' = [tx EXCEPT ![o] = mined]
    BY <1>7
  <2> HIDE DEF mined
  <2> QED BY <2>1, <2>2, <2>3
<1>9. wallet' \in [Asset -> Nat] /\ \A a \in Asset : wallet'[a] = wallet[a] + Moved(tx'[o], row[o], a)
  <2>1. CASE ok = FALSE
    <3>1. wallet' = [wallet EXCEPT !["eth"] = wallet["eth"] - gas] /\ wallet["eth"] >= gas
      BY <1>1, <2>1
    <3> QED BY <1>3, <1>8, <2>1, <3>1 DEF Moved, Asset
  <2>2. CASE ok = TRUE
    <3> DEFINE paid == [wallet EXCEPT ![s] = wallet[s] - raw, ![Other(s)] = wallet[Other(s)] + got]
    <3>1. wallet[s] >= raw /\ paid["eth"] >= gas /\ wallet' = [paid EXCEPT !["eth"] = paid["eth"] - gas]
      BY <1>1, <1>3, <2>2, Others DEF got, fair, Asset
    <3>2. \A a \in Asset : paid[a] = wallet[a] + (IF a = s THEN -raw ELSE got)
      BY <1>3, <1>5, Others DEF Asset
    <3>3. paid \in [Asset -> Nat]
      BY <1>3, <1>5, <3>1, Others DEF Asset
    <3> HIDE DEF paid
    <3>4. wallet' \in [Asset -> Nat]
      BY <1>3, <3>1, <3>3 DEF Asset
    <3>5. \A a \in Asset : wallet'[a] = paid[a] - (IF a = "eth" THEN gas ELSE 0)
      BY <1>3, <3>1, <3>3 DEF Asset
    <3>6. won = got
      BY <2>2
    <3> HIDE DEF won
    <3> QED BY <1>3, <1>5, <1>8, <2>2, <3>2, <3>4, <3>5, <3>6 DEF Moved
  <2> QED BY <2>1, <2>2
<1> HIDE DEF won
<1> QED BY <1>2, <1>3, <1>6, <1>7, <1>8, <1>9

(* The rows, the operations and the journal stay of their types.            *)
LEMMA TypesStep == TypeOK /\ Types2 /\ ControlInv /\ [Next]_vars => TypeOK' /\ Types2'
<1> SUFFICES ASSUME TypeOK, Types2, ControlInv, [Next]_vars PROVE TypeOK' /\ Types2'
  OBVIOUS
<1> DEFINE Raws(rs) == \A o \in Runs : rs[o].raw \in Sizes \cup {0}
           Pcs == {"off", "resolve", "open", "opening", "admit", "send", "read", "record"}
           Some == {<<>>, <<"usdg">>, Holdings}
(* What has to be shown of each variable.                                   *)
<1>1. ASSUME wallet' \in [Asset -> Nat], tx' \in [Runs -> AnyTx],
             row' \in [Runs -> AnyRow], Raws(row'),
             snap' \in [bal : [Asset -> Nat \cup {Unread}], mark : [Asset -> Nat]],
             snap'.mark \in Marks, journal' \in Seq(AnyEvent), run' \in 0..MaxRuns,
             pc' \in Pcs, opening' \in Some, outcome' = [o \in Runs |-> outcome'[o]]
      PROVE  TypeOK' /\ Types2'
  <2>1. ASSUME NEW o \in Runs
        PROVE  /\ tx'[o].state \in {"none", "sent", "shallow", "deep"}
               /\ row'[o].state \in States /\ row'[o].sells \in Asset
               /\ row'[o].raw \in Sizes \cup {0} /\ row'[o].evidence \in BOOLEAN
    <3>1. tx'[o] \in AnyTx /\ row'[o] \in AnyRow /\ row'[o].raw \in Sizes \cup {0}
      BY <1>1
    <3> QED BY <3>1 DEF AnyTx, AnyRow
  <2>2. ASSUME NEW i \in DOMAIN journal' PROVE journal'[i].kind \in {"opening", "fill", "fee"}
    <3>1. journal'[i] \in AnyEvent
      BY <1>1
    <3> QED BY <3>1, EventIs
  <2>3. snap'.bal \in [Asset -> Nat \cup {Unread}]
    BY <1>1
  <2>4. TypeOK'
    BY <1>1, <2>1, <2>2, <2>3 DEF TypeOK
  <2>5. Types2'
    BY <1>1 DEF Types2
  <2> QED BY <2>4, <2>5
<1>2. /\ wallet \in [Asset -> Nat] /\ tx \in [Runs -> AnyTx]
      /\ row \in [Runs -> AnyRow] /\ Raws(row)
      /\ snap \in [bal : [Asset -> Nat \cup {Unread}], mark : [Asset -> Nat]]
      /\ snap.mark \in Marks /\ journal \in Seq(AnyEvent) /\ run \in 0..MaxRuns
      /\ pc \in Pcs /\ opening \in Some /\ outcome = [o \in Runs |-> outcome[o]]
  BY DEF TypeOK, Types2
<1>3. <<>> \in Some /\ Holdings \in Some
  OBVIOUS
<1>4. ASSUME NEW o \in Runs, NEW to \in States, Move(o, to)
      PROVE  row' \in [Runs -> AnyRow] /\ Raws(row')
  <2>1. row' \in [Runs -> AnyRow] /\ \A p \in Runs : row'[p].raw = row[p].raw
    BY <1>4, MoveIs
  <2> QED BY <1>2, <2>1
<1>5. ASSUME NEW o, NEW out, Settles(o, out)
      PROVE  /\ row' \in [Runs -> AnyRow] /\ Raws(row') /\ journal' \in Seq(AnyEvent)
             /\ UNCHANGED <<wallet, tx, snap, run, outcome>>
  <2>1. /\ o \in Runs /\ out.events \in Seq(AnyEvent) /\ journal' = journal \o out.events
        /\ row' = [row EXCEPT ![o] = [row[o] EXCEPT !.state = out.state,
                                                   !.evidence = out.evidence]]
        /\ row' \in [Runs -> AnyRow]
    BY <1>5, SettleIs
  <2>2. journal' \in Seq(AnyEvent)
    BY <1>2, <2>1, ConcatProperties
  <2>3. row'[o].raw = row[o].raw
    <3>1. row'[o] = [row[o] EXCEPT !.state = out.state, !.evidence = out.evidence]
      BY <1>2, <2>1
    <3>2. row[o] \in AnyRow
      BY <1>2, <2>1
    <3> QED BY <3>1, <3>2 DEF AnyRow
  <2>4. \A p \in Runs : row'[p].raw = row[p].raw
    BY <1>2, <2>1, <2>3
  <2>5. Raws(row')
    BY <1>2, <2>4
  <2>6. UNCHANGED <<wallet, tx, snap, run, outcome>>
    BY <1>5 DEF Settles
  <2> QED BY <2>1, <2>2, <2>5, <2>6
<1> HIDE DEF Raws, Some
<1>6. CASE Begin
  <2>1. /\ UNCHANGED <<wallet, tx, snap, journal, row, outcome>>
        /\ run' = run + 1 /\ run < MaxRuns /\ pc' = "resolve" /\ opening' = <<>>
    BY <1>6 DEF Begin
  <2>2. run' \in 0..MaxRuns
    BY <1>2, <2>1, RunOf
  <2> QED BY <1>1, <1>2, <1>3, <2>1, <2>2
<1>7. CASE Resolve
  <2>1. pc = "resolve" /\ UNCHANGED <<wallet, tx, snap, run, outcome>>
    BY <1>7, ResolveIs
  <2>2. CASE pc' = "open" /\ opening' = Holdings /\ UNCHANGED <<journal, row>>
    BY <1>1, <1>2, <1>3, <2>1, <2>2
  <2>3. ASSUME NEW o \in Left, Move(o, "refused"), UNCHANGED <<journal, pc, opening>>
        PROVE  TypeOK' /\ Types2'
    <3>1. o \in Runs /\ "refused" \in States
      BY DEF Left, States
    <3>2. row' \in [Runs -> AnyRow] /\ Raws(row')
      BY <1>4, <2>3, <3>1
    <3> QED BY <1>1, <1>2, <2>1, <2>3, <3>2
  <2>4. CASE Ends /\ UNCHANGED <<journal, row>>
    BY <1>1, <1>2, <1>3, <2>1, <2>4 DEF Ends
  <2>5. ASSUME NEW o \in Left, NEW out, Settles(o, out), UNCHANGED <<pc, opening>>
        PROVE  TypeOK' /\ Types2'
    <3>1. row' \in [Runs -> AnyRow] /\ Raws(row') /\ journal' \in Seq(AnyEvent)
      BY <1>5, <2>5
    <3> QED BY <1>1, <1>2, <2>1, <2>5, <3>1
  <2> QED BY <1>7, <2>2, <2>3, <2>4, <2>5, ResolveIs
<1>8. CASE AskBook
  <2>1. UNCHANGED <<wallet, tx, snap, journal, row, run, outcome>>
    BY <1>8 DEF AskBook
  <2>2. pc' \in Pcs /\ opening' \in {opening, <<>>}
    BY <1>8 DEF AskBook, Ends
  <2> QED BY <1>1, <1>2, <1>3, <2>1, <2>2
<1>9. CASE OpenOne
  <2>1. UNCHANGED <<wallet, tx, snap, row, run, outcome>>
    BY <1>9, OpenOneIs
  <2>2. CASE Ends /\ UNCHANGED journal
    BY <1>1, <1>2, <1>3, <2>1, <2>2 DEF Ends
  <2>3. ASSUME NEW a \in Asset, pc' = pc, snap.bal[a] # Unread,
               opening' = <<"usdg">> \/ opening' = <<>>,
               \/ UNCHANGED journal
               \/ journal' = Append(journal, Opening(a, snap.bal[a], snap.mark[a]))
        PROVE  TypeOK' /\ Types2'
    <3>1. PICK e \in AnyEvent : e = Opening(a, snap.bal[a], snap.mark[a])
      BY <2>3, OpeningIs
    <3>2. journal' \in Seq(AnyEvent)
      <4>1. Append(journal, e) \in Seq(AnyEvent)
        BY <1>2
      <4> QED BY <1>2, <2>3, <3>1, <4>1
    <3>3. opening' \in Some
      BY <2>3 DEF Some
    <3> QED BY <1>1, <1>2, <2>1, <2>3, <3>2, <3>3
  <2> QED BY <1>9, <2>2, <2>3, OpenOneIs
<1>10. CASE Instruct
  <2>1. UNCHANGED <<wallet, tx, snap, journal, run, outcome>> /\ pc = "opening" /\ run \in Runs
    BY <1>10, RunOf DEF Instruct
  <2>2. CASE Ends /\ UNCHANGED row
    BY <1>1, <1>2, <1>3, <2>1, <2>2 DEF Ends
  <2>3. ASSUME NEW a \in Asset, NEW raw \in Sizes,
               row' = [row EXCEPT ![run] = [NoRow EXCEPT !.state = "prepared",
                                              !.sells = a, !.raw = raw]],
               pc' = "admit", UNCHANGED opening
        PROVE  TypeOK' /\ Types2'
    <3>1. /\ row' \in [Runs -> AnyRow] /\ row'[run].raw = raw
          /\ \A p \in Runs \ {run} : row'[p] = row[p]
      BY <2>1, <2>3, NewRowIs
    <3>2. Raws(row')
      BY <1>2, <3>1 DEF Raws
    <3> QED BY <1>1, <1>2, <2>1, <2>3, <3>1, <3>2
  <2> QED BY <1>10, <2>2, <2>3 DEF Instruct
<1>11. CASE Admit
  <2>1. UNCHANGED <<wallet, tx, snap, journal, run, outcome>> /\ run \in Runs
    BY <1>11, RunOf DEF Admit
  <2>2. /\ Move(run, "refused") \/ Move(run, "submitted")
        /\ pc' \in {"off", "send"} /\ opening' \in {opening, <<>>}
    BY <1>11 DEF Admit, Reports
  <2>3. row' \in [Runs -> AnyRow] /\ Raws(row')
    <3>1. "refused" \in States /\ "submitted" \in States
      BY DEF States
    <3> QED BY <1>4, <2>1, <2>2, <3>1
  <2> QED BY <1>1, <1>2, <1>3, <2>1, <2>2, <2>3
<1>12. CASE Send
  <2>1. /\ UNCHANGED <<wallet, snap, journal, row, run, opening, outcome>> /\ pc' = "read"
        /\ tx' \in [Runs -> AnyTx]
    BY <1>12, SendIs
  <2> QED BY <1>1, <1>2, <2>1
<1>13. CASE ReadOutcome
  <2>1. PICK out : Settles(run, out) /\ Reports(out.evidence)
    BY <1>13, ReadIs
  <2>2. /\ row' \in [Runs -> AnyRow] /\ Raws(row') /\ journal' \in Seq(AnyEvent)
        /\ UNCHANGED <<wallet, tx, snap, run, outcome>>
    BY <1>5, <2>1
  <2>3. pc' \in {"record", "off"} /\ opening' = <<>>
    BY <2>1 DEF Reports
  <2> QED BY <1>1, <1>2, <1>3, <2>2, <2>3
<1>14. CASE Record
  <2>1. UNCHANGED <<wallet, tx, snap, journal, row, run>> /\ pc' = "off" /\ opening' = <<>>
    BY <1>14 DEF Record, Ends
  <2>2. outcome' = [o \in Runs |-> outcome'[o]]
    <3>1. \/ outcome' = outcome
          \/ \E x : outcome' = [outcome EXCEPT ![run] = x]
      BY <1>14 DEF Record
    <3> QED BY <1>2, <3>1
  <2> QED BY <1>1, <1>2, <1>3, <2>1, <2>2
<1>15. CASE Killed
  <2>1. UNCHANGED <<wallet, tx, snap, journal, row, run, outcome>> /\ pc' = "off" /\ opening' = <<>>
    BY <1>15 DEF Killed, Ends
  <2> QED BY <1>1, <1>2, <1>3, <2>1
<1>16. CASE BuildSnapshot
  <2>1. UNCHANGED <<wallet, tx, journal, row, run, pc, opening, outcome>>
    BY <1>16 DEF BuildSnapshot
  <2>2. PICK m \in Marks, S \in SUBSET Asset :
          snap' = [mark |-> m, bal |-> [a \in Asset |-> IF a \in S THEN Unread ELSE wallet[a]]]
    BY <1>16 DEF BuildSnapshot
  <2>3. m \in [Asset -> Nat]
    BY LiveAssumption
  <2>4. [a \in Asset |-> IF a \in S THEN Unread ELSE wallet[a]] \in [Asset -> Nat \cup {Unread}]
    BY <1>2
  <2>5. /\ snap' \in [bal : [Asset -> Nat \cup {Unread}], mark : [Asset -> Nat]]
        /\ snap'.mark \in Marks
    BY <2>2, <2>3, <2>4
  <2> QED BY <1>1, <1>2, <2>1, <2>5
<1>17. ASSUME NEW o \in Runs, Mine(o) PROVE TypeOK' /\ Types2'
  <2>1. /\ UNCHANGED <<snap, journal, row, run, pc, opening, outcome>>
        /\ tx' \in [Runs -> AnyTx] /\ wallet' \in [Asset -> Nat]
    BY <1>17, MineIs
  <2> QED BY <1>1, <1>2, <2>1
<1>18. ASSUME NEW o \in Runs, Deepen(o) PROVE TypeOK' /\ Types2'
  <2>1. UNCHANGED <<wallet, snap, journal, row, run, pc, opening, outcome>>
        /\ tx' = [tx EXCEPT ![o] = [tx[o] EXCEPT !.state = "deep"]]
    BY <1>2, <1>18 DEF Deepen, AnyTx
  <2>2. [tx[o] EXCEPT !.state = "deep"] \in AnyTx
    BY OrderTypes DEF AnyTx
  <2>3. tx' \in [Runs -> AnyTx]
    BY <1>2, <2>1, <2>2
  <2> QED BY <1>1, <1>2, <2>1, <2>3
<1>19. CASE UNCHANGED vars
  <2>1. UNCHANGED <<wallet, tx, snap, journal, row, run, pc, opening, outcome>>
    BY <1>19 DEF vars
  <2> QED BY <1>1, <1>2, <2>1
<1> QED BY <1>6, <1>7, <1>8, <1>9, <1>10, <1>11, <1>12, <1>13, <1>14, <1>15, <1>16, <1>17,
           <1>18, <1>19 DEF Next, Command, Chain

-------------------------------------------------------------------------------
(* The command and its orders *)

(* A row that settles.                                                      *)
LEMMA SettledRow ==
  ASSUME TypeOK, Types2, ControlInv, NEW o, NEW out, Settles(o, out)
  PROVE  /\ o \in Runs /\ o \in Left /\ row[o].state \in InFlight
         /\ row'[o].state = out.state /\ row'[o].sells = row[o].sells
         /\ row'[o].raw = row[o].raw /\ \A p \in Runs \ {o} : row'[p] = row[p]
         /\ out.state \in {"unknown", "confirmed", "failed"}
         /\ UNCHANGED <<wallet, tx, snap, run, outcome>>
<1>1. /\ o \in Runs /\ out.state \in {"unknown", "confirmed", "failed"}
      /\ row' = [row EXCEPT ![o] = [row[o] EXCEPT !.state = out.state,
                                                  !.evidence = out.evidence]]
  BY SettleIs
<1>2. row[o] \in AnyRow /\ row \in [Runs -> AnyRow]
  BY <1>1 DEF Types2
<1>3. row'[o] = [row[o] EXCEPT !.state = out.state, !.evidence = out.evidence]
  BY <1>1, <1>2
<1>4. row'[o].state = out.state /\ row'[o].sells = row[o].sells /\ row'[o].raw = row[o].raw
  BY <1>2, <1>3 DEF AnyRow
<1>5. \A p \in Runs \ {o} : row'[p] = row[p]
  BY <1>1, <1>2
<1> QED BY <1>1, <1>4, <1>5 DEF Settles

(* What an action does to the states of the rows, or leaves of them.        *)
LEMMA ControlStep ==
  TypeOK /\ Types2 /\ ControlInv /\ (\A o \in Runs : OrderInv(o)) /\ [Next]_vars
    => ControlInv'
<1> SUFFICES ASSUME TypeOK, Types2, ControlInv, \A o \in Runs : OrderInv(o), [Next]_vars
             PROVE  ControlInv'
  OBVIOUS
<1>1. /\ pc # "off" => run \in Runs
      /\ \A o \in Runs : o > run => row[o].state = "none"
      /\ \A o, p \in Runs : row[o].state \in Open /\ row[p].state \in Open => o = p
      /\ pc \in {"open", "opening"} => \A o \in Runs : ~ (row[o].state \in Open)
      /\ pc \in {"resolve", "open", "opening"} => row[run].state = "none"
      /\ pc = "admit" => row[run].state = "prepared"
      /\ pc \in {"send", "read"} => row[run].state = "submitted"
      /\ pc = "record" => row[run].state \in {"unknown", "confirmed", "failed"}
      /\ pc = "send" => tx[run].state = "none"
  BY DEF ControlInv, Left
(* What has to be shown.                                                    *)
<1>2. ASSUME pc' # "off" => run' \in Runs,
             \A o \in Runs : o > run' => row'[o].state = "none",
             \A o, p \in Runs : row'[o].state \in Open /\ row'[p].state \in Open => o = p,
             pc' \in {"open", "opening"} => \A o \in Runs : ~ (row'[o].state \in Open),
             pc' \in {"resolve", "open", "opening"} => row'[run'].state = "none",
             pc' = "admit" => row'[run'].state = "prepared",
             pc' \in {"send", "read"} => row'[run'].state = "submitted",
             pc' = "record" => row'[run'].state \in {"unknown", "confirmed", "failed"},
             pc' = "send" => tx'[run'].state = "none"
      PROVE  ControlInv'
  BY <1>2 DEF ControlInv, Left
<1>3. CASE pc' = "off" /\ UNCHANGED <<row, run>>
  BY <1>1, <1>2, <1>3
<1>4. CASE Begin
  <2>1. UNCHANGED <<row, tx>> /\ run' = run + 1 /\ run < MaxRuns /\ pc' = "resolve"
    BY <1>4 DEF Begin
  <2>2. run' \in Runs /\ run' > run /\ run \in Nat /\ Runs \subseteq Nat
    BY <2>1, RunOf
  <2>3. \A o \in Runs : o > run' => o > run
    BY <2>1, <2>2
  <2> QED BY <1>1, <1>2, <2>1, <2>2, <2>3
(* An order no longer open, which is another command's.                     *)
<1>5. ASSUME NEW o \in Runs, row[o].state \in Open, UNCHANGED <<run, pc>>, pc = "resolve",
             ~ (row'[o].state \in Open), \A p \in Runs \ {o} : row'[p] = row[p]
      PROVE  ControlInv'
  <2>1. row[run].state = "none" /\ run \in Runs /\ run # o /\ ~ (o > run)
    BY <1>1, <1>5 DEF Open
  <2>2. row'[run] = row[run]
    BY <1>5, <2>1
  <2>3. \A p \in Runs : p > run => row'[p].state = "none"
    BY <1>1, <1>5, <2>1
  <2>4. \A p, q \in Runs : row'[p].state \in Open /\ row'[q].state \in Open => p = q
    BY <1>1, <1>5
  <2> QED BY <1>1, <1>2, <1>5, <2>1, <2>2, <2>3, <2>4
<1>6. CASE Resolve
  <2>1. pc = "resolve" /\ UNCHANGED <<tx, run>>
    BY <1>6, ResolveIs
  <2>2. CASE Left = {} /\ pc' = "open" /\ opening' = Holdings /\ UNCHANGED <<journal, row>>
    <3>1. \A o \in Runs : ~ (row[o].state \in Open)
      BY <2>2 DEF Left
    <3> QED BY <1>1, <1>2, <2>1, <2>2, <3>1
  <2>3. ASSUME NEW o \in Left, Move(o, "refused"), UNCHANGED <<journal, pc, opening>>
        PROVE  ControlInv'
    <3>1. o \in Runs /\ row[o].state \in Open /\ "refused" \in States
      BY DEF Left, States
    <3>2. row'[o].state = "refused" /\ \A p \in Runs \ {o} : row'[p] = row[p]
      BY <2>3, <3>1, MoveIs
    <3>3. ~ (row'[o].state \in Open)
      BY <3>2 DEF Open
    <3> QED BY <1>5, <2>1, <2>3, <3>1, <3>2, <3>3
  <2>4. CASE Ends /\ UNCHANGED <<journal, row>>
    BY <1>3, <2>1, <2>4 DEF Ends
  <2>5. ASSUME NEW o \in Left, NEW out, out.state # "unknown", Settles(o, out),
               UNCHANGED <<pc, opening>>
        PROVE  ControlInv'
    <3>1. /\ o \in Runs /\ row'[o].state \in {"confirmed", "failed"}
          /\ \A p \in Runs \ {o} : row'[p] = row[p]
      BY <2>5, SettledRow
    <3>2. row[o].state \in Open /\ ~ (row'[o].state \in Open)
      BY <3>1 DEF Open, Left
    <3> QED BY <1>5, <2>1, <2>5, <3>1, <3>2
  <2> QED BY <1>6, <2>2, <2>3, <2>4, <2>5, ResolveIs
<1>7. CASE AskBook
  <2>1. pc = "open" /\ UNCHANGED <<tx, row, run>> /\ pc' \in {"off", "opening"}
    BY <1>7 DEF AskBook, Ends
  <2> QED BY <1>1, <1>2, <2>1
<1>8. CASE OpenOne
  <2>1. pc = "opening" /\ UNCHANGED <<tx, row, run>> /\ pc' \in {"off", pc}
    BY <1>8, OpenOneIs DEF Ends
  <2> QED BY <1>1, <1>2, <2>1
<1>9. CASE Instruct
  <2>1. UNCHANGED <<tx, run>> /\ pc = "opening" /\ run \in Runs
    BY <1>9, RunOf DEF Instruct
  <2>2. CASE Ends /\ UNCHANGED row
    BY <1>3, <2>1, <2>2 DEF Ends
  <2>3. ASSUME NEW a \in Asset, NEW raw \in Sizes,
               row' = [row EXCEPT ![run] = [NoRow EXCEPT !.state = "prepared",
                                              !.sells = a, !.raw = raw]],
               pc' = "admit"
        PROVE  ControlInv'
    <3>1. row'[run].state = "prepared" /\ \A p \in Runs \ {run} : row'[p] = row[p]
      BY <2>1, <2>3, NewRowIs
    <3>2. \A o \in Runs : o > run => row'[o].state = "none"
      <4>1. ~ (run > run)
        BY RunOf
      <4> QED BY <1>1, <3>1, <4>1
    <3>3. \A o, p \in Runs : row'[o].state \in Open /\ row'[p].state \in Open => o = p
      BY <1>1, <2>1, <3>1
    <3> QED BY <1>2, <2>1, <2>3, <3>1, <3>2, <3>3
  <2> QED BY <1>9, <2>2, <2>3 DEF Instruct
<1>10. CASE Admit
  <2>1. UNCHANGED <<tx, run>> /\ pc = "admit" /\ run \in Runs
    BY <1>10, RunOf DEF Admit
  <2>2. PICK to \in {"refused", "submitted"} :
          /\ Move(run, to) /\ pc' = IF to = "refused" THEN "off" ELSE "send"
    BY <1>10 DEF Admit, Reports
  <2>3. to \in States
    BY DEF States
  <2>4. row'[run].state = to /\ \A p \in Runs \ {run} : row'[p] = row[p]
    BY <2>1, <2>2, <2>3, MoveIs
  <2>5. row[run].state = "prepared" /\ row[run].state \in Open /\ tx[run].state = "none"
    BY <1>1, <2>1 DEF OrderInv, Open
  <2>6. \A o \in Runs : o > run => row'[o].state = "none"
    <3>1. ~ (run > run)
      BY RunOf
    <3> QED BY <1>1, <2>4, <3>1
  <2>7. \A o, p \in Runs : row'[o].state \in Open /\ row'[p].state \in Open => o = p
    BY <1>1, <2>1, <2>4, <2>5
  <2> QED BY <1>2, <2>1, <2>2, <2>4, <2>5, <2>6, <2>7
<1>11. CASE Send
  <2>1. pc = "send" /\ UNCHANGED <<row, run>> /\ pc' = "read" /\ run \in Runs
    BY <1>11, SendIs
  <2> QED BY <1>1, <1>2, <2>1
<1>12. CASE ReadOutcome
  <2>1. PICK out : pc = "read" /\ Settles(run, out) /\ Reports(out.evidence)
    BY <1>12, ReadIs
  <2>2. /\ run \in Runs /\ row[run].state \in Open /\ UNCHANGED <<tx, run>>
        /\ row'[run].state \in {"unknown", "confirmed", "failed"}
        /\ \A p \in Runs \ {run} : row'[p] = row[p]
    BY <2>1, SettledRow DEF Left
  <2>3. pc' \in {"record", "off"}
    BY <2>1 DEF Reports
  <2>4. \A o \in Runs : o > run => row'[o].state = "none"
    <3>1. ~ (run > run)
      BY RunOf
    <3> QED BY <1>1, <2>2, <3>1
  <2>5. \A o, p \in Runs : row'[o].state \in Open /\ row'[p].state \in Open => o = p
    BY <1>1, <2>2
  <2> QED BY <1>2, <2>2, <2>3, <2>4, <2>5
<1>13. CASE Record \/ Killed
  BY <1>3, <1>13 DEF Record, Killed, Ends
<1>14. CASE BuildSnapshot \/ UNCHANGED vars
  <2>1. UNCHANGED <<tx, row, run, pc>>
    BY <1>14 DEF BuildSnapshot, vars
  <2> QED BY <1>1, <1>2, <2>1
<1>15. ASSUME NEW o \in Runs, Mine(o) \/ Deepen(o) PROVE ControlInv'
  <2>1. /\ UNCHANGED <<row, run, pc>> /\ tx[o].state # "none"
        /\ \A p \in Runs \ {o} : tx'[p] = tx[p]
    <3>1. /\ UNCHANGED <<row, run, pc>> /\ tx[o].state # "none"
          /\ \E t : tx' = [tx EXCEPT ![o] = t]
      <4>1. CASE Mine(o)
        BY <4>1, Zenon DEF Mine
      <4>2. CASE Deepen(o)
        BY <4>2, Zenon DEF Deepen
      <4> QED BY <1>15, <4>1, <4>2
    <3> QED BY <3>1 DEF Types2
  <2>2. pc = "send" => tx'[run].state = "none"
    BY <1>1, <2>1
  <2> QED BY <1>1, <1>2, <2>1, <2>2
<1> QED BY <1>4, <1>6, <1>7, <1>8, <1>9, <1>10, <1>11, <1>12, <1>13, <1>14, <1>15
        DEF Next, Command, Chain

BaseInv == TypeOK /\ Types2 /\ ControlInv /\ \A o \in Runs : OrderInv(o)

LEMMA OrderStep == BaseInv /\ [Next]_vars => \A o \in Runs : OrderInv(o)'
<1> SUFFICES ASSUME BaseInv, [Next]_vars, NEW q \in Runs PROVE OrderInv(q)'
  OBVIOUS
<1>1. TypeOK /\ Types2 /\ ControlInv /\ \A o \in Runs : OrderInv(o)
  BY DEF BaseInv
<1>2. OrderInv(q) /\ row[q].state \in States /\ row[q].raw \in Nat /\ tx[q].ok \in BOOLEAN
  BY <1>1, OrderTypes
<1>3. CASE row'[q] = row[q] /\ tx'[q] = tx[q]
  BY <1>2, <1>3 DEF OrderInv
<1>4. CASE Resolve
  <2>1. UNCHANGED tx
    BY <1>1, <1>4, ResolveIs
  <2>2. ASSUME NEW o \in Left, row[o].state = "prepared", Move(o, "refused")
        PROVE  OrderInv(q)'
    <3>1. o \in Runs /\ "refused" \in States
      BY DEF Left, States
    <3>2. /\ row'[o].state = "refused" /\ row'[o].raw = row[o].raw
          /\ \A p \in Runs \ {o} : row'[p] = row[p]
      BY <1>1, <2>2, <3>1, MoveIs
    <3>3. tx[o].state = "none" /\ OrderInv(o)
      BY <1>1, <2>2, <3>1 DEF OrderInv
    <3> QED BY <1>2, <1>3, <2>1, <2>2, <3>2, <3>3 DEF OrderInv
  <2>3. CASE UNCHANGED row
    BY <1>3, <2>1, <2>3
  <2>4. ASSUME NEW o \in Left, NEW out, Settles(o, out) PROVE OrderInv(q)'
    <3>1. /\ o \in Runs /\ row[o].state \in InFlight /\ row'[o].state = out.state
          /\ row'[o].raw = row[o].raw /\ \A p \in Runs \ {o} : row'[p] = row[p]
          /\ out.state \in {"unknown", "confirmed", "failed"}
      BY <1>1, <2>4, SettledRow
    <3>2. /\ out.state = "failed" => tx[o].state = "deep" /\ tx[o].ok = FALSE
          /\ out.state = "confirmed" => tx[o].state = "deep" /\ tx[o].ok = TRUE
      BY <1>1, <2>4, <3>1, OutcomeIs DEF Settles
    <3> QED BY <1>2, <1>3, <2>1, <3>1, <3>2 DEF OrderInv, InFlight
  <2> QED BY <1>1, <1>4, <2>2, <2>3, <2>4, ResolveIs
<1>5. CASE ReadOutcome
  <2>1. PICK out : Settles(run, out)
    BY <1>1, <1>5, ReadIs
  <2>2. /\ run \in Runs /\ row[run].state \in InFlight /\ row'[run].state = out.state
        /\ row'[run].raw = row[run].raw /\ \A p \in Runs \ {run} : row'[p] = row[p]
        /\ out.state \in {"unknown", "confirmed", "failed"} /\ UNCHANGED tx
    BY <1>1, <2>1, SettledRow
  <2>3. /\ out.state = "failed" => tx[run].state = "deep" /\ tx[run].ok = FALSE
        /\ out.state = "confirmed" => tx[run].state = "deep" /\ tx[run].ok = TRUE
    BY <1>1, <2>1, <2>2, OutcomeIs DEF Settles
  <2> QED BY <1>2, <1>3, <2>2, <2>3 DEF OrderInv, InFlight
<1>6. CASE Instruct
  <2>1. UNCHANGED tx /\ run \in Runs /\ row[run].state = "none"
    BY <1>1, <1>6, RunOf DEF Instruct, ControlInv
  <2>2. CASE UNCHANGED row
    BY <1>3, <2>1, <2>2
  <2>3. ASSUME NEW a \in Asset, NEW raw \in Sizes,
               row' = [row EXCEPT ![run] = [NoRow EXCEPT !.state = "prepared",
                                              !.sells = a, !.raw = raw]]
        PROVE  OrderInv(q)'
    <3>1. /\ row'[run].state = "prepared" /\ row'[run].raw > 0
          /\ \A p \in Runs \ {run} : row'[p] = row[p]
      BY <1>1, <2>1, <2>3, NewRowIs
    <3> QED BY <1>2, <1>3, <2>1, <3>1 DEF OrderInv
  <2> QED BY <1>6, <2>2, <2>3 DEF Instruct
<1>7. CASE Admit
  <2>1. UNCHANGED tx /\ run \in Runs /\ row[run].state = "prepared"
    BY <1>1, <1>7, RunOf DEF Admit, ControlInv
  <2>2. PICK to \in {"refused", "submitted"} : Move(run, to)
    BY <1>7 DEF Admit
  <2>3. /\ row'[run].state = to /\ row'[run].raw = row[run].raw
        /\ \A p \in Runs \ {run} : row'[p] = row[p]
    BY <1>1, <2>1, <2>2, MoveIs DEF States
  <2> QED BY <1>2, <1>3, <2>1, <2>3 DEF OrderInv
<1>8. CASE Send
  <2>1. UNCHANGED row /\ run \in Runs /\ row[run].state = "submitted" /\ tx[run].state = "none"
    BY <1>1, <1>8, SendIs DEF ControlInv
  <2>2. \/ tx' = tx
        \/ \E hash \in BOOLEAN :
             tx' = [tx EXCEPT ![run] = [state |-> "sent", ok |-> FALSE, got |-> 0,
                                       gas |-> 0, hash |-> hash]]
    BY <1>1, <1>8, SendIs
  <2>3. CASE q = run /\ tx' # tx
    <3>1. /\ tx'[run].state = "sent" /\ tx'[run].ok = FALSE
          /\ tx'[run].got = 0 /\ tx'[run].gas = 0
      BY <1>1, <2>1, <2>2, <2>3 DEF Types2
    <3> QED BY <1>2, <2>1, <2>3, <3>1 DEF OrderInv
  <2> QED BY <1>1, <1>3, <2>1, <2>2, <2>3 DEF Types2
<1>9. ASSUME NEW o \in Runs, Mine(o) PROVE OrderInv(q)'
  <2>1. PICK ok \in BOOLEAN, gas \in Nat, got \in Nat :
           /\ tx[o].state = "sent"
           /\ UNCHANGED <<snap, journal, row, run, pc, opening, outcome>>
           /\ tx' = [tx EXCEPT ![o] = [tx[o] EXCEPT !.state = "shallow", !.ok = ok,
                                       !.gas = gas, !.got = got]]
           /\ tx' \in [Runs -> AnyTx] /\ wallet' \in [Asset -> Nat]
           /\ \A a \in Asset : wallet'[a] = wallet[a] + Moved(tx'[o], row[o], a)
           /\ ok = FALSE => got = 0
    BY <1>1, <1>9, MineIs, Zenon
  <2>2. tx[o] \in AnyTx /\ tx \in [Runs -> AnyTx]
    BY <1>1 DEF Types2
  <2>3. tx'[o].state = "shallow" /\ \A p \in Runs \ {o} : tx'[p] = tx[p]
    BY <2>1, <2>2 DEF AnyTx
  <2> QED BY <1>2, <1>3, <2>1, <2>3 DEF OrderInv
<1>10. ASSUME NEW o \in Runs, Deepen(o) PROVE OrderInv(q)'
  <2>1. tx[o].state = "shallow" /\ UNCHANGED row
        /\ tx' = [tx EXCEPT ![o] = [tx[o] EXCEPT !.state = "deep"]]
    BY <1>1, <1>10 DEF Deepen, Types2, AnyTx
  <2>2. tx[o] \in AnyTx /\ tx \in [Runs -> AnyTx]
    BY <1>1 DEF Types2
  <2>3. /\ tx'[o].state = "deep" /\ tx'[o].ok = tx[o].ok
        /\ \A p \in Runs \ {o} : tx'[p] = tx[p]
    BY <2>1, <2>2 DEF AnyTx
  <2> QED BY <1>2, <1>3, <2>1, <2>3 DEF OrderInv
<1>11. CASE Begin \/ AskBook \/ OpenOne \/ Record \/ Killed \/ BuildSnapshot \/ UNCHANGED vars
  <2>1. UNCHANGED <<row, tx>>
    BY <1>11 DEF Begin, AskBook, OpenOne, Record, Killed, BuildSnapshot, vars
  <2> QED BY <1>3, <2>1
<1> QED BY <1>4, <1>5, <1>6, <1>7, <1>8, <1>9, <1>10, <1>11 DEF Next, Command, Chain

LEMMA BaseInit == Init => BaseInv
<1> SUFFICES ASSUME Init PROVE BaseInv
  OBVIOUS
<1>1. Unsent \in AnyTx /\ NoRow \in AnyRow /\ Wallet0 \in [Asset -> Nat]
  BY LiveAssumption DEF Unsent, NoRow, AnyTx, AnyRow, States, Asset, Cash
<1>2. /\ \A o \in Runs : tx[o] = Unsent /\ row[o] = NoRow
      /\ tx \in [Runs -> AnyTx] /\ row \in [Runs -> AnyRow]
  BY <1>1 DEF Init
<1>3. PICK m \in Marks : snap = [bal |-> Wallet0, mark |-> m]
  BY DEF Init
<1>4. /\ snap \in [bal : [Asset -> Nat \cup {Unread}], mark : [Asset -> Nat]]
      /\ snap.mark \in Marks
  <2>1. m \in [Asset -> Nat] /\ Wallet0 \in [Asset -> Nat \cup {Unread}]
    BY <1>1, LiveAssumption
  <2> QED BY <1>3, <2>1
<1>5. /\ \A o \in Runs : tx[o].state = "none" /\ tx[o].ok = FALSE /\ tx[o].gas = 0 /\ tx[o].got = 0
      /\ \A o \in Runs : row[o].state = "none" /\ row[o].raw = 0
  BY <1>2 DEF Unsent, NoRow
<1>6. TypeOK
  <2>1. \A o \in Runs :
          /\ tx[o].state \in {"none", "sent", "shallow", "deep"}
          /\ row[o].state \in States /\ row[o].sells \in Asset
          /\ row[o].raw \in Sizes \cup {0} /\ row[o].evidence \in BOOLEAN
    BY <1>2, <1>5 DEF AnyRow, AnyTx
  <2>2. wallet \in [Asset -> Nat] /\ journal = <<>> /\ run = 0 /\ pc = "off"
    BY <1>1 DEF Init
  <2>3. 0 \in 0..MaxRuns
    BY LiveAssumption
  <2>4. DOMAIN journal = {}
    BY <2>2
  <2>5. snap.bal \in [Asset -> Nat \cup {Unread}]
    BY <1>4
  <2> QED BY <1>4, <2>1, <2>2, <2>3, <2>4, <2>5 DEF TypeOK
<1>7. Types2
  <2>1. journal = <<>> /\ opening = <<>> /\ outcome = [o \in Runs |-> NoOutcome]
    BY DEF Init
  <2>2. journal \in Seq(AnyEvent)
    BY <2>1
  <2> QED BY <1>2, <1>4, <2>1, <2>2 DEF Types2
<1>8. ControlInv
  <2>1. pc = "off"
    BY DEF Init
  <2> QED BY <1>5, <2>1 DEF ControlInv, Left, Open
<1>9. \A o \in Runs : OrderInv(o)
  BY <1>5 DEF OrderInv
<1> QED BY <1>6, <1>7, <1>8, <1>9 DEF BaseInv

LEMMA BaseStep == BaseInv /\ [Next]_vars => BaseInv'
<1> SUFFICES ASSUME BaseInv, [Next]_vars PROVE BaseInv'
  OBVIOUS
<1>1. TypeOK' /\ Types2' /\ ControlInv'
  BY TypesStep, ControlStep DEF BaseInv
<1>2. \A o \in Runs : OrderInv(o)'
  BY OrderStep
<1> QED BY <1>1, <1>2 DEF BaseInv

THEOREM BaseAlways == Spec => []BaseInv
BY BaseInit, BaseStep, PTL DEF Spec

(* The live leg's state has its types, whatever the wallet, the limits and  *)
(* the number of commands (run/liveleg.py, store/orders.py).                *)
THEOREM LiveLegTypes == Spec => []TypeOK
<1>1. BaseInv => TypeOK
  BY DEF BaseInv
<1> QED BY <1>1, BaseAlways, PTL

(* A swap is sent only when every other order is final, whatever was killed *)
(* and whichever answers were lost (startup.resolve, main).                 *)
THEOREM OneUnsettled == Spec => NoSpendWhileUnsettled
<1> DEFINE A == \A o \in Runs : tx[o].state = "none" /\ tx'[o].state = "sent" =>
                  \A p \in Runs \ {o} : row[p].state \in Final \cup {"none"}
<1>1. ASSUME BaseInv, [Next]_vars PROVE [A]_vars
  <2>1. SUFFICES ASSUME Next, NEW o \in Runs, tx[o].state = "none", tx'[o].state = "sent",
                        NEW p \in Runs \ {o}
                 PROVE  row[p].state \in Final \cup {"none"}
    BY <1>1
  <2>2. TypeOK /\ Types2 /\ ControlInv
    BY <1>1 DEF BaseInv
  <2>3. CASE Send
    <3>1. /\ pc = "send" /\ run \in Runs
          /\ \/ tx' = tx
             \/ \E hash \in BOOLEAN :
                  tx' = [tx EXCEPT ![run] = [state |-> "sent", ok |-> FALSE, got |-> 0,
                                            gas |-> 0, hash |-> hash]]
      BY <2>2, <2>3, SendIs
    <3>2. o = run
      BY <2>1, <2>2, <3>1 DEF Types2
    <3>3. run \in Left
      BY <2>2, <3>1 DEF ControlInv, Left, Open
    <3>4. ~ (p \in Left)
      BY <2>2, <3>2, <3>3 DEF ControlInv
    <3>5. row[p].state \in States
      BY <2>2, OrderTypes
    <3> QED BY <3>4, <3>5 DEF Left, Open, States, Final
  <2>4. ASSUME NEW q \in Runs, Mine(q) PROVE FALSE
    <3>0. TypeOK /\ Types2
      BY <2>2
    <3>1. PICK ok \in BOOLEAN, gas \in Nat, got \in Nat :
            /\ tx[q].state = "sent"
            /\ UNCHANGED <<snap, journal, row, run, pc, opening, outcome>>
            /\ tx' = [tx EXCEPT ![q] = [tx[q] EXCEPT !.state = "shallow", !.ok = ok,
                                        !.gas = gas, !.got = got]]
            /\ tx' \in [Runs -> AnyTx] /\ wallet' \in [Asset -> Nat]
            /\ \A a \in Asset : wallet'[a] = wallet[a] + Moved(tx'[q], row[q], a)
            /\ ok = FALSE => got = 0
      BY <2>4, <3>0, MineIs, Zenon
    <3>2. tx[q] \in AnyTx /\ tx \in [Runs -> AnyTx]
      BY <2>2 DEF Types2
    <3>3. tx'[o].state = "shallow" \/ tx'[o] = tx[o]
      BY <3>1, <3>2 DEF AnyTx
    <3> QED BY <2>1, <3>3
  <2>5. ASSUME NEW q \in Runs, Deepen(q) PROVE FALSE
    <3>1. tx' = [tx EXCEPT ![q] = [tx[q] EXCEPT !.state = "deep"]]
      BY <2>2, <2>5 DEF Deepen, Types2, AnyTx
    <3>2. tx[q] \in AnyTx /\ tx \in [Runs -> AnyTx]
      BY <2>2 DEF Types2
    <3>3. tx'[o].state = "deep" \/ tx'[o] = tx[o]
      BY <3>1, <3>2 DEF AnyTx
    <3> QED BY <2>1, <3>3
  <2>6. CASE UNCHANGED tx
    BY <2>1, <2>6
  <2>7. CASE ReadOutcome
    BY <2>6, <2>7 DEF ReadOutcome
  <2>8. CASE Begin \/ Resolve \/ AskBook \/ OpenOne \/ Instruct \/ Admit \/ Record \/ Killed \/ BuildSnapshot
    BY <2>6, <2>8 DEF Begin, Resolve, AskBook, OpenOne, Instruct, Admit, Record, Killed, BuildSnapshot
  <2> QED BY <2>1, <2>3, <2>4, <2>5, <2>7, <2>8 DEF Next, Command, Chain
<1> QED BY <1>1, BaseAlways, PTL DEF Spec, NoSpendWhileUnsettled

-------------------------------------------------------------------------------
(* The ledger, the budget and the page *)

(* What they say of the real book, from the invariant above.                *)

(* What a journal says: what has settled an order, of one order or of any,  *)
(* the last of them, and what it was opened with.                           *)
Spends(e) == e.kind \in {"fill", "fee"}

SpentIn(s) == {i \in DOMAIN s : Spends(s[i])}

LastOf(s) == IF SpentIn(s) = {} THEN 0 ELSE s[Max(SpentIn(s))].order

OwnIn(s, o) == {i \in SpentIn(s) : s[i].order = o}

OpenedIn(s) == {a \in Asset : \E i \in DOMAIN s : s[i].kind = "opening" /\ s[i].asset = a}

OnceIn(s) ==
  \A i, j \in DOMAIN s : s[i].kind = "opening" /\ Spends(s[j]) => i < j

(* What the journal says of an order is final, as its row is.               *)
Agrees(e, rs) ==
  /\ Spends(e) => rs[e.order].state \in {"confirmed", "failed"}
  /\ e.kind = "fill" =>
       /\ rs[e.order].state = "confirmed" /\ rs[e.order].raw = e.raw
       /\ rs[e.order].sells = e.asset

EventInv ==
  /\ \A i \in DOMAIN journal : Agrees(journal[i], row)
  /\ \A o \in Runs : row[o].state = "confirmed" =>
       \E i \in DOMAIN journal : journal[i].kind = "fill" /\ journal[i].order = o

LedgerInv == Book \in AnyBook /\ Conserved(Book)

(* While an order is in flight the book still has what it sells, and what   *)
(* was traded is within the budget.                                         *)
FlightInv ==
  /\ pc \in {"opening", "admit"} => Book.raised = FALSE
  /\ \A o \in Runs : row[o].state \in InFlight =>
       /\ Book.raised = FALSE /\ Book.held[row[o].sells] >= row[o].raw
       /\ Traded(journal) <= Budget

(* Until the ledger tells of an order nothing has touched the wallet, or    *)
(* what did is due.                                                         *)
FirstInv ==
  SpentIn(journal) = {} /\ (\A a \in Asset : Due(a) = 0) =>
    wallet = Wallet0 /\ \A a \in Asset : snap.bal[a] \in {Unread, Wallet0[a]}

(* A command opens a book that holds nothing.                               *)
OpeningInv ==
  /\ pc = "open" => opening = Holdings
  /\ pc = "opening" /\ opening = Holdings => \A a \in Asset : Book.held[a] = 0
  /\ pc = "opening" /\ opening = <<"usdg">> =>
       Book.held["usdg"] = 0 /\ (journal = <<>> => snap.bal["eth"] = 0)

Twice(a) == IF a = "eth" THEN GasOf(tx, row) ELSE 0

(* Of what it was opened with the book holds what the wallet does, but for  *)
(* the gas it was charged twice and what the order in flight has done.      *)
WalletInv ==
  OnceIn(journal) /\ Book.raised = FALSE =>
    \A a \in Asset :
      /\ Book.held[a] + Twice(a) + Due(a) <= wallet[a]
      /\ a \in OpenedIn(journal) => Book.held[a] + Twice(a) + Due(a) = wallet[a]

(* With no gas charged twice the book never holds less ETH than the wallet. *)
GasInv ==
  GasOf(tx, row) = 0 =>
    /\ Book.raised = FALSE
    /\ journal # <<>> => Book.held["eth"] + Due("eth") >= wallet["eth"]

BudgetInv == TradedBut(LastOf(journal), journal) <= Budget

(* What an outcome says of the book is what the journal did when its order  *)
(* was the last it told of.                                                 *)
LeftBy(s, o, a) == Walk(SubSeq(s, 1, Max(OwnIn(s, o)))).held[a]

PageInv ==
  /\ pc = "record" /\ row[run].state = "confirmed" => Max(OwnIn(journal, run)) = Len(journal)
  /\ \A o \in Runs : outcome[o].state = "confirmed" =>
       /\ row[o].state = "confirmed"
       /\ \A a \in Asset : outcome[o].book.positions[a].raw = LeftBy(journal, o, a)

LegInv ==
  /\ BaseInv /\ EventInv /\ LedgerInv /\ FlightInv /\ FirstInv /\ OpeningInv
  /\ WalletInv /\ GasInv /\ BudgetInv /\ PageInv

-------------------------------------------------------------------------------
(* One event more *)

LEMMA OneMore ==
  ASSUME NEW s \in Seq(AnyEvent), NEW e \in AnyEvent
  PROVE  /\ Append(s, e) \in Seq(AnyEvent) /\ Len(s) \in Nat
         /\ DOMAIN s = 1..Len(s) /\ DOMAIN Append(s, e) = 1..(Len(s) + 1)
         /\ \A i \in 1..Len(s) : Append(s, e)[i] = s[i]
         /\ Append(s, e)[Len(s) + 1] = e
         /\ Len(s) + 1 \notin DOMAIN s
OBVIOUS

LEMMA SpentMore ==
  ASSUME NEW s \in Seq(AnyEvent), NEW e \in AnyEvent
  PROVE  SpentIn(Append(s, e)) = SpentIn(s) \cup IF Spends(e) THEN {Len(s) + 1} ELSE {}
BY OneMore DEF SpentIn

LEMMA OwnMore ==
  ASSUME NEW s \in Seq(AnyEvent), NEW e \in AnyEvent, NEW o
  PROVE  OwnIn(Append(s, e), o)
           = OwnIn(s, o) \cup IF Spends(e) /\ e.order = o THEN {Len(s) + 1} ELSE {}
BY OneMore DEF OwnIn, SpentIn

LEMMA OpenedMore ==
  ASSUME NEW s \in Seq(AnyEvent), NEW e \in AnyEvent, NEW a
  PROVE  a \in OpenedIn(Append(s, e))
           <=> a \in OpenedIn(s) \/ (a \in Asset /\ e.kind = "opening" /\ e.asset = a)
<1>1. CASE a \in OpenedIn(Append(s, e))
  <2>1. PICK i \in 1..(Len(s) + 1) : Append(s, e)[i].kind = "opening" /\ Append(s, e)[i].asset = a
    BY <1>1, OneMore DEF OpenedIn
  <2>2. CASE i = Len(s) + 1
    BY <1>1, <2>1, <2>2, OneMore DEF OpenedIn
  <2>3. CASE i # Len(s) + 1
    <3>1. i \in 1..Len(s)
      BY <2>3
    <3>2. i \in DOMAIN s /\ s[i].kind = "opening" /\ s[i].asset = a
      BY <2>1, <3>1, OneMore
    <3> QED BY <1>1, <3>2 DEF OpenedIn
  <2> QED BY <2>2, <2>3
<1>2. CASE a \in OpenedIn(s)
  <2>1. PICK i \in 1..Len(s) : s[i].kind = "opening" /\ s[i].asset = a
    BY <1>2, OneMore DEF OpenedIn
  <2>2. i \in DOMAIN Append(s, e) /\ Append(s, e)[i] = s[i]
    BY <2>1, OneMore
  <2> QED BY <1>2, <2>1, <2>2 DEF OpenedIn
<1>3. CASE a \in Asset /\ e.kind = "opening" /\ e.asset = a
  <2>1. Len(s) + 1 \in DOMAIN Append(s, e) /\ Append(s, e)[Len(s) + 1] = e
    BY OneMore
  <2> QED BY <1>3, <2>1 DEF OpenedIn
<1> QED BY <1>1, <1>2, <1>3

(* Opened once with one event more, and it was opened once before it; and   *)
(* an opening comes before anything that was spent.                         *)
LEMMA OnceMore ==
  ASSUME NEW s \in Seq(AnyEvent), NEW e \in AnyEvent, OnceIn(Append(s, e))
  PROVE  OnceIn(s) /\ (e.kind = "opening" => SpentIn(s) = {})
<1>1. ASSUME NEW i \in DOMAIN s, NEW j \in DOMAIN s, s[i].kind = "opening", Spends(s[j])
      PROVE  i < j
  <2>1. /\ i \in DOMAIN Append(s, e) /\ j \in DOMAIN Append(s, e)
        /\ Append(s, e)[i] = s[i] /\ Append(s, e)[j] = s[j]
    BY OneMore
  <2> QED BY <1>1, <2>1 DEF OnceIn
<1>2. ASSUME e.kind = "opening", NEW j \in SpentIn(s) PROVE FALSE
  <2>1. j \in 1..Len(s) /\ Spends(s[j])
    BY OneMore DEF SpentIn
  <2>2. /\ j \in DOMAIN Append(s, e) /\ Len(s) + 1 \in DOMAIN Append(s, e)
        /\ Append(s, e)[j] = s[j] /\ Append(s, e)[Len(s) + 1] = e
    BY <2>1, OneMore
  <2>3. Len(s) + 1 < j
    BY <1>2, <2>1, <2>2 DEF OnceIn
  <2> QED BY <2>1, <2>3, OneMore
<1> QED BY <1>1, <1>2 DEF OnceIn

LEMMA GreatestOf ==
  ASSUME NEW n \in Nat, NEW S \in SUBSET (1..n), S # {}
  PROVE  Max(S) \in S /\ \A x \in S : x <= Max(S)
<1>1. Books!Max(S) \in S /\ \A x \in S : x <= Books!Max(S)
  BY Books!MaxOf
<1>2. Max(S) = Books!Max(S)
  BY DEF Max, Books!Max
<1> QED BY <1>1, <1>2

LEMMA GreatestIs ==
  ASSUME NEW n \in Nat, NEW S \in SUBSET (1..(n + 1)), n + 1 \in S
  PROVE  Max(S) = n + 1
<1>1. Books!Max(S) = n + 1
  BY Books!MaxIs
<1>2. Max(S) = Books!Max(S)
  BY DEF Max, Books!Max
<1> QED BY <1>1, <1>2

LEMMA LastMore ==
  ASSUME NEW s \in Seq(AnyEvent), NEW e \in AnyEvent
  PROVE  LastOf(Append(s, e)) = IF Spends(e) THEN e.order ELSE LastOf(s)
<1>1. SpentIn(s) \in SUBSET (1..Len(s)) /\ Len(s) \in Nat
  BY OneMore DEF SpentIn
<1>2. CASE Spends(e)
  <2>1. Max(SpentIn(Append(s, e))) = Len(s) + 1
    <3>1. /\ SpentIn(Append(s, e)) \in SUBSET (1..(Len(s) + 1))
          /\ Len(s) + 1 \in SpentIn(Append(s, e))
      BY <1>2, OneMore DEF SpentIn
    <3> QED BY <1>1, <3>1, GreatestIs
  <2>2. SpentIn(Append(s, e)) # {}
    BY <1>2, SpentMore
  <2> QED BY <1>2, <2>1, <2>2, OneMore DEF LastOf
<1>3. CASE ~ Spends(e)
  <2>1. SpentIn(Append(s, e)) = SpentIn(s)
    BY <1>3, SpentMore
  <2>2. SpentIn(s) # {} => Max(SpentIn(s)) \in 1..Len(s)
    BY <1>1, GreatestOf
  <2> QED BY <1>3, <2>1, <2>2, OneMore DEF LastOf
<1> QED BY <1>2, <1>3

(* What an order left in the book, once the journal tells of others.        *)
LEMMA LeftMore ==
  ASSUME NEW s \in Seq(AnyEvent), NEW e \in AnyEvent, NEW o, NEW a,
         OwnIn(s, o) # {}, ~ (Spends(e) /\ e.order = o)
  PROVE  LeftBy(Append(s, e), o, a) = LeftBy(s, o, a)
<1>1. OwnIn(Append(s, e), o) = OwnIn(s, o)
  <2>1. (IF Spends(e) /\ e.order = o THEN {Len(s) + 1} ELSE {}) = {}
    OBVIOUS
  <2>2. OwnIn(Append(s, e), o)
          = OwnIn(s, o) \cup IF Spends(e) /\ e.order = o THEN {Len(s) + 1} ELSE {}
    BY OwnMore
  <2> QED BY <2>1, <2>2
<1>2. OwnIn(s, o) \in SUBSET (1..Len(s)) /\ Len(s) \in Nat
  BY OneMore DEF OwnIn, SpentIn
<1>3. Max(OwnIn(s, o)) \in 1..Len(s) /\ 1 \in 1..Len(s)
  <2>1. Max(OwnIn(s, o)) \in OwnIn(s, o)
    BY <1>2, GreatestOf
  <2> QED BY <1>2, <2>1
<1>4. SubSeq(Append(s, e), 1, Max(OwnIn(s, o))) = SubSeq(s, 1, Max(OwnIn(s, o)))
  <2>1. Append(s, e) = s \o <<e>> /\ <<e>> \in Seq(AnyEvent)
    BY AppendIsConcat
  <2> QED BY <1>3, <2>1, SubSeqOfConcat1
<1> QED BY <1>1, <1>4 DEF LeftBy

(* The journal after its last event of an order.                            *)
LEMMA LeftLast ==
  ASSUME NEW s \in Seq(AnyEvent), NEW e \in AnyEvent, Spends(e), NEW a
  PROVE  Max(OwnIn(Append(s, e), e.order)) = Len(Append(s, e))
<1>1. /\ OwnIn(Append(s, e), e.order) \in SUBSET (1..(Len(s) + 1))
      /\ Len(s) + 1 \in OwnIn(Append(s, e), e.order) /\ Len(s) \in Nat
  BY OneMore DEF OwnIn, SpentIn
<1>2. Max(OwnIn(Append(s, e), e.order)) = Len(s) + 1
  BY <1>1, GreatestIs
<1> QED BY <1>2

-------------------------------------------------------------------------------
(* What a step does to the journal *)

LEMMA BaseIs ==
  ASSUME BaseInv
  PROVE  /\ TypeOK /\ Types2 /\ ControlInv /\ \A o \in Runs : OrderInv(o)
         /\ journal \in Seq(AnyEvent)
BY DEF BaseInv, Types2

(* A row that is left, written or moved before it is in flight.             *)
Early(o) ==
  \/ row'[o] = row[o]
  \/ row[o].state = "none" /\ row'[o].state = "prepared"
  \/ row[o].state = "prepared" /\ row'[o].state \in {"refused", "submitted"}

Quiet == journal' = journal /\ \A o \in Runs : Early(o)

Opens(a) ==
  /\ pc = "opening" /\ pc' = "opening" /\ UNCHANGED <<wallet, tx, snap, row, run, outcome>>
  /\ snap.bal[a] # Unread /\ snap.bal[a] # 0
  /\ \/ opening = Holdings /\ a = "eth" /\ opening' = <<"usdg">>
     \/ opening = <<"usdg">> /\ a = "usdg" /\ opening' = <<>>
  /\ journal' = Append(journal, Opening(a, snap.bal[a], snap.mark[a]))

LEMMA StepKinds ==
  ASSUME BaseInv, [Next]_vars
  PROVE  \/ Quiet
         \/ \E a \in Asset : Opens(a)
         \/ \E o \in Left : \E out : Settles(o, out)
<1>1. TypeOK /\ Types2 /\ ControlInv /\ \A o \in Runs : OrderInv(o)
  BY DEF BaseInv
<1>2. CASE UNCHANGED <<journal, row>>
  BY <1>2 DEF Quiet, Early
<1>3. CASE Resolve
  <2>1. ASSUME NEW o \in Left, row[o].state = "prepared", Move(o, "refused"), UNCHANGED journal
        PROVE  Quiet
    <3>1. o \in Runs /\ "refused" \in States
      BY DEF Left, States
    <3>2. row'[o].state = "refused" /\ \A p \in Runs \ {o} : row'[p] = row[p]
      BY <1>1, <2>1, <3>1, MoveIs
    <3> QED BY <2>1, <3>2 DEF Quiet, Early
  <2> QED BY <1>1, <1>2, <1>3, <2>1, ResolveIs
<1>4. CASE OpenOne
  <2>1. pc = "opening" /\ UNCHANGED <<wallet, tx, snap, row, run, outcome>>
    BY <1>1, <1>4, OpenOneIs
  <2> QED BY <1>1, <1>2, <1>4, <2>1, OpenOneIs DEF Opens
<1>5. CASE Instruct
  <2>1. UNCHANGED journal /\ run \in Runs /\ row[run].state = "none"
    BY <1>1, <1>5, RunOf DEF Instruct, ControlInv
  <2>2. ASSUME NEW a \in Asset, NEW raw \in Sizes,
               row' = [row EXCEPT ![run] = [NoRow EXCEPT !.state = "prepared",
                                              !.sells = a, !.raw = raw]]
        PROVE  Quiet
    <3>1. row'[run].state = "prepared" /\ \A p \in Runs \ {run} : row'[p] = row[p]
      BY <1>1, <2>1, <2>2, NewRowIs
    <3> QED BY <2>1, <3>1 DEF Quiet, Early
  <2> QED BY <1>2, <1>5, <2>1, <2>2 DEF Instruct
<1>6. CASE Admit
  <2>1. UNCHANGED journal /\ run \in Runs /\ row[run].state = "prepared"
    BY <1>1, <1>6, RunOf DEF Admit, ControlInv
  <2>2. PICK to \in {"refused", "submitted"} : Move(run, to)
    BY <1>6 DEF Admit
  <2>3. row'[run].state = to /\ \A p \in Runs \ {run} : row'[p] = row[p]
    BY <1>1, <2>1, <2>2, MoveIs DEF States
  <2> QED BY <2>1, <2>3 DEF Quiet, Early
<1>7. CASE ReadOutcome
  <2>1. PICK out : Settles(run, out)
    BY <1>1, <1>7, ReadIs
  <2>2. run \in Left
    BY <2>1 DEF Settles
  <2> QED BY <2>1, <2>2
<1>8. CASE Send \/ Begin \/ AskBook \/ Record \/ Killed \/ BuildSnapshot \/ UNCHANGED vars
  BY <1>2, <1>8 DEF Send, Begin, AskBook, Record, Killed, BuildSnapshot, vars
<1>9. ASSUME NEW o \in Runs, Mine(o) \/ Deepen(o) PROVE Quiet
  <2>1. UNCHANGED <<journal, row>>
    BY <1>9 DEF Mine, Deepen
  <2> QED BY <2>1 DEF Quiet, Early
<1> QED BY <1>3, <1>4, <1>5, <1>6, <1>7, <1>8, <1>9 DEF Next, Command, Chain

(* The events an order's outcome appends.                                   *)
FeeOf(o) == Fee(o, tx[o].gas, snap.mark)

LEMMA FeeOfIs ==
  ASSUME BaseInv, NEW o \in Runs
  PROVE  /\ FeeOf(o) \in AnyEvent /\ FeeOf(o).kind = "fee" /\ FeeOf(o).order = o
         /\ FeeOf(o).raw = tx[o].gas /\ FeeOf(o).asset = "eth"
         /\ FeeEvents(o) = IF tx[o].gas = 0 THEN <<>> ELSE <<FeeOf(o)>>
<1>1. FeeOf(o) \in AnyEvent /\ FeeEvents(o) = IF tx[o].gas = 0 THEN <<>> ELSE <<FeeOf(o)>>
  BY BaseIs, FeeIs DEF FeeOf
<1>2. FeeOf(o).kind = "fee" /\ FeeOf(o).order = o /\ FeeOf(o).raw = tx[o].gas /\ FeeOf(o).asset = "eth"
  BY DEF FeeOf, Fee
<1> QED BY <1>1, <1>2

(* What is appended for an order, as its outcome is.                        *)
Appends(o, out) ==
  \/ out.state = "unknown" /\ journal' = journal
  \/ /\ out.state = "failed" /\ tx[o].state = "deep" /\ tx[o].ok = FALSE
     /\ \/ tx[o].gas = 0 /\ journal' = journal
        \/ tx[o].gas # 0 /\ journal' = Append(journal, FeeOf(o))
  \/ /\ out.state = "confirmed" /\ tx[o].state = "deep" /\ tx[o].ok = TRUE
     /\ Received(o) \in Nat
     /\ \/ tx[o].gas = 0 /\ journal' = Append(journal, LiveFill(o))
        \/ tx[o].gas # 0 /\ journal' = Append(Append(journal, LiveFill(o)), FeeOf(o))

LEMMA SettleAppends ==
  ASSUME BaseInv, NEW o, NEW out, Settles(o, out)
  PROVE  Appends(o, out)
<1>1. Types2 /\ journal \in Seq(AnyEvent) /\ o \in Runs /\ Found(o, out)
  BY BaseIs DEF Settles, Left
<1>2. journal' = journal \o out.events
  BY BaseIs, SettleIs
<1>3. FeeEvents(o) = IF tx[o].gas = 0 THEN <<>> ELSE <<FeeOf(o)>>
  BY <1>1, FeeOfIs
<1>4. PICK fee \in AnyEvent : fee = FeeOf(o)
  BY <1>1, FeeOfIs
<1>5. CASE out.state = "unknown"
  <2>1. journal' = journal
    BY <1>1, <1>2, <1>5, OutcomeIs, ConcatEmptySeq
  <2> QED BY <1>5, <2>1 DEF Appends
<1>6. CASE out.state = "failed"
  <2>1. tx[o].state = "deep" /\ tx[o].ok = FALSE /\ out.events = FeeEvents(o)
    BY <1>1, <1>6, OutcomeIs
  <2>2. journal \o <<>> = journal /\ journal \o <<fee>> = Append(journal, fee)
    BY <1>1, Kept
  <2>3. \/ tx[o].gas = 0 /\ journal' = journal
        \/ tx[o].gas # 0 /\ journal' = Append(journal, FeeOf(o))
    BY <1>2, <1>3, <1>4, <2>1, <2>2
  <2> QED BY <1>6, <2>1, <2>3 DEF Appends
<1>7. CASE out.state = "confirmed"
  <2>1. /\ tx[o].state = "deep" /\ tx[o].ok = TRUE /\ Received(o) \in Nat
        /\ out.events = <<LiveFill(o)>> \o FeeEvents(o)
    BY <1>1, <1>7, OutcomeIs
  <2>2. PICK fill \in AnyEvent : fill = LiveFill(o)
    BY <1>1, <2>1, FillIs
  <2>3. /\ <<fill>> \o <<>> = <<fill>> /\ journal \o <<fill>> = Append(journal, fill)
        /\ journal \o (<<fill>> \o <<fee>>) = Append(Append(journal, fill), fee)
    BY <1>1, Kept
  <2>4. \/ tx[o].gas = 0 /\ journal' = Append(journal, LiveFill(o))
        \/ tx[o].gas # 0 /\ journal' = Append(Append(journal, LiveFill(o)), FeeOf(o))
    BY <1>2, <1>3, <1>4, <2>1, <2>2, <2>3
  <2> QED BY <1>7, <2>1, <2>4 DEF Appends
<1>8. out.state \in {"unknown", "confirmed", "failed"}
  BY <1>1, OutcomeIs
<1> QED BY <1>5, <1>6, <1>7, <1>8

-------------------------------------------------------------------------------
(* The book *)

(* Any event the journal takes leaves a book, and its basis conserved.      *)
LEMMA Walked ==
  ASSUME NEW s \in Seq(AnyEvent), NEW e \in AnyEvent, Walk(s) \in AnyBook, Conserved(Walk(s))
  PROVE  /\ Append(s, e) \in Seq(AnyEvent) /\ Walk(Append(s, e)) = Apply(Walk(s), e)
         /\ Walk(Append(s, e)) \in AnyBook /\ Conserved(Walk(Append(s, e)))
<1>1. Append(s, e) \in Seq(AnyEvent) /\ Walk(Append(s, e)) = Apply(Walk(s), e)
  BY WalkStep
<1>2. Apply(Walk(s), e) \in AnyBook /\ Conserved(Apply(Walk(s), e))
  BY Applied
<1> QED BY <1>1, <1>2

LEMMA LedgerStep == BaseInv /\ LedgerInv /\ [Next]_vars => LedgerInv'
<1> SUFFICES ASSUME BaseInv, LedgerInv, [Next]_vars
             PROVE  Walk(journal') \in AnyBook /\ Conserved(Walk(journal'))
  BY DEF LedgerInv, Book
<1>1. journal \in Seq(AnyEvent) /\ Walk(journal) \in AnyBook /\ Conserved(Walk(journal))
  BY BaseIs DEF LedgerInv, Book
<1>2. CASE journal' = journal
  BY <1>1, <1>2
<1>3. ASSUME NEW e \in AnyEvent, journal' = Append(journal, e)
      PROVE  Walk(journal') \in AnyBook /\ Conserved(Walk(journal'))
  BY <1>1, <1>3, Walked
<1>4. ASSUME NEW e \in AnyEvent, NEW f \in AnyEvent, journal' = Append(Append(journal, e), f)
      PROVE  Walk(journal') \in AnyBook /\ Conserved(Walk(journal'))
  <2>1. /\ Append(journal, e) \in Seq(AnyEvent)
        /\ Walk(Append(journal, e)) \in AnyBook /\ Conserved(Walk(Append(journal, e)))
    BY <1>1, Walked
  <2> QED BY <1>4, <2>1, Walked
<1>5. ASSUME NEW a \in Asset, Opens(a)
      PROVE  Walk(journal') \in AnyBook /\ Conserved(Walk(journal'))
  <2>1. Opening(a, snap.bal[a], snap.mark[a]) \in AnyEvent
    BY <1>5, BaseIs, OpeningIs DEF Opens
  <2> QED BY <1>3, <1>5, <2>1 DEF Opens
<1>6. ASSUME NEW o \in Left, NEW out, Settles(o, out)
      PROVE  Walk(journal') \in AnyBook /\ Conserved(Walk(journal'))
  <2>1. o \in Runs /\ Types2
    BY BaseIs DEF Left
  <2>2. FeeOf(o) \in AnyEvent /\ (Received(o) \in Nat => LiveFill(o) \in AnyEvent)
    BY <2>1, FeeOfIs, FillIs
  <2>3. Appends(o, out)
    BY <1>6, SettleAppends
  <2>4. CASE out.state = "confirmed"
    BY <1>3, <1>4, <2>2, <2>3, <2>4 DEF Appends
  <2>5. CASE out.state # "confirmed"
    BY <1>2, <1>3, <2>2, <2>3, <2>5 DEF Appends
  <2> QED BY <2>4, <2>5
<1> QED BY <1>2, <1>5, <1>6, StepKinds DEF Quiet

LEMMA LedgerInit == Init => LedgerInv
<1> SUFFICES ASSUME Init PROVE LedgerInv
  OBVIOUS
<1>1. Book = Empty
  BY WalkStep DEF Init, Book
<1>2. Empty \in AnyBook /\ Conserved(Empty)
  BY DEF Empty, AnyBook, Conserved, Asset
<1> QED BY <1>1, <1>2 DEF LedgerInv

LEMMA LedgerAlways == Spec => []LedgerInv
BY BaseAlways, LedgerInit, LedgerStep, PTL DEF Spec

(* What the real book holds cost what was opened and realised, less its     *)
(* costs, however the shares of a sale were rounded (ledger.as_document).   *)
THEOREM BasisAlwaysConserved == Spec => []BasisConserved
<1>1. LedgerInv => BasisConserved
  <2>1. ASSUME LedgerInv, ~ Book.raised
        PROVE  Book.basis["eth"] + Book.basis["usdg"]
                 = Book.opened + Book.realised - Book.costs
    <3>1. Book.raised = FALSE
      BY <2>1 DEF LedgerInv, AnyBook
    <3> QED BY <2>1, <3>1 DEF LedgerInv, Conserved
  <2> QED BY <2>1 DEF BasisConserved
<1> QED BY <1>1, LedgerAlways, PTL

-------------------------------------------------------------------------------
(* The events and the rows *)

LEMMA SpentIs ==
  ASSUME BaseInv, EventInv, NEW i \in DOMAIN journal, Spends(journal[i])
  PROVE  /\ journal[i] \in AnyEvent /\ journal[i].order \in Runs
         /\ row[journal[i].order].state \in {"confirmed", "failed"}
         /\ \A o \in Left : journal[i].order # o
<1>1. journal[i] \in AnyEvent
  BY BaseIs
<1>2. journal[i].order \in Runs
  BY <1>1, EventIs DEF Spends
<1>3. row[journal[i].order].state \in {"confirmed", "failed"}
  BY DEF EventInv, Agrees
<1> QED BY <1>1, <1>2, <1>3 DEF Left, Open

LEMMA FinalStays ==
  ASSUME BaseInv, [Next]_vars, NEW p \in Runs, row[p].state \in {"confirmed", "failed"}
  PROVE  row'[p] = row[p]
<1>1. CASE Quiet
  BY <1>1 DEF Quiet, Early
<1>2. ASSUME NEW a \in Asset, Opens(a) PROVE row'[p] = row[p]
  BY <1>2 DEF Opens
<1>3. ASSUME NEW o \in Left, NEW out, Settles(o, out) PROVE row'[p] = row[p]
  <2>1. \A q \in Runs \ {o} : row'[q] = row[q]
    BY <1>3, BaseIs, SettledRow
  <2>2. p # o
    BY DEF Left, Open
  <2> QED BY <2>1, <2>2
<1> QED BY <1>1, <1>2, <1>3, StepKinds

LEMMA EventStep == BaseInv /\ EventInv /\ [Next]_vars => EventInv'
<1> SUFFICES ASSUME BaseInv, EventInv, [Next]_vars PROVE EventInv'
  OBVIOUS
<1>1. journal \in Seq(AnyEvent) /\ Types2
  BY BaseIs
<1>2. ASSUME NEW i \in DOMAIN journal PROVE Agrees(journal[i], row')
  <2>1. Agrees(journal[i], row)
    BY DEF EventInv
  <2>2. CASE Spends(journal[i])
    <3>1. row'[journal[i].order] = row[journal[i].order]
      BY <2>2, SpentIs, FinalStays
    <3> QED BY <2>1, <3>1 DEF Agrees
  <2>3. CASE ~ Spends(journal[i])
    BY <2>3 DEF Agrees, Spends
  <2> QED BY <2>2, <2>3
<1>3. ASSUME NEW o \in Runs, row[o].state = "confirmed"
      PROVE  \E i \in DOMAIN journal : journal[i].kind = "fill" /\ journal[i].order = o
  BY <1>3 DEF EventInv
(* Nothing appended, and no order confirmed.                                *)
<1>4. ASSUME journal' = journal, \A o \in Runs : row'[o].state = "confirmed" => row[o].state = "confirmed"
      PROVE  EventInv'
  BY <1>2, <1>3, <1>4 DEF EventInv
(* One event appended, which agrees.                                        *)
<1>5. ASSUME NEW s \in Seq(AnyEvent), NEW e \in AnyEvent, NEW rs,
             \A i \in DOMAIN s : Agrees(s[i], rs), Agrees(e, rs)
      PROVE  \A i \in DOMAIN Append(s, e) : Agrees(Append(s, e)[i], rs)
  <2>1. ASSUME NEW i \in 1..(Len(s) + 1) PROVE Agrees(Append(s, e)[i], rs)
    <3>1. CASE i = Len(s) + 1
      BY <1>5, <3>1, OneMore
    <3>2. CASE i # Len(s) + 1
      <4>1. i \in 1..Len(s)
        BY <3>2
      <4>2. Append(s, e)[i] = s[i] /\ i \in DOMAIN s
        BY <4>1, OneMore
      <4> QED BY <1>5, <4>2
    <3> QED BY <3>1, <3>2
  <2> QED BY <2>1, OneMore
<1>6. ASSUME NEW s \in Seq(AnyEvent), NEW e \in AnyEvent, NEW o,
             \E i \in DOMAIN s : s[i].kind = "fill" /\ s[i].order = o
      PROVE  \E i \in DOMAIN Append(s, e) : Append(s, e)[i].kind = "fill" /\ Append(s, e)[i].order = o
  <2>1. PICK i \in 1..Len(s) : s[i].kind = "fill" /\ s[i].order = o
    BY <1>6, OneMore
  <2>2. i \in DOMAIN Append(s, e) /\ Append(s, e)[i] = s[i]
    BY <2>1, OneMore
  <2> QED BY <2>1, <2>2
<1>7. CASE Quiet
  <2>1. \A o \in Runs : row'[o].state = "confirmed" => row[o].state = "confirmed"
    BY <1>7 DEF Quiet, Early
  <2> QED BY <1>4, <1>7, <2>1 DEF Quiet
<1>8. ASSUME NEW a \in Asset, Opens(a) PROVE EventInv'
  <2>1. PICK e \in AnyEvent : e = Opening(a, snap.bal[a], snap.mark[a])
    BY <1>1, <1>8, OpeningIs DEF Opens
  <2>2. journal' = Append(journal, e) /\ row' = row
    BY <1>8, <2>1 DEF Opens
  <2>3. Agrees(e, row')
    BY <2>1 DEF Agrees, Spends, Opening
  <2>4. \A i \in DOMAIN Append(journal, e) : Agrees(Append(journal, e)[i], row')
    BY <1>1, <1>2, <1>5, <2>3
  <2>5. ASSUME NEW o \in Runs, row'[o].state = "confirmed"
        PROVE  \E i \in DOMAIN Append(journal, e) :
                 Append(journal, e)[i].kind = "fill" /\ Append(journal, e)[i].order = o
    BY <1>1, <1>3, <1>6, <2>2, <2>5
  <2> QED BY <2>2, <2>4, <2>5 DEF EventInv
<1>9. ASSUME NEW o \in Left, NEW out, Settles(o, out) PROVE EventInv'
  <2>1. /\ o \in Runs /\ row'[o].state = out.state /\ row'[o].sells = row[o].sells
        /\ row'[o].raw = row[o].raw /\ \A p \in Runs \ {o} : row'[p] = row[p]
    BY <1>9, BaseIs, SettledRow
  <2>2. Appends(o, out)
    BY <1>9, SettleAppends
  <2>3. FeeOf(o) \in AnyEvent /\ FeeOf(o).kind = "fee" /\ FeeOf(o).order = o
    BY <2>1, FeeOfIs
  <2>4. CASE journal' = journal /\ out.state # "confirmed"
    BY <1>4, <2>1, <2>4
  <2>5. CASE out.state = "failed" /\ journal' = Append(journal, FeeOf(o))
    <3>1. Agrees(FeeOf(o), row')
      BY <2>1, <2>3, <2>5 DEF Agrees
    <3>2. \A i \in DOMAIN Append(journal, FeeOf(o)) : Agrees(Append(journal, FeeOf(o))[i], row')
      BY <1>1, <1>2, <1>5, <2>3, <3>1
    <3>3. ASSUME NEW p \in Runs, row'[p].state = "confirmed"
          PROVE  \E i \in DOMAIN Append(journal, FeeOf(o)) :
                   Append(journal, FeeOf(o))[i].kind = "fill" /\ Append(journal, FeeOf(o))[i].order = p
      BY <1>1, <1>3, <1>6, <2>1, <2>3, <2>5, <3>3
    <3> QED BY <2>5, <3>2, <3>3 DEF EventInv
  <2>6. CASE out.state = "confirmed"
    <3>1. Received(o) \in Nat
      BY <2>2, <2>6 DEF Appends
    <3>2. PICK fill \in AnyEvent :
            /\ fill = LiveFill(o) /\ fill.kind = "fill" /\ fill.order = o
            /\ fill.asset = row[o].sells /\ fill.raw = row[o].raw
      BY <1>1, <2>1, <3>1, FillIs
    <3>3. PICK fee \in AnyEvent : fee = FeeOf(o)
      BY <2>3
    <3>4. Agrees(fill, row') /\ Agrees(fee, row')
      BY <2>1, <2>3, <2>6, <3>2, <3>3 DEF Agrees
    <3> DEFINE j == Append(journal, fill)
    <3>5. j \in Seq(AnyEvent) /\ \A i \in DOMAIN j : Agrees(j[i], row')
      BY <1>1, <1>2, <1>5, <3>2, <3>4
    <3>6. ASSUME NEW p \in Runs, row'[p].state = "confirmed"
          PROVE  \E i \in DOMAIN j : j[i].kind = "fill" /\ j[i].order = p
      <4>1. CASE p = o
        <5>1. Len(journal) + 1 \in DOMAIN j /\ j[Len(journal) + 1] = fill
          BY <1>1, <3>2, OneMore
        <5> QED BY <3>2, <4>1, <5>1
      <4>2. CASE p # o
        BY <1>1, <1>3, <1>6, <2>1, <3>2, <3>6, <4>2
      <4> QED BY <4>1, <4>2
    <3>7. CASE journal' = Append(journal, LiveFill(o))
      BY <3>2, <3>5, <3>6, <3>7 DEF EventInv
    <3>8. CASE journal' = Append(Append(journal, LiveFill(o)), FeeOf(o))
      <4>1. journal' = Append(j, fee)
        BY <3>2, <3>3, <3>8
      <4> HIDE DEF j
      <4>2. \A i \in DOMAIN Append(j, fee) : Agrees(Append(j, fee)[i], row')
        BY <1>5, <3>4, <3>5
      <4>3. ASSUME NEW p \in Runs, row'[p].state = "confirmed"
            PROVE  \E i \in DOMAIN Append(j, fee) :
                     Append(j, fee)[i].kind = "fill" /\ Append(j, fee)[i].order = p
        BY <1>6, <3>5, <3>6, <4>3
      <4> QED BY <4>1, <4>2, <4>3 DEF EventInv
    <3> QED BY <2>2, <2>6, <3>7, <3>8 DEF Appends
  <2> QED BY <2>2, <2>4, <2>5, <2>6 DEF Appends
<1> QED BY <1>7, <1>8, <1>9, StepKinds

-------------------------------------------------------------------------------
(* What is in flight *)

LEMMA InFlightLeft ==
  ASSUME NEW o \in Runs, row[o].state \in InFlight
  PROVE  o \in Left
BY DEF Left, InFlight, Open

(* An order goes on only from the chokepoint.                               *)
LEMMA SubmittedBy ==
  ASSUME BaseInv, [Next]_vars, NEW o \in Runs,
         row[o].state = "prepared", row'[o].state = "submitted"
  PROVE  /\ pc = "admit" /\ o = run /\ Admits(o) /\ journal' = journal
         /\ row'[o].sells = row[o].sells /\ row'[o].raw = row[o].raw
<1>1. TypeOK /\ Types2 /\ ControlInv
  BY BaseIs
<1>2. ASSUME NEW p \in Left, NEW out, Settles(p, out) PROVE FALSE
  <2>1. /\ row'[p].state \in {"unknown", "confirmed", "failed"}
        /\ \A q \in Runs \ {p} : row'[q] = row[q]
    BY <1>1, <1>2, SettledRow
  <2> QED BY <2>1
<1>3. CASE Admit
  <2>1. run \in Runs /\ pc = "admit" /\ journal' = journal
    BY <1>1, <1>3, RunOf DEF Admit
  <2>2. \/ Move(run, "refused")
        \/ Move(run, "submitted") /\ Admits(run)
    BY <1>3 DEF Admit
  <2>3. CASE Move(run, "refused")
    <3>1. row'[run].state = "refused" /\ \A p \in Runs \ {run} : row'[p] = row[p]
      BY <1>1, <2>1, <2>3, MoveIs DEF States
    <3> QED BY <3>1
  <2>4. CASE Move(run, "submitted") /\ Admits(run)
    <3>1. /\ row'[run].sells = row[run].sells /\ row'[run].raw = row[run].raw
          /\ \A p \in Runs \ {run} : row'[p] = row[p]
      BY <1>1, <2>1, <2>4, MoveIs DEF States
    <3> QED BY <2>1, <2>4, <3>1
  <2> QED BY <2>2, <2>3, <2>4
<1>4. CASE Resolve
  <2>1. ASSUME NEW p \in Left, Move(p, "refused") PROVE FALSE
    <3>1. p \in Runs
      BY DEF Left
    <3>2. row'[p].state = "refused" /\ \A q \in Runs \ {p} : row'[q] = row[q]
      BY <1>1, <2>1, <3>1, MoveIs DEF States
    <3> QED BY <3>2
  <2> QED BY <1>1, <1>2, <1>4, <2>1, ResolveIs
<1>5. CASE Instruct
  <2>1. run \in Runs
    BY <1>1, <1>5, RunOf DEF Instruct
  <2>2. ASSUME NEW a \in Asset, NEW raw \in Sizes,
               row' = [row EXCEPT ![run] = [NoRow EXCEPT !.state = "prepared",
                                              !.sells = a, !.raw = raw]]
        PROVE  FALSE
    <3>1. row'[run].state = "prepared" /\ \A p \in Runs \ {run} : row'[p] = row[p]
      BY <1>1, <2>1, <2>2, NewRowIs
    <3> QED BY <3>1
  <2> QED BY <1>5, <2>2 DEF Instruct
<1>6. CASE ReadOutcome
  <2>1. PICK out : Settles(run, out)
    BY <1>1, <1>6, ReadIs
  <2> QED BY <1>2, <2>1 DEF Settles
<1>7. row' # row
  OBVIOUS
<1>8. CASE Begin \/ AskBook \/ OpenOne \/ Send \/ Record \/ Killed \/ BuildSnapshot \/ UNCHANGED vars
  BY <1>7, <1>8 DEF Begin, AskBook, OpenOne, Send, Record, Killed, BuildSnapshot, vars
<1>9. ASSUME NEW p \in Runs, Mine(p) \/ Deepen(p) PROVE FALSE
  BY <1>7, <1>9 DEF Mine, Deepen
<1> QED BY <1>3, <1>4, <1>5, <1>6, <1>8, <1>9 DEF Next, Command, Chain

(* A command comes to its instruction with a book it could read.            *)
LEMMA OpeningBy ==
  ASSUME BaseInv, [Next]_vars, pc' \in {"opening", "admit"}
  PROVE  \/ AskBook /\ journal' = journal
         \/ pc \in {"opening", "admit"} /\ (journal' = journal \/ \E a \in Asset : Opens(a))
<1>1. TypeOK /\ Types2 /\ ControlInv
  BY BaseIs
<1>2. CASE AskBook
  BY <1>2 DEF AskBook
<1>3. CASE OpenOne
  <2>1. pc = "opening" /\ UNCHANGED <<wallet, tx, snap, row, run, outcome>>
    BY <1>1, <1>3, OpenOneIs
  <2> QED BY <1>1, <1>3, <2>1, OpenOneIs DEF Opens
<1>4. CASE Instruct
  BY <1>4 DEF Instruct
<1>5. CASE Resolve
  <2>1. pc' \in {"open", "off", "resolve"}
    BY <1>1, <1>5, ResolveIs DEF Ends
  <2> QED BY <2>1
<1>6. CASE Begin \/ Admit \/ Send \/ Record \/ Killed
  BY <1>6 DEF Begin, Admit, Send, Record, Killed, Reports, Ends
<1>7. CASE ReadOutcome
  BY <1>7 DEF ReadOutcome, Reports
<1>8. CASE BuildSnapshot \/ UNCHANGED vars
  BY <1>8 DEF BuildSnapshot, vars
<1>9. ASSUME NEW p \in Runs, Mine(p) \/ Deepen(p)
      PROVE  pc \in {"opening", "admit"} /\ journal' = journal
  BY <1>9 DEF Mine, Deepen
<1> QED BY <1>2, <1>3, <1>4, <1>5, <1>6, <1>7, <1>8, <1>9 DEF Next, Command, Chain

(* What the ledger makes of an opening.                                     *)
LEMMA OpenedBook ==
  ASSUME BaseInv, LedgerInv, Book.raised = FALSE, NEW a \in Asset, Opens(a)
  PROVE  /\ Book'.raised = FALSE /\ Book'.held[a] = Book.held[a] + snap.bal[a]
         /\ Book'.held[Other(a)] = Book.held[Other(a)]
<1>1. PICK e \in AnyEvent :
        e = Opening(a, snap.bal[a], snap.mark[a]) /\ e.kind = "opening" /\ e.asset = a
          /\ e.raw = snap.bal[a]
  BY BaseIs, OpeningIs DEF Opens, Opening
<1>2. journal \in Seq(AnyEvent) /\ Walk(journal) \in AnyBook /\ Walk(journal).raised = FALSE
  BY BaseIs DEF LedgerInv, Book
<1>3. Walk(journal') = Apply(Walk(journal), e)
  BY <1>1, <1>2, WalkStep DEF Opens
<1>4. /\ Apply(Walk(journal), e).raised = FALSE
      /\ Apply(Walk(journal), e).held[e.asset] = Walk(journal).held[e.asset] + e.raw
      /\ Apply(Walk(journal), e).held[Other(e.asset)] = Walk(journal).held[Other(e.asset)]
  BY <1>1, <1>2, ApplyOpening
<1> QED BY <1>1, <1>3, <1>4 DEF Book

LEMMA FlightStep == BaseInv /\ EventInv /\ LedgerInv /\ FlightInv /\ [Next]_vars => FlightInv'
<1> SUFFICES ASSUME BaseInv, EventInv, LedgerInv, FlightInv, [Next]_vars PROVE FlightInv'
  OBVIOUS
<1>1. TypeOK /\ Types2 /\ ControlInv /\ (Book.raised = FALSE \/ Book.raised = TRUE)
  BY BaseIs DEF LedgerInv, AnyBook
<1>2. ASSUME pc' \in {"opening", "admit"} PROVE Book'.raised = FALSE
  <2>1. CASE AskBook /\ journal' = journal
    <3>1. ~ Book.raised
      BY <1>2, <2>1 DEF AskBook, Ends, Book
    <3> QED BY <1>1, <2>1, <3>1 DEF Book
  <2>2. ASSUME pc \in {"opening", "admit"}, journal' = journal PROVE Book'.raised = FALSE
    BY <2>2 DEF FlightInv, Book
  <2>3. ASSUME pc \in {"opening", "admit"}, NEW a \in Asset, Opens(a) PROVE Book'.raised = FALSE
    BY <2>3, OpenedBook DEF FlightInv
  <2> QED BY <1>2, <2>1, <2>2, <2>3, OpeningBy
<1>3. ASSUME NEW o \in Runs, row'[o].state \in InFlight
      PROVE  /\ Book'.raised = FALSE /\ Book'.held[row'[o].sells] >= row'[o].raw
             /\ Traded(journal') <= Budget
  <2>1. ASSUME row[o].state \in InFlight, row'[o].sells = row[o].sells, row'[o].raw = row[o].raw,
               journal' = journal
        PROVE  /\ Book'.raised = FALSE /\ Book'.held[row'[o].sells] >= row'[o].raw
               /\ Traded(journal') <= Budget
    BY <2>1 DEF FlightInv, Book
  <2>2. CASE Quiet
    <3>1. CASE row'[o] = row[o]
      BY <1>3, <2>1, <2>2, <3>1 DEF Quiet
    <3>2. CASE row'[o] # row[o]
      <4>1. row[o].state = "prepared" /\ row'[o].state = "submitted"
        BY <1>3, <2>2, <3>2 DEF Quiet, Early, InFlight
      <4>2. /\ pc = "admit" /\ o = run /\ Admits(o) /\ journal' = journal
            /\ row'[o].sells = row[o].sells /\ row'[o].raw = row[o].raw
        BY <4>1, SubmittedBy
      <4>3. Book.raised = FALSE /\ Book.held[row[o].sells] >= row[o].raw
        BY <4>2 DEF FlightInv, Admits, Book
      <4>4. Traded(journal) <= Budget
        <5>1. /\ row[o].raw \in Nat /\ snap.mark[row[o].sells] \in Nat
              /\ Traded(journal) \in Nat /\ Budget \in Nat
          BY <1>1, BaseIs, OrderTypes, SnapTypes, TradedIsNat, LiveAssumption DEF Traded
        <5>2. row[o].raw * snap.mark[row[o].sells] \in Nat
          BY <5>1
        <5>3. Traded(journal) + row[o].raw * snap.mark[row[o].sells] <= Budget
          BY <4>2 DEF Admits
        <5> QED BY <5>1, <5>2, <5>3
      <4> QED BY <4>2, <4>3, <4>4 DEF Book
    <3> QED BY <3>1, <3>2
  <2>3. ASSUME NEW a \in Asset, Opens(a) PROVE FALSE
    <3>1. row'[o] = row[o] /\ pc = "opening"
      BY <2>3 DEF Opens
    <3>2. o \in Left
      BY <1>3, <3>1, InFlightLeft
    <3> QED BY <1>1, <3>1, <3>2 DEF ControlInv
  <2>4. ASSUME NEW p \in Left, NEW out, Settles(p, out)
        PROVE  /\ Book'.raised = FALSE /\ Book'.held[row'[o].sells] >= row'[o].raw
               /\ Traded(journal') <= Budget
    <3>1. /\ row'[p].state = out.state /\ row'[p].sells = row[p].sells /\ row[p].state \in InFlight
          /\ row'[p].raw = row[p].raw /\ \A q \in Runs \ {p} : row'[q] = row[q]
      BY <1>1, <2>4, SettledRow
    <3>2. o = p
      <4>1. SUFFICES ASSUME o # p PROVE FALSE
        OBVIOUS
      <4>2. row'[o] = row[o]
        BY <3>1, <4>1
      <4>3. o \in Left
        BY <1>3, <4>2, InFlightLeft
      <4> QED BY <1>1, <4>1, <4>3 DEF ControlInv
    <3>3. out.state = "unknown" /\ journal' = journal
      <4>1. out.state \notin {"failed", "confirmed"}
        BY <1>3, <3>1, <3>2 DEF InFlight
      <4>2. Appends(p, out)
        BY <2>4, SettleAppends
      <4> QED BY <4>1, <4>2 DEF Appends
    <3> QED BY <2>1, <3>1, <3>2, <3>3
  <2> QED BY <2>2, <2>3, <2>4, StepKinds
<1> QED BY <1>2, <1>3 DEF FlightInv

-------------------------------------------------------------------------------
(* The budget *)

(* With what is told of one order left out, one more event of it is too.    *)
LEMMA TradedOwn ==
  ASSUME NEW s \in Seq(AnyEvent), NEW e \in AnyEvent, Spends(e), NEW o, e.order = o
  PROVE  LastOf(Append(s, e)) = o /\ TradedBut(o, Append(s, e)) = TradedBut(o, s)
<1>1. Counted(o, e) = 0 /\ TradedBut(o, s) \in Nat
  BY TradedIsNat DEF Counted
<1>2. TradedBut(o, Append(s, e)) = TradedBut(o, s) + Counted(o, e)
  BY TradedStep
<1> QED BY <1>1, <1>2, LastMore

LEMMA BudgetStep == BaseInv /\ EventInv /\ FlightInv /\ BudgetInv /\ [Next]_vars => BudgetInv'
<1> SUFFICES ASSUME BaseInv, EventInv, FlightInv, BudgetInv, [Next]_vars
             PROVE  TradedBut(LastOf(journal'), journal') <= Budget
  BY DEF BudgetInv
<1>1. journal \in Seq(AnyEvent) /\ Types2 /\ TypeOK /\ ControlInv
  BY BaseIs
<1>2. CASE journal' = journal
  BY <1>2 DEF BudgetInv
<1>3. ASSUME NEW a \in Asset, Opens(a) PROVE TradedBut(LastOf(journal'), journal') <= Budget
  <2>1. PICK e \in AnyEvent : e = Opening(a, snap.bal[a], snap.mark[a])
    BY <1>1, <1>3, OpeningIs DEF Opens
  <2>2. journal' = Append(journal, e) /\ e.kind = "opening"
    BY <1>3, <2>1 DEF Opens, Opening
  <2>3. LastOf(journal') = LastOf(journal)
    BY <1>1, <2>2, LastMore DEF Spends
  <2>4. PICK o : o = LastOf(journal)
    OBVIOUS
  <2>5. TradedBut(o, Append(journal, e)) = TradedBut(o, journal) + Counted(o, e)
    BY <1>1, TradedStep
  <2>6. Counted(o, e) = 0 /\ TradedBut(o, journal) \in Nat
    BY <1>1, <2>2, TradedIsNat DEF Counted
  <2> QED BY <2>2, <2>3, <2>4, <2>5, <2>6 DEF BudgetInv
<1>4. ASSUME NEW o \in Left, NEW out, Settles(o, out)
      PROVE  TradedBut(LastOf(journal'), journal') <= Budget
  <2>1. o \in Runs /\ row[o].state \in InFlight /\ 0 \notin Runs
    BY <1>1, <1>4, SettledRow, RunOf
  <2>2. TradedBut(o, journal) = TradedBut(0, journal)
    <3>1. ASSUME NEW i \in DOMAIN journal
          PROVE  journal[i].kind = "opening" \/ (journal[i].order # o /\ journal[i].order # 0)
      <4>1. journal[i].kind \in {"opening", "fill", "fee"}
        BY <1>1, EventIs
      <4>2. Spends(journal[i]) => journal[i].order # o /\ journal[i].order # 0
        BY <2>1, SpentIs
      <4> QED BY <4>1, <4>2 DEF Spends
    <3> QED BY <3>1, TradedSame
  <2>3. TradedBut(o, journal) <= Budget
    BY <2>1, <2>2 DEF FlightInv, Traded
  <2>4. ASSUME NEW e \in AnyEvent, Spends(e), e.order = o, journal' = Append(journal, e)
        PROVE  TradedBut(LastOf(journal'), journal') <= Budget
    BY <1>1, <2>3, <2>4, TradedOwn
  <2>5. ASSUME NEW e \in AnyEvent, Spends(e), e.order = o,
               NEW f \in AnyEvent, Spends(f), f.order = o,
               journal' = Append(Append(journal, e), f)
        PROVE  TradedBut(LastOf(journal'), journal') <= Budget
    <3>1. Append(journal, e) \in Seq(AnyEvent)
      BY <1>1, OneMore
    <3>2. TradedBut(o, Append(journal, e)) = TradedBut(o, journal)
      BY <1>1, <2>5, TradedOwn
    <3>3. LastOf(journal') = o /\ TradedBut(o, journal') = TradedBut(o, Append(journal, e))
      BY <2>5, <3>1, TradedOwn
    <3> QED BY <2>3, <3>2, <3>3
  <2>6. FeeOf(o) \in AnyEvent /\ Spends(FeeOf(o)) /\ FeeOf(o).order = o
    BY <2>1, FeeOfIs DEF Spends
  <2>7. Appends(o, out)
    BY <1>4, SettleAppends
  <2>8. CASE out.state = "confirmed"
    <3>1. LiveFill(o) \in AnyEvent /\ Spends(LiveFill(o)) /\ LiveFill(o).order = o
      BY <1>1, <2>1, <2>7, <2>8, FillIs DEF Appends, Spends
    <3> QED BY <2>4, <2>5, <2>6, <2>7, <2>8, <3>1 DEF Appends
  <2>9. CASE out.state # "confirmed"
    BY <1>2, <2>4, <2>6, <2>7, <2>9 DEF Appends
  <2> QED BY <2>8, <2>9
<1> QED BY <1>2, <1>3, <1>4, StepKinds DEF Quiet

-------------------------------------------------------------------------------
(* What an outcome says of the book *)

LEMMA RecordBy ==
  ASSUME BaseInv, [Next]_vars, pc' = "record"
  PROVE  \/ pc = "record" /\ UNCHANGED <<journal, row, run>>
         \/ run' = run /\ \E out : Settles(run, out)
<1>1. TypeOK /\ Types2 /\ ControlInv
  BY BaseIs
<1>2. CASE ReadOutcome
  <2>1. run' = run
    BY <1>2 DEF ReadOutcome
  <2> QED BY <1>1, <1>2, <2>1, ReadIs
<1>3. CASE Resolve
  <2>1. pc' \in {"open", "off", "resolve"}
    BY <1>1, <1>3, ResolveIs DEF Ends
  <2> QED BY <2>1
<1>4. CASE Begin \/ AskBook \/ OpenOne \/ Instruct
  BY <1>4 DEF Begin, AskBook, OpenOne, Instruct, Ends
<1>5. CASE Admit \/ Send \/ Record \/ Killed
  BY <1>5 DEF Admit, Send, Record, Killed, Reports, Ends
<1>6. CASE BuildSnapshot \/ UNCHANGED vars
  BY <1>6 DEF BuildSnapshot, vars
<1>7. ASSUME NEW p \in Runs, Mine(p) \/ Deepen(p)
      PROVE  pc = "record" /\ UNCHANGED <<journal, row, run>>
  BY <1>7 DEF Mine, Deepen
<1> QED BY <1>2, <1>3, <1>4, <1>5, <1>6, <1>7 DEF Next, Command, Chain

LEMMA OutcomeBy ==
  ASSUME [Next]_vars
  PROVE  Record \/ outcome' = outcome
BY DEF Next, Command, Chain, Begin, Resolve, AskBook, OpenOne, Instruct, Admit, Send,
       ReadOutcome, Killed, BuildSnapshot, Mine, Deepen, vars

(* An event of another order leaves what is said of one that is final.      *)
LEMMA LeftStays ==
  ASSUME BaseInv, EventInv, [Next]_vars, NEW o \in Runs, row[o].state = "confirmed", NEW a
  PROVE  row'[o] = row[o] /\ LeftBy(journal', o, a) = LeftBy(journal, o, a)
<1>1. journal \in Seq(AnyEvent) /\ Types2
  BY BaseIs
<1>2. OwnIn(journal, o) # {}
  BY DEF EventInv, OwnIn, SpentIn, Spends
<1>3. CASE journal' = journal
  BY <1>3, FinalStays
<1>4. ASSUME NEW b \in Asset, Opens(b) PROVE LeftBy(journal', o, a) = LeftBy(journal, o, a)
  <2>1. PICK e \in AnyEvent : e = Opening(b, snap.bal[b], snap.mark[b])
    BY <1>1, <1>4, OpeningIs DEF Opens
  <2>2. journal' = Append(journal, e) /\ ~ (Spends(e) /\ e.order = o)
    BY <1>4, <2>1 DEF Opens, Opening, Spends
  <2> QED BY <1>1, <1>2, <2>2, LeftMore
<1>5. ASSUME NEW p \in Left, NEW out, Settles(p, out)
      PROVE  LeftBy(journal', o, a) = LeftBy(journal, o, a)
  <2>1. p \in Runs /\ p # o
    BY DEF Left, Open
  <2>2. Appends(p, out)
    BY <1>5, SettleAppends
  <2>3. PICK fee \in AnyEvent : fee = FeeOf(p) /\ fee.order # o
    BY <2>1, FeeOfIs
  <2>4. ASSUME NEW e \in AnyEvent, e.order # o, journal' = Append(journal, e)
        PROVE  LeftBy(journal', o, a) = LeftBy(journal, o, a)
    BY <1>1, <1>2, <2>4, LeftMore
  <2>5. CASE out.state = "confirmed"
    <3>1. PICK fill \in AnyEvent : fill = LiveFill(p) /\ fill.order # o
      BY <1>1, <2>1, <2>2, <2>5, FillIs DEF Appends
    <3>2. CASE journal' = Append(journal, LiveFill(p))
      BY <2>4, <3>1, <3>2
    <3>3. CASE journal' = Append(Append(journal, LiveFill(p)), FeeOf(p))
      <4> DEFINE j == Append(journal, fill)
      <4>1. journal' = Append(j, fee)
        BY <2>3, <3>1, <3>3
      <4>2. j \in Seq(AnyEvent)
        BY <1>1, OneMore
      <4>3. OwnIn(j, o) # {}
        BY <1>1, <1>2, OwnMore
      <4>4. LeftBy(j, o, a) = LeftBy(journal, o, a)
        BY <1>1, <1>2, <3>1, LeftMore
      <4> HIDE DEF j
      <4>5. LeftBy(Append(j, fee), o, a) = LeftBy(j, o, a)
        BY <2>3, <4>2, <4>3, LeftMore
      <4> QED BY <4>1, <4>4, <4>5
    <3> QED BY <2>2, <2>5, <3>2, <3>3 DEF Appends
  <2>6. CASE out.state # "confirmed"
    BY <1>3, <2>2, <2>3, <2>4, <2>6 DEF Appends
  <2> QED BY <2>5, <2>6
<1>6. row'[o] = row[o]
  BY FinalStays
<1> QED BY <1>3, <1>4, <1>5, <1>6, StepKinds DEF Quiet

LEMMA PageStep == BaseInv /\ EventInv /\ PageInv /\ [Next]_vars => PageInv'
<1> SUFFICES ASSUME BaseInv, EventInv, PageInv, [Next]_vars PROVE PageInv'
  OBVIOUS
<1>1. TypeOK /\ Types2 /\ ControlInv /\ journal \in Seq(AnyEvent)
  BY BaseIs
<1>2. ASSUME pc' = "record", row'[run'].state = "confirmed"
      PROVE  Max(OwnIn(journal', run')) = Len(journal')
  <2>1. CASE pc = "record" /\ UNCHANGED <<journal, row, run>>
    BY <1>2, <2>1 DEF PageInv
  <2>2. ASSUME NEW out, Settles(run, out), run' = run
        PROVE  Max(OwnIn(journal', run')) = Len(journal')
    <3>1. run \in Runs /\ row'[run].state = out.state
      BY <1>1, <2>2, SettledRow
    <3>2. Appends(run, out) /\ out.state = "confirmed"
      BY <1>2, <2>2, <3>1, SettleAppends
    <3>3. PICK fill \in AnyEvent : fill = LiveFill(run) /\ Spends(fill) /\ fill.order = run
      BY <1>1, <3>1, <3>2, FillIs DEF Appends, Spends
    <3>4. PICK fee \in AnyEvent : fee = FeeOf(run) /\ Spends(fee) /\ fee.order = run
      BY <3>1, FeeOfIs DEF Spends
    <3>5. CASE journal' = Append(journal, LiveFill(run))
      BY <1>1, <2>2, <3>3, <3>5, LeftLast
    <3>6. CASE journal' = Append(Append(journal, LiveFill(run)), FeeOf(run))
      <4> DEFINE j == Append(journal, fill)
      <4>1. j \in Seq(AnyEvent) /\ journal' = Append(j, fee)
        BY <1>1, <3>3, <3>4, <3>6, OneMore
      <4> HIDE DEF j
      <4> QED BY <2>2, <3>4, <4>1, LeftLast
    <3> QED BY <3>2, <3>5, <3>6 DEF Appends
  <2> QED BY <1>2, <2>1, <2>2, RecordBy
<1>3. ASSUME NEW o \in Runs, outcome'[o].state = "confirmed", outcome[o].state = "confirmed",
             outcome'[o] = outcome[o], NEW a \in Asset
      PROVE  row'[o].state = "confirmed" /\ outcome'[o].book.positions[a].raw = LeftBy(journal', o, a)
  <2>1. /\ row[o].state = "confirmed"
        /\ outcome[o].book.positions[a].raw = LeftBy(journal, o, a)
    BY <1>3 DEF PageInv
  <2> QED BY <1>3, <2>1, LeftStays
<1>4. ASSUME Record, NEW o \in Runs, outcome'[o].state = "confirmed", outcome'[o] # outcome[o],
             NEW a \in Asset
      PROVE  row'[o].state = "confirmed" /\ outcome'[o].book.positions[a].raw = LeftBy(journal', o, a)
  <2>1. /\ pc = "record" /\ UNCHANGED <<journal, row>>
        /\ outcome' = [outcome EXCEPT ![run] = [state |-> row[run].state,
                                                book |-> BookValue(Walk(journal), snap.mark)]]
    BY <1>4 DEF Record
  <2>2. o = run /\ outcome = [p \in Runs |-> outcome[p]]
    BY <1>1, <1>4, <2>1 DEF Types2
  <2>3. outcome'[o] = [state |-> row[run].state, book |-> BookValue(Walk(journal), snap.mark)]
    BY <2>1, <2>2
  <2>4. row[run].state = "confirmed"
    BY <1>4, <2>3
  <2>5. outcome'[o].book.positions[a].raw = Walk(journal).held[a]
    BY <2>3 DEF BookValue, Positions, Position
  <2>6. SubSeq(journal, 1, Len(journal)) = journal
    BY <1>1, SubSeqFull
  <2>7. LeftBy(journal, run, a) = Walk(journal).held[a]
    BY <2>1, <2>4, <2>6 DEF PageInv, LeftBy
  <2> QED BY <2>1, <2>2, <2>4, <2>5, <2>7
<1>5. ASSUME NEW o \in Runs, outcome'[o].state = "confirmed", NEW a \in Asset
      PROVE  row'[o].state = "confirmed" /\ outcome'[o].book.positions[a].raw = LeftBy(journal', o, a)
  BY <1>3, <1>4, <1>5, OutcomeBy
<1>6. "eth" \in Asset
  BY DEF Asset
<1> QED BY <1>2, <1>5, <1>6 DEF PageInv

-------------------------------------------------------------------------------
(* What settling an order does to the book *)

LEMMA FeeBook ==
  ASSUME BaseInv, NEW o \in Runs, NEW s \in Seq(AnyEvent), NEW j,
         Walk(s) \in AnyBook, Walk(s).raised = FALSE,
         \/ tx[o].gas = 0 /\ j = s
         \/ tx[o].gas # 0 /\ j = Append(s, FeeOf(o))
  PROVE  /\ Walk(j).raised = TRUE => Walk(s).held["eth"] < tx[o].gas
         /\ Walk(j).raised = FALSE =>
              /\ Walk(j).held["eth"] = Walk(s).held["eth"] - tx[o].gas
              /\ Walk(j).held["usdg"] = Walk(s).held["usdg"]
<1>1. tx[o].gas \in Nat /\ Walk(s).held["eth"] \in Nat
  BY BaseIs, OrderTypes DEF AnyBook, Asset
<1>2. CASE tx[o].gas = 0 /\ j = s
  BY <1>1, <1>2
<1>3. CASE tx[o].gas # 0 /\ j = Append(s, FeeOf(o))
  <2>1. PICK fee \in AnyEvent : fee = FeeOf(o) /\ fee.kind = "fee" /\ fee.raw = tx[o].gas
    BY FeeOfIs
  <2>2. Walk(j) = Apply(Walk(s), fee)
    BY <1>3, <2>1, WalkStep
  <2>3. LET d == Apply(Walk(s), fee)
        IN  /\ d.raised = TRUE <=> fee.raw > Walk(s).held["eth"]
            /\ fee.raw <= Walk(s).held["eth"] =>
                 /\ d.held["eth"] = Walk(s).held["eth"] - fee.raw
                 /\ d.held["usdg"] = Walk(s).held["usdg"]
    BY <2>1, ApplyFee
  <2> QED BY <1>1, <2>1, <2>2, <2>3
<1> QED BY <1>2, <1>3

LEMMA FillBook ==
  ASSUME BaseInv, LedgerInv, Book.raised = FALSE, NEW o \in Runs, Received(o) \in Nat,
         Book.held[row[o].sells] >= row[o].raw
  PROVE  LET s == Append(journal, LiveFill(o))
         IN  /\ s \in Seq(AnyEvent) /\ Walk(s) \in AnyBook /\ Walk(s).raised = FALSE
             /\ Walk(s).held[row[o].sells] = Book.held[row[o].sells] - row[o].raw
             /\ Walk(s).held[Other(row[o].sells)]
                  = Book.held[Other(row[o].sells)] + Received(o)
<1>1. PICK fill \in AnyEvent :
        /\ fill = LiveFill(o) /\ fill.kind = "fill" /\ fill.asset = row[o].sells
        /\ fill.raw = row[o].raw /\ fill.got = Received(o)
  BY BaseIs, FillIs
<1>2. journal \in Seq(AnyEvent) /\ Walk(journal) \in AnyBook /\ Walk(journal).raised = FALSE
  BY BaseIs DEF LedgerInv, Book
<1>3. Append(journal, fill) \in Seq(AnyEvent) /\ Walk(Append(journal, fill)) = Apply(Walk(journal), fill)
  BY <1>2, WalkStep
<1>4. fill.raw <= Walk(journal).held[fill.asset] /\ row[o].raw \in Nat
      /\ Walk(journal).held[row[o].sells] \in Nat
  <2>1. row[o].raw \in Nat /\ row[o].sells \in Asset
    BY BaseIs, OrderTypes
  <2>2. Walk(journal).held[row[o].sells] \in Nat
    BY <1>2, <2>1 DEF AnyBook
  <2> QED BY <1>1, <2>1, <2>2 DEF Book
<1>5. LET d == Apply(Walk(journal), fill)
      IN  /\ d \in AnyBook
          /\ d.raised = TRUE <=> fill.raw > Walk(journal).held[fill.asset]
          /\ fill.raw <= Walk(journal).held[fill.asset] =>
               /\ d.held[fill.asset] = Walk(journal).held[fill.asset] - fill.raw
               /\ d.held[Other(fill.asset)] = Walk(journal).held[Other(fill.asset)] + fill.got
  BY <1>1, <1>2, ApplyFill
<1>6. Apply(Walk(journal), fill).raised = FALSE
  <2>0. ~ (fill.raw > Walk(journal).held[fill.asset])
    BY <1>1, <1>4
  <2>1. Apply(Walk(journal), fill).raised # TRUE
    BY <1>5, <2>0
  <2> QED BY <1>5, <2>1 DEF AnyBook
<1> QED BY <1>1, <1>3, <1>4, <1>5, <1>6 DEF Book

(* The gas of a purchase of ETH, which its own fee takes once more.         *)
Extra(o, out) == IF out.state = "confirmed" /\ row[o].sells = Cash THEN tx[o].gas ELSE 0

LEMMA SettledBook ==
  ASSUME BaseInv, LedgerInv, Book.raised = FALSE, NEW o, NEW out, Settles(o, out),
         out.state # "unknown", Book.held[row[o].sells] >= row[o].raw
  PROVE  /\ Book'.raised = TRUE =>
              Book.held["eth"] + Moved(tx[o], row[o], "eth") - Extra(o, out) < 0
         /\ Book'.raised = FALSE => \A a \in Asset :
              Book'.held[a] = Book.held[a] + Moved(tx[o], row[o], a)
                                - IF a = "eth" THEN Extra(o, out) ELSE 0
<1>1. o \in Runs /\ Types2 /\ journal \in Seq(AnyEvent)
  BY BaseIs DEF Settles, Left
<1>2. Appends(o, out)
  BY SettleAppends
<1>3. Book \in AnyBook
  BY DEF LedgerInv
<1>4. /\ tx[o].gas \in Nat /\ tx[o].got \in Nat /\ row[o].raw \in Nat /\ row[o].sells \in Asset
      /\ Book.held["eth"] \in Nat /\ Book.held["usdg"] \in Nat
  BY <1>1, <1>3, OrderTypes DEF AnyBook, Asset
<1>5. CASE out.state = "failed"
  <2>1. Extra(o, out) = 0 /\ tx[o].ok = FALSE
    BY <1>2, <1>5 DEF Extra, Appends
  <2>2. Moved(tx[o], row[o], "eth") = 0 - tx[o].gas /\ Moved(tx[o], row[o], "usdg") = 0
    BY <1>4, <2>1 DEF Moved
  <2>3. \/ tx[o].gas = 0 /\ journal' = journal
        \/ tx[o].gas # 0 /\ journal' = Append(journal, FeeOf(o))
    BY <1>2, <1>5 DEF Appends
  <2>4. /\ Walk(journal').raised = TRUE => Walk(journal).held["eth"] < tx[o].gas
        /\ Walk(journal').raised = FALSE =>
             /\ Walk(journal').held["eth"] = Walk(journal).held["eth"] - tx[o].gas
             /\ Walk(journal').held["usdg"] = Walk(journal).held["usdg"]
    BY <1>1, <1>3, <2>3, FeeBook DEF Book
  <2> QED BY <1>4, <2>1, <2>2, <2>4 DEF Book, Asset
<1>6. CASE out.state = "confirmed"
  <2> DEFINE s == Append(journal, LiveFill(o))
  <2>1. tx[o].ok = TRUE /\ Received(o) \in Nat
    BY <1>2, <1>6 DEF Appends
  <2>2. \/ tx[o].gas = 0 /\ journal' = s
        \/ tx[o].gas # 0 /\ journal' = Append(s, FeeOf(o))
    BY <1>2, <1>6 DEF Appends
  <2>3. /\ s \in Seq(AnyEvent) /\ Walk(s) \in AnyBook /\ Walk(s).raised = FALSE
        /\ Walk(s).held[row[o].sells] = Book.held[row[o].sells] - row[o].raw
        /\ Walk(s).held[Other(row[o].sells)] = Book.held[Other(row[o].sells)] + Received(o)
    BY <1>1, <2>1, FillBook
  <2>4. Walk(s).held["eth"] \in Nat /\ Walk(s).held["usdg"] \in Nat
    BY <2>3 DEF AnyBook, Asset
  <2> HIDE DEF s
  <2>5. /\ Walk(journal').raised = TRUE => Walk(s).held["eth"] < tx[o].gas
        /\ Walk(journal').raised = FALSE =>
             /\ Walk(journal').held["eth"] = Walk(s).held["eth"] - tx[o].gas
             /\ Walk(journal').held["usdg"] = Walk(s).held["usdg"]
    BY <1>1, <2>2, <2>3, FeeBook
  <2>6. CASE row[o].sells = "usdg"
    <3>1. Received(o) = tx[o].got - tx[o].gas /\ Extra(o, out) = tx[o].gas
      BY <1>6, <2>6 DEF Received, Extra, Cash
    <3>2. /\ Moved(tx[o], row[o], "eth") = tx[o].got - tx[o].gas
          /\ Moved(tx[o], row[o], "usdg") = 0 - row[o].raw
      BY <1>4, <2>1, <2>6 DEF Moved
    <3>3. /\ Walk(s).held["usdg"] = Book.held["usdg"] - row[o].raw
          /\ Walk(s).held["eth"] = Book.held["eth"] + (tx[o].got - tx[o].gas)
      BY <2>3, <2>6, <3>1, Others
    <3> QED BY <1>4, <2>4, <2>5, <3>1, <3>2, <3>3 DEF Book, Asset
  <2>7. CASE row[o].sells = "eth"
    <3>1. Received(o) = tx[o].got /\ Extra(o, out) = 0
      BY <1>6, <2>7 DEF Received, Extra, Cash
    <3>2. /\ Moved(tx[o], row[o], "eth") = 0 - row[o].raw - tx[o].gas
          /\ Moved(tx[o], row[o], "usdg") = tx[o].got
      BY <1>4, <2>1, <2>7 DEF Moved
    <3>3. /\ Walk(s).held["eth"] = Book.held["eth"] - row[o].raw
          /\ Walk(s).held["usdg"] = Book.held["usdg"] + tx[o].got
      BY <2>3, <2>7, <3>1, Others
    <3> QED BY <1>4, <2>4, <2>5, <3>1, <3>2, <3>3 DEF Book, Asset
  <2> QED BY <1>4, <2>6, <2>7 DEF Asset
<1>7. out.state \in {"unknown", "confirmed", "failed"}
  BY BaseIs, SettledRow
<1> QED BY <1>5, <1>6, <1>7

LEMMA SettledGas ==
  ASSUME BaseInv, NEW o, NEW out, Settles(o, out)
  PROVE  GasOf(tx, row') = GasOf(tx, row) + Extra(o, out)
<1>1. /\ o \in Runs /\ row'[o].state = out.state /\ row'[o].sells = row[o].sells
      /\ row[o].state \in InFlight /\ \A p \in Runs \ {o} : row'[p] = row[p]
  BY BaseIs, SettledRow
<1>2. tx \in [Runs -> AnyTx] /\ row \in [Runs -> AnyRow] /\ row' \in [Runs -> AnyRow]
  BY BaseIs, SettleIs DEF Types2
<1>3. GasOf(tx, row') = GasOf(tx, row) - Paid(tx[o], row[o]) + Paid(tx[o], row'[o])
  BY <1>1, <1>2, GasChange
<1>4. Paid(tx[o], row[o]) = 0 /\ Paid(tx[o], row'[o]) = Extra(o, out)
  BY <1>1 DEF Paid, Extra, InFlight
<1>5. GasOf(tx, row) \in Nat
  BY <1>2, GasIsNat
<1>6. tx[o].gas \in Nat
  BY <1>1, BaseIs, OrderTypes
<1> QED BY <1>3, <1>4, <1>5, <1>6 DEF Extra

-------------------------------------------------------------------------------
(* What a step does to the wallet, and to what is due *)

LEMMA DueZero ==
  ASSUME NEW ts, NEW rs, NEW a,
         \A p \in Runs : rs[p].state \in Open => Moved(ts[p], rs[p], a) = 0
  PROVE  DueOf(ts, rs, a) = 0
<1> DEFINE left == {p \in Runs : rs[p].state \in Open}
           one  == CHOOSE p \in left : TRUE
<1>1. CASE left = {}
  BY <1>1 DEF DueOf
<1>2. CASE left # {}
  <2>1. one \in left
    BY <1>2
  <2>2. Moved(ts[one], rs[one], a) = 0
    BY <2>1
  <2> QED BY <1>2, <2>2 DEF DueOf
<1> QED BY <1>1, <1>2

LEMMA Unmoved ==
  ASSUME BaseInv, NEW o \in Runs, tx[o].state \in {"none", "sent"}, NEW r, NEW a
  PROVE  Moved(tx[o], r, a) = 0
<1>1. tx[o].gas = 0 /\ tx[o].ok = FALSE
  BY BaseIs DEF OrderInv
<1> QED BY <1>1 DEF Moved

(* The one order in flight, and what it has done.                           *)
LEMMA DueOne ==
  ASSUME BaseInv, NEW o \in Left, NEW ts, NEW rs, NEW a,
         \A p \in Runs : rs[p].state = row[p].state
  PROVE  DueOf(ts, rs, a) = Moved(ts[o], rs[o], a)
<1>1. o \in Runs /\ row[o].state \in Open
  BY DEF Left
<1>2. {p \in Runs : rs[p].state \in Open} \subseteq {o}
  BY BaseIs DEF ControlInv, Left
<1> QED BY <1>1, <1>2, DueIs

LEMMA EarlyGas ==
  ASSUME BaseInv, \A o \in Runs : Early(o)
  PROVE  GasOf(tx, row') = GasOf(tx, row)
<1>1. \A o \in Runs : Paid(tx[o], row'[o]) = Paid(tx[o], row[o])
  BY DEF Early, Paid
<1> QED BY <1>1 DEF GasOf

(* An order not yet sent has done nothing.                                  *)
LEMMA EarlyDue ==
  ASSUME BaseInv, BaseInv', \A o \in Runs : Early(o), NEW a
  PROVE  DueOf(tx, row', a) = DueOf(tx, row, a)
<1>1. /\ \A p, q \in Left : p = q
      /\ \A p, q \in Left' : p = q
  BY DEF BaseInv, ControlInv
<1>2. CASE \A o \in Runs : row'[o] = row[o]
  <2>1. {p \in Runs : row'[p].state \in Open} = {p \in Runs : row[p].state \in Open}
    BY <1>2
  <2>2. CASE Left = {}
    BY <2>1, <2>2, NothingDue DEF Left
  <2>3. ASSUME NEW o \in Left PROVE DueOf(tx, row', a) = DueOf(tx, row, a)
    <3>1. row'[o] = row[o] /\ \A p \in Runs : row'[p].state = row[p].state
      BY <1>2 DEF Left
    <3>2. DueOf(tx, row', a) = Moved(tx[o], row'[o], a)
      BY <3>1, DueOne
    <3>3. DueOf(tx, row, a) = Moved(tx[o], row[o], a)
      BY DueOne
    <3> QED BY <3>1, <3>2, <3>3
  <2> QED BY <2>2, <2>3
<1>3. ASSUME NEW o \in Runs, row'[o] # row[o]
      PROVE  DueOf(tx, row', a) = DueOf(tx, row, a)
  <2>1. tx[o].state = "none"
    BY <1>3, BaseIs DEF OrderInv, Early
  <2>2. ASSUME NEW p \in Runs, p # o, row'[p] = row[p], row[p].state \in Open PROVE FALSE
    <3>1. p \in Left /\ p \in Left'
      BY <2>2 DEF Left
    <3>2. o \in Left \/ o \in Left'
      BY <1>3 DEF Early, Left, Open
    <3> QED BY <1>1, <2>2, <3>1, <3>2
  <2>3. ASSUME NEW p \in Runs, row[p].state \in Open \/ row'[p].state \in Open
        PROVE  tx[p].state = "none"
    <3>1. row'[p] # row[p] \/ p = o
      BY <2>2, <2>3
    <3> QED BY <2>1, <3>1, BaseIs DEF OrderInv, Early
  <2>4. DueOf(tx, row, a) = 0
    <3>1. \A p \in Runs : row[p].state \in Open => Moved(tx[p], row[p], a) = 0
      BY <2>3, Unmoved
    <3> QED BY <3>1, DueZero
  <2>5. DueOf(tx, row', a) = 0
    <3>1. \A p \in Runs : row'[p].state \in Open => Moved(tx[p], row'[p], a) = 0
      BY <2>3, Unmoved
    <3> QED BY <3>1, DueZero
  <2> QED BY <2>4, <2>5
<1> QED BY <1>2, <1>3

(* One operation's progress.                                                *)
LEMMA TxGas ==
  ASSUME BaseInv, NEW ts, \A p \in Runs : row[p].state = "confirmed" => ts[p].gas = tx[p].gas
  PROVE  GasOf(ts, row) = GasOf(tx, row)
<1>1. \A o \in Runs : Paid(ts[o], row[o]) = Paid(tx[o], row[o])
  BY DEF Paid
<1> QED BY <1>1 DEF GasOf

(* What is on the chain changes when an operation is sent, and after it.    *)
LEMMA ChainBy ==
  ASSUME BaseInv, [Next]_vars
  PROVE  \/ UNCHANGED <<wallet, tx>>
         \/ Send
         \/ \E o \in Runs : Mine(o) \/ Deepen(o)
BY DEF Next, Command, Chain, Begin, Resolve, AskBook, OpenOne, Instruct, Admit, ReadOutcome,
       Record, Killed, BuildSnapshot, vars

(* One order's operation moved on, and nothing else.                        *)
LEMMA TxDue ==
  ASSUME BaseInv, NEW o \in Left, tx' = [tx EXCEPT ![o] = tx'[o]], UNCHANGED row, NEW a
  PROVE  /\ GasOf(tx', row') = GasOf(tx, row)
         /\ DueOf(tx, row, a) = Moved(tx[o], row[o], a)
         /\ DueOf(tx', row', a) = Moved(tx'[o], row[o], a)
<1>1. \A p \in Runs : row[p].state = "confirmed" => tx'[p].gas = tx[p].gas
  <2>1. ASSUME NEW p \in Runs, row[p].state = "confirmed" PROVE tx'[p] = tx[p]
    <3>1. p # o
      BY <2>1 DEF Left, Open
    <3> QED BY <3>1, BaseIs DEF Types2
  <2> QED BY <2>1
<1>2. PICK ts : ts = tx'
  OBVIOUS
<1>3. GasOf(ts, row) = GasOf(tx, row)
  BY <1>1, <1>2, TxGas
<1>4. DueOf(ts, row, a) = Moved(ts[o], row[o], a) /\ DueOf(tx, row, a) = Moved(tx[o], row[o], a)
  BY DueOne
<1> QED BY <1>2, <1>3, <1>4

(* Without an event the wallet gains what becomes due, which only a swap    *)
(* mined changes, of an order with nothing due before it.                   *)
LEMMA QuietDue ==
  ASSUME BaseInv, BaseInv', Quiet, [Next]_vars
  PROVE  /\ GasOf(tx', row') = GasOf(tx, row)
         /\ \/ wallet' = wallet /\ \A a \in Asset : Due(a)' = Due(a)
            \/ /\ \A a \in Asset : Due(a) = 0 /\ wallet'[a] = wallet[a] + Due(a)'
               /\ snap' = snap
<1>1. TypeOK /\ Types2 /\ ControlInv /\ \A o \in Runs : OrderInv(o)
  BY BaseIs
<1>2. \A a : Due(a) = DueOf(tx, row, a) /\ Due(a)' = DueOf(tx', row', a)
  BY DEF Due
<1>3. CASE UNCHANGED <<wallet, tx>>
  <2>1. \A o \in Runs : Early(o)
    BY DEF Quiet
  <2>2. GasOf(tx, row') = GasOf(tx, row) /\ \A a : DueOf(tx, row', a) = DueOf(tx, row, a)
    BY <2>1, EarlyGas, EarlyDue
  <2> QED BY <1>2, <1>3, <2>2
<1>4. CASE Send
  <2>1. /\ pc = "send" /\ run \in Runs /\ UNCHANGED <<wallet, row>>
        /\ \/ tx' = tx
           \/ \E hash \in BOOLEAN :
                tx' = [tx EXCEPT ![run] = [state |-> "sent", ok |-> FALSE, got |-> 0,
                                          gas |-> 0, hash |-> hash]]
    BY <1>1, <1>4, SendIs
  <2>2. CASE tx' = tx
    BY <1>3, <2>1, <2>2
  <2>3. ASSUME NEW t, t.ok = FALSE, t.gas = 0, tx' = [tx EXCEPT ![run] = t]
        PROVE  /\ GasOf(tx', row') = GasOf(tx, row)
               /\ wallet' = wallet /\ \A a \in Asset : Due(a)' = Due(a)
    <3>1. run \in Left /\ tx[run].state = "none"
      BY <1>1, <2>1 DEF ControlInv, Left, Open
    <3>2. tx'[run] = t /\ tx' = [tx EXCEPT ![run] = tx'[run]]
      BY <1>1, <2>1, <2>3 DEF Types2
    <3>3. \A a : Moved(tx[run], row[run], a) = 0 /\ Moved(tx'[run], row[run], a) = 0
      <4>1. \A a : Moved(tx[run], row[run], a) = 0
        BY <2>1, <3>1, Unmoved
      <4>2. \A a : Moved(t, row[run], a) = 0
        BY <2>3 DEF Moved
      <4> QED BY <3>2, <4>1, <4>2
    <3> QED BY <1>2, <2>1, <3>1, <3>2, <3>3, TxDue
  <2>4. ASSUME NEW hash \in BOOLEAN,
               tx' = [tx EXCEPT ![run] = [state |-> "sent", ok |-> FALSE, got |-> 0,
                                         gas |-> 0, hash |-> hash]]
        PROVE  /\ GasOf(tx', row') = GasOf(tx, row)
               /\ wallet' = wallet /\ \A a \in Asset : Due(a)' = Due(a)
    <3> DEFINE t == [state |-> "sent", ok |-> FALSE, got |-> 0, gas |-> 0, hash |-> hash]
    <3>1. t.ok = FALSE /\ t.gas = 0 /\ tx' = [tx EXCEPT ![run] = t]
      BY <2>4
    <3> HIDE DEF t
    <3> QED BY <2>3, <3>1
  <2> QED BY <2>1, <2>2, <2>4
<1>5. ASSUME NEW o \in Runs, Mine(o)
      PROVE  /\ GasOf(tx', row') = GasOf(tx, row)
             /\ \A a \in Asset : Due(a) = 0 /\ wallet'[a] = wallet[a] + Due(a)'
             /\ snap' = snap
  <2>1. PICK ok \in BOOLEAN, gas \in Nat, got \in Nat :
          /\ tx[o].state = "sent"
          /\ UNCHANGED <<snap, journal, row, run, pc, opening, outcome>>
          /\ tx' = [tx EXCEPT ![o] = [tx[o] EXCEPT !.state = "shallow", !.ok = ok,
                                      !.gas = gas, !.got = got]]
          /\ tx' \in [Runs -> AnyTx] /\ wallet' \in [Asset -> Nat]
          /\ \A a \in Asset : wallet'[a] = wallet[a] + Moved(tx'[o], row[o], a)
          /\ ok = FALSE => got = 0
    BY <1>1, <1>5, MineIs, Zenon
  <2>2. o \in Left
    BY <1>1, <2>1, OrderTypes DEF OrderInv, Left, Open, States
  <2>3. tx' = [tx EXCEPT ![o] = tx'[o]]
    BY <1>1, <2>1 DEF Types2
  <2>4. \A a : Moved(tx[o], row[o], a) = 0
    BY <2>1, Unmoved
  <2>5. \A a : /\ GasOf(tx', row') = GasOf(tx, row)
               /\ DueOf(tx, row, a) = Moved(tx[o], row[o], a)
               /\ DueOf(tx', row', a) = Moved(tx'[o], row[o], a)
    BY <2>1, <2>2, <2>3, TxDue
  <2> QED BY <1>2, <2>1, <2>4, <2>5
<1>6. ASSUME NEW o \in Runs, Deepen(o)
      PROVE  /\ GasOf(tx', row') = GasOf(tx, row)
             /\ wallet' = wallet /\ \A a \in Asset : Due(a)' = Due(a)
  <2>1. /\ tx[o].state = "shallow" /\ UNCHANGED <<wallet, row>>
        /\ tx' = [tx EXCEPT ![o] = [tx[o] EXCEPT !.state = "deep"]]
    BY <1>1, <1>6 DEF Deepen, Types2
  <2>2. o \in Left
    BY <1>1, <2>1, OrderTypes DEF OrderInv, Left, Open, States
  <2>3. tx'[o] = [tx[o] EXCEPT !.state = "deep"] /\ tx' = [tx EXCEPT ![o] = tx'[o]]
    BY <1>1, <2>1 DEF Types2
  <2>4. tx'[o].ok = tx[o].ok /\ tx'[o].got = tx[o].got /\ tx'[o].gas = tx[o].gas
    BY <1>1, <2>3, OrderTypes DEF AnyTx
  <2>5. \A a : Moved(tx'[o], row[o], a) = Moved(tx[o], row[o], a)
    BY <2>4 DEF Moved
  <2>6. \A a : /\ GasOf(tx', row') = GasOf(tx, row)
               /\ DueOf(tx, row, a) = Moved(tx[o], row[o], a)
               /\ DueOf(tx', row', a) = Moved(tx'[o], row[o], a)
    BY <2>1, <2>2, <2>3, TxDue
  <2> QED BY <1>2, <2>1, <2>5, <2>6
<1> QED BY <1>3, <1>4, <1>5, <1>6, ChainBy

(* An order settled: all it did is due until its outcome is known, and      *)
(* nothing after.                                                           *)
LEMMA SettledDue ==
  ASSUME BaseInv, NEW o, NEW out, Settles(o, out), NEW a
  PROVE  /\ wallet' = wallet /\ tx' = tx /\ snap' = snap
         /\ Due(a) = Moved(tx[o], row[o], a)
         /\ Due(a)' = IF out.state = "unknown" THEN Due(a) ELSE 0
<1>1. /\ o \in Runs /\ o \in Left /\ row[o].state \in InFlight
      /\ row'[o].state = out.state /\ row'[o].sells = row[o].sells
      /\ row'[o].raw = row[o].raw /\ \A p \in Runs \ {o} : row'[p] = row[p]
      /\ out.state \in {"unknown", "confirmed", "failed"}
      /\ UNCHANGED <<wallet, tx, snap, run, outcome>>
  BY BaseIs, SettledRow
<1>2. Due(a) = DueOf(tx, row, a) /\ Due(a)' = DueOf(tx, row', a)
  BY <1>1 DEF Due
<1>3. DueOf(tx, row, a) = Moved(tx[o], row[o], a)
  BY <1>1, DueOne
<1>4. \A p, q \in Left : p = q
  BY BaseIs DEF ControlInv
<1>5. CASE out.state = "unknown"
  <2>1. {p \in Runs : row'[p].state \in Open} \subseteq {o} /\ row'[o].state \in Open
    BY <1>1, <1>4, <1>5 DEF Left, Open
  <2>2. PICK rs : rs = row'
    OBVIOUS
  <2>3. DueOf(tx, rs, a) = Moved(tx[o], rs[o], a)
    <3>1. {p \in Runs : rs[p].state \in Open} \subseteq {o} /\ rs[o].state \in Open
      BY <2>1, <2>2
    <3>2. o \in Runs
      BY <1>1
    <3> QED BY <3>1, <3>2, DueIs, Zenon
  <2>4. Moved(tx[o], row'[o], a) = Moved(tx[o], row[o], a)
    BY <1>1 DEF Moved
  <2> QED BY <1>1, <1>2, <1>3, <1>5, <2>2, <2>3, <2>4
<1>6. CASE out.state # "unknown"
  <2>1. \A p \in Runs : ~ (row'[p].state \in Open)
    BY <1>1, <1>4, <1>6 DEF Left, Open
  <2>2. DueOf(tx, row', a) = 0
    BY <2>1, NothingDue
  <2> QED BY <1>1, <1>2, <1>3, <1>6, <2>2
<1> QED BY <1>5, <1>6

-------------------------------------------------------------------------------
(* The wallet and the book *)

LEMMA SnapBy ==
  ASSUME [Next]_vars
  PROVE  \/ snap' = snap
         \/ /\ pc = "off" /\ pc' = "off" /\ UNCHANGED <<wallet, tx, journal, row>>
            /\ \A a \in Asset : snap'.bal[a] \in {Unread, wallet[a]}
<1>1. CASE BuildSnapshot
  <2>1. PICK m \in Marks, S \in SUBSET Asset :
          snap' = [mark |-> m, bal |-> [a \in Asset |-> IF a \in S THEN Unread ELSE wallet[a]]]
    BY <1>1 DEF BuildSnapshot
  <2>2. \A a \in Asset : snap'.bal[a] \in {Unread, wallet[a]}
    BY <2>1
  <2> QED BY <1>1, <2>2 DEF BuildSnapshot
<1>2. CASE ~ BuildSnapshot
  BY <1>2 DEF Next, Command, Chain, Begin, Resolve, AskBook, OpenOne, Instruct, Admit, Send,
       ReadOutcome, Record, Killed, Mine, Deepen, vars
<1> QED BY <1>1, <1>2

(* What an order's outcome appends has settled it, or nothing is appended.  *)
LEMMA SettledSpent ==
  ASSUME BaseInv, NEW o, NEW out, Settles(o, out), SpentIn(journal') = {}
  PROVE  /\ journal' = journal
         /\ out.state # "unknown" => tx[o].ok = FALSE /\ tx[o].gas = 0
<1>1. o \in Runs /\ journal \in Seq(AnyEvent) /\ Types2
  BY BaseIs DEF Settles, Left
<1>2. Appends(o, out)
  BY SettleAppends
<1>3. ASSUME NEW s \in Seq(AnyEvent), NEW e \in AnyEvent, Spends(e) PROVE SpentIn(Append(s, e)) # {}
  BY <1>3, SpentMore
<1>4. FeeOf(o) \in AnyEvent /\ Spends(FeeOf(o))
  BY <1>1, FeeOfIs DEF Spends
<1>5. out.state # "confirmed"
  <2>1. SUFFICES ASSUME out.state = "confirmed" PROVE FALSE
    OBVIOUS
  <2>2. LiveFill(o) \in AnyEvent /\ Spends(LiveFill(o))
    BY <1>1, <1>2, <2>1, FillIs DEF Appends, Spends
  <2>3. Append(journal, LiveFill(o)) \in Seq(AnyEvent)
    BY <1>1, <2>2, OneMore
  <2>4. journal' # Append(journal, LiveFill(o))
    BY <1>1, <1>3, <2>2
  <2>5. journal' # Append(Append(journal, LiveFill(o)), FeeOf(o))
    BY <1>3, <1>4, <2>3
  <2> QED BY <1>2, <2>1, <2>4, <2>5 DEF Appends
<1>6. journal' # Append(journal, FeeOf(o))
  BY <1>1, <1>3, <1>4
<1> QED BY <1>2, <1>5, <1>6 DEF Appends

LEMMA FirstStep == BaseInv /\ BaseInv' /\ FirstInv /\ [Next]_vars => FirstInv'
<1> SUFFICES ASSUME BaseInv, BaseInv', FirstInv, [Next]_vars,
                    SpentIn(journal') = {}, \A a \in Asset : Due(a)' = 0
             PROVE  wallet' = Wallet0 /\ \A a \in Asset : snap'.bal[a] \in {Unread, Wallet0[a]}
  BY DEF FirstInv
<1>1. /\ TypeOK /\ Types2 /\ journal \in Seq(AnyEvent)
      /\ wallet \in [Asset -> Nat] /\ wallet' \in [Asset -> Nat]
  BY BaseIs DEF BaseInv, TypeOK
(* Nothing was due before, so it was as it is said.                         *)
<1>2. ASSUME SpentIn(journal) = {}, \A a \in Asset : Due(a) = 0, wallet' = wallet
      PROVE  wallet' = Wallet0 /\ \A a \in Asset : snap'.bal[a] \in {Unread, Wallet0[a]}
  <2>1. wallet = Wallet0 /\ \A a \in Asset : snap.bal[a] \in {Unread, Wallet0[a]}
    BY <1>2 DEF FirstInv
  <2> QED BY <1>2, <2>1, SnapBy
<1>3. CASE Quiet
  <2>1. CASE wallet' = wallet /\ \A a \in Asset : Due(a)' = Due(a)
    BY <1>2, <1>3, <2>1 DEF Quiet
  <2>2. CASE \A a \in Asset : Due(a) = 0 /\ wallet'[a] = wallet[a] + Due(a)'
    <3>1. \A a \in Asset : wallet'[a] = wallet[a]
      BY <1>1, <2>2
    <3>2. wallet' = wallet
      BY <1>1, <3>1
    <3> QED BY <1>2, <1>3, <2>2, <3>2 DEF Quiet
  <2> QED BY <1>3, <2>1, <2>2, QuietDue
<1>4. ASSUME NEW a \in Asset, Opens(a)
      PROVE  wallet' = Wallet0 /\ \A b \in Asset : snap'.bal[b] \in {Unread, Wallet0[b]}
  <2>1. PICK e \in AnyEvent : e = Opening(a, snap.bal[a], snap.mark[a])
    BY <1>1, <1>4, OpeningIs DEF Opens
  <2>2. journal' = Append(journal, e) /\ wallet' = wallet /\ tx' = tx /\ row' = row
    BY <1>4, <2>1 DEF Opens
  <2>3. SpentIn(journal) = {}
    BY <1>1, <2>2, SpentMore
  <2>4. \A b \in Asset : Due(b) = 0
    BY <2>2 DEF Due
  <2> QED BY <1>2, <2>2, <2>3, <2>4
<1>5. ASSUME NEW o \in Left, NEW out, Settles(o, out)
      PROVE  wallet' = Wallet0 /\ \A b \in Asset : snap'.bal[b] \in {Unread, Wallet0[b]}
  <2>1. /\ journal' = journal
        /\ out.state # "unknown" => tx[o].ok = FALSE /\ tx[o].gas = 0
    BY <1>5, SettledSpent
  <2>2. \A a \in Asset : /\ wallet' = wallet /\ Due(a) = Moved(tx[o], row[o], a)
                         /\ Due(a)' = IF out.state = "unknown" THEN Due(a) ELSE 0
    BY <1>5, SettledDue
  <2>3. out.state # "unknown" => \A a \in Asset : Moved(tx[o], row[o], a) = 0
    BY <2>1 DEF Moved
  <2>4. \A a \in Asset : Due(a) = 0
    BY <2>2, <2>3
  <2>5. wallet' = wallet
    BY <2>2 DEF Asset
  <2> QED BY <1>2, <2>1, <2>4, <2>5
<1> QED BY <1>3, <1>4, <1>5, StepKinds

LEMMA OpeningStep ==
  BaseInv /\ LedgerInv /\ FlightInv /\ OpeningInv /\ [Next]_vars => OpeningInv'
<1> SUFFICES ASSUME BaseInv, LedgerInv, FlightInv, OpeningInv, [Next]_vars PROVE OpeningInv'
  OBVIOUS
<1>1. TypeOK /\ Types2 /\ ControlInv /\ journal \in Seq(AnyEvent)
  BY BaseIs
<1>2. Holdings # <<>> /\ <<"usdg">> # <<>> /\ Holdings # <<"usdg">>
  BY DEF Holdings
<1>3. CASE UNCHANGED <<pc, opening, journal, snap>>
  BY <1>3 DEF OpeningInv, Book
<1>4. CASE pc' \notin {"open", "opening"}
  BY <1>4 DEF OpeningInv
<1>5. CASE pc' = "opening" /\ opening' = <<>>
  BY <1>2, <1>5 DEF OpeningInv
<1>6. CASE pc' = "open" /\ opening' = Holdings
  BY <1>6 DEF OpeningInv
<1>7. CASE Resolve
  <2>1. CASE pc' \in {"open", "off"}
    BY <1>1, <1>4, <1>6, <1>7, <2>1, ResolveIs DEF Ends
  <2>2. CASE pc' \notin {"open", "off"}
    <3>1. pc' = "resolve"
      BY <1>1, <1>7, <2>2, ResolveIs DEF Ends
    <3> QED BY <1>4, <3>1
  <2> QED BY <2>1, <2>2
<1>8. CASE AskBook
  <2>1. \/ pc' = "off"
        \/ /\ pc = "open" /\ pc' = "opening" /\ journal' = journal
           /\ \/ opening' = <<>>
              \/ opening' = opening /\ \A a \in Asset : Walk(journal).held[a] = 0
    BY <1>8 DEF AskBook, Ends
  <2>2. CASE /\ pc = "open" /\ pc' = "opening" /\ journal' = journal /\ opening' = opening
             /\ \A a \in Asset : Walk(journal).held[a] = 0
    <3>1. opening' = Holdings
      BY <2>2 DEF OpeningInv
    <3> QED BY <1>2, <2>2, <3>1 DEF OpeningInv, Book
  <2> QED BY <1>4, <1>5, <2>1, <2>2
<1>9. CASE OpenOne
  <2>1. /\ pc = "opening" /\ UNCHANGED <<wallet, tx, snap, row, run, outcome>>
        /\ \/ Ends /\ UNCHANGED journal
           \/ \E a \in Asset :
                /\ pc' = pc /\ snap.bal[a] # Unread
                /\ \/ opening = Holdings /\ a = "eth" /\ opening' = <<"usdg">>
                   \/ opening = <<"usdg">> /\ a = "usdg" /\ opening' = <<>>
                /\ \/ snap.bal[a] = 0 /\ UNCHANGED journal
                   \/ /\ snap.bal[a] # 0
                      /\ journal' = Append(journal, Opening(a, snap.bal[a], snap.mark[a]))
    BY <1>1, <1>9, OpenOneIs
  <2>2. ASSUME pc' = "opening", opening = Holdings, opening' = <<"usdg">>, snap.bal["eth"] # Unread,
               \/ snap.bal["eth"] = 0 /\ journal' = journal
               \/ /\ snap.bal["eth"] # 0
                  /\ journal' = Append(journal, Opening("eth", snap.bal["eth"], snap.mark["eth"]))
        PROVE  OpeningInv'
    <3>1. "eth" \in Asset /\ "usdg" \in Asset /\ Book.raised = FALSE /\ Book.held["usdg"] = 0
      BY <2>1, <2>2 DEF OpeningInv, FlightInv, Asset
    <3>2. CASE snap.bal["eth"] = 0 /\ journal' = journal
      BY <1>2, <2>1, <2>2, <3>1, <3>2 DEF OpeningInv, Book
    <3>3. CASE /\ snap.bal["eth"] # 0
               /\ journal' = Append(journal, Opening("eth", snap.bal["eth"], snap.mark["eth"]))
      <4>1. Opens("eth")
        BY <2>1, <2>2, <3>3 DEF Opens
      <4>2. Book'.held[Other("eth")] = Book.held[Other("eth")]
        BY <3>1, <4>1, OpenedBook
      <4>3. PICK e \in AnyEvent : e = Opening("eth", snap.bal["eth"], snap.mark["eth"])
        BY <1>1, <2>2, <3>1, OpeningIs
      <4>4. journal' # <<>>
        BY <1>1, <3>3, <4>3, OneMore
      <4> QED BY <1>2, <2>2, <3>1, <4>2, <4>4, Others DEF OpeningInv
    <3> QED BY <2>2, <3>2, <3>3
  <2>3. CASE Ends
    BY <1>4, <2>3 DEF Ends
  <2> QED BY <1>5, <2>1, <2>2, <2>3
<1>10. CASE Begin \/ Instruct \/ Admit \/ Send \/ Record \/ Killed
  BY <1>4, <1>10 DEF Begin, Instruct, Admit, Send, Record, Killed, Reports, Ends
<1>11. CASE ReadOutcome
  BY <1>4, <1>11 DEF ReadOutcome, Reports
<1>12. CASE BuildSnapshot
  BY <1>4, <1>12 DEF BuildSnapshot
<1>13. ASSUME NEW o \in Runs, Mine(o) \/ Deepen(o) PROVE UNCHANGED <<pc, opening, journal, snap>>
  BY <1>13 DEF Mine, Deepen
<1>14. CASE UNCHANGED vars
  BY <1>3, <1>14 DEF vars
<1> QED BY <1>3, <1>7, <1>8, <1>9, <1>10, <1>11, <1>12, <1>13, <1>14 DEF Next, Command, Chain

(* A command that opens the book.  If it never was, or only in part by this *)
(* same command, nothing has touched the wallet.                            *)
LEMMA OpensDue ==
  ASSUME BaseInv, NEW b \in Asset, Opens(b)
  PROVE  /\ wallet' = wallet /\ GasOf(tx', row') = GasOf(tx, row)
         /\ \A a \in Asset : Due(a) = 0 /\ Due(a)' = 0
<1>1. pc = "opening" /\ UNCHANGED <<wallet, tx, row>>
  BY DEF Opens
<1>2. \A p \in Runs : ~ (row[p].state \in Open)
  BY <1>1, BaseIs DEF ControlInv, Left
<1>3. \A a : DueOf(tx, row, a) = 0
  BY <1>2, NothingDue
<1> QED BY <1>1, <1>3 DEF Due

LEMMA OpensFirst ==
  ASSUME BaseInv, EventInv, FirstInv, OpeningInv, NEW b \in Asset, Opens(b), SpentIn(journal) = {}
  PROVE  /\ snap.bal[b] = wallet[b] /\ GasOf(tx, row) = 0 /\ Book.held[b] = 0
         /\ \A a \in Asset : snap.bal[a] \in {Unread, wallet[a]}
<1>1. \A a \in Asset : Due(a) = 0
  BY OpensDue
<1>2. wallet = Wallet0 /\ \A a \in Asset : snap.bal[a] \in {Unread, Wallet0[a]}
  BY <1>1 DEF FirstInv
<1>3. snap.bal[b] # Unread
  BY DEF Opens
<1>4. \A o \in Runs : row[o].state # "confirmed"
  BY DEF EventInv, SpentIn, Spends
<1>5. GasOf(tx, row) = 0
  BY <1>4, BaseIs, NoGas DEF Types2
<1>6. Book.held[b] = 0
  BY DEF Opens, OpeningInv
<1> QED BY <1>2, <1>3, <1>5, <1>6

(* What was opened stays so, and how often, when an order settles.          *)
LEMMA SettledOpened ==
  ASSUME BaseInv, NEW o, NEW out, Settles(o, out), NEW a
  PROVE  /\ OnceIn(journal') => OnceIn(journal)
         /\ a \in OpenedIn(journal') <=> a \in OpenedIn(journal)
<1>1. o \in Runs /\ journal \in Seq(AnyEvent) /\ Types2
  BY BaseIs DEF Settles, Left
<1>2. Appends(o, out)
  BY SettleAppends
<1>3. ASSUME NEW s \in Seq(AnyEvent), NEW e \in AnyEvent, Spends(e)
      PROVE  /\ Append(s, e) \in Seq(AnyEvent)
             /\ OnceIn(Append(s, e)) => OnceIn(s)
             /\ a \in OpenedIn(Append(s, e)) <=> a \in OpenedIn(s)
  <2>1. e.kind # "opening"
    BY <1>3 DEF Spends
  <2> QED BY <2>1, OneMore, OnceMore, OpenedMore
<1>4. PICK fee \in AnyEvent : fee = FeeOf(o) /\ Spends(fee)
  BY <1>1, FeeOfIs DEF Spends
<1>5. CASE journal' = journal
  BY <1>5
<1>6. CASE journal' = Append(journal, FeeOf(o))
  BY <1>1, <1>3, <1>4, <1>6
<1>7. ASSUME out.state = "confirmed"
      PROVE  /\ OnceIn(journal') => OnceIn(journal)
             /\ a \in OpenedIn(journal') <=> a \in OpenedIn(journal)
  <2>1. PICK fill \in AnyEvent : fill = LiveFill(o) /\ Spends(fill)
    BY <1>1, <1>2, <1>7, FillIs DEF Appends, Spends
  <2>2. CASE journal' = Append(journal, LiveFill(o))
    BY <1>1, <1>3, <2>1, <2>2
  <2>3. CASE journal' = Append(Append(journal, LiveFill(o)), FeeOf(o))
    <3>1. PICK j \in Seq(AnyEvent) : j = Append(journal, fill)
      BY <1>1, <1>3, <2>1
    <3>2. journal' = Append(j, fee)
      BY <1>4, <2>1, <2>3, <3>1
    <3>3. /\ OnceIn(journal') => OnceIn(j)
          /\ a \in OpenedIn(journal') <=> a \in OpenedIn(j)
      BY <1>3, <1>4, <3>2
    <3>4. /\ OnceIn(j) => OnceIn(journal)
          /\ a \in OpenedIn(j) <=> a \in OpenedIn(journal)
      BY <1>1, <1>3, <2>1, <3>1
    <3> QED BY <3>3, <3>4
  <2> QED BY <1>2, <1>7, <2>2, <2>3 DEF Appends
<1> QED BY <1>2, <1>5, <1>6, <1>7 DEF Appends

(* The numbers the wallet's invariants compare.                             *)
Numbers ==
  \A a \in Asset :
    /\ Book.held[a] \in Nat /\ wallet[a] \in Nat /\ GasOf(tx, row) \in Nat
    /\ Twice(a) \in Nat /\ Due(a) \in Int /\ (Book.raised = TRUE \/ Book.raised = FALSE)

LEMMA NumbersAre == BaseInv /\ LedgerInv => Numbers
<1> SUFFICES ASSUME BaseInv, LedgerInv, NEW a \in Asset
             PROVE  /\ Book.held[a] \in Nat /\ wallet[a] \in Nat /\ GasOf(tx, row) \in Nat
                    /\ Twice(a) \in Nat /\ Due(a) \in Int
                    /\ (Book.raised = TRUE \/ Book.raised = FALSE)
  BY DEF Numbers
<1>1. Book.held[a] \in Nat /\ (Book.raised = TRUE \/ Book.raised = FALSE)
  BY DEF LedgerInv, AnyBook
<1>2. wallet[a] \in Nat
  BY BaseIs DEF TypeOK
<1>3. GasOf(tx, row) \in Nat
  BY BaseIs, GasIsNat DEF Types2
<1>4. Due(a) \in Int
  <2>1. CASE Left = {}
    BY <2>1, NothingDue DEF Left, Due
  <2>2. ASSUME NEW o \in Left PROVE Due(a) \in Int
    <3>1. /\ o \in Runs /\ tx[o].gas \in Nat /\ tx[o].got \in Nat /\ row[o].raw \in Nat
      BY BaseIs, OrderTypes DEF Left
    <3>2. Due(a) = Moved(tx[o], row[o], a)
      BY DueOne DEF Due
    <3> QED BY <3>1, <3>2 DEF Moved
  <2> QED BY <2>1, <2>2
<1> QED BY <1>1, <1>2, <1>3, <1>4 DEF Twice

LEMMA NumbersNext == BaseInv' /\ LedgerInv' => Numbers'
BY NumbersAre, PTL

LEMMA WalletStep ==
  /\ BaseInv /\ BaseInv' /\ EventInv /\ LedgerInv /\ LedgerInv' /\ FlightInv /\ FirstInv
  /\ OpeningInv /\ WalletInv /\ [Next]_vars
  => WalletInv'
<1> SUFFICES ASSUME BaseInv, BaseInv', EventInv, LedgerInv, LedgerInv', FlightInv, FirstInv,
                    OpeningInv, WalletInv, [Next]_vars,
                    OnceIn(journal'), Book'.raised = FALSE, NEW a \in Asset
             PROVE  /\ Book'.held[a] + Twice(a)' + Due(a)' <= wallet'[a]
                    /\ a \in OpenedIn(journal') =>
                         Book'.held[a] + Twice(a)' + Due(a)' = wallet'[a]
  BY DEF WalletInv
<1>1. /\ Book.held[a] \in Nat /\ wallet[a] \in Nat /\ GasOf(tx, row) \in Nat /\ Due(a) \in Int
      /\ Twice(a) \in Nat /\ (Book.raised = TRUE \/ Book.raised = FALSE)
  BY NumbersAre DEF Numbers
<1>2. /\ Book'.held[a] \in Nat /\ wallet'[a] \in Nat /\ GasOf(tx', row') \in Nat
      /\ Twice(a)' \in Nat /\ Due(a)' \in Int
  BY NumbersNext DEF Numbers
<1>3. ASSUME OnceIn(journal), Book.raised = FALSE
      PROVE  /\ Book.held[a] + Twice(a) + Due(a) <= wallet[a]
             /\ a \in OpenedIn(journal) => Book.held[a] + Twice(a) + Due(a) = wallet[a]
  BY <1>3 DEF WalletInv
<1>4. CASE Quiet
  <2>1. journal' = journal /\ Book' = Book
    BY <1>4 DEF Quiet, Book
  <2>2. Twice(a)' = Twice(a)
    BY <1>4, QuietDue DEF Twice
  <2>3. \/ wallet'[a] = wallet[a] /\ Due(a)' = Due(a)
        \/ Due(a) = 0 /\ wallet'[a] = wallet[a] + Due(a)'
    BY <1>4, QuietDue
  <2>4. wallet'[a] - Due(a)' = wallet[a] - Due(a)
    BY <1>1, <1>2, <2>3
  <2>5. /\ Book.held[a] + Twice(a) + Due(a) <= wallet[a]
        /\ a \in OpenedIn(journal) => Book.held[a] + Twice(a) + Due(a) = wallet[a]
    BY <1>3, <2>1
  <2>6. Book'.held[a] + Twice(a)' + Due(a)' <= wallet'[a]
    BY <1>1, <1>2, <2>1, <2>2, <2>4, <2>5
  <2>7. a \in OpenedIn(journal) => Book'.held[a] + Twice(a)' + Due(a)' = wallet'[a]
    BY <1>1, <1>2, <2>1, <2>2, <2>4, <2>5
  <2> QED BY <2>1, <2>6, <2>7
<1>5. ASSUME NEW b \in Asset, Opens(b)
      PROVE  /\ Book'.held[a] + Twice(a)' + Due(a)' <= wallet'[a]
             /\ a \in OpenedIn(journal') =>
                  Book'.held[a] + Twice(a)' + Due(a)' = wallet'[a]
  <2>1. PICK e \in AnyEvent :
          e = Opening(b, snap.bal[b], snap.mark[b]) /\ e.kind = "opening" /\ e.asset = b
    BY <1>5, BaseIs, OpeningIs DEF Opens, Opening
  <2>2. journal' = Append(journal, e) /\ journal \in Seq(AnyEvent)
    BY <1>5, <2>1, BaseIs DEF Opens
  <2>3. OnceIn(journal) /\ SpentIn(journal) = {}
    BY <2>1, <2>2, OnceMore
  <2>4. Book.raised = FALSE
    BY <1>5 DEF Opens, FlightInv
  <2>5. /\ wallet' = wallet /\ GasOf(tx', row') = GasOf(tx, row)
        /\ Due(a) = 0 /\ Due(a)' = 0
    BY <1>5, OpensDue
  <2>6. snap.bal[b] = wallet[b] /\ GasOf(tx, row) = 0 /\ Book.held[b] = 0
    BY <1>5, <2>3, OpensFirst
  <2>7. /\ Book'.held[b] = Book.held[b] + snap.bal[b]
        /\ Book'.held[Other(b)] = Book.held[Other(b)]
    BY <1>5, <2>4, OpenedBook
  <2>8. CASE a = b
    BY <1>1, <2>5, <2>6, <2>7, <2>8 DEF Twice
  <2>9. CASE a # b
    <3>1. a = Other(b)
      BY <2>9, Others DEF Asset
    <3>2. a \in OpenedIn(journal') <=> a \in OpenedIn(journal)
      BY <2>1, <2>2, <2>9, OpenedMore
    <3> QED BY <1>1, <1>3, <2>3, <2>4, <2>5, <2>7, <3>1, <3>2 DEF Twice
  <2> QED BY <2>8, <2>9
<1>6. ASSUME NEW o \in Left, NEW out, Settles(o, out)
      PROVE  /\ Book'.held[a] + Twice(a)' + Due(a)' <= wallet'[a]
             /\ a \in OpenedIn(journal') =>
                  Book'.held[a] + Twice(a)' + Due(a)' = wallet'[a]
  <2>1. o \in Runs /\ row[o].state \in InFlight
    BY <1>6, BaseIs, SettledRow
  <2>2. Book.raised = FALSE /\ Book.held[row[o].sells] >= row[o].raw
    BY <2>1 DEF FlightInv
  <2>3. OnceIn(journal) /\ (a \in OpenedIn(journal') <=> a \in OpenedIn(journal))
    BY <1>6, SettledOpened
  <2>4. /\ wallet' = wallet /\ tx' = tx /\ Due(a) = Moved(tx[o], row[o], a)
        /\ Due(a)' = IF out.state = "unknown" THEN Due(a) ELSE 0
    BY <1>6, SettledDue
  <2>5. GasOf(tx', row') = GasOf(tx, row) + Extra(o, out)
    BY <1>6, <2>4, SettledGas
  <2>6. Extra(o, out) \in Nat
    BY <2>1, BaseIs, OrderTypes DEF Extra
  <2>7. CASE out.state = "unknown"
    <3>1. Extra(o, out) = 0
      BY <2>7 DEF Extra
    <3>2. journal' = journal
      <4>1. Appends(o, out)
        BY <1>6, SettleAppends
      <4> QED BY <2>7, <4>1 DEF Appends
    <3>3. Book' = Book /\ Twice(a)' = Twice(a) /\ Due(a)' = Due(a)
      BY <1>1, <2>4, <2>5, <2>7, <3>1, <3>2 DEF Book, Twice
    <3> QED BY <1>3, <2>2, <2>3, <2>4, <3>3
  <2>8. CASE out.state # "unknown"
    <3>1. Book'.held[a] = Book.held[a] + Moved(tx[o], row[o], a)
                            - IF a = "eth" THEN Extra(o, out) ELSE 0
      BY <1>6, <2>2, <2>8, SettledBook
    <3>2. Book'.held[a] + Twice(a)' + Due(a)' = Book.held[a] + Twice(a) + Due(a)
      BY <1>1, <2>4, <2>5, <2>6, <2>8, <3>1 DEF Twice
    <3> QED BY <1>3, <2>2, <2>3, <2>4, <3>2
  <2> QED BY <2>7, <2>8
<1> QED BY <1>4, <1>5, <1>6, StepKinds

LEMMA GasStep ==
  /\ BaseInv /\ BaseInv' /\ EventInv /\ LedgerInv /\ LedgerInv' /\ FlightInv /\ FirstInv
  /\ OpeningInv /\ GasInv /\ [Next]_vars
  => GasInv'
<1> SUFFICES ASSUME BaseInv, BaseInv', EventInv, LedgerInv, LedgerInv', FlightInv, FirstInv,
                    OpeningInv, GasInv, [Next]_vars, GasOf(tx', row') = 0
             PROVE  /\ Book'.raised = FALSE
                    /\ journal' # <<>> => Book'.held["eth"] + Due("eth")' >= wallet'["eth"]
  BY DEF GasInv
<1>1. "eth" \in Asset /\ "usdg" \in Asset
  BY DEF Asset
<1>2. /\ Book.held["eth"] \in Nat /\ wallet["eth"] \in Nat /\ GasOf(tx, row) \in Nat
      /\ Due("eth") \in Int
  BY <1>1, NumbersAre DEF Numbers
<1>3. /\ Book'.held["eth"] \in Nat /\ wallet'["eth"] \in Nat
      /\ Due("eth")' \in Int /\ (Book'.raised = TRUE \/ Book'.raised = FALSE)
  BY <1>1, NumbersNext DEF Numbers
<1>4. ASSUME GasOf(tx, row) = 0
      PROVE  /\ Book.raised = FALSE
             /\ journal # <<>> => Book.held["eth"] + Due("eth") >= wallet["eth"]
  BY <1>4 DEF GasInv
<1>5. CASE Quiet
  <2>1. journal' = journal /\ Book' = Book
    BY <1>5 DEF Quiet, Book
  <2>2. GasOf(tx', row') = GasOf(tx, row)
    BY <1>5, QuietDue
  <2>3. \/ wallet'["eth"] = wallet["eth"] /\ Due("eth")' = Due("eth")
        \/ Due("eth") = 0 /\ wallet'["eth"] = wallet["eth"] + Due("eth")'
    BY <1>1, <1>5, QuietDue
  <2>4. wallet'["eth"] - Due("eth")' = wallet["eth"] - Due("eth")
    BY <1>2, <1>3, <2>3
  <2>5. Book.raised = FALSE /\ (journal # <<>> => Book.held["eth"] + Due("eth") >= wallet["eth"])
    BY <1>4, <2>2
  <2>6. journal # <<>> => Book'.held["eth"] + Due("eth")' >= wallet'["eth"]
    BY <1>2, <1>3, <2>1, <2>4, <2>5, SMTT(40)
  <2> QED BY <2>1, <2>5, <2>6
<1>6. ASSUME NEW b \in Asset, Opens(b)
      PROVE  /\ Book'.raised = FALSE
             /\ journal' # <<>> => Book'.held["eth"] + Due("eth")' >= wallet'["eth"]
  <2>1. /\ wallet' = wallet /\ GasOf(tx', row') = GasOf(tx, row)
        /\ Due("eth") = 0 /\ Due("eth")' = 0
    BY <1>1, <1>6, OpensDue
  <2>2. Book.raised = FALSE
    BY <1>4, <2>1
  <2>3. /\ Book'.raised = FALSE /\ Book'.held[b] = Book.held[b] + snap.bal[b]
        /\ Book'.held[Other(b)] = Book.held[Other(b)]
    BY <1>6, <2>2, OpenedBook
  <2>4. snap.bal[b] \in Nat
    BY <1>6, BaseIs, SnapTypes DEF Opens
  <2>5. Book'.held["eth"] >= Book.held["eth"]
    BY <1>2, <2>3, <2>4, Others DEF Asset
  <2>6. CASE journal # <<>>
    <3>1. Book.held["eth"] + Due("eth") >= wallet["eth"]
      BY <1>4, <2>1, <2>6
    <3>2. Book'.held["eth"] + Due("eth")' >= wallet'["eth"]
      BY <1>2, <1>3, <2>1, <2>5, <3>1
    <3> QED BY <2>3, <3>2
  <2>7. CASE journal = <<>>
    <3>1. SpentIn(journal) = {}
      BY <2>7 DEF SpentIn
    <3>2. /\ snap.bal[b] = wallet[b] /\ Book.held[b] = 0
          /\ snap.bal["eth"] \in {Unread, wallet["eth"]}
      BY <1>1, <1>6, <3>1, OpensFirst
    <3>3. CASE b = "eth"
      BY <1>2, <1>3, <2>1, <2>3, <3>2, <3>3
    <3>4. CASE b = "usdg"
      <4>1. opening = <<"usdg">> /\ pc = "opening"
        BY <1>6, <3>4 DEF Opens
      <4>2. snap.bal["eth"] = 0
        BY <2>7, <4>1 DEF OpeningInv
      <4>3. wallet["eth"] = 0
        BY <3>2, <4>2 DEF Unread
      <4> QED BY <1>3, <2>1, <2>3, <4>3
    <3> QED BY <3>3, <3>4 DEF Asset
  <2> QED BY <2>6, <2>7
<1>7. ASSUME NEW o \in Left, NEW out, Settles(o, out)
      PROVE  /\ Book'.raised = FALSE
             /\ journal' # <<>> => Book'.held["eth"] + Due("eth")' >= wallet'["eth"]
  <2>1. o \in Runs /\ row[o].state \in InFlight /\ row[o].sells \in Asset
    BY <1>7, BaseIs, SettledRow, OrderTypes
  <2>2. Book.raised = FALSE /\ Book.held[row[o].sells] >= row[o].raw
    BY <2>1 DEF FlightInv
  <2>3. /\ wallet' = wallet /\ tx' = tx /\ Due("eth") = Moved(tx[o], row[o], "eth")
        /\ Due("eth")' = IF out.state = "unknown" THEN Due("eth") ELSE 0
    BY <1>7, SettledDue
  <2>4. Extra(o, out) \in Nat
    BY <2>1, BaseIs, OrderTypes DEF Extra
  <2>5. GasOf(tx, row) = 0 /\ Extra(o, out) = 0
    <3>1. GasOf(tx, row) + Extra(o, out) = 0
      BY <1>7, <2>3, SettledGas
    <3> QED BY <1>2, <2>4, <3>1
  <2>6. journal # <<>>
    <3>1. row[o].raw > 0 /\ row[o].raw \in Nat
      BY <2>1, BaseIs, OrderTypes DEF OrderInv, InFlight
    <3>2. Empty.held[row[o].sells] = 0
      BY <2>1 DEF Empty
    <3>3. journal = <<>> => Book.held[row[o].sells] = 0
      BY <3>2, WalkStep DEF Book
    <3> QED BY <2>2, <3>1, <3>3
  <2>7. Book.held["eth"] + Due("eth") >= wallet["eth"]
    BY <1>4, <2>5, <2>6
  <2>8. CASE out.state = "unknown"
    <3>1. journal' = journal
      <4>1. Appends(o, out)
        BY <1>7, SettleAppends
      <4> QED BY <2>8, <4>1 DEF Appends
    <3>2. Book' = Book
      BY <3>1 DEF Book
    <3> QED BY <2>2, <2>3, <2>7, <2>8, <3>2
  <2>9. CASE out.state # "unknown"
    <3>1. /\ Book'.raised = TRUE =>
               Book.held["eth"] + Moved(tx[o], row[o], "eth") - Extra(o, out) < 0
          /\ Book'.raised = FALSE =>
               Book'.held["eth"] = Book.held["eth"] + Moved(tx[o], row[o], "eth") - Extra(o, out)
      BY <1>1, <1>7, <2>2, <2>9, SettledBook
    <3>2. Book.held["eth"] + Due("eth") - Extra(o, out) = Book.held["eth"] + Due("eth")
      BY <1>2, <2>5
    <3>3. Book'.raised = FALSE
      BY <1>2, <1>3, <2>3, <2>7, <3>1, <3>2
    <3> QED BY <1>2, <1>3, <2>3, <2>7, <2>9, <3>1, <3>2, <3>3
  <2> QED BY <2>8, <2>9
<1> QED BY <1>5, <1>6, <1>7, StepKinds

-------------------------------------------------------------------------------
(* The invariant, and what it says *)

LEMMA LegInit == Init => LegInv
<1> SUFFICES ASSUME Init PROVE LegInv
  OBVIOUS
<1>1. BaseInv /\ LedgerInv
  BY BaseInit, LedgerInit
<1>2. journal = <<>> /\ pc = "off" /\ Book = Empty /\ DOMAIN journal = {}
  BY WalkStep DEF Init, Book
<1>3. \A o \in Runs : row[o].state = "none" /\ outcome[o].state = "none"
  BY DEF Init, NoRow, NoOutcome
<1>4. \A a \in Asset : Due(a) = 0
  BY <1>3, NothingDue DEF Due, Open
<1>5. GasOf(tx, row) = 0
  BY <1>1, <1>3, BaseIs, NoGas DEF Types2
<1>6. EventInv
  BY <1>2, <1>3 DEF EventInv
<1>7. FlightInv
  BY <1>2, <1>3 DEF FlightInv, InFlight
<1>8. FirstInv
  BY DEF Init, FirstInv
<1>9. OpeningInv
  BY <1>2 DEF OpeningInv
<1>10. WalletInv
  <2>1. ASSUME NEW a \in Asset
        PROVE  /\ Book.held[a] + Twice(a) + Due(a) <= wallet[a]
               /\ a \in OpenedIn(journal) => Book.held[a] + Twice(a) + Due(a) = wallet[a]
    <3>1. Book.held[a] = 0 /\ Twice(a) = 0 /\ Due(a) = 0 /\ wallet[a] \in Nat
      BY <1>1, <1>2, <1>4, <1>5, BaseIs DEF Empty, Twice, TypeOK
    <3>2. a \notin OpenedIn(journal)
      BY <1>2 DEF OpenedIn
    <3> QED BY <3>1, <3>2
  <2> QED BY <2>1 DEF WalletInv
<1>11. GasInv
  BY <1>2 DEF GasInv, Empty
<1>12. BudgetInv
  <2>1. SpentIn(journal) = {}
    BY <1>2 DEF SpentIn
  <2>2. journal \in Seq(AnyEvent) /\ TradedBut(0, journal) = 0
    BY <1>1, <1>2, BaseIs, TradedIsNat
  <2> QED BY <1>2, <2>1, <2>2, LiveAssumption DEF BudgetInv, LastOf
<1>13. PageInv
  BY <1>2, <1>3 DEF PageInv
<1> QED BY <1>1, <1>6, <1>7, <1>8, <1>9, <1>10, <1>11, <1>12, <1>13 DEF LegInv

LEMMA LegStep == LegInv /\ [Next]_vars => LegInv'
<1> SUFFICES ASSUME LegInv, [Next]_vars PROVE LegInv'
  OBVIOUS
<1>1. /\ BaseInv /\ EventInv /\ LedgerInv /\ FlightInv /\ FirstInv /\ OpeningInv
      /\ WalletInv /\ GasInv /\ BudgetInv /\ PageInv
  BY DEF LegInv
<1>2. BaseInv' /\ LedgerInv'
  BY <1>1, BaseStep, LedgerStep
<1>3. EventInv' /\ FlightInv' /\ BudgetInv' /\ PageInv'
  BY <1>1, EventStep, FlightStep, BudgetStep, PageStep
<1>4. FirstInv' /\ OpeningInv'
  BY <1>1, <1>2, FirstStep, OpeningStep
<1>5. WalletInv' /\ GasInv'
  BY <1>1, <1>2, WalletStep, GasStep
<1> QED BY <1>2, <1>3, <1>4, <1>5 DEF LegInv

LEMMA LegAlways == Spec => []LegInv
BY LegInit, LegStep, PTL DEF Spec

(* With every order settled, of what the real book was opened with it holds *)
(* what the wallet does, but for the gas it was charged twice, and never    *)
(* more than the wallet of anything; whatever was killed, reverted, filled  *)
(* at no mark or opened in part (live_fill, gas_fee, open_real_book).       *)
THEOREM BookAlwaysExplainsWallet == Spec => []BookExplainsWallet
<1>1. LegInv => BookExplainsWallet
  <2> SUFFICES ASSUME LegInv, Settled, OpenedOnce, ~ Book.raised, NEW a \in Asset
               PROVE  LET twice == IF a = "eth" THEN GasTwice ELSE 0
                      IN  /\ Book.held[a] + twice <= wallet[a]
                          /\ a \in OpenedWith => Book.held[a] + twice = wallet[a]
    BY DEF BookExplainsWallet
  <2>1. BaseInv /\ LedgerInv /\ WalletInv
    BY DEF LegInv
  <2>2. Book.held[a] \in Nat /\ Twice(a) \in Nat /\ Book.raised = FALSE
    BY <2>1, NumbersAre DEF Numbers
  <2>3. Due(a) = 0
    <3>1. \A p \in Runs : ~ (row[p].state \in Open)
      BY DEF Settled, Final, Open
    <3> QED BY <3>1, NothingDue DEF Due
  <2>4. OnceIn(journal)
    BY DEF OpenedOnce, Events, OnceIn, Spends
  <2>5. a \in OpenedWith => a \in OpenedIn(journal)
    BY DEF OpenedWith, Events, OpenedIn
  <2>6. (IF a = "eth" THEN GasTwice ELSE 0) = Twice(a)
    BY GasTwiceIs DEF Twice
  <2>7. /\ Book.held[a] + Twice(a) + Due(a) <= wallet[a]
        /\ a \in OpenedIn(journal) => Book.held[a] + Twice(a) + Due(a) = wallet[a]
    BY <2>1, <2>2, <2>4 DEF WalletInv
  <2>8. Book.held[a] + Twice(a) + Due(a) = Book.held[a] + Twice(a)
    BY <2>2, <2>3
  <2> QED BY <2>5, <2>6, <2>7, <2>8
<1> QED BY <1>1, LegAlways, PTL

(* A later command can always read the real book, unless a purchase of ETH  *)
(* was charged its gas twice (ledger._walk).                                *)
THEOREM FoldAlwaysReads == Spec => []FoldRaisesOnlyForGas
<1>1. LegInv => FoldRaisesOnlyForGas
  <2> SUFFICES ASSUME LegInv, Book.raised PROVE GasTwice > 0
    BY DEF FoldRaisesOnlyForGas
  <2>1. GasOf(tx, row) \in Nat
    BY NumbersAre DEF LegInv, Numbers, Asset
  <2>2. GasOf(tx, row) # 0
    BY DEF LegInv, GasInv
  <2> QED BY <2>1, <2>2, GasTwiceIs
<1> QED BY <1>1, LegAlways, PTL

(* Without the last swap the ledger tells of, what was traded is within the *)
(* live budget, whatever slips, gas and restarts there were                 *)
(* (gates.live_budget, ledger.traded_usd).                                  *)
THEOREM BudgetAlwaysPassedOnce == Spec => []BudgetPassedOnce
<1>1. LegInv => BudgetPassedOnce
  <2> SUFFICES ASSUME LegInv PROVE BudgetPassedOnce
    OBVIOUS
  <2>1. TradedBut(LastOf(journal), journal) <= Budget
    BY DEF LegInv, BudgetInv
  <2>2. Events({"fill", "fee"}) = SpentIn(journal)
    BY DEF Events, SpentIn, Spends
  <2> QED BY <2>1, <2>2 DEF BudgetPassedOnce, LastOf
<1> QED BY <1>1, LegAlways, PTL

(* Each swap the page lists is final on the chain and in the store, gave    *)
(* what its row says, and left the book the ledger had after its own last   *)
(* event (dashboard.live_swaps, chain, books).                              *)
THEOREM PageAlwaysListsSettled == Spec => []PageListsSettled
<1>1. LegInv => PageListsSettled
  <2> SUFFICES ASSUME LegInv, NEW o \in DOMAIN Shown.rows
               PROVE  LET own  == {i \in Events({"fill", "fee"}) : journal[i].order = o}
                          then == Walk(SubSeq(journal, 1, Max(own)))
                      IN  /\ row[o].state = "confirmed" /\ tx[o].state = "deep" /\ tx[o].ok
                          /\ own # {}
                          /\ \A i \in own : journal[i].kind = "fill" =>
                                /\ journal[i].raw = Shown.rows[o].gave
                                /\ journal[i].asset = Shown.rows[o].asset
                          /\ o = Max(DOMAIN Shown.rows) =>
                                \A a \in Asset : Shown.book.positions[a].raw = then.held[a]
    BY DEF PageListsSettled
  <2>1. BaseInv /\ EventInv /\ PageInv
    BY DEF LegInv
  <2>2. /\ DOMAIN Shown.rows = LiveSwaps
        /\ \A p \in LiveSwaps : Shown.rows[p].gave = row[p].raw /\ Shown.rows[p].asset = row[p].sells
        /\ LiveSwaps # {} => Shown.book = outcome[Max(LiveSwaps)].book
    BY DEF Shown
  <2>3. o \in Runs /\ outcome[o].state = "confirmed"
    BY <2>2 DEF LiveSwaps
  <2>4. row[o].state = "confirmed" /\ tx[o].state = "deep" /\ tx[o].ok
    BY <2>1, <2>3, BaseIs DEF PageInv, OrderInv
  <2>5. {i \in Events({"fill", "fee"}) : journal[i].order = o} = OwnIn(journal, o)
    BY DEF Events, OwnIn, SpentIn, Spends
  <2>6. OwnIn(journal, o) # {}
    BY <2>1, <2>3, <2>4 DEF EventInv, OwnIn, SpentIn, Spends
  <2>7. \A i \in OwnIn(journal, o) : journal[i].kind = "fill" =>
          journal[i].raw = Shown.rows[o].gave /\ journal[i].asset = Shown.rows[o].asset
    BY <2>1, <2>2 DEF EventInv, Agrees, OwnIn, SpentIn
  <2>8. o = Max(DOMAIN Shown.rows) =>
          \A a \in Asset : Shown.book.positions[a].raw = LeftBy(journal, o, a)
    BY <2>1, <2>2, <2>3 DEF PageInv
  <2> QED BY <2>4, <2>5, <2>6, <2>7, <2>8 DEF LeftBy
<1> QED BY <1>1, LegAlways, PTL

=============================================================================
