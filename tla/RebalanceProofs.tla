--------------------------- MODULE RebalanceProofs ---------------------------
(***************************************************************************)
(* Proofs about Rebalance, for any books, marks, configurations, edits,     *)
(* reports, replies, quotes and fills, and about the page Dashboard makes   *)
(* of a decision, however it ends.                                          *)
(***************************************************************************)
EXTENDS Dashboard, TotalsProofs, FiniteSetTheorems

-------------------------------------------------------------------------------
(* The inductive invariant *)

AnyOrder == [side : {"buy", "sell"}, stock : Stocks, sell : Nat \ {0}]

(* A plan's sells come before its buys.                                     *)
SellsFirst(orders) ==
  \A i \in Side(orders, "sell"), j \in Side(orders, "buy") : i < j

(* What TypeOK leaves out.                                                  *)
Types2 ==
  /\ world \in Worlds
  /\ record.config \in {world.config} \cup world.edits
  /\ admits \in {world.config} \cup world.edits
  /\ record = [config |-> record.config, reports |-> record.reports,
               reply |-> record.reply, approved |-> record.approved,
               signer |-> record.signer]
  /\ plan.cash \in Nat /\ SellsFirst(plan.orders)

Early == {"keys", "size", "vote", "list", "start"}

Running == {"start", "next", "judge", "send", "back"}

(* No order is written before it is approved; before the treasurer takes    *)
(* one, nothing is taken.                                                   *)
RowsInv ==
  /\ pc \in {"keys", "size"} =>
       plan.orders = << >> /\ record.approved = {}
  /\ pc \in Early =>
       cur = 0 /\ siblings = [filled |-> {}, gone |-> {}]
  /\ pc \in {"keys", "size", "vote", "list"} =>
       \A i \in Indices : row[i].state = "none"
  /\ pc \in {"keys", "size", "vote"} => record.approved = {}
  /\ \A i \in Indices \ record.approved : row[i].state = "none"

(* The treasurer takes the orders as they were written: those behind it are *)
(* final, and those ahead are prepared, or settled by a later run.          *)
ControlInv ==
  pc \in Running =>
    /\ \A i \in record.approved :
         /\ i < cur => row[i].state \in Final
         /\ i > cur => row[i].state \in {"prepared", "refused"}
    /\ pc \in {"next", "back"} /\ cur # 0 => row[cur].state \in Final
    /\ pc \in {"judge", "send"} =>
         /\ cur \in record.approved
         /\ cur \notin siblings.filled \cup siblings.gone
         /\ \A i \in record.approved :
              i < cur => i \in siblings.filled \cup siblings.gone
    /\ pc = "judge" => row[cur].state \in {"prepared", "refused"}
    /\ pc = "send" => row[cur].state \in {"submitted", "failed"}

(* What was judged of the order in flight still holds of the book.          *)
InFlightInv ==
  pc = "send" =>
    /\ Held(plan.orders[cur], cash, hold)
    /\ cur \in Buys =>
         /\ admits.floor \in Nat
         /\ CashHeld - Worth(plan.orders[cur]) >= admits.floor

(* Whatever part of the approved orders is written, from the first on.      *)
ApprovedUpTo(n) == {i \in record.approved : i <= n}

VoteInv ==
  \A n \in Nat :
    ApprovedUpTo(n) \cap Buys # {} =>
      CashFloor(CashAfter(plan.cash, plan.orders, ApprovedUpTo(n)), record.config)

RebalanceInv ==
  /\ TypeOK /\ Types2 /\ RowsInv /\ ControlInv /\ InFlightInv
  /\ VoteInv /\ DecisionKeepsFloor

-------------------------------------------------------------------------------
(* Least and greatest *)

LEMMA MinOfTwo ==
  ASSUME NEW a \in Int, NEW b \in Int
  PROVE  Min({a, b}) = IF a <= b THEN a ELSE b
<1>1. \E x \in {a, b} : \A y \in {a, b} : x =< y
  OBVIOUS
<1>2. Min({a, b}) \in {a, b} /\ \A y \in {a, b} : Min({a, b}) =< y
  BY <1>1 DEF Min
<1> HIDE DEF Min
<1> DEFINE m == Min({a, b})
<1>3. m \in {a, b} /\ m <= a /\ m <= b
  BY <1>2
<1> HIDE DEF m
<1>4. m = IF a <= b THEN a ELSE b
  BY <1>3
<1> QED BY <1>4 DEF m

LEMMA MaxOfTwo ==
  ASSUME NEW a \in Int, NEW b \in Int
  PROVE  Max({a, b}) = IF a <= b THEN b ELSE a
<1>1. \E x \in {a, b} : \A y \in {a, b} : x >= y
  OBVIOUS
<1>2. Max({a, b}) \in {a, b} /\ \A y \in {a, b} : Max({a, b}) >= y
  BY <1>1 DEF Max
<1> DEFINE m == Max({a, b})
<1>3. m \in {a, b} /\ m >= a /\ m >= b
  BY <1>2
<1> HIDE DEF m
<1>4. m = IF a <= b THEN b ELSE a
  BY <1>3
<1> QED BY <1>4 DEF m

LEMMA MinIn ==
  ASSUME NEW S \in SUBSET Nat, S # {}
  PROVE  Min(S) \in S /\ \A x \in S : Min(S) <= x
<1>1. \E x \in S : \A y \in S : x =< y
  BY LeastNumber
<1> QED BY <1>1 DEF Min

(* The greatest of some of the numbers up to n.                             *)
LEMMA MaxIn ==
  ASSUME NEW n \in Nat, NEW S \in SUBSET (0..n), S # {}
  PROVE  Max(S) \in S /\ \A x \in S : x <= Max(S)
<1> DEFINE B == {m \in Nat : \A x \in S : x <= m}
<1>1. n \in B /\ B \in SUBSET Nat
  OBVIOUS
<1>2. PICK m \in B : \A k \in B : m <= k
  BY <1>1, LeastNumber
<1>3. m \in S
  <2>1. SUFFICES ASSUME m \notin S PROVE FALSE
    OBVIOUS
  <2>2. PICK x \in S : TRUE
    OBVIOUS
  <2>3. x \in Nat /\ x < m
    BY <1>2, <2>1, <2>2
  <2>4. m - 1 \in B
    <3>1. \A y \in S : y <= m - 1
      BY <1>2, <2>1
    <3> QED BY <1>2, <2>3, <3>1
  <2> QED BY <1>2, <2>3, <2>4
<1>4. \E x \in S : \A y \in S : x >= y
  BY <1>2, <1>3
<1>5. Max(S) \in S /\ \A y \in S : Max(S) >= y
  BY <1>4 DEF Max
<1> QED BY <1>5

-------------------------------------------------------------------------------
(* What orders are worth *)

LEMMA MarksTyped ==
  /\ Stocks = 1..Len(Mark) /\ Len(Mark) \in Nat
  /\ \A s \in Stocks : Mark[s] \in Nat \ {0}
  /\ CashMark \in Nat \ {0}
  BY MarksAssumption DEF Stocks

LEMMA TimesNat == \A x, y \in Nat : x * y \in Nat
  OBVIOUS

(* Orders whose amounts may still be of no units.                           *)
Parts == [side : {"buy", "sell"}, stock : Stocks, sell : Nat]

LEMMA WorthTyped ==
  ASSUME NEW o \in Parts
  PROVE  Worth(o) \in Nat
<1>1. o.sell \in Nat /\ o.stock \in Stocks
  BY DEF Parts
<1>2. (IF o.side = "buy" THEN CashMark ELSE Mark[o.stock]) \in Nat
  BY <1>1, MarksTyped
<1> DEFINE p == IF o.side = "buy" THEN CashMark ELSE Mark[o.stock]
<1>3. o.sell * p \in Nat
  <2> HIDE DEF p
  <2> QED BY <1>1, <1>2, TimesNat DEF p
<1> QED BY <1>3 DEF Worth

LEMMA AnyOrderIsPart == AnyOrder \subseteq Parts
  BY DEF AnyOrder, Parts

(* What the orders of S are worth, order by order.                          *)
Worths(orders, S) ==
  [i \in DOMAIN orders |-> IF i \in S THEN Worth(orders[i]) ELSE 0]

LEMMA WorthsTyped ==
  ASSUME NEW orders \in Seq(Parts), NEW S
  PROVE  /\ Worths(orders, S) \in [1..Len(orders) -> Nat]
         /\ Worths(orders, S) \in [1..Len(orders) -> Int]
         /\ Worths(orders, S) \in Seq(Nat)
         /\ Worths(orders, S) \in Seq(Int)
         /\ WorthOf(orders, S) = Total(Worths(orders, S))
         /\ WorthOf(orders, S) \in Nat
<1>1. Len(orders) \in Nat /\ DOMAIN orders = 1..Len(orders)
  OBVIOUS
<1>2. \A i \in DOMAIN orders : Worth(orders[i]) \in Nat
  BY WorthTyped
<1>3. Worths(orders, S) \in [1..Len(orders) -> Nat]
  BY <1>1, <1>2 DEF Worths
<1>4. /\ Worths(orders, S) \in [1..Len(orders) -> Int]
      /\ Worths(orders, S) \in Seq(Nat) /\ Worths(orders, S) \in Seq(Int)
  BY <1>1, <1>3
<1>5. WorthOf(orders, S) = Total(Worths(orders, S))
  BY DEF WorthOf, Worths
<1> QED BY <1>3, <1>4, <1>5, TotalType

(* More orders are worth no less.                                           *)
LEMMA WorthGrows ==
  ASSUME NEW orders \in Seq(Parts), NEW S, NEW T, S \cap DOMAIN orders \subseteq T
  PROVE  WorthOf(orders, S) <= WorthOf(orders, T)
<1>1. Len(orders) \in Nat
  OBVIOUS
<1>2. \A i \in 1..Len(orders) : Worths(orders, S)[i] <= Worths(orders, T)[i]
  <2>1. \A i \in DOMAIN orders : Worth(orders[i]) \in Nat
    BY WorthTyped
  <2> QED BY <2>1 DEF Worths
<1>3. Total(Worths(orders, S)) <= Total(Worths(orders, T))
  BY <1>1, <1>2, WorthsTyped, TotalGrows
<1> QED BY <1>3, WorthsTyped

(* No orders are worth nothing.                                             *)
LEMMA WorthOfNone ==
  ASSUME NEW orders \in Seq(Parts), NEW S, S \cap DOMAIN orders = {}
  PROVE  WorthOf(orders, S) = 0
<1>1. \A i \in 1..Len(orders) : Worths(orders, S)[i] = 0
  BY DEF Worths
<1> QED BY <1>1, WorthsTyped, TotalZero

(* One of some orders is worth no more than all of them.                    *)
LEMMA WorthOfOne ==
  ASSUME NEW orders \in Seq(Parts), NEW S, NEW i \in DOMAIN orders, i \in S
  PROVE  Worth(orders[i]) <= WorthOf(orders, S)
<1> DEFINE r == Worths(orders, S)
<1>1. r \in Seq(Nat) /\ i \in 1..Len(r) /\ WorthOf(orders, S) = Total(r)
  <2>1. Len(r) = Len(orders)
    BY DEF Worths
  <2> QED BY <2>1, WorthsTyped
<1>2. r[i] = Worth(orders[i])
  BY DEF Worths
<1> HIDE DEF r
<1> QED BY <1>1, <1>2, TotalOfOne

-------------------------------------------------------------------------------
(* What the floor drops *)

(* A buy that is not dropped: what is left up to some buy after it leaves   *)
(* the floor.                                                               *)
LEMMA KeptFloor ==
  ASSUME NEW orders \in Seq(Parts), NEW A, NEW usd, NEW filled, NEW c, NEW b,
         b \in (A \ filled) \cap Side(orders, "buy"),
         b \notin Dropped(orders, A, usd, filled, c)
  PROVE  \E m \in Nat :
           /\ m >= b
           /\ \A i \in (A \ filled) \cap Side(orders, "buy") :
                i \notin Dropped(orders, A, usd, filled, c) => i <= m
           /\ CashFloor(CashAfter(usd, orders, UpTo(orders, A \ filled, m)), c)
<1> DEFINE open  == A \ filled
           clear == Clear(orders, open, usd, c)
           m     == Max(clear)
<1>1. Dropped(orders, A, usd, filled, c) =
        {i \in open \cap Side(orders, "buy") : clear = {} \/ i > m}
  BY DEF Dropped
<1>2. clear \in SUBSET (0..Len(orders)) /\ Len(orders) \in Nat
  BY DEF Clear
<1>3. clear # {} /\ ~ (b > m)
  <2> HIDE DEF clear, m, open
  <2> QED BY <1>1 DEF open
<1>4. m \in clear
  <2> HIDE DEF clear
  <2> QED BY <1>2, <1>3, MaxIn
<1>5. m \in Nat /\ CashFloor(CashAfter(usd, orders, UpTo(orders, open, m)), c)
  <2> HIDE DEF m
  <2> QED BY <1>2, <1>4 DEF Clear
<1>6. \A i \in Side(orders, "buy") : i \in Nat
  BY DEF Side
<1> HIDE DEF m, clear
<1>7. ASSUME NEW i \in (A \ filled) \cap Side(orders, "buy"),
             i \notin Dropped(orders, A, usd, filled, c)
      PROVE  i <= m
  <2>1. ~ (i > m) /\ i \in Nat
    BY <1>1, <1>6, <1>7
  <2> QED BY <1>5, <2>1
<1> QED BY <1>3, <1>5, <1>6, <1>7

LEMMA CashAfterIs ==
  ASSUME NEW orders \in Seq(Parts), NEW usd \in Int, NEW S
  PROVE  /\ CashAfter(usd, orders, S) \in Int
         /\ WorthOf(orders, S \cap Side(orders, "sell")) \in Nat
         /\ WorthOf(orders, S \cap Side(orders, "buy")) \in Nat
         /\ CashAfter(usd, orders, S) =
              usd + WorthOf(orders, S \cap Side(orders, "sell"))
                  - WorthOf(orders, S \cap Side(orders, "buy"))
  BY WorthsTyped DEF CashAfter

(* What is left of a vote, or any first part of it, leaves the floor if it  *)
(* buys at all.                                                             *)
LEMMA VoteKeepsFloor ==
  ASSUME NEW orders \in Seq(Parts), SellsFirst(orders),
         NEW A, A \subseteq DOMAIN orders, NEW usd \in Int,
         NEW c, c.floor \in Nat \cup {Null}, NEW n \in Nat,
         NEW w, w = {i \in A \ Dropped(orders, A, usd, {}, c) : i <= n},
         w \cap Side(orders, "buy") # {}
  PROVE  CashFloor(CashAfter(usd, orders, w), c)
<1> DEFINE D == Dropped(orders, A, usd, {}, c)
           buys == Side(orders, "buy")
           sells == Side(orders, "sell")
<1>1. PICK b \in w \cap buys : TRUE
  OBVIOUS
<1>2. b \in (A \ {}) \cap buys /\ b \notin D
  BY <1>1
<1>3. PICK m \in Nat :
         /\ m >= b
         /\ \A i \in (A \ {}) \cap buys : i \notin D => i <= m
         /\ CashFloor(CashAfter(usd, orders, UpTo(orders, A \ {}, m)), c)
  BY <1>2, KeptFloor
<1> DEFINE u == UpTo(orders, A \ {}, m)
<1>4. u \cap sells \subseteq w \cap sells
  <2>1. SUFFICES ASSUME NEW i \in u \cap sells PROVE i \in w
    OBVIOUS
  <2>2. i \in A /\ i \in sells /\ i \in Nat /\ b \in Nat /\ i < b
    BY <1>1 DEF UpTo, SellsFirst, Side
  <2>3. i \notin buys
    BY <2>2 DEF Side
  <2>4. i \notin D
    BY <2>3 DEF Dropped
  <2> HIDE DEF D
  <2>5. b <= n
    BY <1>1
  <2>6. i <= n
    BY <2>2, <2>5
  <2> QED BY <2>2, <2>4, <2>6 DEF D
<1>5. w \cap buys \subseteq u \cap buys
  <2>1. SUFFICES ASSUME NEW i \in w \cap buys PROVE i \in u
    OBVIOUS
  <2>2. i \in A /\ i \notin D /\ i \in Nat
    BY DEF Side
  <2>3. i <= m
    <3> HIDE DEF D, buys
    <3> QED BY <1>3, <2>1, <2>2
  <2>4. ~ (i > m)
    BY <2>2, <2>3, <1>3
  <2> QED BY <2>2, <2>4 DEF UpTo
<1> HIDE DEF u, D, buys, sells
<1>6. CashFloor(CashAfter(usd, orders, u), c)
  BY <1>3 DEF u
<1>7. c.floor # Null /\ c.floor \in Nat /\ CashAfter(usd, orders, u) >= c.floor
  BY <1>6 DEF CashFloor
<1>8. WorthOf(orders, u \cap sells) <= WorthOf(orders, w \cap sells)
  BY <1>4, WorthGrows
<1>9. WorthOf(orders, w \cap buys) <= WorthOf(orders, u \cap buys)
  BY <1>5, WorthGrows
<1>10. /\ CashAfter(usd, orders, u) = usd + WorthOf(orders, u \cap sells)
                                          - WorthOf(orders, u \cap buys)
       /\ CashAfter(usd, orders, w) = usd + WorthOf(orders, w \cap sells)
                                          - WorthOf(orders, w \cap buys)
       /\ WorthOf(orders, u \cap sells) \in Nat /\ WorthOf(orders, u \cap buys) \in Nat
       /\ WorthOf(orders, w \cap sells) \in Nat /\ WorthOf(orders, w \cap buys) \in Nat
  BY CashAfterIs DEF buys, sells
<1>11. c.floor # Null /\ CashAfter(usd, orders, w) >= c.floor
  BY <1>7, <1>8, <1>9, <1>10
<1> QED BY <1>11 DEF CashFloor

(* A buy the chokepoint does not drop, once every sell has filled or gone:  *)
(* the cash left after it is at the floor or above.                         *)
LEMMA AdmittedKeepsFloor ==
  ASSUME NEW orders \in Seq(Parts), NEW A, NEW usd \in Int, NEW filled,
         NEW c, c.floor \in Nat \cup {Null}, NEW b,
         b \in (A \ filled) \cap Side(orders, "buy"),
         b \notin Dropped(orders, A, usd, filled, c),
         (A \ filled) \cap Side(orders, "sell") = {}
  PROVE  c.floor \in Nat /\ usd - Worth(orders[b]) >= c.floor
<1> DEFINE buys == Side(orders, "buy")
           sells == Side(orders, "sell")
<1>1. PICK m \in Nat :
         /\ m >= b
         /\ CashFloor(CashAfter(usd, orders, UpTo(orders, A \ filled, m)), c)
  BY KeptFloor
<1> DEFINE u == UpTo(orders, A \ filled, m)
<1>2. b \in u \cap buys /\ b \in DOMAIN orders /\ u \cap sells = {}
  <2>1. b \in Nat /\ b \in DOMAIN orders
    BY DEF Side
  <2>2. ~ (b > m)
    BY <1>1, <2>1
  <2> QED BY <2>1, <2>2 DEF UpTo
<1> HIDE DEF u, buys, sells
<1>3. c.floor \in Nat /\ CashAfter(usd, orders, u) >= c.floor
  BY <1>1 DEF CashFloor, u
<1>4. WorthOf(orders, u \cap sells) = 0
  BY <1>2, WorthOfNone
<1>5. Worth(orders[b]) <= WorthOf(orders, u \cap buys)
  BY <1>2, WorthOfOne
<1>6. /\ CashAfter(usd, orders, u) = usd + WorthOf(orders, u \cap sells)
                                         - WorthOf(orders, u \cap buys)
      /\ WorthOf(orders, u \cap buys) \in Nat
  BY CashAfterIs DEF buys, sells
<1>7. Worth(orders[b]) \in Nat
  <2>1. orders[b] \in Parts
    BY <1>2
  <2> QED BY <2>1, WorthTyped
<1> QED BY <1>3, <1>4, <1>5, <1>6, <1>7

-------------------------------------------------------------------------------
(* Lists of lists *)

(* The function FlattenSeq chooses: the first i lists, one after another.   *)
Joins(f, s, n) ==
  f = [i \in 1..n |-> IF i = 1 THEN s[i] ELSE f[i - 1] \o s[i]]

LEMMA JoinsExists ==
  ASSUME NEW s, NEW n \in Nat
  PROVE  \E f : Joins(f, s, n)
<1> DEFINE Missing == {k \in Nat : ~ \E f : Joins(f, s, k)}
<1>1. SUFFICES ASSUME n \in Missing PROVE FALSE
  OBVIOUS
<1>2. PICK k \in Missing : \A m \in Missing : k <= m
  BY <1>1, LeastNumber
<1>3. k # 0
  <2>1. Joins([i \in 1..0 |-> s], s, 0)
    BY DEF Joins
  <2> QED BY <1>2, <2>1
<1> DEFINE m == k - 1
<1>4. m \in Nat /\ k = m + 1 /\ ~ (k <= m)
  BY <1>2, <1>3
<1>5. PICK f : Joins(f, s, m)
  <2> HIDE DEF m
  <2> QED BY <1>2, <1>4
<1> DEFINE g == [i \in 1..k |-> IF i = 1 THEN s[i] ELSE f[i - 1] \o s[i]]
<1>6. \A i \in 1..m : g[i] = f[i]
  <2>1. \A i \in 1..m : f[i] = IF i = 1 THEN s[i] ELSE f[i - 1] \o s[i]
    BY <1>5 DEF Joins
  <2> QED BY <1>4, <2>1
<1>7. \A i \in 1..k : i # 1 => g[i - 1] = f[i - 1]
  <2>1. \A i \in 1..k : i # 1 => i - 1 \in 1..m
    BY <1>4
  <2> HIDE DEF g
  <2> QED BY <1>6, <2>1
<1>8. Joins(g, s, k)
  BY <1>7 DEF Joins
<1> QED BY <1>2, <1>8

(* What FlattenSeq gives: the last of them.                                 *)
LEMMA FlattenIs ==
  ASSUME NEW T, NEW n \in Nat, NEW s \in [1..n -> Seq(T)], n # 0
  PROVE  \E f : FlattenSeq(s) = f[n] /\ Joins(f, s, n)
<1> DEFINE f == CHOOSE g : Joins(g, s, n)
<1>1. Len(s) = n
  OBVIOUS
<1>2. FlattenSeq(s) = f[n]
  BY <1>1 DEF FlattenSeq, Joins
<1>3. Joins(f, s, n)
  BY JoinsExists
<1> HIDE DEF f
<1> QED BY <1>2, <1>3

LEMMA FlattenNone == FlattenSeq(<< >>) = << >>
  BY DEF FlattenSeq

(* Lists of one kind, joined, are a list of that kind.                      *)
LEMMA JoinedTyped ==
  ASSUME NEW T, NEW n \in Nat, NEW s \in [1..n -> Seq(T)], NEW f,
         \A i \in 1..n : f[i] = IF i = 1 THEN s[i] ELSE f[i - 1] \o s[i]
  PROVE  \A i \in 1..n : f[i] \in Seq(T)
<1> DEFINE Bad == {i \in 1..n : f[i] \notin Seq(T)}
<1>1. SUFFICES ASSUME Bad # {} PROVE FALSE
  OBVIOUS
<1>2. Bad \in SUBSET Nat
  OBVIOUS
<1>3. PICK i \in Bad : \A j \in Bad : i <= j
  BY <1>1, <1>2, LeastNumber
<1>4. i \in 1..n /\ f[i] \notin Seq(T) /\ s[i] \in Seq(T)
  OBVIOUS
<1>5. i # 1
  BY <1>4
<1>6. i - 1 \in 1..n /\ ~ (i <= i - 1)
  BY <1>4, <1>5
<1>7. f[i - 1] \in Seq(T)
  BY <1>3, <1>6
<1>8. f[i] = f[i - 1] \o s[i]
  BY <1>4, <1>5
<1> QED BY <1>4, <1>7, <1>8

LEMMA FlattenTyped ==
  ASSUME NEW T, NEW n \in Nat, NEW s \in [1..n -> Seq(T)]
  PROVE  FlattenSeq(s) \in Seq(T)
<1>1. CASE n = 0
  <2>1. s = << >>
    BY <1>1
  <2>2. FlattenSeq(s) = << >>
    BY <2>1, FlattenNone
  <2>3. << >> \in Seq(T)
    OBVIOUS
  <2> QED BY <2>2, <2>3
<1>2. CASE n # 0
  <2>0. PICK f : FlattenSeq(s) = f[n] /\ Joins(f, s, n)
    BY <1>2, FlattenIs
  <2>1. /\ FlattenSeq(s) = f[n]
        /\ \A i \in 1..n : f[i] = IF i = 1 THEN s[i] ELSE f[i - 1] \o s[i]
    BY <2>0 DEF Joins
  <2>2. n \in 1..n
    BY <1>2
  <2> QED BY <2>1, <2>2, JoinedTyped
<1> QED BY <1>1, <1>2

-------------------------------------------------------------------------------
(* The sizes of a plan's orders *)

LEMMA DivNat ==
  /\ \A a \in Int, b \in Nat \ {0} : a \div b \in Int
  /\ \A a \in Nat, b \in Nat \ {0} : a \div b \in Nat /\ a % b \in Nat
  OBVIOUS

(* The shares of a configuration that says how to split.                    *)
LEMMA SplitTyped ==
  ASSUME NEW c, c.maxTrade \in (Nat \ {0}) \cup {Null},
         c.minOrder \in Nat \cup {Null}, CanSplit(c), NEW usd \in Nat
  PROVE  Split(usd, c) \in Nat
<1>1. c.maxTrade \in Nat \ {0} /\ c.minOrder \in Nat
  BY DEF CanSplit
<1>2. usd + c.maxTrade - 1 \in Nat
  BY <1>1
<1>3. (usd + c.maxTrade - 1) \div c.maxTrade \in Nat
  BY <1>1, <1>2, DivNat
<1> QED BY <1>3 DEF Split, RoundedUp

LEMMA EvenTyped ==
  ASSUME NEW total \in Nat, NEW parts \in Nat
  PROVE  /\ DOMAIN Even(total, parts) = 1..parts
         /\ \A k \in 1..parts : Even(total, parts)[k] \in Nat
<1>1. ASSUME NEW k \in 1..parts
      PROVE  total \div parts + (IF k <= total % parts THEN 1 ELSE 0) \in Nat
  <2>1. parts \in Nat \ {0}
    OBVIOUS
  <2>2. total \div parts \in Nat
    BY <2>1, DivNat
  <2> DEFINE q == total \div parts
  <2>3. q \in Nat
    BY <2>2
  <2> HIDE DEF q
  <2>4. q + (IF k <= total % parts THEN 1 ELSE 0) \in Nat
    BY <2>3
  <2> QED BY <2>4 DEF q
<1> QED BY <1>1 DEF Even

SellParts == [side : {"sell"}, stock : Stocks, sell : Nat]
BuyParts  == [side : {"buy"}, stock : Stocks, sell : Nat]

(* The configuration that is read.                                          *)
Config(c) ==
  /\ c.maxTrade \in (Nat \ {0}) \cup {Null}
  /\ c.minOrder \in Nat \cup {Null}
  /\ c.floor \in Nat \cup {Null}
  /\ c.weight \in Nat \cup {Null}

LEMMA SoldTyped ==
  ASSUME hold \in [Stocks -> Nat], NEW s \in Stocks, NEW cut \in Nat
  PROVE  Sold(s, cut) \in Nat
<1>1. hold[s] \in Nat /\ Mark[s] \in Nat \ {0}
  BY MarksTyped
<1>2. Units(cut, Mark[s]) \in Nat
  BY <1>1, DivNat DEF Units
<1>3. Min({Units(cut, Mark[s]), hold[s]}) \in Nat
  <2> HIDE DEF Min
  <2>1. Units(cut, Mark[s]) \in Int /\ hold[s] \in Int
    BY <1>1, <1>2
  <2> QED BY <1>1, <1>2, <2>1, MinOfTwo
<1> QED BY <1>1, <1>3 DEF Sold

(* What is split is typed: a list of parts, each under its stock.           *)
LEMMA PartsTyped ==
  ASSUME NEW total \in Nat, NEW usd \in Nat, NEW c, Config(c), CanSplit(c)
  PROVE  LET parts == IF total = 0 THEN << >> ELSE Even(total, Split(usd, c))
         IN  \E n \in Nat : DOMAIN parts = 1..n /\ \A k \in 1..n : parts[k] \in Nat
<1>1. CASE total = 0
  <2>1. DOMAIN << >> = 1..0
    OBVIOUS
  <2> QED BY <1>1, <2>1
<1>2. CASE total # 0
  <2>1. Split(usd, c) \in Nat
    BY SplitTyped DEF Config
  <2>2. /\ DOMAIN Even(total, Split(usd, c)) = 1..Split(usd, c)
        /\ \A k \in 1..Split(usd, c) : Even(total, Split(usd, c))[k] \in Nat
    BY <2>1, EvenTyped
  <2> QED BY <1>2, <2>1, <2>2
<1> QED BY <1>1, <1>2

LEMMA SellsTyped ==
  ASSUME hold \in [Stocks -> Nat], NEW move \in [Stocks -> Int], NEW s \in Stocks,
         NEW c, Config(c), ~ NoLimit(move, c)
  PROVE  SellsOf(move, s, c) \in Seq(SellParts)
<1> DEFINE sold  == IF move[s] < 0 THEN Sold(s, -move[s]) ELSE 0
           parts == IF sold = 0 THEN << >> ELSE Even(sold, Split(sold * Mark[s], c))
<1>1. SellsOf(move, s, c) = [k \in DOMAIN parts |-> Order("sell", s, parts[k])]
  BY DEF SellsOf
<1>2. sold \in Nat
  <2>1. move[s] < 0 => -move[s] \in Nat
    OBVIOUS
  <2> QED BY <2>1, SoldTyped
<1>3. sold # 0 => CanSplit(c)
  BY <1>2 DEF NoLimit
<1>4. \E n \in Nat : DOMAIN parts = 1..n /\ \A k \in 1..n : parts[k] \in Nat
  <2>1. CASE sold = 0
    <3>1. parts = << >> /\ DOMAIN << >> = 1..0
      BY <2>1
    <3> QED BY <3>1
  <2>2. CASE sold # 0
    <3>1. sold * Mark[s] \in Nat
      <4> HIDE DEF sold
      <4> QED BY <1>2, MarksTyped, TimesNat
    <3> HIDE DEF sold
    <3> QED BY <1>2, <1>3, <2>2, <3>1, PartsTyped
  <2> QED BY <2>1, <2>2
<1>5. PICK n \in Nat : DOMAIN parts = 1..n /\ \A k \in 1..n : parts[k] \in Nat
  BY <1>4
<1> HIDE DEF parts
<1>6. \A k \in 1..n : Order("sell", s, parts[k]) \in SellParts
  BY <1>5 DEF Order, SellParts
<1> QED BY <1>1, <1>5, <1>6

LEMMA FundTyped ==
  ASSUME NEW usd \in Int, NEW proceeds \in Int, NEW wanted \in Int,
         NEW c, Config(c)
  PROVE  LET share == Fund(usd, proceeds, wanted, c)
         IN  /\ share[1] \in Nat /\ share[2] \in Nat \ {0}
             /\ c.floor = Null => share[1] = 0
<1> DEFINE share == Fund(usd, proceeds, wanted, c)
           spare == usd + proceeds - c.floor
<1>1. CASE c.floor = Null
  <2>1. share = <<0, 1>>
    BY <1>1 DEF Fund
  <2> QED BY <2>1
<1>2. CASE c.floor # Null
  <2>1. c.floor \in Nat
    BY <1>2 DEF Config
  <2>2. spare \in Int
    BY <2>1
  <2>3. \/ share = <<1, 1>> \/ share = <<0, 1>>
        \/ share = <<spare, wanted>> /\ ~ (wanted <= 0) /\ ~ (spare <= 0)
    <3> HIDE <2>2
    <3> QED BY <1>2 DEF Fund
  <2> HIDE DEF spare, share
  <2> QED BY <1>2, <2>2, <2>3 DEF share
<1> QED BY <1>1, <1>2

LEMMA BuysTyped ==
  ASSUME NEW move \in [Stocks -> Int], NEW s \in Stocks, NEW share,
         share[1] \in Nat, share[2] \in Nat \ {0},
         NEW c, Config(c), c.floor = Null => share[1] = 0, ~ NoLimit(move, c)
  PROVE  BuysOf(move, s, share, c) \in Seq(BuyParts)
<1> DEFINE usd   == IF move[s] > 0 THEN (move[s] * share[1]) \div share[2] ELSE 0
           parts == IF usd = 0 THEN << >> ELSE Even(usd, Split(usd, c))
<1>1. BuysOf(move, s, share, c) =
        [k \in DOMAIN parts |-> Order("buy", s, Units(parts[k], CashMark))]
  BY DEF BuysOf
<1>2. usd \in Nat
  <2>1. CASE move[s] > 0
    <3>1. move[s] \in Nat
      BY <2>1
    <3>2. move[s] * share[1] \in Nat
      BY <3>1, TimesNat
    <3>3. (move[s] * share[1]) \div share[2] \in Nat
      BY <3>2, DivNat
    <3> QED BY <2>1, <3>3
  <2> QED BY <2>1
<1>3. usd # 0 => CanSplit(c)
  <2>1. SUFFICES ASSUME usd # 0, ~ CanSplit(c) PROVE FALSE
    OBVIOUS
  <2>2. move[s] > 0
    BY <2>1
  <2>3. share[1] = 0
    BY <2>1, <2>2 DEF NoLimit
  <2>4. move[s] * share[1] = 0
    BY <2>3
  <2>5. 0 \div share[2] = 0
    OBVIOUS
  <2>6. usd = 0
    BY <2>2, <2>4, <2>5
  <2> HIDE DEF usd
  <2> QED BY <2>1, <2>6
<1>4. \E n \in Nat : DOMAIN parts = 1..n /\ \A k \in 1..n : parts[k] \in Nat
  <2>1. CASE usd = 0
    <3>1. parts = << >> /\ DOMAIN << >> = 1..0
      BY <2>1
    <3> QED BY <3>1
  <2>2. CASE usd # 0
    <3> HIDE DEF usd
    <3> QED BY <1>2, <1>3, <2>2, PartsTyped
  <2> QED BY <2>1, <2>2
<1>5. PICK n \in Nat : DOMAIN parts = 1..n /\ \A k \in 1..n : parts[k] \in Nat
  BY <1>4
<1> HIDE DEF parts
<1>6. \A k \in 1..n : Units(parts[k], CashMark) \in Nat
  BY <1>5, MarksTyped, DivNat DEF Units
<1>7. \A k \in 1..n : Order("buy", s, Units(parts[k], CashMark)) \in BuyParts
  BY <1>6 DEF Order, BuyParts
<1> QED BY <1>1, <1>5, <1>7

(* The plan's orders: sells, then buys, and none of no units.               *)
LEMMA SizedTyped ==
  ASSUME hold \in [Stocks -> Nat], cash \in Nat, NEW move \in [Stocks -> Int],
         NEW c, Config(c), CanSize(move, c)
  PROVE  Sized(move, c) \in Seq(AnyOrder) /\ SellsFirst(Sized(move, c))
<1> DEFINE lists == [s \in Stocks |-> SellsOf(move, s, c)]
           sells == FlattenSeq(lists)
           wants == [s \in Stocks |-> Max({0, move[s]})]
           share == Fund(CashHeld, WorthOf(sells, DOMAIN sells), Total(wants), c)
           after == [s \in Stocks |-> BuysOf(move, s, share, c)]
           buys  == FlattenSeq(after)
<1>1. Sized(move, c) = sells \o buys
  BY DEF Sized
<1>2. Stocks = 1..Len(Mark) /\ Len(Mark) \in Nat
  BY MarksTyped
<1>3. ~ NoLimit(move, c) /\ ~ NoUnits(move, c)
  BY DEF CanSize
<1>4. sells \in Seq(SellParts)
  <2>1. lists \in [1..Len(Mark) -> Seq(SellParts)]
    BY <1>2, <1>3, SellsTyped
  <2> HIDE DEF lists
  <2> QED BY <1>2, <2>1, FlattenTyped
<1>5. share[1] \in Nat /\ share[2] \in Nat \ {0} /\ (c.floor = Null => share[1] = 0)
  <2>1. WorthOf(sells, DOMAIN sells) \in Int
    <3>1. sells \in Seq(Parts)
      <4>1. SellParts \subseteq Parts
        BY DEF SellParts, Parts
      <4> HIDE DEF sells
      <4> QED BY <1>4, <4>1
    <3> HIDE DEF sells
    <3> QED BY <3>1, WorthsTyped
  <2>2. Total(wants) \in Int
    <3>1. \A s \in Stocks : Max({0, move[s]}) \in Int
      <4> HIDE DEF Max
      <4> QED BY MaxOfTwo
    <3>2. wants \in Seq(Int)
      BY <1>2, <3>1
    <3> HIDE DEF wants
    <3> QED BY <3>2, TotalType
  <2>3. CashHeld \in Int
    BY MarksTyped, TimesNat DEF CashHeld
  <2> HIDE DEF sells, wants
  <2> QED BY <2>1, <2>2, <2>3, FundTyped
<1>6. buys \in Seq(BuyParts)
  <2> HIDE DEF share
  <2>1. after \in [1..Len(Mark) -> Seq(BuyParts)]
    BY <1>2, <1>3, <1>5, BuysTyped
  <2> HIDE DEF after
  <2> QED BY <1>2, <2>1, FlattenTyped
<1> HIDE DEF sells, buys
<1> DEFINE orders == sells \o buys
<1>7. /\ Len(sells) \in Nat /\ Len(buys) \in Nat
      /\ DOMAIN orders = 1..(Len(sells) + Len(buys))
      /\ \A i \in 1..Len(sells) : orders[i] = sells[i] /\ sells[i] \in SellParts
      /\ \A i \in DOMAIN orders : i > Len(sells) =>
            /\ orders[i] = buys[i - Len(sells)] /\ i - Len(sells) \in 1..Len(buys)
            /\ buys[i - Len(sells)] \in BuyParts
  BY <1>4, <1>6
<1>8. \A i \in DOMAIN orders : orders[i] \in Parts
  BY <1>7 DEF SellParts, BuyParts, Parts
<1>9. \A i \in DOMAIN orders : orders[i].sell # 0
  BY <1>1, <1>3 DEF NoUnits
<1>10. \A i \in DOMAIN orders : orders[i] \in AnyOrder
  BY <1>8, <1>9 DEF Parts, AnyOrder
<1>11. orders \in Seq(AnyOrder)
  <2>1. SellParts \subseteq Parts /\ BuyParts \subseteq Parts
    BY DEF SellParts, BuyParts, Parts
  <2>2. sells \in Seq(Parts) /\ buys \in Seq(Parts)
    BY <1>4, <1>6, <2>1
  <2>3. orders \in Seq(Parts)
    BY <2>2
  <2> HIDE DEF orders
  <2>4. orders = [i \in DOMAIN orders |-> orders[i]] /\ DOMAIN orders = 1..Len(orders)
    BY <2>3
  <2> QED BY <2>3, <2>4, <1>10
<1>12. SellsFirst(orders)
  <2>1. \A i \in Side(orders, "sell") : i \in DOMAIN orders /\ i <= Len(sells)
    BY <1>7 DEF Side, BuyParts
  <2>2. \A j \in Side(orders, "buy") : j \in DOMAIN orders /\ j > Len(sells)
    BY <1>7 DEF Side, SellParts
  <2> HIDE DEF orders
  <2> QED BY <1>7, <2>1, <2>2 DEF SellsFirst
<1> QED BY <1>1, <1>11, <1>12

-------------------------------------------------------------------------------
(* The moves the reports ask for *)

LEMMA IntOps ==
  \A x, y \in Int : x * y \in Int /\ -x \in Int /\ x - y \in Int /\ x + y \in Int
  OBVIOUS

(* Reports as they are accepted: finitely many, and each of its calls in    *)
(* its seat's words.                                                        *)
Reported(reports) ==
  /\ IsFiniteSet(reports)
  /\ \A r \in reports : \A x \in r.calls :
        x.word \in Vocabulary[Kind[r.seat]] /\ x.conf \in Confidences

LEMMA CheckedReported ==
  ASSUME NEW offered, IsFiniteSet(offered), NEW snap
  PROVE  Reported(Checked(offered, snap))
<1> DEFINE S == {x \in offered : ReportHolds(x, snap)}
           T == Checked(offered, snap)
           f == [o \in S |-> [seat |-> o.seat, calls |-> Calls(o.report)]]
<1>1. T = {[seat |-> o.seat, calls |-> Calls(o.report)] : o \in S}
  BY DEF Checked
<1>2. IsFiniteSet(S)
  <2>1. S \in SUBSET offered
    OBVIOUS
  <2> HIDE DEF S
  <2> QED BY <2>1, FS_Subset
<1>3. IsFiniteSet(T)
  <2>1. f \in Surjection(S, T)
    <3> HIDE DEF S, T
    <3>1. f \in [S -> T]
      BY <1>1
    <3>2. \A t \in T : \E o \in S : f[o] = t
      BY <1>1
    <3> HIDE DEF f
    <3> QED BY <3>1, <3>2 DEF Surjection
  <2> HIDE DEF f, S, T
  <2> QED BY <1>2, <2>1, FS_Surjection
<1>4. ASSUME NEW r \in T, NEW x \in r.calls
      PROVE  x.word \in Vocabulary[Kind[r.seat]] /\ x.conf \in Confidences
  <2>1. PICK o \in S : r = [seat |-> o.seat, calls |-> Calls(o.report)]
    BY <1>1
  <2>2. PICK k \in CallLines(o.report) : x = o.report.lines[k]
    BY <2>1 DEF Calls
  <2>3. CallHolds(o.report.lines[k], o.seat, snap)
    BY <2>2 DEF ReportHolds
  <2> QED BY <2>1, <2>2, <2>3 DEF CallHolds
<1> HIDE DEF T
<1>5. Reported(T)
  BY <1>3, <1>4 DEF Reported
<1> QED BY <1>5 DEF T

LEMMA SeqOfSet ==
  ASSUME NEW S, IsFiniteSet(S)
  PROVE  Cardinality(S) \in Nat /\ SetToSeq(S) \in [1..Cardinality(S) -> S]
<1>1. Cardinality(S) \in Nat /\ ExistsBijection(1..Cardinality(S), S)
  BY FS_CardinalityType
<1>2. \E f \in [1..Cardinality(S) -> S] : IsInjective(f)
  BY <1>1 DEF ExistsBijection, Bijection, Injection
<1> QED BY <1>1, <1>2 DEF SetToSeq

LEMMA CallingTyped ==
  ASSUME NEW reports, Reported(reports), NEW s, NEW kind
  PROVE  /\ IsFiniteSet(Calling(reports, kind, s))
         /\ \A r \in Calling(reports, kind, s) :
              /\ Contribution(r, s).word \in Vocabulary[kind]
              /\ Contribution(r, s).quarters \in {1, 2, 3}
<1>1. IsFiniteSet(Calling(reports, kind, s))
  <2>1. Calling(reports, kind, s) \in SUBSET reports
    BY DEF Calling
  <2> QED BY <2>1, FS_Subset DEF Reported
<1>2. ASSUME NEW r \in Calling(reports, kind, s)
      PROVE  /\ Contribution(r, s).word \in Vocabulary[kind]
             /\ Contribution(r, s).quarters \in {1, 2, 3}
  <2>1. r \in reports /\ Kind[r.seat] = kind /\ \E x \in r.calls : x.stock = s
    BY DEF Calling
  <2> DEFINE x == CHOOSE c \in r.calls : c.stock = s
  <2>2. x \in r.calls
    BY <2>1
  <2>3. Contribution(r, s) = [seat |-> r.seat, word |-> x.word, quarters |-> Quarters[x.conf]]
    BY DEF Contribution
  <2> HIDE DEF x
  <2>4. x.word \in Vocabulary[kind] /\ x.conf \in Confidences
    BY <2>1, <2>2 DEF Reported
  <2>5. Quarters[x.conf] \in {1, 2, 3}
    BY <2>4 DEF Confidences, Quarters
  <2> QED BY <2>3, <2>4, <2>5
<1> QED BY <1>1, <1>2

(* The sum of the directions, and how many reports it is taken of.          *)
LEMMA DirectedTyped ==
  ASSUME NEW reports, Reported(reports), NEW s
  PROVE  /\ Directed(reports, s) \in Int
         /\ Cardinality(Calling(reports, "direction", s)) \in Nat
         /\ Directed(reports, s) # 0 =>
              Cardinality(Calling(reports, "direction", s)) # 0
<1> DEFINE S == Calling(reports, "direction", s)
           q == SetToSeq(S)
           leanings == [k \in DOMAIN q |-> Leaning(q[k], s)]
<1>1. IsFiniteSet(S)
  BY CallingTyped
<1>2. Cardinality(S) \in Nat /\ q \in [1..Cardinality(S) -> S]
  <2> HIDE DEF S
  <2> QED BY <1>1, SeqOfSet
<1>3. \A r \in S : Leaning(r, s) \in Int
  <2>1. SUFFICES ASSUME NEW r \in S PROVE Leaning(r, s) \in Int
    OBVIOUS
  <2> DEFINE w == Contribution(r, s).word
             n == Contribution(r, s).quarters
  <2>2. w \in Vocabulary["direction"] /\ n \in {1, 2, 3}
    BY CallingTyped
  <2> HIDE DEF w, n
  <2>3. Direction[w] \in Int
    BY <2>2 DEF Vocabulary, Direction
  <2>4. Direction[w] * n \in Int
    BY <2>2, <2>3, IntOps
  <2> QED BY <2>4 DEF Leaning, w, n
<1>4. Directed(reports, s) = Total(leanings)
  BY DEF Directed
<1> HIDE DEF S, q
<1>5. leanings \in Seq(Int) /\ DOMAIN leanings = 1..Cardinality(S)
  BY <1>2, <1>3
<1>6. Cardinality(S) = 0 => leanings = << >>
  BY <1>5
<1> HIDE DEF leanings
<1>7. Cardinality(S) = 0 => Total(leanings) = 0
  BY <1>6, TotalStep
<1>8. Total(leanings) \in Int
  BY <1>5, TotalType
<1> QED BY <1>2, <1>4, <1>7, <1>8 DEF S

LEMMA CautionTyped ==
  ASSUME NEW reports, Reported(reports), NEW s
  PROVE  Caution(reports, s) \in 0..3
<1> DEFINE Q == {0} \cup {x.quarters : x \in {y \in Said(reports, "condition", s) :
                                               y.word = "caution"}}
<1>1. \A x \in Said(reports, "condition", s) : x.quarters \in {1, 2, 3}
  BY CallingTyped DEF Said
<1>2. Q \in SUBSET (0..3) /\ Q # {}
  BY <1>1
<1>3. Max(Q) \in Q
  <2> HIDE DEF Q
  <2>1. 3 \in Nat
    OBVIOUS
  <2> QED BY <1>2, <2>1, MaxIn
<1> HIDE DEF Max
<1>4. Caution(reports, s) = Max(Q)
  BY DEF Caution
<1> HIDE DEF Q
<1> QED BY <1>2, <1>3, <1>4

LEMMA StepTyped ==
  ASSUME NEW reports, Reported(reports), NEW s, NEW nav \in Int, NEW c,
         c.weight \in Nat, Directed(reports, s) # 0
  PROVE  Step(reports, s, nav, c) \in Int
<1> DEFINE d == Directed(reports, s)
           seats == Cardinality(Calling(reports, "direction", s))
           a == Max({d, -d})
           b == 4 - Caution(reports, s)
<1>1. d \in Int /\ seats \in Nat \ {0}
  BY DirectedTyped
<1>2. a \in Int
  <2> HIDE DEF d, Max
  <2> QED BY <1>1, IntOps, MaxOfTwo
<1>3. b \in Int
  BY CautionTyped
<1>4. Step(reports, s, nav, c) = (a * b * c.weight * nav) \div (1600 * seats)
  BY DEF Step
<1> HIDE DEF a, b, d, seats
<1>5. a * b * c.weight * nav \in Int
  <2>1. a * b \in Int
    BY <1>2, <1>3, IntOps
  <2>2. c.weight \in Int
    OBVIOUS
  <2>3. a * b * c.weight \in Int
    BY <2>1, <2>2, IntOps
  <2> QED BY <2>3, IntOps
<1>6. 1600 * seats \in Nat \ {0}
  BY <1>1
<1> QED BY <1>4, <1>5, <1>6, DivNat

LEMMA TargetTyped ==
  ASSUME NEW reports, Reported(reports), NEW s, NEW values, values[s] \in Int,
         NEW nav \in Int, NEW c, c.weight \in Nat
  PROVE  Target(reports, s, values, nav, c) \in Int
<1> DEFINE d == Directed(reports, s)
           step == Step(reports, s, nav, c)
           room == (c.weight * nav) \div 100 - values[s]
<1>1. d \in Int
  BY DirectedTyped
<1>2. d # 0 => step \in Int
  BY StepTyped
<1>3. room \in Int
  <2>1. c.weight * nav \in Int
    BY IntOps
  <2>2. (c.weight * nav) \div 100 \in Int
    BY <2>1, DivNat
  <2> QED BY <2>2, IntOps
<1> HIDE DEF Max, Min
<1>4. RaiseBy(values[s], step, nav, c) = Min({step, Max({0, room})})
  BY DEF RaiseBy
<1>5. CutBy(values[s], step) = Min({values[s], step})
  <2>1. {step, values[s]} = {values[s], step}
    OBVIOUS
  <2> HIDE DEF step
  <2> QED BY DEF CutBy
<1>6. Target(reports, s, values, nav, c) =
        IF d = 0 THEN 0
        ELSE IF d > 0 THEN RaiseBy(values[s], step, nav, c)
             ELSE -CutBy(values[s], step)
  BY DEF Target
<1> HIDE DEF step, room, d
<1>7. Max({0, room}) \in Int
  BY <1>3, MaxOfTwo
<1>8. d # 0 => RaiseBy(values[s], step, nav, c) \in Int
  BY <1>2, <1>4, <1>7, MinOfTwo
<1>9. d # 0 => CutBy(values[s], step) \in Int
  BY <1>2, <1>5, MinOfTwo
<1> QED BY <1>6, <1>8, <1>9

LEMMA NavTyped ==
  ASSUME cash \in Nat, hold \in [Stocks -> Nat]
  PROVE  /\ CashHeld \in Nat /\ BookNav \in Int
         /\ \A s \in Stocks : Values[s] \in Int
<1>1. CashHeld \in Nat
  BY MarksTyped, TimesNat DEF CashHeld
<1>2. \A s \in Stocks : hold[s] * Mark[s] \in Int
  <2>1. SUFFICES ASSUME NEW s \in Stocks PROVE hold[s] * Mark[s] \in Int
    OBVIOUS
  <2>2. hold[s] \in Int /\ Mark[s] \in Int
    BY MarksTyped
  <2> QED BY <2>2, IntOps
<1>3. \A s \in Stocks : Values[s] \in Int
  BY <1>2 DEF Values
<1>4. Values \in Seq(Int)
  BY <1>2, MarksTyped DEF Values
<1>5. Total(Values) \in Int
  BY <1>4, TotalType
<1> QED BY <1>1, <1>3, <1>5 DEF BookNav, Nav

LEMMA MovingTyped ==
  ASSUME world \in Worlds, disk \in {world.config} \cup world.edits,
         cash \in Nat, hold \in [Stocks -> Nat]
  PROVE  Config(disk) /\ Moving \in [Stocks -> Int]
<1>1. Config(disk) /\ IsFiniteSet(world.offered)
  BY WorldsAssumption DEF Config
<1>2. Reported(Accepted)
  <2>1. Offered \in SUBSET world.offered
    BY DEF Offered
  <2>2. IsFiniteSet(Offered)
    BY <1>1, <2>1, FS_Subset
  <2> QED BY <2>2, CheckedReported DEF Accepted
<1>3. BookNav \in Int /\ \A s \in Stocks : Values[s] \in Int
  BY NavTyped
<1>4. ASSUME NEW s \in Stocks, Rebalances(Accepted, disk)
      PROVE  Target(Accepted, s, Values, BookNav, disk) \in Int
  <2>1. disk.weight \in Nat
    BY <1>1, <1>4 DEF Config, Rebalances
  <2> QED BY <1>2, <1>3, <2>1, TargetTyped
<1>5. Moving = [s \in Stocks |-> IF Rebalances(Accepted, disk)
                                 THEN Target(Accepted, s, Values, BookNav, disk) ELSE 0]
  BY DEF Moving, Aggregated
<1> QED BY <1>1, <1>4, <1>5

-------------------------------------------------------------------------------
(* The actions *)

LEMMA ConfigsTyped ==
  ASSUME TypeOK, Types2
  PROVE  /\ Config(record.config) /\ Config(admits) /\ Config(disk)
         /\ world.quotes \subseteq Verdicts
  BY WorldsAssumption DEF TypeOK, Types2, Config

LEMMA OrdersTyped ==
  ASSUME TypeOK
  PROVE  /\ plan.orders \in Seq(AnyOrder) /\ plan.orders \in Seq(Parts)
         /\ Indices = 1..Len(plan.orders) /\ Len(plan.orders) \in Nat
         /\ \A i \in Indices : plan.orders[i] \in AnyOrder
<1>1. plan.orders \in Seq(AnyOrder)
  BY DEF TypeOK, AnyOrder
<1>2. plan.orders \in Seq(Parts)
  BY <1>1, AnyOrderIsPart
<1>3. Indices = 1..Len(plan.orders) /\ Len(plan.orders) \in Nat
  BY <1>1 DEF Indices
<1> QED BY <1>1, <1>2, <1>3

AnyRow == [state : States, why : Whys]

LEMMA RowsTyped ==
  ASSUME TypeOK
  PROVE  /\ row \in [Indices -> AnyRow]
         /\ \A i \in Indices : row[i].state \in States
  BY DEF TypeOK, AnyRow

(* What a decision leaves approved are orders of its plan.                  *)
LEMMA DecidedTyped ==
  ASSUME NEW reply, NEW c
  PROVE  Decided(plan, Cleared, reply, c) \subseteq Indices
<1>1. Cleared \subseteq Indices
  BY DEF Cleared, Evaluate, Indices
<1> QED BY <1>1 DEF Decided

LEMMA SizeIs ==
  ASSUME TypeOK, Types2, Size
  PROVE  /\ pc = "size" /\ pc' = "vote"
         /\ plan'.orders \in Seq(AnyOrder) /\ SellsFirst(plan'.orders)
         /\ plan'.quotes \in [DOMAIN plan'.orders -> Verdicts]
         /\ plan'.cash \in Nat /\ plan'.cash = CashHeld
         /\ row' = [i \in DOMAIN plan'.orders |-> Unwritten]
         /\ fill' = [i \in DOMAIN plan'.orders |-> 0]
         /\ record' = Prepared
         /\ UNCHANGED <<given, cash, hold, admits, cur, siblings, book>>
<1> DEFINE orders == Sized(Moving, disk)
<1>1. /\ pc = "size" /\ pc' = "vote" /\ CanSize(Moving, disk)
      /\ record' = Prepared
      /\ UNCHANGED <<given, cash, hold, admits, cur, siblings, book>>
  BY DEF Size
<1>2. PICK quotes \in Judged(orders) : plan' = Written(orders, quotes)
  BY DEF Size
<1>3. row' = [i \in DOMAIN orders |-> Unwritten] /\ fill' = [i \in DOMAIN orders |-> 0]
  BY DEF Size
<1>4. /\ world \in Worlds /\ disk \in {world.config} \cup world.edits
      /\ cash \in Nat /\ hold \in [Stocks -> Nat]
  BY DEF TypeOK, Types2
<1>5. Config(disk) /\ Moving \in [Stocks -> Int]
  BY <1>4, MovingTyped
<1>6. orders \in Seq(AnyOrder) /\ SellsFirst(orders)
  BY <1>1, <1>4, <1>5, SizedTyped
<1>7. quotes \in [DOMAIN orders -> Verdicts]
  <2>1. quotes \in [DOMAIN orders -> world.quotes] /\ world.quotes \subseteq Verdicts
    BY ConfigsTyped DEF Judged
  <2> HIDE DEF orders
  <2> QED BY <2>1
<1>8. plan'.orders = orders /\ plan'.quotes = quotes /\ plan'.cash = CashHeld
  <2> HIDE DEF orders
  <2> QED BY <1>2 DEF Written
<1>9. CashHeld \in Nat
  BY <1>4, NavTyped
<1> HIDE DEF orders
<1> QED BY <1>1, <1>3, <1>6, <1>7, <1>8, <1>9

LEMMA VoteIs ==
  ASSUME TypeOK, Types2, Vote
  PROVE  /\ pc = "vote" /\ pc' = "list"
         /\ \E A \in SUBSET Indices :
              record'.approved =
                A \ Dropped(plan.orders, A, plan.cash, {}, record.config)
         /\ record'.approved \subseteq Indices
         /\ record'.config = record.config
         /\ record' = [config |-> record'.config, reports |-> record'.reports,
                       reply |-> record'.reply, approved |-> record'.approved,
                       signer |-> record'.signer]
         /\ UNCHANGED <<given, plan, cash, hold, row, fill, admits, cur, siblings, book>>
<1>1. /\ pc = "vote" /\ pc' = "list"
      /\ UNCHANGED <<given, plan, cash, hold, row, fill, admits, cur, siblings, book>>
  BY DEF Vote
<1>2. PICK reply \in Asked :
        record' = Finished(Recorded(reply, Decided(plan, Cleared, reply, record.config)))
  BY DEF Vote
<1> DEFINE a == Decided(plan, Cleared, reply, record.config)
           A == {i \in Cleared : Approves(reply, plan.orders, i)}
<1>3. a = A \ Dropped(plan.orders, A, plan.cash, {}, record.config)
  BY DEF Decided
<1>4. A \in SUBSET Indices /\ a \subseteq Indices
  <2>1. Cleared \subseteq Indices
    BY DEF Cleared, Evaluate, Indices
  <2> QED BY <2>1, DecidedTyped
<1> HIDE DEF a
<1>5. /\ record'.approved = a /\ record'.config = record.config
      /\ record' = [config |-> record'.config, reports |-> record'.reports,
                    reply |-> record'.reply, approved |-> record'.approved,
                    signer |-> record'.signer]
  <2>1. record' = Finished(Recorded(reply, a))
    BY <1>2 DEF a
  <2> QED BY <2>1 DEF Finished, Recorded, Types2
<1> HIDE DEF A
<1> QED BY <1>1, <1>3, <1>4, <1>5

LEMMA PreparedIs ==
  ASSUME Types2
  PROVE  /\ Prepared = [config |-> disk, reports |-> Accepted, reply |-> record.reply,
                        approved |-> record.approved, signer |-> record.signer]
         /\ Finished(Prepared) =
              [config |-> disk, reports |-> Accepted, reply |-> record.reply,
               approved |-> record.approved, signer |-> Signer(world.host, Null)]
<1>1. Prepared = [config |-> disk, reports |-> Accepted, reply |-> record.reply,
                  approved |-> record.approved, signer |-> record.signer]
  <2>1. record = [config |-> record.config, reports |-> record.reports,
                  reply |-> record.reply, approved |-> record.approved,
                  signer |-> record.signer]
    BY DEF Types2
  <2> DEFINE q == [config |-> disk, reports |-> record.reports,
                   reply |-> record.reply, approved |-> record.approved,
                   signer |-> record.signer]
  <2>2. [record EXCEPT !.config = disk] = q
    BY <2>1
  <2>3. [q EXCEPT !.reports = Accepted] =
          [config |-> disk, reports |-> Accepted, reply |-> record.reply,
           approved |-> record.approved, signer |-> record.signer]
    OBVIOUS
  <2>4. [record EXCEPT !.config = disk, !.reports = Accepted] =
          [[record EXCEPT !.config = disk] EXCEPT !.reports = Accepted]
    OBVIOUS
  <2> HIDE DEF q
  <2> QED BY <2>2, <2>3, <2>4 DEF Prepared
<1>2. Finished(Prepared) = [Prepared EXCEPT !.signer = Signer(world.host, Null)]
  BY DEF Finished
<1> DEFINE g == Signer(world.host, Null)
<1> HIDE DEF g
<1>3. [Prepared EXCEPT !.signer = g] =
        [config |-> disk, reports |-> Accepted, reply |-> record.reply,
         approved |-> record.approved, signer |-> g]
  BY <1>1
<1> QED BY <1>1, <1>2, <1>3 DEF g

LEMMA TakeIs ==
  ASSUME TypeOK, Take
  PROVE  /\ pc = "next" /\ pc' = "judge"
         /\ cur' \in Indices /\ row[cur'].state = "prepared" /\ cur' > cur
         /\ \A i \in Indices : i > cur /\ row[i].state = "prepared" => cur' <= i
         /\ siblings' = Siblings
         /\ UNCHANGED <<given, record, plan, cash, hold, row, fill, admits, book>>
<1> DEFINE ahead == {i \in In({"prepared"}) : i > cur}
<1>1. /\ pc = "next" /\ pc' = "judge" /\ ahead # {} /\ cur' = Min(ahead)
      /\ siblings' = Siblings
      /\ UNCHANGED <<given, record, plan, cash, hold, row, fill, admits, book>>
  BY DEF Take, Treasurer
<1>2. ahead = {i \in Indices : row[i].state = "prepared" /\ i > cur}
  BY DEF In
<1>3. ahead \in SUBSET Nat
  BY <1>2, OrdersTyped
<1> HIDE DEF ahead
<1>4. cur' \in ahead /\ \A i \in ahead : cur' <= i
  BY <1>1, <1>3, MinIn
<1> QED BY <1>1, <1>2, <1>4

(* A move from the state the row is in, or none at all.                     *)
LEMMA MovedIs ==
  ASSUME TypeOK, cur \in Indices, NEW s \in {"refused", "failed"}, NEW w, Moved(s, w)
  PROVE  \/ /\ pc' = "next" /\ s \in Moves[row[cur].state]
            /\ row' = [row EXCEPT ![cur] = [state |-> s, why |-> w]]
         \/ /\ pc' = "off" /\ s \notin Moves[row[cur].state] /\ row' = row
  BY DEF Moved, Write

LEMMA RebalanceInit == Init => RebalanceInv
<1> SUFFICES ASSUME Init PROVE RebalanceInv
  OBVIOUS
<1>1. /\ world \in Worlds /\ disk = world.config
      /\ cash = world.cash /\ hold = world.hold /\ pc = "keys"
      /\ record = [config |-> world.config, reports |-> {}, reply |-> NoReply,
                   approved |-> {}, signer |-> Null]
      /\ plan = Written(<< >>, << >>) /\ row = << >> /\ fill = << >>
      /\ admits = world.config /\ cur = 0
      /\ siblings = [filled |-> {}, gone |-> {}] /\ book = Null
  BY DEF Init
<1>2. cash \in Nat /\ hold \in [Stocks -> Nat]
  BY <1>1, WorldsAssumption
<1>3. plan.orders = << >> /\ plan.quotes = << >> /\ plan.cash \in Nat /\ Indices = {}
  BY <1>1, <1>2, NavTyped DEF Written, Indices
<1>4. TypeOK
  <2>1. /\ disk \in {world.config} \cup world.edits
        /\ pc \in {"keys", "size", "vote", "list", "start", "next", "judge", "send",
                   "back", "off"}
        /\ record.approved \subseteq Indices /\ cur \in {0} \cup Indices
        /\ siblings \in [filled : SUBSET Indices, gone : SUBSET Indices]
        /\ (book # Null => book.cash \in Nat /\ book.hold \in [Stocks -> Nat])
    BY <1>1, <1>3
  <2>2. plan.orders \in Seq([side : {"buy", "sell"}, stock : Stocks, sell : Nat \ {0}])
    BY <1>3
  <2>3. /\ plan.quotes \in [Indices -> Verdicts] /\ fill \in [Indices -> Nat]
        /\ row \in [Indices -> [state : States, why : Whys]]
    <3>1. \A S : << >> \in [{} -> S]
      OBVIOUS
    <3> QED BY <1>1, <1>3, <3>1
  <2> QED BY <1>2, <2>1, <2>2, <2>3 DEF TypeOK
<1>5. Types2
  <2>1. SellsFirst(plan.orders)
    BY <1>3 DEF SellsFirst, Side
  <2> QED BY <1>1, <1>3, <2>1 DEF Types2
<1>6. RowsInv /\ ControlInv /\ InFlightInv
  BY <1>1, <1>3 DEF RowsInv, ControlInv, InFlightInv, Early, Running
<1>7. VoteInv /\ DecisionKeepsFloor
  BY <1>1, <1>3 DEF VoteInv, ApprovedUpTo, DecisionKeepsFloor, In
<1> QED BY <1>4, <1>5, <1>6, <1>7 DEF RebalanceInv

-------------------------------------------------------------------------------
(* Types *)

(* What an action that leaves the plan alone must keep of them.             *)
LEMMA TypesKept ==
  ASSUME TypeOK, Types2, UNCHANGED <<world, plan>>,
         disk' \in {world.config} \cup world.edits,
         pc' \in {"keys", "size", "vote", "list", "start", "next", "judge", "send",
                  "back", "off"},
         cash' \in Nat, hold' \in [Stocks -> Nat],
         record'.approved \subseteq Indices, row' \in [Indices -> AnyRow],
         fill' \in [Indices -> Nat], cur' \in {0} \cup Indices,
         siblings' \in [filled : SUBSET Indices, gone : SUBSET Indices],
         book' # Null => book'.cash \in Nat /\ book'.hold \in [Stocks -> Nat],
         record'.config \in {world.config} \cup world.edits,
         admits' \in {world.config} \cup world.edits,
         record' = [config |-> record'.config, reports |-> record'.reports,
                    reply |-> record'.reply, approved |-> record'.approved,
                    signer |-> record'.signer]
  PROVE  TypeOK' /\ Types2'
<1>1. TypeOK'
  BY DEF TypeOK, Indices, AnyRow
<1>2. Types2'
  BY DEF Types2
<1> QED BY <1>1, <1>2

(* A row written.                                                           *)
LEMMA WriteIs ==
  ASSUME TypeOK, NEW i \in Indices, NEW s \in States, NEW w \in Whys,
         row' = [row EXCEPT ![i] = [state |-> s, why |-> w]]
  PROVE  /\ row' \in [Indices -> AnyRow]
         /\ row'[i] = [state |-> s, why |-> w] /\ row'[i].state = s
         /\ \A j \in Indices \ {i} : row'[j] = row[j]
<1>1. row \in [Indices -> AnyRow]
  BY RowsTyped
<1>2. [state |-> s, why |-> w] \in AnyRow
  BY DEF AnyRow
<1> QED BY <1>1, <1>2

(* What the paper venue books for the order in flight.                      *)
LEMMA FillIs ==
  ASSUME TypeOK, ControlInv, InFlightInv, FillOnPaper
  PROVE  /\ pc = "send" /\ pc' = "next" /\ cur \in Indices
         /\ row[cur].state = "submitted"
         /\ row' = [row EXCEPT ![cur] = [state |-> "confirmed", why |-> "none"]]
         /\ cash' \in Nat /\ hold' \in [Stocks -> Nat] /\ fill' \in [Indices -> Nat]
         /\ \E got \in Nat :
              /\ fill' = [fill EXCEPT ![cur] = got]
              /\ cash' = IF plan.orders[cur].side = "buy" THEN cash - plan.orders[cur].sell
                         ELSE cash + got
         /\ UNCHANGED <<given, record, plan, admits, cur, siblings, book>>
<1> DEFINE o == plan.orders[cur]
<1>1. /\ pc = "send" /\ pc' = "next" /\ row[cur].state = "submitted"
      /\ row' = [row EXCEPT ![cur] = [state |-> "confirmed", why |-> "none"]]
      /\ UNCHANGED <<given, record, plan, admits, cur, siblings, book>>
  BY DEF FillOnPaper, Write
<1>2. PICK got \in PaperFill(o) : Booked(o, got) /\ fill' = [fill EXCEPT ![cur] = got]
  BY DEF FillOnPaper
<1>3. cur \in Indices
  BY <1>1 DEF ControlInv, Running, TypeOK
<1>4. o \in AnyOrder
  BY <1>3, OrdersTyped
<1>5. got \in Nat
  BY DEF PaperFill
<1>6. o.stock \in Stocks /\ o.sell \in Nat
  BY <1>4 DEF AnyOrder
<1>7. o.sell <= IF o.side = "buy" THEN cash ELSE hold[o.stock]
  BY <1>1 DEF InFlightInv, Held
<1>8. cash \in Nat /\ hold \in [Stocks -> Nat] /\ fill \in [Indices -> Nat]
  BY DEF TypeOK
<1> HIDE DEF o
<1>9. /\ cash' \in Nat /\ hold' \in [Stocks -> Nat]
      /\ cash' = IF o.side = "buy" THEN cash - o.sell ELSE cash + got
  <2>1. CASE o.side = "buy"
    <3>1. cash' = cash - o.sell /\ hold' = [hold EXCEPT ![o.stock] = @ + got]
      BY <1>2, <2>1 DEF Booked
    <3> QED BY <1>5, <1>6, <1>7, <1>8, <2>1, <3>1
  <2>2. CASE o.side # "buy"
    <3>1. cash' = cash + got /\ hold' = [hold EXCEPT ![o.stock] = @ - o.sell]
      BY <1>2, <2>2 DEF Booked
    <3>2. hold[o.stock] - o.sell \in Nat
      BY <1>6, <1>7, <1>8, <2>2
    <3> QED BY <1>5, <1>6, <1>8, <2>2, <3>1, <3>2
  <2> QED BY <2>1, <2>2
<1>10. fill' \in [Indices -> Nat] /\ fill' = [fill EXCEPT ![cur] = got]
  BY <1>2, <1>5, <1>8
<1>11. \E x \in Nat :
         /\ fill' = [fill EXCEPT ![cur] = x]
         /\ cash' = IF o.side = "buy" THEN cash - o.sell ELSE cash + x
  BY <1>5, <1>9, <1>10
<1> QED BY <1>1, <1>3, <1>9, <1>10, <1>11 DEF o

LEMMA TypesStep ==
  TypeOK /\ Types2 /\ RowsInv /\ ControlInv /\ InFlightInv /\ [Next]_vars
    => TypeOK' /\ Types2'
<1> SUFFICES ASSUME TypeOK, Types2, RowsInv, ControlInv, InFlightInv, [Next]_vars
             PROVE  TypeOK' /\ Types2'
  OBVIOUS
<1> DEFINE Pcs == {"keys", "size", "vote", "list", "start", "next", "judge", "send",
                   "back", "off"}
           Read == {world.config} \cup world.edits
           AnySiblings == [filled : SUBSET Indices, gone : SUBSET Indices]
<1>a. /\ disk \in Read /\ pc \in Pcs /\ cash \in Nat /\ hold \in [Stocks -> Nat]
      /\ record.approved \subseteq Indices /\ row \in [Indices -> AnyRow]
      /\ fill \in [Indices -> Nat] /\ cur \in {0} \cup Indices
      /\ siblings \in AnySiblings
      /\ (book # Null => book.cash \in Nat /\ book.hold \in [Stocks -> Nat])
      /\ record.config \in Read /\ admits \in Read
  BY DEF TypeOK, Types2, AnyRow
<1>b. record = [config |-> record.config, reports |-> record.reports,
                reply |-> record.reply, approved |-> record.approved,
                signer |-> record.signer]
  BY DEF Types2
<1>c. ASSUME UNCHANGED record
      PROVE  record' = [config |-> record'.config, reports |-> record'.reports,
                        reply |-> record'.reply, approved |-> record'.approved,
                        signer |-> record'.signer]
  BY <1>b, <1>c
<1>d. {"none", "prepared", "submitted", "confirmed", "failed", "refused"} \subseteq States
      /\ {"none", "cash-floor", "other", "stale"} \subseteq Whys
  BY DEF States, Whys
<1>1. CASE Ready
  <2>1. /\ UNCHANGED <<world, disk, record, plan, cash, hold, row, fill, admits, cur,
                       siblings, book>>
        /\ pc' \in Pcs
    BY <1>1 DEF Ready, given
  <2> QED BY <1>a, <1>c, <2>1, TypesKept
<1>2. CASE Edit
  <2>1. /\ UNCHANGED <<world, pc, record, plan, cash, hold, row, fill, admits, cur,
                       siblings, book>>
        /\ disk' \in Read
    BY <1>2 DEF Edit
  <2> QED BY <1>a, <1>c, <2>1, TypesKept
<1>3. CASE Unvalued
  <2>1. /\ UNCHANGED <<world, disk, plan, cash, hold, row, fill, admits, cur,
                       siblings, book>>
        /\ pc' \in Pcs /\ record' = Finished(Prepared)
    BY <1>3 DEF Unvalued, given
  <2> DEFINE g == Signer(world.host, Null)
  <2>2. record' = [config |-> disk, reports |-> Accepted, reply |-> record.reply,
                   approved |-> record.approved, signer |-> g]
    BY <2>1, PreparedIs
  <2> HIDE DEF g
  <2>3. /\ record'.config \in Read /\ record'.approved \subseteq Indices
        /\ record' = [config |-> record'.config, reports |-> record'.reports,
                      reply |-> record'.reply, approved |-> record'.approved,
                      signer |-> record'.signer]
    BY <1>a, <2>2
  <2> QED BY <1>a, <2>1, <2>3, TypesKept
<1>4. CASE Size
  <2>1. /\ pc = "size" /\ pc' = "vote"
        /\ plan'.orders \in Seq(AnyOrder) /\ SellsFirst(plan'.orders)
        /\ plan'.quotes \in [Indices' -> Verdicts] /\ plan'.cash \in Nat
        /\ row' = [i \in Indices' |-> Unwritten] /\ fill' = [i \in Indices' |-> 0]
        /\ record' = Prepared
        /\ UNCHANGED <<given, cash, hold, admits, cur, siblings, book>>
    BY <1>4, SizeIs DEF Indices
  <2>2. record' = [config |-> disk, reports |-> Accepted, reply |-> record.reply,
                   approved |-> record.approved, signer |-> record.signer]
    BY <2>1, PreparedIs
  <2>3. cur = 0 /\ siblings = [filled |-> {}, gone |-> {}] /\ record.approved = {}
    BY <2>1 DEF RowsInv, Early
  <2>4. row' \in [Indices' -> [state : States, why : Whys]] /\ fill' \in [Indices' -> Nat]
    BY <1>d, <2>1 DEF Unwritten
  <2>5. /\ disk' \in {world'.config} \cup world'.edits /\ pc' \in Pcs
        /\ cash' \in Nat /\ hold' \in [Stocks -> Nat]
        /\ (book' # Null => book'.cash \in Nat /\ book'.hold \in [Stocks -> Nat])
    BY <1>a, <2>1 DEF given
  <2>6. /\ record'.approved \subseteq Indices' /\ cur' \in {0} \cup Indices'
        /\ siblings' \in [filled : SUBSET Indices', gone : SUBSET Indices']
    BY <2>1, <2>2, <2>3
  <2>7. TypeOK'
    BY <2>1, <2>4, <2>5, <2>6 DEF TypeOK, AnyOrder
  <2>8. /\ world' \in Worlds /\ record'.config \in {world'.config} \cup world'.edits
        /\ admits' \in {world'.config} \cup world'.edits
    BY <1>a, <2>1, <2>2 DEF given, Types2
  <2>9. record' = [config |-> record'.config, reports |-> record'.reports,
                   reply |-> record'.reply, approved |-> record'.approved,
                   signer |-> record'.signer]
    BY <2>2
  <2> QED BY <2>1, <2>7, <2>8, <2>9 DEF Types2
<1>5. CASE SizeRaises
  <2>1. /\ UNCHANGED <<world, disk, record, plan, cash, hold, row, fill, admits, cur,
                       siblings, book>>
        /\ pc' \in Pcs
    BY <1>5 DEF SizeRaises, given
  <2> QED BY <1>a, <1>c, <2>1, TypesKept
<1>6. CASE Vote
  <2>1. /\ UNCHANGED <<world, disk, plan, cash, hold, row, fill, admits, cur,
                       siblings, book>>
        /\ pc' \in Pcs /\ record'.approved \subseteq Indices
        /\ record'.config = record.config
        /\ record' = [config |-> record'.config, reports |-> record'.reports,
                      reply |-> record'.reply, approved |-> record'.approved,
                      signer |-> record'.signer]
    BY <1>6, VoteIs DEF given
  <2> QED BY <1>a, <2>1, TypesKept
<1>7. CASE List
  <2>1. /\ UNCHANGED <<world, disk, record, plan, cash, hold, fill, admits, cur,
                       siblings, book>>
        /\ pc' \in Pcs /\ \E k \in Nat : WriteUpTo(k)
    BY <1>7, OrdersTyped DEF List, given
  <2>2. row' \in [Indices -> AnyRow]
    BY <1>d, <2>1 DEF WriteUpTo, Unwritten, AnyRow
  <2> QED BY <1>a, <1>c, <2>1, <2>2, TypesKept
<1>8. CASE ListDies
  <2>1. /\ UNCHANGED <<world, disk, record, plan, cash, hold, fill, admits, cur,
                       siblings, book>>
        /\ pc' \in Pcs /\ \E k \in Nat : WriteUpTo(k)
    BY <1>8, OrdersTyped DEF ListDies, given
  <2>2. row' \in [Indices -> AnyRow]
    BY <1>d, <2>1 DEF WriteUpTo, Unwritten, AnyRow
  <2> QED BY <1>a, <1>c, <2>1, <2>2, TypesKept
<1>9. CASE ListRefused
  <2>1. /\ UNCHANGED <<world, disk, record, plan, cash, hold, row, fill, admits, cur,
                       siblings, book>>
        /\ pc' \in Pcs
    BY <1>9 DEF ListRefused, given
  <2> QED BY <1>a, <1>c, <2>1, TypesKept
<1>10. CASE Start
  <2>1. /\ UNCHANGED <<world, disk, record, plan, cash, hold, row, fill, cur,
                       siblings, book>>
        /\ pc' \in Pcs /\ admits' \in Read
    BY <1>a, <1>10 DEF Start, given
  <2> QED BY <1>a, <1>c, <2>1, TypesKept
<1>11. CASE Take
  <2>1. /\ UNCHANGED <<world, disk, record, plan, cash, hold, row, fill, admits, book>>
        /\ pc' \in Pcs /\ cur' \in Indices /\ siblings' = Siblings
    BY <1>11, TakeIs DEF given
  <2>2. siblings' \in AnySiblings
    BY <2>1 DEF Siblings, In
  <2> QED BY <1>a, <1>c, <2>1, <2>2, TypesKept
<1>12. CASE Refuse
  <2>1. /\ UNCHANGED <<world, disk, record, plan, cash, hold, fill, admits, cur,
                       siblings, book>>
        /\ cur \in Indices /\ \E w \in Whys : Moved("refused", w)
    BY <1>a, <1>d, <1>12 DEF Refuse, given, ControlInv, Running
  <2>2. PICK w \in Whys : Moved("refused", w)
    BY <2>1
  <2>3. row' \in [Indices -> AnyRow] /\ pc' \in Pcs
    BY <1>a, <1>d, <2>1, <2>2, MovedIs, WriteIs
  <2> QED BY <1>a, <1>c, <2>1, <2>3, TypesKept
<1>13. CASE FillRefused
  <2>1. /\ UNCHANGED <<world, disk, record, plan, cash, hold, fill, admits, cur,
                       siblings, book>>
        /\ cur \in Indices /\ \E w \in Whys : Moved("failed", w)
    BY <1>a, <1>d, <1>13 DEF FillRefused, given, ControlInv, Running
  <2>2. PICK w \in Whys : Moved("failed", w)
    BY <2>1
  <2>3. row' \in [Indices -> AnyRow] /\ pc' \in Pcs
    BY <1>a, <1>d, <2>1, <2>2, MovedIs, WriteIs
  <2> QED BY <1>a, <1>c, <2>1, <2>3, TypesKept
<1>14. CASE Submit
  <2>1. /\ UNCHANGED <<world, disk, record, plan, cash, hold, fill, admits, cur,
                       siblings, book>>
        /\ pc' \in Pcs /\ cur \in Indices
        /\ \/ row' = [row EXCEPT ![cur] = [state |-> "submitted", why |-> "none"]]
           \/ row' = row
    BY <1>a, <1>14 DEF Submit, Write, given, ControlInv, Running
  <2>2. row' \in [Indices -> AnyRow]
    BY <1>a, <1>d, <2>1, WriteIs
  <2> QED BY <1>a, <1>c, <2>1, <2>2, TypesKept
<1>15. CASE FillOnPaper
  <2>1. /\ UNCHANGED <<world, disk, record, plan, admits, cur, siblings, book>>
        /\ pc' \in Pcs /\ cur \in Indices
        /\ row' = [row EXCEPT ![cur] = [state |-> "confirmed", why |-> "none"]]
        /\ cash' \in Nat /\ hold' \in [Stocks -> Nat] /\ fill' \in [Indices -> Nat]
    BY <1>15, FillIs DEF given
  <2>2. row' \in [Indices -> AnyRow]
    BY <1>d, <2>1, WriteIs
  <2> QED BY <1>a, <1>c, <2>1, <2>2, TypesKept
<1>16. CASE TreasurerEnds
  <2>1. /\ UNCHANGED <<world, disk, record, plan, cash, hold, row, fill, admits, cur,
                       siblings, book>>
        /\ pc' \in Pcs
    BY <1>16 DEF TreasurerEnds, Treasurer, given
  <2> QED BY <1>a, <1>c, <2>1, TypesKept
<1>17. CASE TreasurerDies
  <2>1. /\ UNCHANGED <<world, disk, record, plan, cash, hold, row, fill, admits, cur,
                       siblings, book>>
        /\ pc' \in Pcs
    BY <1>17 DEF TreasurerDies, given
  <2> QED BY <1>a, <1>c, <2>1, TypesKept
<1>18. CASE Keep
  <2>1. /\ UNCHANGED <<world, disk, record, plan, cash, hold, row, fill, admits, cur,
                       siblings>>
        /\ pc' \in Pcs /\ book' = Document
    BY <1>18 DEF Keep, given
  <2>2. book'.cash \in Nat /\ book'.hold \in [Stocks -> Nat]
    BY <1>a, <2>1 DEF Document
  <2> QED BY <1>a, <1>c, <2>1, <2>2, TypesKept
<1>19. CASE KeepDies
  <2>1. /\ UNCHANGED <<world, disk, record, plan, cash, hold, row, fill, admits, cur,
                       siblings, book>>
        /\ pc' \in Pcs
    BY <1>19 DEF KeepDies, given
  <2> QED BY <1>a, <1>c, <2>1, TypesKept
<1>20. CASE \E i \in Indices : Startup(i)
  <2>1. PICK i \in Indices : Startup(i)
    BY <1>20
  <2>2. /\ UNCHANGED <<world, disk, pc, record, plan, cash, hold, fill, admits, cur,
                       siblings, book>>
        /\ \E s \in {"refused", "failed"} :
              row' = [row EXCEPT ![i] = [state |-> s, why |-> "stale"]]
    BY <2>1 DEF Startup, Write, given
  <2>3. row' \in [Indices -> AnyRow]
    BY <1>d, <2>2, WriteIs
  <2> QED BY <1>a, <1>c, <2>2, <2>3, TypesKept
<1>21. CASE UNCHANGED vars
  <2>1. UNCHANGED <<world, disk, pc, record, plan, cash, hold, row, fill, admits, cur,
                    siblings, book>>
    BY <1>21 DEF vars
  <2> QED BY <1>a, <1>c, <2>1, TypesKept
<1> QED
  BY <1>1, <1>2, <1>3, <1>4, <1>5, <1>6, <1>7, <1>8, <1>9, <1>10, <1>11, <1>12,
     <1>13, <1>14, <1>15, <1>16, <1>17, <1>18, <1>19, <1>20, <1>21 DEF Next

-------------------------------------------------------------------------------
(* Where the orders are *)

(* A row written is one the record approved.                                *)
LEMMA OneRowIs ==
  ASSUME TypeOK, NEW i \in Indices, NEW s \in States, NEW w \in Whys,
         row[i].state # "none", s # "none",
         row' = [row EXCEPT ![i] = [state |-> s, why |-> w]]
  PROVE  \A j \in Indices : row'[j].state = "none" <=> row[j].state = "none"
<1>1. row'[i].state = s /\ \A j \in Indices \ {i} : row'[j] = row[j]
  BY WriteIs
<1> QED BY <1>1

(* What the treasurer and a later startup write: one row of an order that   *)
(* was written, to a state that is not "none", or nothing.                  *)
LEMMA RowStep ==
  ASSUME TypeOK, ControlInv,
         Refuse \/ Submit \/ FillOnPaper \/ FillRefused \/ \E i \in Indices : Startup(i)
  PROVE  /\ \A j \in Indices : row'[j].state = "none" <=> row[j].state = "none"
         /\ pc \notin Early /\ pc' \notin Early
         /\ UNCHANGED <<given, record, plan, admits, cur, siblings, book>>
<1> DEFINE Same == \A j \in Indices : row'[j].state = "none" <=> row[j].state = "none"
<1>a. {"submitted", "confirmed", "failed", "refused"} \subseteq States
      /\ {"none", "cash-floor", "other", "stale"} \subseteq Whys
  BY DEF States, Whys
<1>b. pc \in {"judge", "send"} => cur \in Indices /\ row[cur].state # "none"
  BY DEF ControlInv, Running, TypeOK
<1>1. CASE Refuse
  <2>1. /\ pc \in {"judge", "send"} /\ \E w \in Whys : Moved("refused", w)
        /\ UNCHANGED <<given, record, plan, admits, cur, siblings, book>>
    BY <1>a, <1>1 DEF Refuse
  <2>2. PICK w \in Whys : Moved("refused", w)
    BY <2>1
  <2>3. Same /\ pc' \in {"next", "off"}
    <3> HIDE <1>1
    <3>1. CASE row' = row
      BY <1>b, <2>1, <2>2, <3>1, MovedIs
    <3>2. CASE row' # row
      BY <1>a, <1>b, <2>1, <2>2, <3>2, MovedIs, OneRowIs
    <3> QED BY <3>1, <3>2
  <2> QED BY <2>1, <2>3 DEF Early
<1>2. CASE FillRefused
  <2>1. /\ pc \in {"judge", "send"} /\ \E w \in Whys : Moved("failed", w)
        /\ UNCHANGED <<given, record, plan, admits, cur, siblings, book>>
    BY <1>a, <1>2 DEF FillRefused
  <2>2. PICK w \in Whys : Moved("failed", w)
    BY <2>1
  <2>3. Same /\ pc' \in {"next", "off"}
    <3> HIDE <1>2
    <3>1. CASE row' = row
      BY <1>b, <2>1, <2>2, <3>1, MovedIs
    <3>2. CASE row' # row
      BY <1>a, <1>b, <2>1, <2>2, <3>2, MovedIs, OneRowIs
    <3> QED BY <3>1, <3>2
  <2> QED BY <2>1, <2>3 DEF Early
<1>3. CASE Submit
  <2>1. /\ pc = "judge" /\ pc' \in {"send", "off"}
        /\ \/ row' = [row EXCEPT ![cur] = [state |-> "submitted", why |-> "none"]]
           \/ row' = row
        /\ UNCHANGED <<given, record, plan, admits, cur, siblings, book>>
    BY <1>3 DEF Submit, Write
  <2>2. Same
    BY <1>a, <1>b, <2>1, OneRowIs
  <2> QED BY <2>1, <2>2 DEF Early
<1>4. CASE FillOnPaper
  <2>1. /\ pc = "send" /\ pc' = "next"
        /\ row' = [row EXCEPT ![cur] = [state |-> "confirmed", why |-> "none"]]
        /\ UNCHANGED <<given, record, plan, admits, cur, siblings, book>>
    BY <1>4 DEF FillOnPaper, Write
  <2>2. Same
    BY <1>a, <1>b, <2>1, OneRowIs
  <2> QED BY <2>1, <2>2 DEF Early
<1>5. CASE \E i \in Indices : Startup(i)
  <2>1. PICK i \in Indices : Startup(i)
    BY <1>5
  <2>2. /\ pc \notin Early /\ pc' = pc /\ row[i].state # "none"
        /\ UNCHANGED <<given, record, plan, admits, cur, siblings, book>>
        /\ \E s \in {"refused", "failed"} :
              row' = [row EXCEPT ![i] = [state |-> s, why |-> "stale"]]
    BY <2>1 DEF Startup, Write, given, Early
  <2>3. Same
    BY <1>a, <2>2, OneRowIs
  <2> QED BY <2>2, <2>3
<1> QED BY <1>1, <1>2, <1>3, <1>4, <1>5

LEMMA RowsStep ==
  RebalanceInv /\ [Next]_vars => RowsInv'
<1> SUFFICES ASSUME RebalanceInv, [Next]_vars PROVE RowsInv'
  OBVIOUS
<1>a. TypeOK /\ Types2 /\ RowsInv /\ ControlInv /\ InFlightInv
  BY DEF RebalanceInv
<1>1. CASE Ready
  <2>1. /\ UNCHANGED <<record, plan, row, cur, siblings>>
        /\ pc = "keys" /\ pc' \in {"size", "off"}
    BY <1>1 DEF Ready
  <2> QED BY <1>a, <2>1 DEF RowsInv, Early, Indices
<1>2. CASE Edit \/ UNCHANGED vars
  <2>1. UNCHANGED <<pc, record, plan, row, cur, siblings>>
    BY <1>2 DEF Edit, vars
  <2> QED BY <1>a, <2>1 DEF RowsInv, Indices
<1>3. CASE Unvalued
  <2>1. /\ UNCHANGED <<plan, row, cur, siblings>> /\ pc' = "off"
        /\ record' = Finished(Prepared)
    BY <1>3 DEF Unvalued
  <2>2. record'.approved = record.approved
    BY <1>a, <2>1, PreparedIs
  <2> QED BY <1>a, <2>1, <2>2 DEF RowsInv, Early, Indices
<1>4. CASE Size
  <2>1. /\ pc = "size" /\ pc' = "vote" /\ UNCHANGED <<cur, siblings>>
        /\ row' = [i \in Indices' |-> Unwritten] /\ record' = Prepared
    BY <1>a, <1>4, SizeIs DEF Indices
  <2>2. record'.approved = record.approved
    BY <1>a, <2>1, PreparedIs
  <2>3. \A i \in Indices' : row'[i].state = "none"
    BY <2>1 DEF Unwritten
  <2> QED BY <1>a, <2>1, <2>2, <2>3 DEF RowsInv, Early
<1>5. CASE SizeRaises \/ ListRefused \/ TreasurerEnds \/ TreasurerDies \/ KeepDies \/ Keep
  <2>1. UNCHANGED <<record, plan, row, cur, siblings>> /\ pc' \in {"back", "off"}
    BY <1>5 DEF SizeRaises, ListRefused, TreasurerEnds, Treasurer, TreasurerDies, KeepDies, Keep
  <2> QED BY <1>a, <2>1 DEF RowsInv, Early, Indices
<1>6. CASE Vote
  <2>1. /\ pc = "vote" /\ pc' = "list"
        /\ UNCHANGED <<plan, row, cur, siblings>>
    BY <1>a, <1>6, VoteIs
  <2> QED BY <1>a, <2>1 DEF RowsInv, Early, Indices
<1>7. CASE List \/ ListDies
  <2>1. /\ pc = "list" /\ pc' \in {"start", "off"}
        /\ UNCHANGED <<record, plan, cur, siblings>>
        /\ \E k \in Nat : WriteUpTo(k)
    BY <1>a, <1>7, OrdersTyped DEF List, ListDies
  <2>2. \A i \in Indices \ record.approved : row'[i].state = "none"
    BY <2>1 DEF WriteUpTo, Unwritten
  <2> QED BY <1>a, <2>1, <2>2 DEF RowsInv, Early, Indices
<1>8. CASE Start
  <2>1. UNCHANGED <<record, plan, row, cur, siblings>> /\ pc' \in {"next", "off"}
    BY <1>8 DEF Start
  <2> QED BY <1>a, <2>1 DEF RowsInv, Early, Indices
<1>9. CASE Take
  <2>1. UNCHANGED <<record, plan, row>> /\ pc' = "judge"
    BY <1>9 DEF Take, Treasurer
  <2> QED BY <1>a, <2>1 DEF RowsInv, Early, Indices
<1>10. CASE Refuse \/ Submit \/ FillOnPaper \/ FillRefused \/ \E i \in Indices : Startup(i)
  <2>1. /\ \A j \in Indices : row'[j].state = "none" <=> row[j].state = "none"
        /\ pc' \notin Early /\ UNCHANGED <<record, plan, cur, siblings>>
    BY <1>a, <1>10, RowStep
  <2> QED BY <1>a, <2>1 DEF RowsInv, Early, Indices
<1> QED
  BY <1>1, <1>2, <1>3, <1>4, <1>5, <1>6, <1>7, <1>8, <1>9, <1>10 DEF Next

LEMMA ControlStep ==
  RebalanceInv /\ [Next]_vars => ControlInv'
<1> SUFFICES ASSUME RebalanceInv, [Next]_vars PROVE ControlInv'
  OBVIOUS
<1>a. TypeOK /\ Types2 /\ RowsInv /\ ControlInv /\ InFlightInv
  BY DEF RebalanceInv
<1>b. /\ Indices \subseteq Nat /\ record.approved \subseteq Indices
      /\ cur \in {0} \cup Indices /\ cur \in Nat
  BY SMTT(40), <1>a, OrdersTyped DEF TypeOK
<1>c. {"submitted", "confirmed", "failed", "refused"} \subseteq States
      /\ {"none", "cash-floor", "other", "stale"} \subseteq Whys
  BY DEF States, Whys
<1>d. pc \in {"judge", "send"} => cur \in record.approved /\ cur \in Indices
  BY <1>a, <1>b DEF ControlInv, Running
<1>e. \A i \in record.approved : i \in Indices /\ i \in Nat /\ i > 0
  BY <1>a, <1>b, OrdersTyped
<1>1. CASE \/ Ready \/ Unvalued \/ Size \/ SizeRaises \/ Vote \/ ListRefused \/ ListDies
           \/ TreasurerDies \/ KeepDies \/ Keep
  <2>1. pc' \notin Running
    BY <1>1 DEF Ready, Unvalued, Size, SizeRaises, Vote, ListRefused, ListDies,
                TreasurerDies, KeepDies, Keep, Running
  <2> QED BY <2>1 DEF ControlInv
<1>2. CASE Edit \/ UNCHANGED vars
  <2>1. UNCHANGED <<pc, record, plan, row, cur, siblings>>
    BY <1>2 DEF Edit, vars
  <2> QED BY <1>a, <2>1 DEF ControlInv
<1>3. CASE List
  <2>1. /\ pc = "list" /\ pc' = "start" /\ UNCHANGED <<record, plan, cur, siblings>>
        /\ WriteUpTo(Len(plan.orders))
    BY <1>3 DEF List
  <2>2. cur = 0
    BY <1>a, <2>1 DEF RowsInv, Early
  <2>3. \A i \in record.approved : row'[i].state = "prepared"
    BY <1>a, <1>b, <2>1, OrdersTyped DEF WriteUpTo
  <2>4. \A i \in record.approved : ~ (i < 0)
    BY <1>e
  <2> QED BY <2>1, <2>2, <2>3, <2>4 DEF ControlInv
<1>4. CASE Start
  <2>1. /\ pc = "start" /\ pc' \in {"next", "off"}
        /\ UNCHANGED <<record, plan, row, cur, siblings>>
    BY <1>4 DEF Start
  <2>2. cur = 0
    BY <1>a, <2>1 DEF RowsInv, Early
  <2> QED BY <1>a, <2>1, <2>2 DEF ControlInv, Running
<1>5. CASE Take
  <2>1. /\ pc = "next" /\ pc' = "judge"
        /\ cur' \in Indices /\ row[cur'].state = "prepared" /\ cur' > cur
        /\ \A i \in Indices : i > cur /\ row[i].state = "prepared" => cur' <= i
        /\ siblings' = Siblings
        /\ UNCHANGED <<record, plan, row>>
    BY <1>a, <1>5, TakeIs
  <2>2. cur' \in record.approved
    BY <1>a, <2>1 DEF RowsInv
  <2>a. cur' \in Nat
    BY <1>b, <2>1
  <2>3. ASSUME NEW i \in record.approved, i < cur' PROVE row[i].state \in Final
    <3>a. i \in Indices /\ i \in Nat
      BY <1>e
    <3>1. CASE i < cur
      BY <1>a, <2>1, <3>1 DEF ControlInv, Running
    <3>2. CASE i = cur
      <4>1. cur # 0
        BY <1>b, <3>2, <1>a, OrdersTyped
      <4> QED BY <1>a, <2>1, <3>2, <4>1 DEF ControlInv, Running
    <3>3. CASE i > cur
      <4>1. row[i].state \in {"prepared", "refused"}
        BY <1>a, <2>1, <3>3 DEF ControlInv, Running
      <4>2. i \in Indices /\ ~ (cur' <= i)
        BY <2>a, <2>3, <3>a
      <4>3. row[i].state = "refused"
        BY <2>1, <3>3, <4>1, <4>2
      <4> QED BY <4>3 DEF Final
    <3>4. i < cur \/ i = cur \/ i > cur
      BY <1>b, <3>a
    <3> QED BY <3>1, <3>2, <3>3, <3>4
  <2>4. ASSUME NEW i \in record.approved, i > cur'
        PROVE  row[i].state \in {"prepared", "refused"}
    <3>1. i > cur
      <4>1. i \in Nat /\ cur' > cur
        BY <1>e, <2>1
      <4> QED BY <1>b, <2>a, <2>4, <4>1
    <3> QED BY <1>a, <2>1, <3>1 DEF ControlInv, Running
  <2>5. /\ cur' \notin siblings'.filled \cup siblings'.gone
        /\ \A i \in record.approved :
             i < cur' => i \in siblings'.filled \cup siblings'.gone
    BY <1>b, <2>1, <2>3 DEF Siblings, In, Final
  <2> QED BY <2>1, <2>2, <2>3, <2>4, <2>5 DEF ControlInv
<1>6. CASE Refuse \/ FillRefused
  <2>1. /\ pc \in {"judge", "send"}
        /\ \E w \in Whys, s \in {"refused", "failed"} : Moved(s, w)
        /\ UNCHANGED <<record, plan, cur, siblings>>
    BY <1>c, <1>6 DEF Refuse, FillRefused
  <2>2. PICK w \in Whys, s \in {"refused", "failed"} : Moved(s, w)
    BY <2>1
  <2>3. CASE pc' = "off"
    BY <2>3 DEF ControlInv, Running
  <2>4. CASE pc' # "off"
    <3>1. pc' = "next" /\ row' = [row EXCEPT ![cur] = [state |-> s, why |-> w]]
      BY <1>a, <1>d, <2>1, <2>2, <2>4, MovedIs
    <3>2. row'[cur].state = s /\ \A j \in Indices \ {cur} : row'[j] = row[j]
      BY <1>a, <1>c, <1>d, <2>1, <3>1, WriteIs
    <3>3. s \in Final
      BY DEF Final
    <3>4. \A i \in record.approved :
            /\ i < cur => row'[i].state \in Final
            /\ i > cur => row'[i].state \in {"prepared", "refused"}
      BY <1>a, <1>b, <2>1, <3>2 DEF ControlInv, Running
    <3> QED BY <2>1, <3>1, <3>2, <3>3, <3>4 DEF ControlInv
  <2> QED BY <2>3, <2>4
<1>7. CASE Submit
  <2>1. /\ pc = "judge" /\ UNCHANGED <<record, plan, cur, siblings>>
        /\ \/ pc' = "off"
           \/ /\ pc' = "send"
              /\ row' = [row EXCEPT ![cur] = [state |-> "submitted", why |-> "none"]]
    BY <1>7 DEF Submit, Write
  <2>2. CASE pc' = "off"
    BY <2>2 DEF ControlInv, Running
  <2>3. CASE pc' # "off"
    <3>a. row' = [row EXCEPT ![cur] = [state |-> "submitted", why |-> "none"]]
      BY <2>1, <2>3
    <3>b. cur \in Indices /\ "submitted" \in States /\ "none" \in Whys
      BY <1>c, <1>d, <2>1
    <3>1. /\ row'[cur].state = "submitted"
          /\ \A j \in Indices \ {cur} : row'[j] = row[j]
      BY <1>a, <3>a, <3>b, WriteIs
    <3>2. \A i \in record.approved :
            /\ i < cur => row'[i].state \in Final
            /\ i > cur => row'[i].state \in {"prepared", "refused"}
      BY <1>a, <1>b, <2>1, <3>1 DEF ControlInv, Running
    <3>3. /\ cur \notin siblings.filled \cup siblings.gone
          /\ \A i \in record.approved :
               i < cur => i \in siblings.filled \cup siblings.gone
      BY <1>a, <2>1 DEF ControlInv, Running
    <3> QED BY <1>d, <2>1, <2>3, <3>1, <3>2, <3>3 DEF ControlInv
  <2> QED BY <2>2, <2>3
<1>8. CASE FillOnPaper
  <2>1. /\ pc = "send" /\ pc' = "next" /\ UNCHANGED <<record, plan, cur, siblings>>
        /\ row' = [row EXCEPT ![cur] = [state |-> "confirmed", why |-> "none"]]
    BY <1>8 DEF FillOnPaper, Write
  <2>2. /\ row'[cur].state = "confirmed"
        /\ \A j \in Indices \ {cur} : row'[j] = row[j]
    BY <1>a, <1>c, <1>d, <2>1, WriteIs
  <2>3. \A i \in record.approved :
          /\ i < cur => row'[i].state \in Final
          /\ i > cur => row'[i].state \in {"prepared", "refused"}
    BY <1>a, <1>b, <2>1, <2>2 DEF ControlInv, Running
  <2> QED BY <2>1, <2>2, <2>3 DEF ControlInv, Final
<1>9. CASE TreasurerEnds
  <2>1. pc = "next" /\ pc' = "back" /\ UNCHANGED <<record, plan, row, cur, siblings>>
    BY <1>9 DEF TreasurerEnds, Treasurer
  <2> QED BY <1>a, <2>1 DEF ControlInv, Running
<1>10. CASE \E i \in Indices : Startup(i)
  <2>1. PICK i \in Indices : Startup(i)
    BY <1>10
  <2>2. /\ UNCHANGED <<pc, record, plan, cur, siblings>>
        /\ \/ /\ row[i].state = "prepared"
              /\ row' = [row EXCEPT ![i] = [state |-> "refused", why |-> "stale"]]
           \/ /\ row[i].state = "submitted"
              /\ row' = [row EXCEPT ![i] = [state |-> "failed", why |-> "stale"]]
    BY <2>1 DEF Startup, Write
  <2>3. /\ \/ row[i].state = "prepared" /\ row'[i].state = "refused"
           \/ row[i].state = "submitted" /\ row'[i].state = "failed"
        /\ \A j \in Indices \ {i} : row'[j] = row[j]
    <3>1. "refused" \in States /\ "failed" \in States /\ "stale" \in Whys
      BY <1>c
    <3>2. CASE /\ row[i].state = "prepared"
               /\ row' = [row EXCEPT ![i] = [state |-> "refused", why |-> "stale"]]
      BY <1>a, <3>1, <3>2, WriteIs
    <3>3. CASE /\ row[i].state = "submitted"
               /\ row' = [row EXCEPT ![i] = [state |-> "failed", why |-> "stale"]]
      BY <1>a, <3>1, <3>3, WriteIs
    <3> QED BY <2>2, <3>2, <3>3
  <2>4. CASE pc \notin Running
    BY <2>2, <2>4 DEF ControlInv
  <2>5. CASE pc \in Running
    <3>1. \A j \in record.approved :
            /\ j < cur => row'[j].state \in Final
            /\ j > cur => row'[j].state \in {"prepared", "refused"}
      BY <1>a, <1>b, <2>3, <2>5 DEF ControlInv, Final
    <3>2. /\ pc \in {"next", "back"} /\ cur # 0 => row'[cur].state \in Final
          /\ pc = "judge" => row'[cur].state \in {"prepared", "refused"}
          /\ pc = "send" => row'[cur].state \in {"submitted", "failed"}
      BY <1>a, <1>b, <1>d, <2>3, <2>5 DEF ControlInv, Final
    <3>3. pc \in {"judge", "send"} =>
            /\ cur \in record.approved
            /\ cur \notin siblings.filled \cup siblings.gone
            /\ \A j \in record.approved :
                 j < cur => j \in siblings.filled \cup siblings.gone
      BY <1>a, <2>5 DEF ControlInv
    <3> QED BY <2>2, <3>1, <3>2, <3>3 DEF ControlInv
  <2> QED BY <2>4, <2>5
<1> QED
  BY <1>1, <1>2, <1>3, <1>4, <1>5, <1>6, <1>7, <1>8, <1>9, <1>10 DEF Next

(* An order the chokepoint admits: the book holds what it gives, and a buy  *)
(* leaves the floor.                                                        *)
LEMMA AdmittedIs ==
  ASSUME RebalanceInv, pc = "judge", NEW verdict, Admitted(cur, verdict)
  PROVE  /\ Held(plan.orders[cur], cash, hold)
         /\ cur \in Buys =>
              /\ admits.floor \in Nat
              /\ CashHeld - Worth(plan.orders[cur]) >= admits.floor
<1>1. TypeOK /\ Types2 /\ ControlInv
  BY DEF RebalanceInv
<1>2. Held(plan.orders[cur], cash, hold) /\ ~ FloorRefuses(cur)
  BY DEF Admitted
<1>3. ASSUME cur \in Buys
      PROVE  /\ admits.floor \in Nat
             /\ CashHeld - Worth(plan.orders[cur]) >= admits.floor
  <2> DEFINE A == record.approved \ siblings.gone
  <2>1. /\ cur \in record.approved /\ cur \notin siblings.filled \cup siblings.gone
        /\ \A i \in record.approved :
             i < cur => i \in siblings.filled \cup siblings.gone
    BY <1>1 DEF ControlInv, Running
  <2>2. cur \in (A \ siblings.filled) \cap Side(plan.orders, "buy")
    BY <1>3, <2>1 DEF Buys
  <2>3. cur \notin Dropped(plan.orders, A, CashHeld, siblings.filled, admits)
    BY <1>2 DEF FloorRefuses
  <2>4. (A \ siblings.filled) \cap Side(plan.orders, "sell") = {}
    <3>1. SUFFICES ASSUME NEW i \in (A \ siblings.filled) \cap Side(plan.orders, "sell")
                   PROVE  FALSE
      OBVIOUS
    <3>2. i < cur
      BY <1>1, <1>3 DEF Types2, SellsFirst, Buys
    <3> QED BY <2>1, <3>2
  <2>5. plan.orders \in Seq(Parts) /\ CashHeld \in Int /\ admits.floor \in Nat \cup {Null}
    <3>1. plan.orders \in Seq(Parts) /\ Config(admits)
      BY <1>1, OrdersTyped, ConfigsTyped
    <3>2. cash \in Nat /\ hold \in [Stocks -> Nat]
      BY <1>1 DEF TypeOK
    <3> QED BY <3>1, <3>2, NavTyped DEF Config
  <2> HIDE DEF A
  <2> QED BY <2>2, <2>3, <2>4, <2>5, AdmittedKeepsFloor
<1> QED BY <1>2, <1>3

LEMMA InFlightStep ==
  RebalanceInv /\ [Next]_vars => InFlightInv'
<1> SUFFICES ASSUME RebalanceInv, [Next]_vars, pc' = "send" PROVE InFlightInv'
  BY DEF InFlightInv
<1>1. CASE pc = "send"
  <2>1. UNCHANGED <<plan, cash, hold, admits, cur>>
    <3>1. Edit \/ UNCHANGED vars \/ \E i \in Indices : Startup(i)
      BY <1>1 DEF Next, Ready, Unvalued, Size, SizeRaises, Vote, List, ListRefused,
                  ListDies, Start, Take, Treasurer, Refuse, Submit, FillOnPaper,
                  FillRefused, Moved, TreasurerEnds, TreasurerDies, Keep, KeepDies
    <3> QED BY <3>1 DEF Edit, vars, Startup
  <2>2. InFlightInv
    BY DEF RebalanceInv
  <2> QED BY <1>1, <2>1, <2>2 DEF InFlightInv, Held, Buys, CashHeld, Worth
<1>2. CASE pc # "send"
  <2>1. Submit
    BY <1>2 DEF Next, Ready, Edit, Unvalued, Size, SizeRaises, Vote, List, ListRefused,
                ListDies, Start, Take, Treasurer, Refuse, FillOnPaper, FillRefused, Moved,
                TreasurerEnds, TreasurerDies, Keep, KeepDies, Startup, vars
  <2>2. /\ pc = "judge" /\ \E verdict \in world.fresh : Admitted(cur, verdict)
        /\ UNCHANGED <<plan, cash, hold, admits, cur>>
    BY <2>1 DEF Submit
  <2>3. /\ Held(plan.orders[cur], cash, hold)
        /\ cur \in Buys =>
             /\ admits.floor \in Nat
             /\ CashHeld - Worth(plan.orders[cur]) >= admits.floor
    BY <2>2, AdmittedIs
  <2> QED BY <2>2, <2>3 DEF InFlightInv, Held, Buys, CashHeld, Worth
<1> QED BY <1>1, <1>2


-------------------------------------------------------------------------------
(* The floor *)

(* What a step leaves of the record and of the plan.                        *)
LEMMA RecordStep ==
  ASSUME RebalanceInv, [Next]_vars
  PROVE  \/ UNCHANGED <<record, plan>>
         \/ Vote
         \/ record'.approved = {} /\ pc = "size" /\ pc' \in {"vote", "off"}
<1>a. TypeOK /\ Types2 /\ RowsInv
  BY DEF RebalanceInv
<1>1. CASE Unvalued \/ Size
  <2>1. /\ pc = "size" /\ pc' \in {"vote", "off"}
        /\ record' = Prepared \/ record' = Finished(Prepared)
    BY <1>1 DEF Unvalued, Size
  <2>2. record'.approved = record.approved
    BY <1>a, <2>1, PreparedIs
  <2> QED BY <1>a, <2>1, <2>2 DEF RowsInv
<1>2. CASE ~ (Unvalued \/ Size \/ Vote)
  BY <1>2 DEF Next, Ready, Edit, SizeRaises, List, ListRefused, ListDies, Start, Take,
              Treasurer, Refuse, Submit, FillOnPaper, FillRefused, TreasurerEnds,
              TreasurerDies, Keep, KeepDies, Startup, vars
<1> QED BY <1>1, <1>2

LEMMA VoteStep ==
  RebalanceInv /\ [Next]_vars => VoteInv'
<1> SUFFICES ASSUME RebalanceInv, [Next]_vars PROVE VoteInv'
  OBVIOUS
<1>a. TypeOK /\ Types2 /\ VoteInv
  BY DEF RebalanceInv
<1>1. CASE UNCHANGED <<record, plan>>
  BY <1>a, <1>1 DEF VoteInv, ApprovedUpTo, Buys, CashAfter, WorthOf, Worth, Side, CashFloor
<1>2. CASE record'.approved = {}
  BY <1>2 DEF VoteInv, ApprovedUpTo
<1>3. CASE Vote
  <2>1. PICK A \in SUBSET Indices :
          record'.approved = A \ Dropped(plan.orders, A, plan.cash, {}, record.config)
    BY <1>a, <1>3, VoteIs
  <2>2. UNCHANGED plan /\ record'.config = record.config
    BY <1>a, <1>3, VoteIs
  <2>3. SUFFICES ASSUME NEW n \in Nat, ApprovedUpTo(n)' \cap Buys # {}
                 PROVE  CashFloor(CashAfter(plan.cash, plan.orders, ApprovedUpTo(n)'),
                                  record.config)
    BY <2>2 DEF VoteInv, Buys, CashAfter, WorthOf, Worth, Side, CashFloor
  <2>4. ApprovedUpTo(n)' =
          {i \in A \ Dropped(plan.orders, A, plan.cash, {}, record.config) : i <= n}
    BY <2>1 DEF ApprovedUpTo
  <2>5. /\ plan.orders \in Seq(Parts) /\ SellsFirst(plan.orders)
        /\ plan.cash \in Int /\ record.config.floor \in Nat \cup {Null}
        /\ A \subseteq DOMAIN plan.orders
    BY <1>a, OrdersTyped, ConfigsTyped DEF Types2, Config, Indices
  <2> DEFINE w == ApprovedUpTo(n)'
             c == record.config
  <2>6. w \cap Side(plan.orders, "buy") # {}
    BY <2>3 DEF Buys
  <2>7. w = {i \in A \ Dropped(plan.orders, A, plan.cash, {}, c) : i <= n}
    BY <2>4
  <2> HIDE DEF w, c
  <2>8. c.floor \in Nat \cup {Null}
    BY <2>5 DEF c
  <2>9. CashFloor(CashAfter(plan.cash, plan.orders, w), c)
    <3> DEFINE orders == plan.orders
               usd    == plan.cash
    <3>1. /\ orders \in Seq(Parts) /\ SellsFirst(orders) /\ A \subseteq DOMAIN orders
          /\ usd \in Int /\ w \cap Side(orders, "buy") # {}
          /\ w = {i \in A \ Dropped(orders, A, usd, {}, c) : i <= n}
      BY <2>5, <2>6, <2>7
    <3> HIDE DEF orders, usd
    <3>2. CashFloor(CashAfter(usd, orders, w), c)
      BY <2>8, <3>1, VoteKeepsFloor
    <3> QED BY <3>2 DEF orders, usd
  <2> QED BY <2>9 DEF w, c
<1> QED BY <1>1, <1>2, <1>3, RecordStep

(* The orders written.                                                      *)
WrittenOrders == {i \in Indices : row[i].state # "none"}

WrittenOnly == In(States \ {"none"}) = WrittenOrders

LEMMA WrittenIs == TypeOK => WrittenOnly
  BY RowsTyped DEF In, WrittenOrders, WrittenOnly

LEMMA WrittenIsNext == TypeOK' => WrittenOnly'
  BY WrittenIs, PTL

LEMMA DecisionStep ==
  RebalanceInv /\ [Next]_vars => DecisionKeepsFloor'
<1> SUFFICES ASSUME RebalanceInv, [Next]_vars PROVE DecisionKeepsFloor'
  OBVIOUS
<1>a. TypeOK /\ Types2 /\ RowsInv /\ ControlInv /\ VoteInv /\ DecisionKeepsFloor
  BY DEF RebalanceInv
<1>b. TypeOK' /\ RowsInv'
  BY TypesStep, RowsStep DEF RebalanceInv
<1>c. In(States \ {"none"})' = WrittenOrders'
  BY <1>b, WrittenIsNext DEF WrittenOnly
<1>d. In(States \ {"none"}) = WrittenOrders
  BY <1>a, WrittenIs DEF WrittenOnly
<1>1. CASE WrittenOrders' = {}
  BY <1>1, <1>c DEF DecisionKeepsFloor
<1>2. CASE List \/ ListDies
  <2>1. /\ UNCHANGED <<record, plan>> /\ \E n \in Nat : WriteUpTo(n)
    BY <1>a, <1>2, OrdersTyped DEF List, ListDies
  <2>2. PICK n \in Nat : WriteUpTo(n)
    BY <2>1
  <2>3. \A i \in Indices : row'[i].state # "none" <=> i \in record.approved /\ i <= n
    BY <2>2 DEF WriteUpTo, Unwritten
  <2>4. record.approved \subseteq Indices
    BY <1>a DEF TypeOK
  <2>5. WrittenOrders' = ApprovedUpTo(n)
    BY <2>1, <2>3, <2>4 DEF WrittenOrders, ApprovedUpTo, Indices
  <2> DEFINE w == ApprovedUpTo(n)
  <2>6. w \cap Buys # {} => CashAfter(plan.cash, plan.orders, w) >= record.config.floor
    BY <1>a DEF VoteInv, CashFloor
  <2>7. WrittenOrders' = w
    BY <2>5
  <2> HIDE DEF w
  <2> QED BY <1>c, <2>1, <2>6, <2>7
          DEF DecisionKeepsFloor, Buys, CashAfter, WorthOf, Worth, Side
<1>3. CASE /\ UNCHANGED <<record, plan>>
           /\ \A j \in Indices : row'[j].state = "none" <=> row[j].state = "none"
  <2>1. WrittenOrders' = WrittenOrders
    BY <1>3 DEF WrittenOrders, Indices
  <2> DEFINE w == WrittenOrders
  <2>2. w \cap Buys # {} => CashAfter(plan.cash, plan.orders, w) >= record.config.floor
    BY <1>a, <1>d DEF DecisionKeepsFloor
  <2>3. WrittenOrders' = w
    BY <2>1
  <2> HIDE DEF w
  <2> QED BY <1>3, <1>c, <2>2, <2>3
          DEF DecisionKeepsFloor, Buys, CashAfter, WorthOf, Worth, Side
<1>4. CASE Unvalued \/ Size \/ Vote
  <2>1. CASE Size \/ Vote
    <3>1. pc' \in {"vote", "list"}
      BY <2>1 DEF Size, Vote
    <3> QED BY <1>1, <1>b, <3>1 DEF RowsInv, WrittenOrders
  <2>2. CASE Unvalued
    <3>1. UNCHANGED <<plan, row>> /\ pc = "size"
      BY <2>2 DEF Unvalued
    <3>2. WrittenOrders' = {}
      BY <1>a, <3>1 DEF RowsInv, WrittenOrders, Indices
    <3> QED BY <1>1, <3>2
  <2> QED BY <1>4, <2>1, <2>2
<1>5. CASE Refuse \/ Submit \/ FillOnPaper \/ FillRefused \/ \E i \in Indices : Startup(i)
  BY <1>3, <1>5, <1>a, RowStep
<1>6. CASE UNCHANGED <<record, plan, row>>
  BY <1>3, <1>6 DEF Indices
<1>7. CASE \/ Ready \/ Edit \/ SizeRaises \/ ListRefused \/ Start \/ Take
           \/ TreasurerEnds \/ TreasurerDies \/ Keep \/ KeepDies \/ UNCHANGED vars
  BY <1>6, <1>7 DEF Ready, Edit, SizeRaises, ListRefused, Start, Take,
                    TreasurerEnds, TreasurerDies, Keep, KeepDies, vars
<1> QED
  BY <1>2, <1>4, <1>5, <1>7 DEF Next


LEMMA MovesAre ==
  /\ Moves["prepared"] = {"submitted", "refused"}
  /\ Moves["submitted"] = {"confirmed", "failed", "unknown"}
  /\ Moves["refused"] = {} /\ Moves["failed"] = {}
  BY DEF Moves, States

(* A row is written by the fill of the order in flight, or it is not        *)
(* confirmed; it is refused for the floor by the chokepoint alone; and no   *)
(* final row is written again.                                              *)
Filling(i) ==
  FillOnPaper /\ i = cur /\ row'[i].state = "confirmed" /\ row'[i].why = "none"

Refusing(i) ==
  Refuse /\ i = cur /\ FloorRefuses(cur) /\ row'[i].state = "refused"

Rewritten(i) ==
  /\ row[i].state \in {"none", "prepared", "submitted"}
  /\ \/ Filling(i)
     \/ /\ row'[i].state # "confirmed"
        /\ row'[i].why = "cash-floor" => Refusing(i)

(* The order the treasurer moves to a state its own allows.                 *)
LEMMA MovedOne ==
  ASSUME RebalanceInv, pc \in {"judge", "send"}, NEW w \in Whys,
         NEW s \in {"refused", "failed"}, Moved(s, w), NEW i \in Indices,
         row'[i] # row[i]
  PROVE  /\ i = cur /\ row[i].state \in {"prepared", "submitted"}
         /\ row'[i] = [state |-> s, why |-> w]
<1>1. TypeOK /\ cur \in Indices /\ row[cur].state \in {"prepared", "submitted", "refused", "failed"}
  BY DEF RebalanceInv, ControlInv, Running, TypeOK
<1>2. s \in Moves[row[cur].state] /\ row' = [row EXCEPT ![cur] = [state |-> s, why |-> w]]
  BY <1>1, MovedIs
<1>3. row[cur].state \in {"prepared", "submitted"}
  BY <1>1, <1>2, MovesAre
<1>4. s \in States
  BY DEF States
<1>5. row'[cur] = [state |-> s, why |-> w] /\ \A k \in Indices \ {cur} : row'[k] = row[k]
  BY <1>1, <1>2, <1>4, WriteIs
<1> QED BY <1>3, <1>5

LEMMA RowMoves ==
  ASSUME RebalanceInv, [Next]_vars, ~ Size, NEW i \in Indices
  PROVE  UNCHANGED plan /\ (row'[i] = row[i] \/ Rewritten(i))
<1>a. TypeOK /\ Types2 /\ RowsInv /\ ControlInv /\ InFlightInv
  BY DEF RebalanceInv
<1>c. /\ {"none", "submitted", "confirmed", "failed", "refused"} \subseteq States
      /\ {"none", "cash-floor", "other", "stale"} \subseteq Whys
  BY DEF States, Whys
<1>e. pc \in {"judge", "send"} => cur \in Indices
  BY <1>a DEF ControlInv, Running, TypeOK
<1>1. UNCHANGED plan
  BY DEF Next, Ready, Edit, Unvalued, SizeRaises, Vote, List, ListRefused, ListDies, Start,
         Take, Treasurer, Refuse, Submit, FillOnPaper, FillRefused, TreasurerEnds,
         TreasurerDies, Keep, KeepDies, Startup, vars
<1>s. SUFFICES ASSUME row'[i] # row[i] PROVE Rewritten(i)
  BY <1>1
<1>2. CASE List \/ ListDies
  <2>1. pc = "list" /\ \E n \in Nat : WriteUpTo(n)
    BY <1>a, <1>2, OrdersTyped DEF List, ListDies
  <2>2. row'[i].state # "confirmed" /\ row'[i].why = "none"
    BY <2>1 DEF WriteUpTo, Unwritten
  <2>3. row[i].state = "none"
    BY <1>a, <2>1 DEF RowsInv
  <2> QED BY <2>2, <2>3 DEF Rewritten
<1>3. ASSUME NEW j \in Indices, NEW s \in {"submitted", "refused", "failed"},
             NEW w \in {"none", "other", "stale"},
             row[j].state \in {"prepared", "submitted"},
             row' = [row EXCEPT ![j] = [state |-> s, why |-> w]]
      PROVE  Rewritten(i)
  <2>1. s \in States /\ w \in Whys
    BY <1>c
  <2>2. /\ row'[j] = [state |-> s, why |-> w] /\ row'[j].state = s
        /\ \A k \in Indices \ {j} : row'[k] = row[k]
    BY <1>a, <1>3, <2>1, WriteIs
  <2>3. i = j
    BY <1>s, <2>2
  <2>4. row'[i].state # "confirmed" /\ row'[i].why # "cash-floor"
    BY <2>2, <2>3
  <2> QED BY <1>3, <2>3, <2>4 DEF Rewritten
<1>4. CASE Refuse
  <2> DEFINE w == IF FloorRefuses(cur) THEN "cash-floor" ELSE "other"
  <2>1. pc = "judge" /\ Moved("refused", w)
    BY <1>4 DEF Refuse
  <2>2. w \in Whys /\ (w = "cash-floor" => FloorRefuses(cur))
    BY <1>c
  <2> HIDE DEF w
  <2>3. /\ i = cur /\ row[i].state \in {"prepared", "submitted"}
        /\ row'[i] = [state |-> "refused", why |-> w]
    BY <1>s, <2>1, <2>2, MovedOne
  <2>4. row'[i].state = "refused" /\ row'[i].why = w
    BY <2>3
  <2> QED BY <1>4, <2>2, <2>3, <2>4 DEF Rewritten, Refusing
<1>5. CASE FillRefused
  <2>1. pc = "send" /\ Moved("failed", "none") /\ "none" \in Whys
    BY <1>c, <1>5 DEF FillRefused
  <2>2. /\ i = cur /\ row[i].state \in {"prepared", "submitted"}
        /\ row'[i] = [state |-> "failed", why |-> "none"]
    BY <1>s, <2>1, MovedOne
  <2>3. row'[i].state = "failed" /\ row'[i].why = "none"
    BY <2>2
  <2> QED BY <2>2, <2>3 DEF Rewritten
<1>6. CASE Submit
  <2>1. pc = "judge" /\ row' # row
    BY <1>6, <1>s DEF Submit
  <2>2. /\ row[cur].state = "prepared"
        /\ row' = [row EXCEPT ![cur] = [state |-> "submitted", why |-> "none"]]
    BY <1>6, <2>1 DEF Submit, Write
  <2> QED BY <1>3, <1>e, <2>1, <2>2
<1>7. CASE \E j \in Indices : Startup(j)
  <2>1. PICK j \in Indices, s \in {"refused", "failed"} :
          /\ row[j].state \in {"prepared", "submitted"}
          /\ row' = [row EXCEPT ![j] = [state |-> s, why |-> "stale"]]
    BY <1>7 DEF Startup, Write
  <2> QED BY <1>3, <2>1
<1>8. CASE FillOnPaper
  <2>1. /\ row' = [row EXCEPT ![cur] = [state |-> "confirmed", why |-> "none"]]
        /\ cur \in Indices /\ row[cur].state = "submitted"
    BY <1>a, <1>8, FillIs
  <2>2. "confirmed" \in States /\ "none" \in Whys
    BY <1>c
  <2>3. /\ row'[cur] = [state |-> "confirmed", why |-> "none"]
        /\ \A k \in Indices \ {cur} : row'[k] = row[k]
    BY <1>a, <2>1, <2>2, WriteIs
  <2>4. i = cur
    BY <1>s, <2>3
  <2>5. row'[i].state = "confirmed" /\ row'[i].why = "none"
    BY <2>3, <2>4
  <2> QED BY <1>8, <2>1, <2>4, <2>5 DEF Rewritten, Filling
<1>9. row' # row
  BY <1>s
<1>10. CASE \/ Ready \/ Edit \/ Unvalued \/ SizeRaises \/ Vote \/ ListRefused \/ Start \/ Take
            \/ TreasurerEnds \/ TreasurerDies \/ Keep \/ KeepDies \/ UNCHANGED vars
  BY <1>9, <1>10 DEF Ready, Edit, Unvalued, SizeRaises, Vote, ListRefused, Start, Take,
                     TreasurerEnds, TreasurerDies, Keep, KeepDies, vars
<1> QED
  BY <1>2, <1>4, <1>5, <1>6, <1>7, <1>8, <1>10 DEF Next

(* Only a fill confirms an order, and only the one in flight.               *)
LEMMA ConfirmedStep ==
  ASSUME RebalanceInv, Next, NEW i \in Buys,
         row[i].state # "confirmed", row'[i].state = "confirmed"
  PROVE  FillOnPaper /\ i = cur
<1>1. i \in Indices
  BY DEF Buys, Side, Indices
<1>2. ~ Size
  <2>1. SUFFICES ASSUME Size PROVE FALSE
    OBVIOUS
  <2>2. pc = "size"
    BY <2>1 DEF Size
  <2> QED BY <1>1, <2>2 DEF RebalanceInv, RowsInv, Indices
<1> QED BY <1>1, <1>2, RowMoves DEF Rewritten, Filling

LEMMA TimesMinus ==
  ASSUME NEW x \in Int, NEW y \in Int, NEW m \in Int
  PROVE  (x - y) * m = x * m - y * m
  OBVIOUS

(* The buy that fills leaves the floor: it was judged on the cash the book  *)
(* still holds.                                                             *)
LEMMA FillKeepsFloor ==
  ASSUME RebalanceInv, FillOnPaper, cur \in Buys
  PROVE  cash' * CashMark >= admits.floor
<1>a. TypeOK /\ ControlInv /\ InFlightInv
  BY DEF RebalanceInv
<1> DEFINE o == plan.orders[cur]
<1>1. cur \in Indices /\ o.side = "buy"
  BY DEF Buys, Side, Indices
<1>2. pc = "send" /\ cash' = cash - o.sell
  <2>1. /\ pc = "send"
        /\ \E got \in Nat : cash' = IF o.side = "buy" THEN cash - o.sell ELSE cash + got
    BY <1>a, FillIs
  <2> QED BY <1>1, <2>1
<1>3. o.sell \in Nat /\ cash \in Nat /\ CashMark \in Nat
  BY <1>a, <1>1, OrdersTyped, MarksTyped DEF AnyOrder, TypeOK
<1>4. CashHeld - Worth(o) >= admits.floor
  BY <1>a, <1>2 DEF InFlightInv
<1>5. CashHeld = cash * CashMark /\ Worth(o) = o.sell * CashMark
  BY <1>1 DEF CashHeld, Worth
<1> HIDE DEF o
<1>6. (cash - o.sell) * CashMark = cash * CashMark - o.sell * CashMark
  BY <1>3, TimesMinus
<1> QED BY <1>2, <1>4, <1>5, <1>6

-------------------------------------------------------------------------------
(* What a buy refused for the floor tells *)

(* What each order's fill did to the worth of the book's cash.              *)
Effects ==
  [i \in Indices |->
     IF row[i].state # "confirmed" THEN 0
     ELSE IF plan.orders[i].side = "buy" THEN - Worth(plan.orders[i])
     ELSE fill[i] * CashMark]

(* The cash is the plan's, and what has filled since.                       *)
BookInv == CashHeld = plan.cash + Total(Effects)

(* What the treasurer read of an order's siblings is still so.              *)
TakenInv ==
  pc = "judge" =>
    /\ siblings.filled = In({"confirmed"})
    /\ siblings.gone \subseteq In({"refused", "failed"})

(* The chokepoint alone refuses an order for the floor.                     *)
WhyInv ==
  \A i \in Indices : row[i].why = "cash-floor" => row[i].state = "refused" /\ pc \notin Early

DropInv == BookInv /\ TakenInv /\ WhyInv /\ NoNeedlessDrop

LEMMA EffectsTyped ==
  ASSUME TypeOK
  PROVE  /\ Effects \in [1..Len(plan.orders) -> Int] /\ Effects \in Seq(Int)
         /\ Len(Effects) = Len(plan.orders) /\ Total(Effects) \in Int
<1>1. Indices = 1..Len(plan.orders) /\ Len(plan.orders) \in Nat
  BY OrdersTyped
<1>2. \A i \in Indices : Worth(plan.orders[i]) \in Int /\ - Worth(plan.orders[i]) \in Int
  <2>1. SUFFICES ASSUME NEW i \in Indices
                 PROVE  Worth(plan.orders[i]) \in Int /\ - Worth(plan.orders[i]) \in Int
    OBVIOUS
  <2>2. Worth(plan.orders[i]) \in Nat
    BY OrdersTyped, WorthTyped, AnyOrderIsPart
  <2> QED BY <2>2
<1>3. \A i \in Indices : fill[i] * CashMark \in Int
  <2>1. SUFFICES ASSUME NEW i \in Indices PROVE fill[i] * CashMark \in Int
    OBVIOUS
  <2>2. fill[i] \in Nat /\ CashMark \in Nat
    BY MarksTyped DEF TypeOK
  <2>3. fill[i] * CashMark \in Nat
    BY <2>2, TimesNat
  <2> QED BY <2>3
<1>4. \A i \in Indices : Effects[i] \in Int
  BY <1>2, <1>3 DEF Effects
<1>5. Effects \in [1..Len(plan.orders) -> Int]
  BY <1>1, <1>4 DEF Effects
<1>6. Effects \in Seq(Int) /\ Len(Effects) = Len(plan.orders)
  BY <1>1, <1>5
<1> QED BY <1>5, <1>6, TotalType

LEMMA DropInit == Init => DropInv
<1> SUFFICES ASSUME Init PROVE DropInv
  OBVIOUS
<1>1. pc = "keys" /\ plan = Written(<< >>, << >>)
  BY DEF Init
<1>2. plan.orders = << >> /\ plan.cash = CashHeld /\ Indices = {} /\ CashHeld \in Nat
  <2>1. plan.orders = << >> /\ plan.cash = CashHeld
    BY <1>1 DEF Written
  <2>2. Indices = {}
    BY <2>1 DEF Indices
  <2>3. cash \in Nat /\ hold \in [Stocks -> Nat]
    BY WorldsAssumption DEF Init
  <2> QED BY <2>1, <2>2, <2>3, NavTyped
<1>3. TypeOK
  BY RebalanceInit DEF RebalanceInv
<1>4. Total(Effects) = 0
  <2>1. Effects \in Seq(Int) /\ Len(Effects) = 0
    BY <1>2, <1>3, EffectsTyped
  <2>2. \A i \in 1..Len(Effects) : Effects[i] = 0
    BY <2>1
  <2> QED BY <2>1, <2>2, TotalZero
<1>5. WhyInv /\ NoNeedlessDrop
  BY <1>2 DEF WhyInv, NoNeedlessDrop, Buys, Side, Indices
<1> QED BY <1>1, <1>2, <1>4, <1>5 DEF DropInv, BookInv, TakenInv

(* Only the fill of an order touches the book.                              *)
LEMMA BookKept ==
  ASSUME RebalanceInv, [Next]_vars, ~ Size, ~ FillOnPaper
  PROVE  UNCHANGED <<plan, cash, hold, fill>>
  BY DEF Next, Ready, Edit, Unvalued, SizeRaises, Vote, List, ListRefused, ListDies, Start,
         Take, Treasurer, Refuse, Submit, FillRefused, TreasurerEnds,
         TreasurerDies, Keep, KeepDies, Startup, vars

LEMMA BookStep ==
  ASSUME RebalanceInv, RebalanceInv', BookInv, [Next]_vars
  PROVE  BookInv'
<1>a. /\ TypeOK /\ Types2 /\ ControlInv /\ InFlightInv /\ TypeOK'
      /\ CashHeld = plan.cash + Total(Effects)
  BY DEF RebalanceInv, BookInv
<1>b. CashMark \in Nat
  BY MarksTyped
<1>1. CASE Size
  <2>1. /\ plan'.orders \in Seq(AnyOrder) /\ plan'.cash = CashHeld /\ cash' = cash
        /\ plan'.cash \in Nat
        /\ row' = [i \in DOMAIN plan'.orders |-> Unwritten]
    BY <1>a, <1>1, SizeIs
  <2>2. DOMAIN Effects' = 1..Len(plan'.orders) /\ \A i \in DOMAIN Effects' : Effects'[i] = 0
    BY <2>1 DEF Effects, Indices, Unwritten
  <2>3. Effects' \in Seq(Int) /\ Len(Effects') = Len(plan'.orders)
    <3>1. Len(plan'.orders) \in Nat
      BY <2>1
    <3>2. Effects' = [i \in 1..Len(plan'.orders) |-> Effects'[i]]
      BY <2>2 DEF Effects
    <3> DEFINE n == Len(plan'.orders)
               e == Effects'
    <3>3. DOMAIN e = 1..n /\ (\A i \in DOMAIN e : e[i] = 0) /\ n \in Nat
          /\ e = [i \in 1..n |-> e[i]]
      BY <2>2, <3>1, <3>2
    <3> HIDE DEF n, e
    <3>4. e \in [1..n -> Int]
      BY <3>3
    <3>5. e \in Seq(Int) /\ Len(e) = n
      BY <3>3, <3>4
    <3> QED BY <3>5 DEF n, e
  <2>4. Total(Effects') = 0
    BY <2>2, <2>3, TotalZero
  <2>5. Total(Effects)' = 0 /\ CashHeld' = CashHeld
    BY <2>1, <2>4 DEF Total, CashHeld
  <2> QED BY <2>1, <2>5 DEF BookInv
<1>2. CASE FillOnPaper
  <2> DEFINE o == plan.orders[cur]
  <2>1. /\ cur \in Indices /\ row[cur].state = "submitted" /\ UNCHANGED plan
        /\ row' = [row EXCEPT ![cur] = [state |-> "confirmed", why |-> "none"]]
    BY <1>a, <1>2, FillIs
  <2>2. PICK got \in Nat :
          /\ fill' = [fill EXCEPT ![cur] = got]
          /\ cash' = IF o.side = "buy" THEN cash - o.sell ELSE cash + got
    BY <1>a, <1>2, FillIs
  <2> DEFINE y == IF o.side = "buy" THEN - Worth(o) ELSE got * CashMark
  <2>3. /\ row'[cur].state = "confirmed"
        /\ \A k \in Indices \ {cur} : row'[k] = row[k] /\ fill'[k] = fill[k]
        /\ fill'[cur] = got
    <3>1. "confirmed" \in States /\ "none" \in Whys
      BY DEF States, Whys
    <3>2. row'[cur].state = "confirmed" /\ \A k \in Indices \ {cur} : row'[k] = row[k]
      BY <1>a, <2>1, <3>1, WriteIs
    <3>3. fill'[cur] = got /\ \A k \in Indices \ {cur} : fill'[k] = fill[k]
      BY <1>a, <2>1, <2>2 DEF TypeOK
    <3> QED BY <3>2, <3>3
  <2>4. /\ o.sell \in Nat /\ cash \in Nat /\ o \in Parts
    BY <1>a, <2>1, OrdersTyped, AnyOrderIsPart DEF TypeOK, AnyOrder
  <2>5. y \in Int /\ cash' * CashMark = cash * CashMark + y
    <3>1. CASE o.side = "buy"
      <4>1. Worth(o) = o.sell * CashMark /\ Worth(o) \in Nat
        BY <2>4, <3>1, WorthTyped DEF Worth
      <4>2. (cash - o.sell) * CashMark = cash * CashMark - o.sell * CashMark
        BY <1>b, <2>4, TimesMinus
      <4>3. cash * CashMark \in Nat
        BY <1>b, <2>4, TimesNat
      <4> HIDE DEF o
      <4> QED BY <2>2, <3>1, <4>1, <4>2, <4>3
    <3>2. CASE o.side # "buy"
      <4>1. (cash + got) * CashMark = cash * CashMark + got * CashMark
        BY <1>b, <2>4
      <4>2. cash * CashMark \in Nat /\ got * CashMark \in Nat
        BY <1>b, <2>4, TimesNat
      <4> HIDE DEF o
      <4> QED BY <2>2, <3>2, <4>1, <4>2
    <3> QED BY <3>1, <3>2
  <2>6. Effects' = [Effects EXCEPT ![cur] = y]
    <3>1. \A k \in Indices : Effects'[k] = IF k = cur THEN y ELSE Effects[k]
      BY <2>1, <2>3 DEF Effects, Indices, Worth
    <3>2. DOMAIN Effects' = Indices /\ DOMAIN Effects = Indices
      BY <2>1 DEF Effects, Indices
    <3> QED BY <2>1, <3>1, <3>2 DEF Effects, Indices
  <2>7. Effects[cur] = 0
    BY <2>1 DEF Effects
  <2>8. Effects \in Seq(Int) /\ cur \in 1..Len(Effects)
    BY <1>a, <2>1, EffectsTyped, OrdersTyped
  <2> HIDE DEF y
  <2>9. Total(Effects') = Total(Effects) - 0 + y
    BY <2>5, <2>6, <2>7, <2>8, TotalChange
  <2>10. Total(Effects) \in Int /\ plan.cash \in Int /\ cash * CashMark \in Int
    BY <1>a, <1>b, <2>4, EffectsTyped, TimesNat DEF Types2
  <2>11. cash' * CashMark = plan.cash + Total(Effects')
    BY <1>a, <2>5, <2>9, <2>10 DEF CashHeld
  <2>12. CashHeld' = cash' * CashMark /\ plan'.cash = plan.cash
    BY <2>1 DEF CashHeld
  <2> QED BY <2>11, <2>12 DEF BookInv, Total
<1>3. CASE ~ Size /\ ~ FillOnPaper
  <2>1. UNCHANGED <<plan, cash, fill>>
    BY <1>3, BookKept
  <2>2. \A i \in Indices : row'[i].state = "confirmed" <=> row[i].state = "confirmed"
    BY <1>3, RowMoves DEF Rewritten, Filling
  <2>3. Effects' = Effects
    BY <2>1, <2>2 DEF Effects, Indices, Worth
  <2> QED BY <1>a, <2>1, <2>3 DEF BookInv, CashHeld, Total
<1> QED BY <1>1, <1>2, <1>3

(* Once started, the treasurer is past the decision for good.               *)
LEMMA PastEarly ==
  ASSUME [Next]_vars, pc \notin Early
  PROVE  pc' \notin Early /\ UNCHANGED <<plan, record, admits>>
  BY DEF Early, Next, Ready, Edit, Unvalued, Size, SizeRaises, Vote, List, ListRefused,
         ListDies, Start, Take, Treasurer, Refuse, Submit, FillOnPaper, FillRefused, Moved,
         TreasurerEnds, TreasurerDies, Keep, KeepDies, Startup, vars

LEMMA WhyStep ==
  ASSUME RebalanceInv, WhyInv, [Next]_vars
  PROVE  WhyInv'
<1>1. CASE Size
  <2>1. row' = [i \in Indices' |-> Unwritten]
    BY <1>1, SizeIs DEF RebalanceInv, Indices
  <2> QED BY <2>1 DEF WhyInv, Unwritten
<1>2. CASE ~ Size
  <2>1. SUFFICES ASSUME NEW i \in Indices, row'[i].why = "cash-floor"
                 PROVE  row'[i].state = "refused" /\ pc' \notin Early
    <3>1. RebalanceInv /\ [Next]_vars /\ ~ Size => UNCHANGED plan
      BY <1>2, BookKept, FillIs DEF FillOnPaper
    <3> QED BY <1>2, <3>1 DEF WhyInv, Indices, Early
  <2>2. CASE row'[i] = row[i]
    BY <2>1, <2>2, PastEarly DEF WhyInv
  <2>3. CASE Refusing(i)
    BY <2>3, PastEarly DEF Refusing, Refuse, Early
  <2> QED BY <1>2, <2>1, <2>2, <2>3, RowMoves DEF Rewritten, Filling
<1> QED BY <1>1, <1>2

LEMMA TakenStep ==
  ASSUME RebalanceInv, TakenInv, [Next]_vars
  PROVE  TakenInv'
<1>a. TypeOK /\ TakenInv
  BY DEF RebalanceInv
<1> SUFFICES ASSUME pc' = "judge" PROVE TakenInv'
  BY DEF TakenInv
<1>1. CASE Take
  <2>1. UNCHANGED <<plan, row>> /\ siblings' = Siblings
    BY <1>a, <1>1, TakeIs
  <2> QED BY <2>1 DEF TakenInv, Siblings, In, Indices
<1>2. CASE ~ Take
  <2>1. /\ pc = "judge" /\ ~ Size /\ ~ FillOnPaper /\ UNCHANGED <<plan, siblings>>
    BY <1>2 DEF Next, Ready, Edit, Unvalued, Size, SizeRaises, Vote, List, ListRefused,
         ListDies, Start, Refuse, Submit, FillOnPaper, FillRefused, Moved,
         TreasurerEnds, Treasurer, TreasurerDies, Keep, KeepDies, Startup, vars
  <2>2. \A i \in Indices :
          /\ row'[i].state = "confirmed" <=> row[i].state = "confirmed"
          /\ row[i].state \in {"refused", "failed"} => row'[i] = row[i]
    BY <2>1, RowMoves DEF Rewritten, Filling
  <2> QED BY <1>a, <2>1, <2>2 DEF TakenInv, In, Indices
<1> QED BY <1>1, <1>2

(* A buy the chokepoint would refuse for the floor it was decided by: a     *)
(* sell before it did not fill, or got less than its worth.                 *)
LEMMA FloorTells ==
  ASSUME RebalanceInv, BookInv, TakenInv, pc = "judge", cur \in Buys, FloorRefuses(cur),
         ~ FloorRaised,
         \A j \in Sells : /\ row[j].state \notin {"refused", "failed"}
                          /\ row[j].state = "confirmed" =>
                               fill[j] * CashMark >= Worth(plan.orders[j])
  PROVE  FALSE
<1> DEFINE orders == plan.orders
           buys   == Side(orders, "buy")
           sells  == Side(orders, "sell")
           n      == Len(orders)
           open   == (record.approved \ siblings.gone) \ siblings.filled
           u      == UpTo(orders, open, cur)
           a      == ApprovedUpTo(cur)
<1>1. /\ TypeOK /\ Types2 /\ RowsInv /\ ControlInv /\ VoteInv
      /\ CashHeld = plan.cash + Total(Effects)
  BY DEF RebalanceInv, BookInv
<1>2. /\ orders \in Seq(Parts) /\ Indices = 1..n /\ n \in Nat
      /\ DOMAIN orders = 1..n
  BY <1>1, OrdersTyped DEF Indices
<1>3. /\ cur \in Indices /\ cur \in Nat /\ cur \in buys
      /\ cur \in record.approved /\ record.approved \subseteq Indices
      /\ cur \notin siblings.filled \cup siblings.gone
      /\ \A i \in record.approved : i < cur => row[i].state \in Final
      /\ \A i \in record.approved : i > cur => row[i].state \in {"prepared", "refused"}
      /\ row[cur].state \in {"prepared", "refused"}
  BY <1>1, <1>2 DEF ControlInv, Running, Buys, Side, TypeOK
<1>4. siblings.filled = In({"confirmed"}) /\ siblings.gone \subseteq In({"refused", "failed"})
  BY DEF TakenInv
<1>5. SellsFirst(orders)
  BY <1>1 DEF Types2
<1>6. \A i \in sells : i < cur /\ i \notin buys
  BY <1>3, <1>5 DEF SellsFirst, Side
<1>7. \A i \in Indices : i \in sells \/ i \in buys
  BY <1>1, OrdersTyped DEF Side, AnyOrder, Indices
<1>8. u \cap sells = {}
  <2>1. SUFFICES ASSUME NEW i \in u \cap sells PROVE FALSE
    OBVIOUS
  <2>2. i \in record.approved /\ i \notin siblings.filled \cup siblings.gone /\ i < cur
    BY <1>6 DEF UpTo
  <2> QED BY <1>1, <2>2 DEF ControlInv, Running
<1> DEFINE E == Effects
           S == Worths(orders, a \cap sells)
           P == Worths(orders, a \cap buys)
           B == Worths(orders, u \cap buys)
<1>9. ASSUME NEW i \in 1..n PROVE S[i] + B[i] <= E[i] + P[i]
  <2>1. i \in Nat /\ i \in Indices /\ i \in DOMAIN orders
    BY <1>2
  <2>2. Worth(orders[i]) \in Nat
    BY <1>2, <2>1, WorthTyped
  <2>3. /\ S[i] = IF i \in a \cap sells THEN Worth(orders[i]) ELSE 0
        /\ P[i] = IF i \in a \cap buys THEN Worth(orders[i]) ELSE 0
        /\ B[i] = IF i \in u \cap buys THEN Worth(orders[i]) ELSE 0
    BY <2>1 DEF Worths
  <2>4. E[i] = IF row[i].state # "confirmed" THEN 0
               ELSE IF orders[i].side = "buy" THEN - Worth(orders[i]) ELSE fill[i] * CashMark
    BY <2>1 DEF Effects
  <2>5. row[i].state # "none" => i \in record.approved
    BY <1>1, <2>1 DEF RowsInv
  <2>6. CASE i \in sells
    <3>1. P[i] = 0 /\ B[i] = 0 /\ orders[i].side # "buy"
      BY <1>6, <2>3, <2>6 DEF Side
    <3>2. row[i].state = "confirmed" => E[i] >= Worth(orders[i]) /\ E[i] \in Int
      <4>1. fill[i] \in Nat /\ CashMark \in Nat
        BY <1>1, <2>1, MarksTyped DEF TypeOK
      <4>2. fill[i] * CashMark \in Nat
        BY <4>1, TimesNat
      <4> QED BY <2>4, <2>6, <3>1, <4>2 DEF Sells
    <3>3. i \in a => row[i].state = "confirmed"
      <4>1. i \in a => row[i].state \in Final
        BY <1>3, <1>6, <2>6 DEF ApprovedUpTo
      <4>2. row[i].state \notin {"refused", "failed"}
        BY <2>6 DEF Sells
      <4> QED BY <4>1, <4>2 DEF Final
    <3>4. row[i].state # "confirmed" => E[i] = 0
      BY <2>4
    <3> HIDE DEF E, S, P, B
    <3> QED BY <2>2, <2>3, <3>1, <3>2, <3>3, <3>4
  <2>7. CASE i \in buys
    <3>1. S[i] = 0 /\ orders[i].side = "buy"
      BY <1>6, <2>3, <2>7 DEF Side
    <3>2. CASE row[i].state = "confirmed"
      <4>1. E[i] = - Worth(orders[i])
        BY <2>4, <3>1, <3>2
      <4>2. i \notin u
        BY <1>4, <2>1, <3>2 DEF UpTo, In
      <4>3. i \in record.approved /\ ~ (i > cur)
        BY <1>3, <2>5, <3>2
      <4>4. i \in a
        BY <1>3, <2>1, <4>3 DEF ApprovedUpTo
      <4> HIDE DEF E, S, P, B
      <4> QED BY <2>2, <2>3, <2>7, <3>1, <4>1, <4>2, <4>4
    <3>3. CASE row[i].state # "confirmed"
      <4>1. E[i] = 0
        BY <2>4, <3>3
      <4>2. i \in u => i \in a
        BY <1>3, <2>1, <2>7 DEF UpTo, ApprovedUpTo
      <4> HIDE DEF E, S, P, B
      <4> QED BY <2>2, <2>3, <2>7, <3>1, <4>1, <4>2
    <3> QED BY <3>2, <3>3
  <2> HIDE DEF E, S, P, B
  <2> QED BY <1>7, <2>1, <2>6, <2>7
<1>10. /\ E \in [1..n -> Int] /\ S \in [1..n -> Int] /\ P \in [1..n -> Int]
       /\ B \in [1..n -> Int] /\ Total(E) \in Int /\ CashHeld = plan.cash + Total(E)
       /\ Total(S) = WorthOf(orders, a \cap sells) /\ Total(P) = WorthOf(orders, a \cap buys)
       /\ Total(B) = WorthOf(orders, u \cap buys)
  BY <1>1, <1>2, EffectsTyped, WorthsTyped
<1> HIDE DEF E, S, P, B
<1>11. Total(S) + Total(B) <= Total(E) + Total(P)
  <2> DEFINE l == [i \in 1..n |-> S[i] + B[i]]
             r == [i \in 1..n |-> E[i] + P[i]]
  <2>1. l \in [1..n -> Int] /\ r \in [1..n -> Int] /\ \A i \in 1..n : l[i] <= r[i]
    BY <1>9, <1>10
  <2>2. Total(l) = Total(S) + Total(B) /\ Total(r) = Total(E) + Total(P)
    BY <1>2, <1>10, TotalAdds
  <2> HIDE DEF l, r, n
  <2>3. Total(l) <= Total(r)
    BY <1>2, <2>1, TotalGrows
  <2> QED BY <2>2, <2>3
<1>12. CashFloor(CashAfter(plan.cash, orders, a), record.config)
  <2>1. cur \in a \cap Buys
    BY <1>3 DEF ApprovedUpTo, Buys
  <2> QED BY <1>1, <1>3, <2>1 DEF VoteInv
<1>13. /\ record.config.floor \in Nat /\ CashAfter(plan.cash, orders, a) >= record.config.floor
       /\ admits.floor \in Nat /\ admits.floor <= record.config.floor
  <2>1. Config(record.config) /\ Config(admits)
    BY <1>1, ConfigsTyped
  <2> QED BY <1>12, <2>1 DEF CashFloor, FloorRaised, Config
<1>14. plan.cash \in Int /\ CashHeld \in Int
  <2>1. cash \in Nat /\ hold \in [Stocks -> Nat]
    BY <1>1 DEF TypeOK
  <2> QED BY <1>1, <2>1, NavTyped DEF Types2
<1>15. /\ CashAfter(plan.cash, orders, a) = plan.cash + Total(S) - Total(P)
       /\ CashAfter(CashHeld, orders, u) = CashHeld + 0 - Total(B)
       /\ Total(S) \in Int /\ Total(P) \in Int /\ Total(B) \in Int
  <2>1. WorthOf(orders, u \cap sells) = 0
    BY <1>2, <1>8, WorthOfNone
  <2>2. /\ WorthOf(orders, a \cap sells) \in Nat /\ WorthOf(orders, a \cap buys) \in Nat
        /\ CashAfter(plan.cash, orders, a) =
             plan.cash + WorthOf(orders, a \cap sells) - WorthOf(orders, a \cap buys)
    <3> HIDE DEF a, orders
    <3> QED BY <1>2, <1>14, CashAfterIs
  <2>3. /\ WorthOf(orders, u \cap buys) \in Nat
        /\ CashAfter(CashHeld, orders, u) =
             CashHeld + WorthOf(orders, u \cap sells) - WorthOf(orders, u \cap buys)
    <3> HIDE DEF u, orders
    <3> QED BY <1>2, <1>14, CashAfterIs
  <2> HIDE DEF u, a, buys, sells, orders
  <2> QED BY <1>10, <2>1, <2>2, <2>3
<1>16. CashAfter(CashHeld, orders, u) >= admits.floor
  <2>1. \A x, e, s, p, b, f, g \in Int :
          s + b <= e + p /\ x + s - p >= f /\ g <= f => x + e + 0 - b >= g
    OBVIOUS
  <2> HIDE DEF u, a, buys, sells, orders
  <2>2. plan.cash \in Int /\ Total(E) \in Int
    BY <1>10, <1>14
  <2>3. plan.cash + Total(S) - Total(P) >= record.config.floor
    BY <1>13, <1>15
  <2>4. plan.cash + Total(E) + 0 - Total(B) >= admits.floor
    BY <1>11, <1>13, <1>15, <2>1, <2>2, <2>3
  <2> QED BY <1>10, <1>15, <2>4
<1>17. cur \in Clear(orders, open, CashHeld, admits)
  <2>1. admits.floor # Null
    BY DEF FloorRaised
  <2>2. CashFloor(CashAfter(CashHeld, orders, u), admits)
    BY <1>16, <2>1 DEF CashFloor
  <2>3. cur \in 0..Len(orders)
    BY <1>2, <1>3
  <2> QED BY <2>2, <2>3 DEF Clear
<1>18. Clear(orders, open, CashHeld, admits) \in SUBSET (0..n)
  BY DEF Clear
<1>19. cur <= Max(Clear(orders, open, CashHeld, admits))
       /\ Max(Clear(orders, open, CashHeld, admits)) \in 0..n
  <2> DEFINE C == Clear(orders, open, CashHeld, admits)
  <2>1. C \in SUBSET (0..n) /\ cur \in C
    BY <1>17, <1>18
  <2> HIDE DEF C
  <2>2. cur <= Max(C) /\ Max(C) \in 0..n
    BY <1>2, <2>1, MaxIn
  <2> QED BY <2>2 DEF C
<1>20. \/ Clear(orders, open, CashHeld, admits) = {}
       \/ cur > Max(Clear(orders, open, CashHeld, admits))
  BY DEF FloorRefuses, Dropped
<1> HIDE DEF open, orders, n
<1> QED BY <1>2, <1>3, <1>17, <1>19, <1>20

LEMMA DropStep ==
  ASSUME RebalanceInv, DropInv, [Next]_vars
  PROVE  NoNeedlessDrop'
<1>a. BookInv /\ TakenInv /\ WhyInv /\ NoNeedlessDrop
  BY DEF DropInv
<1>1. CASE Size
  <2>1. row' = [i \in Indices' |-> Unwritten]
    BY <1>1, SizeIs DEF RebalanceInv, Indices
  <2>2. \A i \in Buys' : i \in Indices'
    BY DEF Buys, Side, Indices
  <2> QED BY <2>1, <2>2 DEF NoNeedlessDrop, Unwritten
<1>2. CASE ~ Size
  <2>1. SUFFICES ASSUME NEW i \in Buys', row'[i].why = "cash-floor"
                 PROVE  \/ FloorRaised'
                        \/ \E j \in Sells' :
                              \/ row'[j].state \in {"refused", "failed"}
                              \/ row'[j].state = "confirmed"
                                 /\ fill'[j] * CashMark < Worth(plan'.orders[j])
    BY DEF NoNeedlessDrop, Worth
  <2>2. UNCHANGED plan
    BY <1>2, BookKept, FillIs DEF FillOnPaper
  <2>3. i \in Buys /\ i \in Indices /\ Sells' = Sells
    BY <2>2 DEF Buys, Sells, Side, Indices
  <2>4. pc \notin Early /\ (FloorRaised \/
           \E j \in Sells : \/ row[j].state \in {"refused", "failed"}
                            \/ row[j].state = "confirmed"
                               /\ fill[j] * CashMark < Worth(plan.orders[j]))
    <3>1. CASE row'[i] = row[i]
      BY <1>a, <2>1, <2>3, <3>1 DEF WhyInv, NoNeedlessDrop
    <3>2. CASE Refusing(i)
      <4>1. pc = "judge" /\ cur \in Buys /\ FloorRefuses(cur)
        BY <2>3, <3>2 DEF Refusing, Refuse
      <4>2. ASSUME NEW j \in Sells PROVE fill[j] * CashMark \in Nat /\ Worth(plan.orders[j]) \in Nat
        <5>1. TypeOK /\ j \in Indices
          BY DEF RebalanceInv, Sells, Side, Indices
        <5>2. fill[j] \in Nat /\ CashMark \in Nat /\ plan.orders[j] \in Parts
          BY <5>1, OrdersTyped, AnyOrderIsPart, MarksTyped DEF TypeOK
        <5> QED BY <5>2, TimesNat, WorthTyped
      <4>3. \/ FloorRaised
            \/ ~ \A j \in Sells : /\ row[j].state \notin {"refused", "failed"}
                                  /\ row[j].state = "confirmed" =>
                                       fill[j] * CashMark >= Worth(plan.orders[j])
        BY <1>a, <4>1, FloorTells
      <4>4. \A j \in Sells : ~ (fill[j] * CashMark >= Worth(plan.orders[j])) =>
                               fill[j] * CashMark < Worth(plan.orders[j])
        <5>1. SUFFICES ASSUME NEW j \in Sells, ~ (fill[j] * CashMark >= Worth(plan.orders[j]))
                       PROVE  fill[j] * CashMark < Worth(plan.orders[j])
          OBVIOUS
        <5> DEFINE x == fill[j] * CashMark
                   y == Worth(plan.orders[j])
        <5>2. x \in Nat /\ y \in Nat /\ ~ (x >= y)
          BY <4>2, <5>1
        <5> HIDE DEF x, y
        <5>3. x < y
          BY <5>2
        <5> QED BY <5>3 DEF x, y
      <4> QED BY <4>1, <4>3, <4>4 DEF Early
    <3> QED BY <1>2, <2>1, <2>3, <3>1, <3>2, RowMoves DEF Rewritten, Filling
  <2>5. CASE FloorRaised
    <3>1. UNCHANGED <<record, admits>>
      BY <2>4, PastEarly
    <3> QED BY <2>5, <3>1 DEF FloorRaised
  <2>6. CASE ~ FloorRaised
    <3>1. PICK j \in Sells : \/ row[j].state \in {"refused", "failed"}
                             \/ row[j].state = "confirmed"
                                /\ fill[j] * CashMark < Worth(plan.orders[j])
      BY <2>4, <2>6
    <3>2. j \in Indices
      BY DEF Sells, Side, Indices
    <3>3. row'[j] = row[j]
      BY <1>2, <3>1, <3>2, RowMoves DEF Rewritten
    <3>4. row[j].state = "confirmed" => fill'[j] = fill[j]
      <4>1. CASE FillOnPaper
        <5>1. /\ cur \in Indices /\ row[cur].state = "submitted"
              /\ \E got \in Nat : fill' = [fill EXCEPT ![cur] = got]
          BY <4>1, FillIs DEF RebalanceInv
        <5>2. fill \in [Indices -> Nat]
          BY DEF RebalanceInv, TypeOK
        <5> QED BY <3>2, <5>1, <5>2
      <4>2. CASE ~ FillOnPaper
        BY <1>2, <4>2, BookKept
      <4> QED BY <4>1, <4>2
    <3> QED BY <2>2, <2>3, <3>1, <3>3, <3>4
  <2> QED BY <2>5, <2>6
<1> QED BY <1>1, <1>2

-------------------------------------------------------------------------------
(* What a plan spends *)

(* A list of orders and another after it.                                   *)
LEMMA WorthSplit ==
  ASSUME NEW r \in Seq(Parts), NEW s \in Seq(Parts), NEW S
  PROVE  WorthOf(r \o s, S) =
           WorthOf(r, S) + WorthOf(s, {i \in DOMAIN s : i + Len(r) \in S})
<1> DEFINE B == {i \in DOMAIN s : i + Len(r) \in S}
<1>1. r \o s \in Seq(Parts) /\ Len(r \o s) = Len(r) + Len(s)
      /\ Len(r) \in Nat /\ Len(s) \in Nat
  OBVIOUS
<1>2. /\ Worths(r, S) \in Seq(Int) /\ Worths(s, B) \in Seq(Int)
      /\ Worths(r \o s, S) \in Seq(Int)
      /\ Len(Worths(r, S)) = Len(r) /\ Len(Worths(s, B)) = Len(s)
      /\ Len(Worths(r \o s, S)) = Len(r) + Len(s)
  <2>1. ASSUME NEW q \in Seq(Parts), NEW Q
        PROVE  Worths(q, Q) \in Seq(Int) /\ Len(Worths(q, Q)) = Len(q)
    <3>1. Worths(q, Q) \in Seq(Int)
      BY WorthsTyped
    <3>2. DOMAIN Worths(q, Q) = 1..Len(q) /\ Len(q) \in Nat
      BY DEF Worths
    <3> HIDE DEF Parts
    <3> QED BY <3>1, <3>2
  <2> HIDE DEF B
  <2> QED BY <1>1, <2>1
<1>3. ASSUME NEW i \in 1..(Len(r) + Len(s))
      PROVE  Worths(r \o s, S)[i] = (Worths(r, S) \o Worths(s, B))[i]
  <2>1. CASE i <= Len(r)
    <3>1. i \in DOMAIN r /\ i \in DOMAIN (r \o s) /\ (r \o s)[i] = r[i]
      BY <1>1, <2>1
    <3>2. (Worths(r, S) \o Worths(s, B))[i] = Worths(r, S)[i]
      BY <1>1, <1>2, <2>1
    <3> QED BY <3>1, <3>2 DEF Worths
  <2>2. CASE ~ (i <= Len(r))
    <3> DEFINE j == i - Len(r)
    <3>1. j \in DOMAIN s /\ i \in DOMAIN (r \o s) /\ (r \o s)[i] = s[j] /\ j + Len(r) = i
      BY <1>1, <2>2
    <3>2. (Worths(r, S) \o Worths(s, B))[i] = Worths(s, B)[j]
      <4> DEFINE x == Worths(r, S)
                 y == Worths(s, B)
      <4>1. x \in Seq(Int) /\ y \in Seq(Int) /\ Len(x) = Len(r) /\ Len(y) = Len(s)
        BY <1>2
      <4> HIDE DEF x, y, B
      <4>2. (x \o y)[i] = y[j]
        BY <1>1, <2>2, <4>1
      <4> QED BY <4>2 DEF x, y
    <3> HIDE DEF j
    <3> QED BY <3>1, <3>2 DEF Worths
  <2> QED BY <2>1, <2>2
<1>4. Worths(r \o s, S) = Worths(r, S) \o Worths(s, B)
  <2> DEFINE x == Worths(r \o s, S)
             y == Worths(r, S) \o Worths(s, B)
  <2>1. y \in Seq(Int) /\ Len(y) = Len(r) + Len(s)
    <3> DEFINE y1 == Worths(r, S)
               y2 == Worths(s, B)
    <3>1. y1 \in Seq(Int) /\ y2 \in Seq(Int) /\ Len(y1) = Len(r) /\ Len(y2) = Len(s)
      BY <1>2
    <3> HIDE DEF y1, y2, B
    <3>2. y1 \o y2 \in Seq(Int)
      BY <3>1
    <3>3. Len(y1 \o y2) = Len(y1) + Len(y2)
      BY <3>1, ConcatProperties
    <3> QED BY <3>1, <3>2, <3>3 DEF y1, y2
  <2>2. x \in Seq(Int) /\ Len(x) = Len(r) + Len(s)
    BY <1>2
  <2>3. \A i \in 1..Len(x) : x[i] = y[i]
    BY <1>3, <2>2
  <2> HIDE DEF x, y
  <2>4. x = y
    BY <2>1, <2>2, <2>3, SeqEqual
  <2> QED BY <2>4 DEF x, y
<1>5. Total(Worths(r \o s, S)) = Total(Worths(r, S)) + Total(Worths(s, B))
  BY <1>2, <1>4, TotalConcat
<1> HIDE DEF B
<1>6. /\ WorthOf(r \o s, S) = Total(Worths(r \o s, S))
      /\ WorthOf(r, S) = Total(Worths(r, S)) /\ WorthOf(s, B) = Total(Worths(s, B))
  BY <1>1, WorthsTyped
<1>7. WorthOf(r \o s, S) = WorthOf(r, S) + WorthOf(s, B)
  BY <1>5, <1>6
<1> QED BY <1>7 DEF B

(* The same orders, however they are named.                                 *)
LEMMA WorthSame ==
  ASSUME NEW orders \in Seq(Parts), NEW S, NEW T,
         S \cap DOMAIN orders = T \cap DOMAIN orders
  PROVE  WorthOf(orders, S) = WorthOf(orders, T)
<1>1. WorthOf(orders, S) <= WorthOf(orders, T) /\ WorthOf(orders, T) <= WorthOf(orders, S)
  BY WorthGrows
<1>2. WorthOf(orders, S) \in Nat /\ WorthOf(orders, T) \in Nat
  BY WorthsTyped
<1> QED BY <1>1, <1>2

(* Everything a list of orders sells.                                       *)
WorthAll(orders) == WorthOf(orders, DOMAIN orders)

LEMMA WorthConcat ==
  ASSUME NEW r \in Seq(Parts), NEW s \in Seq(Parts)
  PROVE  WorthAll(r \o s) = WorthAll(r) + WorthAll(s)
<1> DEFINE D == DOMAIN (r \o s)
           B == {i \in DOMAIN s : i + Len(r) \in D}
<1>1. D = 1..(Len(r) + Len(s)) /\ Len(r) \in Nat /\ Len(s) \in Nat
      /\ DOMAIN r = 1..Len(r) /\ DOMAIN s = 1..Len(s)
  OBVIOUS
<1>2. D \cap DOMAIN r = DOMAIN r \cap DOMAIN r /\ B = DOMAIN s
  BY <1>1
<1>3. WorthOf(r \o s, D) = WorthOf(r, D) + WorthOf(s, B)
  BY WorthSplit
<1>4. WorthOf(r, D) = WorthOf(r, DOMAIN r)
  <2> HIDE DEF D
  <2> QED BY <1>2, WorthSame
<1> QED BY <1>2, <1>3, <1>4 DEF WorthAll

(* Lists of orders, none worth more than its bound, joined.                 *)
LEMMA WorthFlatten ==
  ASSUME NEW n \in Nat, NEW s \in [1..n -> Seq(Parts)], NEW v \in [1..n -> Nat],
         \A i \in 1..n : WorthAll(s[i]) <= v[i]
  PROVE  WorthAll(FlattenSeq(s)) <= Total(v)
<1>1. CASE n = 0
  <2>1. s = << >> /\ v \in Seq(Nat) /\ << >> \in Seq(Parts)
    BY <1>1
  <2>2. FlattenSeq(s) = << >> /\ Total(v) \in Nat
    BY <2>1, FlattenNone, TotalType
  <2>3. WorthOf(<< >>, {}) = 0
    BY <2>1, WorthOfNone
  <2>4. DOMAIN << >> = {}
    OBVIOUS
  <2>5. WorthAll(<< >>) = 0
    BY <2>3, <2>4 DEF WorthAll
  <2> QED BY <2>2, <2>5
<1>2. CASE n # 0
  <2>0. PICK f : FlattenSeq(s) = f[n] /\ Joins(f, s, n)
    BY <1>2, FlattenIs
  <2>1. /\ FlattenSeq(s) = f[n]
        /\ \A i \in 1..n : f[i] = IF i = 1 THEN s[i] ELSE f[i - 1] \o s[i]
    BY <2>0 DEF Joins
  <2>2. \A i \in 1..n : f[i] \in Seq(Parts)
    BY <2>1, JoinedTyped
  <2> DEFINE first(i) == [k \in 1..i |-> v[k]]
             Bad == {i \in 1..n : ~ (WorthAll(f[i]) <= Total(first(i)))}
  <2>3. Bad = {}
    <3>1. SUFFICES ASSUME Bad # {} PROVE FALSE
      OBVIOUS
    <3>2. Bad \in SUBSET Nat
      OBVIOUS
    <3>3. PICK i \in Bad : \A j \in Bad : i <= j
      BY <3>1, <3>2, LeastNumber
    <3>4. i \in 1..n /\ i \in Nat /\ i - 1 \in Nat /\ ~ (WorthAll(f[i]) <= Total(first(i)))
      OBVIOUS
    <3>5. v[i] \in Nat /\ WorthAll(s[i]) <= v[i]
      BY <3>4
    <3>6. first(i - 1) \in Seq(Int) /\ first(i - 1) \in Seq(Nat)
          /\ first(i) = Append(first(i - 1), v[i])
      BY <3>4, <3>5
    <3>7. Total(first(i)) = Total(first(i - 1)) + v[i] /\ Total(first(i - 1)) \in Nat
      <4> HIDE DEF first
      <4> QED BY <3>5, <3>6, TotalStep, TotalType
    <3>8. WorthAll(s[i]) \in Nat
      BY <3>4, WorthsTyped DEF WorthAll
    <3>9. CASE i = 1
      <4>1. f[i] = s[i]
        BY <2>1, <3>4, <3>9
      <4> HIDE DEF first
      <4> QED BY <3>4, <3>5, <3>7, <3>8, <4>1
    <3>10. CASE i # 1
      <4>1. i - 1 \in 1..n /\ ~ (i <= i - 1)
        BY <3>4, <3>10
      <4>2. WorthAll(f[i - 1]) <= Total(first(i - 1))
        <5> HIDE DEF first
        <5> QED BY <3>3, <4>1
      <4>3. f[i] = f[i - 1] \o s[i] /\ f[i - 1] \in Seq(Parts) /\ s[i] \in Seq(Parts)
        BY <2>1, <2>2, <3>4, <3>10, <4>1
      <4>4. WorthAll(f[i]) = WorthAll(f[i - 1]) + WorthAll(s[i])
        BY <4>3, WorthConcat
      <4>5. WorthAll(f[i - 1]) \in Nat
        BY <4>3, WorthsTyped DEF WorthAll
      <4> HIDE DEF first
      <4> QED BY <3>4, <3>5, <3>7, <3>8, <4>2, <4>4, <4>5
    <3> QED BY <3>9, <3>10
  <2>4. n \in 1..n /\ first(n) = v
    BY <1>2
  <2> HIDE DEF first
  <2> QED BY <2>1, <2>3, <2>4
<1> QED BY <1>1, <1>2

(* What an amount split into even parts leaves of it: all of it.            *)
LEMMA EvenTotal ==
  ASSUME NEW total \in Nat, NEW parts \in Nat \ {0}
  PROVE  Even(total, parts) \in [1..parts -> Nat] /\ Total(Even(total, parts)) = total
<1> DEFINE q == total \div parts
           r == total % parts
           one(k) == IF k <= r THEN 1 ELSE 0
           first(j) == [k \in 1..j |-> q + one(k)]
           upto(j) == IF j <= r THEN j ELSE r
           Bad == {j \in 0..parts : Total(first(j)) # j * q + upto(j)}
<1>1. q \in Nat /\ r \in Nat
  BY DivNat
<1>2. total = parts * q + r /\ r < parts
  OBVIOUS
<1>3. first(parts) = Even(total, parts)
  BY DEF Even
<1> HIDE DEF q, r
<1>4. \A k \in Nat : q + one(k) \in Nat
  BY <1>1
<1>5. ASSUME NEW j \in Nat
      PROVE  first(j) \in [1..j -> Nat] /\ first(j) \in Seq(Int)
  <2>1. \A k \in 1..j : q + one(k) \in Nat
    BY <1>4
  <2> HIDE DEF one
  <2>2. first(j) \in [1..j -> Nat]
    BY <2>1
  <2>3. \A f \in [1..j -> Nat] : f \in Seq(Int)
    OBVIOUS
  <2> HIDE DEF first
  <2> QED BY <2>2, <2>3
<1>6. Bad = {}
  <2>1. SUFFICES ASSUME Bad # {} PROVE FALSE
    OBVIOUS
  <2>2. PICK j \in Bad : \A i \in Bad : j <= i
    <3>1. Bad \in SUBSET Nat
      OBVIOUS
    <3> HIDE DEF Bad
    <3> QED BY <2>1, <3>1, LeastNumber
  <2>3. j \in 0..parts /\ j \in Nat /\ Total(first(j)) # j * q + upto(j)
    OBVIOUS
  <2>4. CASE j = 0
    <3>1. first(j) = << >>
      BY <2>4
    <3>2. Total(first(j)) = 0
      <4> HIDE DEF first
      <4> QED BY <3>1, TotalStep
    <3>3. j * q = 0 /\ upto(j) = 0
      BY <1>1, <2>4
    <3> HIDE DEF first, upto
    <3> QED BY <2>3, <3>2, <3>3
  <2>5. CASE j # 0
    <3> DEFINE i == j - 1
    <3>1. i \in Nat /\ i \in 0..parts /\ j = i + 1 /\ ~ (j <= i)
      BY <2>3, <2>5
    <3>2. i \notin Bad
      <4> HIDE DEF Bad, i
      <4> QED BY <2>2, <3>1
    <3> HIDE DEF i
    <3>3. Total(first(i)) = i * q + upto(i)
      <4> HIDE DEF first, upto
      <4> QED BY <3>1, <3>2
    <3>4. first(j) = Append(first(i), q + one(j))
      <4>1. \A k \in 1..j : k \in 1..i \/ k = i + 1
        BY <3>1
      <4>2. \A k \in Nat : q + one(k) \in Nat
        BY <1>4
      <4> HIDE DEF one
      <4> QED BY <3>1, <4>1, <4>2
    <3>5. Total(first(j)) = Total(first(i)) + (q + one(j))
      <4>1. first(i) \in Seq(Int) /\ q + one(j) \in Int
        BY <1>4, <1>5, <2>3, <3>1
      <4> HIDE DEF first, one
      <4> QED BY <3>4, <4>1, TotalStep
    <3>6. upto(j) = upto(i) + one(j)
      BY <1>1, <3>1
    <3>7. j * q = i * q + q
      BY <1>1, <3>1
    <3>8. i * q \in Nat /\ upto(i) \in Nat /\ one(j) \in Nat
      BY <1>1, <3>1, TimesNat
    <3> DEFINE iq == i * q
    <3>9. iq \in Nat /\ j * q = iq + q
      BY <3>7, <3>8
    <3>10. Total(first(j)) = iq + upto(i) + (q + one(j))
      BY <3>3, <3>5
    <3>11. upto(j) \in Nat
      BY <1>1, <2>3
    <3> HIDE DEF first, upto, one, iq
    <3>12. iq + upto(i) + (q + one(j)) = (iq + q) + upto(j)
      BY <1>1, <3>6, <3>8, <3>9
    <3> QED BY <2>3, <3>9, <3>10, <3>12
  <2> QED BY <2>4, <2>5
<1>7. Total(first(parts)) = parts * q + upto(parts)
  <2>1. parts \in 0..parts
    OBVIOUS
  <2> HIDE DEF first, upto
  <2> QED BY <1>6, <2>1
<1>8. upto(parts) = r
  BY <1>1, <1>2
<1>9. first(parts) \in [1..parts -> Nat]
  BY <1>5
<1> HIDE DEF first, upto
<1> QED BY <1>2, <1>3, <1>7, <1>8, <1>9

(* A part of no units, or one that buys, is worth no more than its cents.   *)
LEMMA UnitsWorth ==
  ASSUME NEW usd \in Nat
  PROVE  Units(usd, CashMark) \in Nat /\ Units(usd, CashMark) * CashMark <= usd
<1>1. CashMark \in Nat \ {0}
  BY MarksTyped
<1>2. \A b \in Nat \ {0} : (usd \div b) * b <= usd /\ usd \div b \in Nat
  OBVIOUS
<1> QED BY <1>1, <1>2 DEF Units

(* The cents a raise is scaled to.                                          *)
Raised(move, s, share) ==
  IF move[s] > 0 THEN (move[s] * share[1]) \div share[2] ELSE 0

(* What a raise is split into adds up to no more than it.                   *)
LEMMA PartsTotal ==
  ASSUME NEW total \in Nat, NEW c, Config(c), total # 0 => CanSplit(c), NEW parts,
         parts = IF total = 0 THEN << >> ELSE Even(total, Split(total, c))
  PROVE  \E n \in Nat : parts \in [1..n -> Nat] /\ Total(parts) <= total
<1> DEFINE n == Split(total, c)
<1>1. << >> \in [1..0 -> Nat] /\ Total(<< >>) = 0 /\ 0 \in Nat
  BY TotalStep
<1>2. CASE total = 0
  <2>1. parts = << >>
    BY <1>2
  <2> QED BY <1>1, <1>2, <2>1
<1>3. CASE total # 0
  <2>1. n \in Nat
    BY <1>3, SplitTyped DEF Config
  <2>2. parts = Even(total, n)
    BY <1>3
  <2> HIDE DEF n
  <2>3. CASE n = 0
    <3>1. parts = << >>
      BY <2>2, <2>3 DEF Even
    <3>2. parts \in [1..0 -> Nat]
      BY <1>1, <3>1
    <3>3. Total(parts) = 0
      BY <1>1, <3>1
    <3>4. Total(parts) <= total
      BY <3>3
    <3> QED BY <3>2, <3>4
  <2>4. CASE n # 0
    <3>1. parts \in [1..n -> Nat] /\ Total(parts) = total
      BY <2>1, <2>2, <2>4, EvenTotal
    <3> QED BY <2>1, <3>1
  <2> QED BY <2>3, <2>4
<1> QED BY <1>2, <1>3

(* A raise's orders spend no more than its cents.                           *)
LEMMA BuysWorth ==
  ASSUME NEW move \in [Stocks -> Int], NEW s \in Stocks, NEW share,
         share[1] \in Nat, share[2] \in Nat \ {0},
         NEW c, Config(c), c.floor = Null => share[1] = 0, ~ NoLimit(move, c)
  PROVE  /\ Raised(move, s, share) \in Nat
         /\ WorthAll(BuysOf(move, s, share, c)) <= Raised(move, s, share)
<1> DEFINE usd   == Raised(move, s, share)
           parts == IF usd = 0 THEN << >> ELSE Even(usd, Split(usd, c))
           buys  == BuysOf(move, s, share, c)
<1>1. buys = [k \in DOMAIN parts |-> Order("buy", s, Units(parts[k], CashMark))]
  BY DEF BuysOf, Raised
<1>2. usd \in Nat
  <2>1. CASE move[s] > 0
    <3>1. move[s] \in Nat
      BY <2>1
    <3>2. move[s] * share[1] \in Nat
      BY <3>1, TimesNat
    <3>3. (move[s] * share[1]) \div share[2] \in Nat
      BY <3>2, DivNat
    <3> QED BY <2>1, <3>3 DEF Raised
  <2>2. CASE ~ (move[s] > 0)
    BY <2>2 DEF Raised
  <2> QED BY <2>1, <2>2
<1>3. usd # 0 => CanSplit(c)
  <2>1. SUFFICES ASSUME usd # 0, ~ CanSplit(c) PROVE FALSE
    OBVIOUS
  <2>2. move[s] > 0
    BY <2>1 DEF Raised
  <2>3. share[1] = 0
    BY <2>1, <2>2 DEF NoLimit
  <2>4. move[s] * share[1] = 0
    BY <2>3
  <2>5. 0 \div share[2] = 0
    OBVIOUS
  <2>6. usd = 0
    BY <2>2, <2>4, <2>5 DEF Raised
  <2> HIDE DEF usd
  <2> QED BY <2>1, <2>6
<1> HIDE DEF usd
<1>4. \E n \in Nat : parts \in [1..n -> Nat] /\ Total(parts) <= usd
  BY <1>2, <1>3, PartsTotal
<1>5. PICK n \in Nat : parts \in [1..n -> Nat] /\ Total(parts) <= usd
  BY <1>4
<1> HIDE DEF parts
<1>6. /\ DOMAIN buys = 1..n /\ DOMAIN parts = 1..n
      /\ \A k \in 1..n : buys[k] = Order("buy", s, Units(parts[k], CashMark))
  BY <1>1, <1>5
<1>7. buys \in Seq(Parts)
  <2>1. BuyParts \subseteq Parts
    BY DEF BuyParts, Parts
  <2>2. buys \in Seq(BuyParts)
    BY BuysTyped
  <2> HIDE DEF buys
  <2> QED BY <2>1, <2>2
<1> HIDE DEF buys
<1> DEFINE w == Worths(buys, DOMAIN buys)
<1>8. w \in [1..n -> Int] /\ WorthAll(buys) = Total(w)
  <2>1. Len(buys) = n
    BY <1>6, <1>7
  <2>2. Worths(buys, DOMAIN buys) \in [1..Len(buys) -> Int]
    BY <1>7, WorthsTyped
  <2>3. WorthOf(buys, DOMAIN buys) = Total(Worths(buys, DOMAIN buys))
    BY <1>7, WorthsTyped
  <2> QED BY <2>1, <2>2, <2>3 DEF WorthAll
<1>9. ASSUME NEW k \in 1..n PROVE w[k] <= parts[k]
  <2>1. w[k] = Worth(buys[k])
    BY <1>6 DEF Worths
  <2>2. Worth(buys[k]) = Units(parts[k], CashMark) * CashMark
    BY <1>6 DEF Worth, Order
  <2>3. parts[k] \in Nat
    BY <1>5
  <2>4. Units(parts[k], CashMark) * CashMark <= parts[k]
    BY <2>3, UnitsWorth
  <2> QED BY <2>1, <2>2, <2>4
<1>10. parts \in [1..n -> Int] /\ Total(parts) \in Int
  <2>1. parts \in Seq(Int)
    BY <1>5
  <2> QED BY <1>5, <2>1, TotalType
<1> HIDE DEF w
<1>11. Total(w) <= Total(parts) /\ Total(w) \in Int
  <2>1. w \in Seq(Int)
    BY <1>8
  <2> QED BY <1>8, <1>9, <1>10, <2>1, TotalGrows, TotalType
<1>12. WorthAll(buys) <= usd
  BY <1>2, <1>5, <1>8, <1>10, <1>11
<1> QED BY <1>2, <1>12 DEF usd, buys

(* The buys that are scaled by a share are funded by it: nothing is bought, *)
(* or what is leaves the floor.                                             *)
LEMMA Funded ==
  ASSUME NEW usd \in Int, NEW proceeds \in Int, NEW c, Config(c),
         NEW n \in Nat, NEW raise \in [1..n -> Nat], NEW share,
         share = Fund(usd, proceeds, Total(raise), c),
         NEW spent \in [1..n -> Nat],
         \A i \in 1..n : spent[i] = (raise[i] * share[1]) \div share[2]
  PROVE  \/ Total(spent) = 0
         \/ /\ c.floor \in Nat /\ c.floor # Null
            /\ Total(spent) <= usd + proceeds - c.floor
<1> DEFINE wanted == Total(raise)
           spare  == usd + proceeds - c.floor
<1>1. /\ raise \in Seq(Nat) /\ raise \in Seq(Int) /\ raise \in [1..n -> Int]
      /\ spent \in Seq(Nat) /\ spent \in Seq(Int) /\ spent \in [1..n -> Int]
      /\ Len(raise) = n /\ Len(spent) = n
  OBVIOUS
<1>2. wanted \in Nat /\ Total(spent) \in Nat
  BY <1>1, TotalType
<1>3. ASSUME share = <<0, 1>> PROVE Total(spent) = 0
  <2>1. \A i \in 1..n : spent[i] = 0
    <3>1. share[1] = 0 /\ share[2] = 1
      BY <1>3
    <3>2. \A x \in Nat : (x * 0) \div 1 = 0
      OBVIOUS
    <3> QED BY <3>1, <3>2
  <2> QED BY <1>1, <2>1, TotalZero
<1>4. ASSUME share = <<1, 1>> PROVE Total(spent) = wanted
  <2>1. \A i \in 1..n : spent[i] = raise[i]
    <3>1. share[1] = 1 /\ share[2] = 1
      BY <1>4
    <3>2. \A x \in Nat : (x * 1) \div 1 = x
      OBVIOUS
    <3> QED BY <3>1, <3>2
  <2>2. spent = raise
    BY <2>1
  <2> QED BY <2>2
<1>5. CASE c.floor = Null
  <2>1. share = <<0, 1>>
    BY <1>5 DEF Fund
  <2> QED BY <1>3, <2>1
<1>6. CASE c.floor # Null
  <2>1. c.floor \in Nat /\ spare \in Int
    <3>1. c.floor \in Nat
      BY <1>6 DEF Config
    <3> QED BY <3>1
  <2>2. \/ share = <<1, 1>> /\ wanted <= 0
        \/ share = <<0, 1>>
        \/ share = <<1, 1>> /\ wanted <= spare
        \/ share = <<spare, wanted>> /\ ~ (wanted <= 0) /\ ~ (spare <= 0)
    <3> HIDE DEF wanted, spare
    <3> QED BY <1>6 DEF Fund, spare, wanted
  <2>3. CASE share = <<1, 1>> /\ wanted <= 0
    <3> HIDE DEF wanted
    <3> QED BY <1>2, <1>4, <2>3
  <2>4. CASE share = <<0, 1>>
    BY <1>3, <2>4
  <2>5. CASE share = <<1, 1>> /\ wanted <= spare
    <3>1. Total(spent) <= spare
      <4> HIDE DEF wanted, spare
      <4> QED BY <1>4, <2>5
    <3> QED BY <1>6, <2>1, <3>1
  <2>6. CASE share = <<spare, wanted>> /\ ~ (wanted <= 0) /\ ~ (spare <= 0)
    <3> HIDE DEF spare, wanted
    <3>1. share[1] = spare /\ share[2] = wanted /\ spare \in Nat /\ wanted \in Nat \ {0}
      BY <1>2, <2>1, <2>6
    <3>2. \A a \in Nat, b \in Nat \ {0} : b * (a \div b) <= a /\ b * (a \div b) \in Nat
      OBVIOUS
    <3>3. ASSUME NEW i \in 1..n
          PROVE  /\ wanted * spent[i] <= spare * raise[i]
                 /\ wanted * spent[i] \in Int /\ spare * raise[i] \in Int
      <4>1. raise[i] \in Nat
        OBVIOUS
      <4>2. \A a, b \in Nat : a * b \in Nat /\ a * b = b * a
        OBVIOUS
      <4> DEFINE a == raise[i] * spare
      <4>3. a \in Nat /\ a = spare * raise[i]
        BY <3>1, <4>1, <4>2
      <4>4. spent[i] = a \div wanted
        BY <3>1
      <4> HIDE DEF a
      <4>5. wanted * (a \div wanted) <= a /\ wanted * (a \div wanted) \in Nat
        BY <3>1, <3>2, <4>3
      <4>6. wanted * spent[i] = wanted * (a \div wanted)
        BY <4>4
      <4>7. wanted * spent[i] <= a /\ wanted * spent[i] \in Int /\ a \in Int
        BY <4>3, <4>5, <4>6
      <4> QED BY <4>3, <4>7
    <3> DEFINE x == [i \in 1..n |-> wanted * spent[i]]
               y == [i \in 1..n |-> spare * raise[i]]
    <3>4. x \in [1..n -> Int] /\ y \in [1..n -> Int] /\ \A i \in 1..n : x[i] <= y[i]
      BY <3>3
    <3>5. Total(x) = wanted * Total(spent) /\ Total(y) = spare * wanted
      <4>1. wanted \in Int /\ spare \in Int
        BY <3>1
      <4>2. Total(x) = wanted * Total(spent)
        BY <1>1, <4>1, TotalTimes
      <4>3. Total(y) = spare * Total(raise)
        BY <1>1, <4>1, TotalTimes
      <4> HIDE DEF x, y
      <4> QED BY <4>2, <4>3 DEF wanted
    <3>6. Total(x) <= Total(y)
      <4> HIDE DEF x, y
      <4> QED BY <3>4, TotalGrows
    <3>7. wanted * Total(spent) <= wanted * spare
      <4>1. spare * wanted = wanted * spare
        BY <3>1
      <4> HIDE DEF x, y
      <4> QED BY <3>5, <3>6, <4>1
    <3>8. \A a, b \in Nat, k \in Nat \ {0} : k * a <= k * b => a <= b
      OBVIOUS
    <3>9. Total(spent) <= spare
      BY <1>2, <3>1, <3>7, <3>8
    <3> QED BY <1>6, <2>1, <3>9 DEF spare
  <2> QED BY <2>2, <2>3, <2>4, <2>5, <2>6
<1> QED BY <1>5, <1>6

(* Sells and then buys, run at their marks.                                 *)
LEMMA CashAfterAll ==
  ASSUME NEW sells \in Seq(SellParts), NEW buys \in Seq(BuyParts), NEW usd \in Int
  PROVE  CashAfter(usd, sells \o buys, DOMAIN (sells \o buys)) =
           usd + WorthAll(sells) - WorthAll(buys)
<1> DEFINE orders == sells \o buys
           S == DOMAIN orders \cap Side(orders, "sell")
           B == DOMAIN orders \cap Side(orders, "buy")
           later(T) == {i \in DOMAIN buys : i + Len(sells) \in T}
<1>1. sells \in Seq(Parts) /\ buys \in Seq(Parts)
  <2>1. SellParts \subseteq Parts /\ BuyParts \subseteq Parts
    BY DEF SellParts, BuyParts, Parts
  <2> QED BY <2>1
<1>2. /\ Len(sells) \in Nat /\ Len(buys) \in Nat
      /\ DOMAIN sells = 1..Len(sells) /\ DOMAIN buys = 1..Len(buys)
      /\ DOMAIN orders = 1..(Len(sells) + Len(buys))
      /\ \A i \in 1..Len(sells) : orders[i] = sells[i] /\ sells[i] \in SellParts
      /\ \A i \in DOMAIN orders : i > Len(sells) =>
            /\ orders[i] = buys[i - Len(sells)] /\ i - Len(sells) \in 1..Len(buys)
            /\ buys[i - Len(sells)] \in BuyParts
  OBVIOUS
<1>3. \A i \in 1..Len(sells) : i \in DOMAIN orders /\ orders[i].side = "sell"
  BY <1>2 DEF SellParts
<1>4. \A i \in DOMAIN orders : i > Len(sells) => orders[i].side = "buy"
  BY <1>2 DEF BuyParts
<1>5. \A i \in 1..Len(buys) :
        i + Len(sells) \in DOMAIN orders /\ orders[i + Len(sells)].side = "buy"
  <2>1. \A i \in 1..Len(buys) : i + Len(sells) \in DOMAIN orders /\ i + Len(sells) > Len(sells)
    BY <1>2
  <2> HIDE DEF orders
  <2> QED BY <1>4, <2>1
<1> HIDE DEF orders
<1>6. S \cap DOMAIN sells = DOMAIN sells \cap DOMAIN sells /\ B \cap DOMAIN sells = {}
  BY <1>2, <1>3 DEF Side
<1>7. later(S) = {} /\ later(B) = DOMAIN buys
  BY <1>2, <1>5 DEF Side
<1> HIDE DEF S, B
<1>8. WorthOf(orders, S) = WorthAll(sells)
  <2>1. WorthOf(orders, S) = WorthOf(sells, S) + WorthOf(buys, later(S))
    BY <1>1, WorthSplit DEF orders
  <2>2. WorthOf(buys, later(S)) = 0
    BY <1>1, <1>7, WorthOfNone
  <2>3. WorthOf(sells, S) = WorthAll(sells) /\ WorthAll(sells) \in Nat
    BY <1>1, <1>6, WorthSame, WorthsTyped DEF WorthAll
  <2> HIDE DEF later
  <2> QED BY <2>1, <2>2, <2>3
<1>9. WorthOf(orders, B) = WorthAll(buys)
  <2>1. WorthOf(orders, B) = WorthOf(sells, B) + WorthOf(buys, later(B))
    BY <1>1, WorthSplit DEF orders
  <2>2. WorthOf(sells, B) = 0
    BY <1>1, <1>6, WorthOfNone
  <2>3. WorthOf(buys, later(B)) = WorthAll(buys) /\ WorthAll(buys) \in Nat
    BY <1>1, <1>7, WorthsTyped DEF WorthAll
  <2> HIDE DEF later
  <2> QED BY <2>1, <2>2, <2>3
<1>10. CashAfter(usd, orders, DOMAIN orders) = usd + WorthOf(orders, S) - WorthOf(orders, B)
  BY DEF CashAfter, S, B
<1> QED BY <1>8, <1>9, <1>10 DEF orders

(* plan.size: a plan that buys at all leaves the floor.                     *)
LEMMA SizedKeepsFloor ==
  ASSUME hold \in [Stocks -> Nat], cash \in Nat, NEW move \in [Stocks -> Int],
         NEW c, Config(c), CanSize(move, c),
         Side(Sized(move, c), "buy") # {}
  PROVE  CashFloor(CashAfter(CashHeld, Sized(move, c), DOMAIN Sized(move, c)), c)
<1> DEFINE lists == [s \in Stocks |-> SellsOf(move, s, c)]
           sells == FlattenSeq(lists)
           wants == [s \in Stocks |-> Max({0, move[s]})]
           share == Fund(CashHeld, WorthOf(sells, DOMAIN sells), Total(wants), c)
           after == [s \in Stocks |-> BuysOf(move, s, share, c)]
           buys  == FlattenSeq(after)
           n     == Len(Mark)
           spent == [s \in 1..n |-> Raised(move, s, share)]
<1>1. Sized(move, c) = sells \o buys
  BY DEF Sized
<1>2. Stocks = 1..n /\ n \in Nat
  BY MarksTyped
<1>3. ~ NoLimit(move, c) /\ ~ NoUnits(move, c)
  BY DEF CanSize
<1>4. SellParts \subseteq Parts /\ BuyParts \subseteq Parts
  BY DEF SellParts, BuyParts, Parts
<1>5. sells \in Seq(SellParts) /\ sells \in Seq(Parts)
  <2>1. lists \in [1..Len(Mark) -> Seq(SellParts)]
    BY <1>2, <1>3, SellsTyped
  <2>2. sells \in Seq(SellParts)
    <3> HIDE DEF lists
    <3> QED BY <1>2, <2>1, FlattenTyped
  <2> HIDE DEF sells
  <2> QED BY <1>4, <2>2
<1> HIDE DEF lists
<1>6. wants \in [1..n -> Nat] /\ \A s \in 1..n : wants[s] = IF move[s] > 0 THEN move[s] ELSE 0
  <2>1. \A s \in Stocks : Max({0, move[s]}) = IF 0 <= move[s] THEN move[s] ELSE 0
    <3> HIDE DEF Max
    <3> QED BY MaxOfTwo
  <2>2. \A s \in Stocks : Max({0, move[s]}) = IF move[s] > 0 THEN move[s] ELSE 0
    <3> HIDE DEF Max
    <3> QED BY <2>1
  <2>3. \A s \in Stocks : (IF move[s] > 0 THEN move[s] ELSE 0) \in Nat
    OBVIOUS
  <2> HIDE DEF Max, n
  <2>4. wants \in [Stocks -> Nat]
    BY <2>2, <2>3
  <2> QED BY <1>2, <2>2, <2>4
<1>7. CashHeld \in Int /\ WorthAll(sells) \in Int /\ WorthAll(sells) = WorthOf(sells, DOMAIN sells)
  <2>1. CashHeld \in Int
    BY MarksTyped, TimesNat DEF CashHeld
  <2> HIDE DEF sells
  <2> QED BY <1>5, <2>1, WorthsTyped DEF WorthAll
<1> HIDE DEF sells, wants
<1>8. share[1] \in Nat /\ share[2] \in Nat \ {0} /\ (c.floor = Null => share[1] = 0)
  <2>1. Total(wants) \in Int
    <3>1. wants \in Seq(Int)
      BY <1>2, <1>6
    <3> QED BY <3>1, TotalType
  <2> QED BY <1>7, <2>1, FundTyped
<1> HIDE DEF share
<1>9. \A s \in Stocks : /\ BuysOf(move, s, share, c) \in Seq(BuyParts)
                        /\ Raised(move, s, share) \in Nat
                        /\ WorthAll(BuysOf(move, s, share, c)) <= Raised(move, s, share)
  BY <1>3, <1>8, BuysTyped, BuysWorth
<1>10. /\ after \in [1..n -> Seq(BuyParts)] /\ after \in [1..n -> Seq(Parts)]
       /\ spent \in [1..n -> Nat]
       /\ \A i \in 1..n : WorthAll(after[i]) <= spent[i]
  <2>1. \A s \in Stocks : BuysOf(move, s, share, c) \in Seq(Parts)
    BY <1>4, <1>9
  <2> HIDE DEF n
  <2> QED BY <1>2, <1>9, <2>1
<1>11. \A i \in 1..n : spent[i] = (wants[i] * share[1]) \div share[2]
  <2>1. 0 * share[1] = 0 /\ 0 \div share[2] = 0
    BY <1>8
  <2> QED BY <1>6, <2>1 DEF Raised
<1> HIDE DEF after, spent, n
<1>12. buys \in Seq(BuyParts) /\ buys \in Seq(Parts)
  <2>1. buys \in Seq(BuyParts)
    BY <1>2, <1>10, FlattenTyped
  <2> HIDE DEF buys
  <2> QED BY <1>4, <2>1
<1>13. WorthAll(buys) <= Total(spent)
  BY <1>2, <1>10, WorthFlatten
<1> HIDE DEF buys
<1>14. \/ Total(spent) = 0
       \/ /\ c.floor \in Nat /\ c.floor # Null
          /\ Total(spent) <= CashHeld + WorthAll(sells) - c.floor
  <2>1. share = Fund(CashHeld, WorthAll(sells), Total(wants), c)
    BY <1>7 DEF share
  <2>2. /\ n \in Nat /\ wants \in [1..n -> Nat] /\ spent \in [1..n -> Nat]
        /\ CashHeld \in Int /\ WorthAll(sells) \in Int
    BY <1>2, <1>6, <1>7, <1>10
  <2> QED BY <1>11, <2>1, <2>2, Funded, Zenon
<1>15. WorthAll(buys) \in Nat /\ WorthAll(buys) # 0
  <2>1. WorthAll(buys) \in Nat
    BY <1>12, WorthsTyped DEF WorthAll
  <2> DEFINE orders == sells \o buys
  <2>2. PICK i \in DOMAIN orders : orders[i].side = "buy" /\ orders[i].sell # 0
    BY <1>1, <1>3 DEF Side, NoUnits
  <2>3. \E k \in DOMAIN buys : orders[i] = buys[k] /\ buys[k] \in BuyParts
    <3>1. i \in 1..Len(sells) => orders[i] = sells[i] /\ sells[i] \in SellParts
      BY <1>5, <1>12
    <3>2. i \notin 1..Len(sells) =>
            i - Len(sells) \in DOMAIN buys /\ orders[i] = buys[i - Len(sells)]
            /\ buys[i - Len(sells)] \in BuyParts
      BY <1>5, <1>12
    <3> HIDE DEF orders
    <3> QED BY <2>2, <3>1, <3>2 DEF SellParts
  <2>4. PICK k \in DOMAIN buys : orders[i] = buys[k] /\ buys[k] \in BuyParts
    BY <2>3
  <2> HIDE DEF orders
  <2>5. Worth(buys[k]) = buys[k].sell * CashMark /\ buys[k].sell \in Nat \ {0}
    BY <2>2, <2>4 DEF Worth, BuyParts
  <2>6. \A a, b \in Nat \ {0} : a * b \in Nat \ {0}
    OBVIOUS
  <2>7. Worth(buys[k]) \in Nat \ {0}
    BY <2>5, <2>6, MarksTyped
  <2>8. Worth(buys[k]) <= WorthAll(buys)
    BY <1>12, WorthOfOne DEF WorthAll
  <2> QED BY <2>1, <2>7, <2>8
<1>16. Total(spent) \in Nat
  <2>1. spent \in Seq(Nat)
    BY <1>2, <1>10
  <2> QED BY <2>1, TotalType
<1>17. c.floor # Null /\ c.floor \in Nat
       /\ CashHeld + WorthAll(sells) - WorthAll(buys) >= c.floor
  BY <1>7, <1>13, <1>14, <1>15, <1>16
<1>18. CashAfter(CashHeld, sells \o buys, DOMAIN (sells \o buys)) =
         CashHeld + WorthAll(sells) - WorthAll(buys)
  BY <1>5, <1>7, <1>12, CashAfterAll
<1> QED BY <1>1, <1>17, <1>18 DEF CashFloor

LEMMA PlanInit == Init => PlanKeepsFloor
<1> SUFFICES ASSUME Init PROVE PlanKeepsFloor
  OBVIOUS
<1>1. plan.orders = << >>
  BY DEF Init, Written
<1> QED BY <1>1 DEF PlanKeepsFloor, Buys, Side

(* Only sizing writes a plan and what it was sized by; a book with no worth *)
(* leaves the plan empty.                                                   *)
LEMMA PlanStep ==
  RebalanceInv /\ PlanKeepsFloor /\ [Next]_vars => PlanKeepsFloor'
<1> SUFFICES ASSUME RebalanceInv, PlanKeepsFloor, [Next]_vars PROVE PlanKeepsFloor'
  OBVIOUS
<1>a. TypeOK /\ Types2 /\ RowsInv
  BY DEF RebalanceInv
<1>1. CASE UNCHANGED plan /\ record'.config = record.config
  BY <1>1 DEF PlanKeepsFloor, Buys, Indices, CashAfter, WorthOf, Worth, Side
<1>2. CASE Unvalued
  <2>1. plan.orders = << >> /\ plan' = plan
    BY <1>a, <1>2 DEF RowsInv, Unvalued
  <2> QED BY <2>1 DEF PlanKeepsFloor, Buys, Side
<1>3. CASE Size
  <2> DEFINE orders == Sized(Moving, disk)
  <2>1. CanSize(Moving, disk) /\ record' = Prepared
    BY <1>3 DEF Size
  <2>2. PICK quotes \in Judged(orders) : plan' = Written(orders, quotes)
    BY <1>3 DEF Size
  <2>3. /\ world \in Worlds /\ disk \in {world.config} \cup world.edits
        /\ cash \in Nat /\ hold \in [Stocks -> Nat]
    BY <1>a DEF TypeOK, Types2
  <2>4. Config(disk) /\ Moving \in [Stocks -> Int]
    BY <2>3, MovingTyped
  <2>5. Side(orders, "buy") # {} =>
          CashFloor(CashAfter(CashHeld, orders, DOMAIN orders), disk)
    <3> DEFINE m == Moving
    <3> HIDE DEF m
    <3>1. Side(Sized(m, disk), "buy") # {} =>
            CashFloor(CashAfter(CashHeld, Sized(m, disk), DOMAIN Sized(m, disk)), disk)
      <4>1. m \in [Stocks -> Int] /\ CanSize(m, disk)
        BY <2>1, <2>4 DEF m
      <4> QED BY <2>3, <2>4, <4>1, SizedKeepsFloor
    <3> QED BY <3>1 DEF m
  <2> HIDE DEF orders
  <2>6. plan'.orders = orders /\ plan'.cash = CashHeld
    BY <2>2 DEF Written
  <2>7. record'.config = disk
    BY <1>a, <2>1, PreparedIs
  <2> QED BY <2>5, <2>6, <2>7
          DEF PlanKeepsFloor, Buys, Indices, CashAfter, WorthOf, Worth, Side, CashFloor
<1>4. CASE Vote
  <2>1. UNCHANGED plan /\ record'.config = record.config
    BY <1>a, <1>4, VoteIs
  <2> QED BY <1>1, <2>1
<1>5. CASE ~ (Unvalued \/ Size \/ Vote)
  <2>1. UNCHANGED <<plan, record>>
    BY <1>5 DEF Next, Ready, Edit, SizeRaises, List, ListRefused, ListDies, Start, Take,
                Treasurer, Refuse, Submit, FillOnPaper, FillRefused, TreasurerEnds,
                TreasurerDies, Keep, KeepDies, Startup, vars
  <2> QED BY <1>1, <2>1
<1> QED BY <1>2, <1>3, <1>4, <1>5

-------------------------------------------------------------------------------
(* Why an order is sent *)

(* What the risk seat's reply says of an order, when it approves it.        *)
ConsentedBy(reply, orders, i) ==
  LET text  == reply.text
      heads == {k \in DOMAIN text : text[k].kind = "risk"}
      on    == {k \in DOMAIN text :
                  text[k].kind = "order" /\ text[k].index = i}
      whole == {k \in DOMAIN text : text[k].kind = "overall"}
  IN  /\ reply.status = "replied"
      /\ heads # {} => text[Min(heads)].plan = "this"
      /\ on # {} /\ \A k \in on :
            /\ text[k].vote = "approve"
            /\ text[k].symbol \in {Null, orders[i].stock}
      /\ whole # {} => text[Min(whole)].vote = "approve"

(* A set of one member is what CHOOSE gives of it.                          *)
LEMMA OnlyOne ==
  ASSUME NEW S, IsFiniteSet(S), Cardinality(S) = 1
  PROVE  S # {} /\ \A x \in S : x = CHOOSE v \in S : TRUE
<1>1. PICK x : S = {x}
  BY FS_Singleton
<1> QED BY <1>1

LEMMA LinesNumbered ==
  ASSUME NEW text, Votes(text), NEW kind
  PROVE  LinesOf(text, kind) \in SUBSET Nat
  BY DEF Votes, LinesOf

LEMMA VotesFinite ==
  ASSUME NEW text, Votes(text), NEW i
  PROVE  IsFiniteSet({text[k].vote : k \in On(text, i)})
<1> DEFINE S == On(text, i)
           T == {text[k].vote : k \in S}
           f == [k \in S |-> text[k].vote]
<1>1. S \in SUBSET (1..Len(text)) /\ Len(text) \in Nat
  BY DEF On, LinesOf, Votes
<1> HIDE DEF S
<1>2. IsFiniteSet(S)
  <2>1. IsFiniteSet(1..Len(text))
    BY <1>1, FS_Interval
  <2> QED BY <1>1, <2>1, FS_Subset
<1>3. f \in Surjection(S, T)
  <2>1. f \in [S -> T] /\ \A t \in T : \E k \in S : f[k] = t
    OBVIOUS
  <2> HIDE DEF f, T
  <2> QED BY <2>1 DEF Surjection
<1> HIDE DEF f, T
<1>4. IsFiniteSet(T)
  BY <1>2, <1>3, FS_Surjection
<1> QED BY <1>4 DEF S, T

(* An approval is the reply's consent, however its lines are ordered.       *)
LEMMA ApprovalConsents ==
  ASSUME NEW reply, Votes(reply.text), NEW orders, NEW i,
         Approves(reply, orders, i)
  PROVE  ConsentedBy(reply, orders, i)
<1> DEFINE text  == reply.text
           heads == LinesOf(text, "risk")
           on    == On(text, i)
           whole == LinesOf(text, "overall")
           votes == {text[k].vote : k \in on}
<1> HIDE DEF Min
<1>1. /\ reply.status = "replied" /\ Readable(text, orders)
      /\ VoteOn(text, orders, i) = "approve" /\ Overall(text) # "veto"
  BY DEF Approves
<1>2. heads # {} => text[Min(heads)].plan = "this"
  <2>1. heads \in SUBSET Nat
    BY LinesNumbered
  <2>2. heads # {} => Min(heads) \in heads
    <3> HIDE DEF heads
    <3> QED BY <2>1, MinIn
  <2> QED BY <1>1, <2>2 DEF Readable
<1>3. whole # {} => text[Min(whole)].vote = "approve"
  <2>1. whole \in SUBSET Nat
    BY LinesNumbered
  <2>2. whole # {} => Min(whole) \in whole
    <3> HIDE DEF whole
    <3> QED BY <2>1, MinIn
  <2>3. \A k \in whole : text[k].vote \in {"approve", "veto"}
    BY DEF Votes
  <2>4. whole # {} => Overall(text) = text[Min(whole)].vote
    BY DEF Overall
  <2> HIDE DEF whole, text
  <2> QED BY <1>1, <2>2, <2>3, <2>4
<1>4. /\ Named(text, orders, i) = on /\ Cardinality(votes) = 1
      /\ (CHOOSE v \in votes : TRUE) = "approve"
  BY <1>1 DEF VoteOn
<1>5. IsFiniteSet(votes)
  BY VotesFinite
<1>6. votes # {} /\ \A v \in votes : v = "approve"
  <2> HIDE DEF votes
  <2> QED BY <1>4, <1>5, OnlyOne
<1>7. on # {} /\ \A k \in on :
         text[k].vote = "approve" /\ text[k].symbol \in {Null, orders[i].stock}
  BY <1>4, <1>6 DEF Named
<1>8. /\ heads = {k \in DOMAIN text : text[k].kind = "risk"}
      /\ on = {k \in DOMAIN text : text[k].kind = "order" /\ text[k].index = i}
      /\ whole = {k \in DOMAIN text : text[k].kind = "overall"}
  BY DEF LinesOf, On
<1> HIDE DEF heads, on, whole, votes
<1> QED BY <1>1, <1>2, <1>3, <1>7, <1>8 DEF ConsentedBy

(* What the decision may be answered with is read as lines, in order.       *)
LEMMA AskedVotes ==
  ASSUME TypeOK, Types2, NEW reply \in Asked, reply.status = "replied"
  PROVE  Votes(reply.text)
<1>1. CASE reply \in world.replies
  BY <1>1, WorldsAssumption DEF Types2
<1>2. CASE reply \notin world.replies
  <2>1. reply # NoReply
    BY DEF NoReply
  <2>2. PICK yes \in SUBSET Indices :
          reply = Replied([j \in Indices |->
                    [kind |-> "order", index |-> j, symbol |-> Null,
                     vote |-> IF j \in yes THEN "approve" ELSE "veto"]])
    BY <1>2, <2>1 DEF Asked
  <2> DEFINE text == [j \in Indices |->
                        [kind |-> "order", index |-> j, symbol |-> Null,
                         vote |-> IF j \in yes THEN "approve" ELSE "veto"]]
  <2>3. reply.text = text
    BY <2>2 DEF Replied
  <2>4. DOMAIN text = 1..Len(text) /\ Len(text) \in Nat
    BY OrdersTyped
  <2>5. \A k \in DOMAIN text : text[k].kind = "order"
    OBVIOUS
  <2> HIDE DEF text
  <2>6. LinesOf(text, "overall") = {}
    BY <2>5 DEF LinesOf
  <2>7. Votes(text)
    BY <2>4, <2>6 DEF Votes
  <2> QED BY <2>3, <2>7
<1> QED BY <1>1, <1>2

(* An order of a plan trades its stock the way its move went.               *)
MovedTo(move, o) ==
  \/ o.side = "sell" /\ move[o.stock] < 0
  \/ o.side = "buy" /\ move[o.stock] > 0

LEMMA SellsMove ==
  ASSUME hold \in [Stocks -> Nat], NEW move \in [Stocks -> Int], NEW s \in Stocks,
         NEW c, Config(c), ~ NoLimit(move, c)
  PROVE  SellsOf(move, s, c) \in Seq({o \in SellParts : MovedTo(move, o)})
<1> DEFINE list == SellsOf(move, s, c)
           sold  == IF move[s] < 0 THEN Sold(s, -move[s]) ELSE 0
           parts == IF sold = 0 THEN << >> ELSE Even(sold, Split(sold * Mark[s], c))
<1>1. list = [k \in DOMAIN parts |-> Order("sell", s, parts[k])]
  BY DEF SellsOf
<1>2. list \in Seq(SellParts)
  BY SellsTyped
<1>3. CASE move[s] < 0
  <2> HIDE DEF parts
  <2>1. \A k \in DOMAIN list : list[k].stock = s /\ list[k].side = "sell"
    BY <1>1 DEF Order
  <2> HIDE DEF list
  <2>2. \A k \in DOMAIN list : list[k] \in {o \in SellParts : MovedTo(move, o)}
    BY <1>2, <1>3, <2>1 DEF MovedTo
  <2>3. list = [k \in DOMAIN list |-> list[k]] /\ DOMAIN list = 1..Len(list) /\ Len(list) \in Nat
    BY <1>2
  <2>4. list \in Seq({o \in SellParts : MovedTo(move, o)})
    BY <2>2, <2>3
  <2> QED BY <2>4 DEF list
<1>4. CASE ~ (move[s] < 0)
  <2>1. parts = << >>
    BY <1>4
  <2> HIDE DEF parts
  <2>2. list = << >>
    BY <1>1, <2>1
  <2> QED BY <2>2
<1> QED BY <1>3, <1>4

LEMMA BuysMove ==
  ASSUME NEW move \in [Stocks -> Int], NEW s \in Stocks, NEW share,
         share[1] \in Nat, share[2] \in Nat \ {0},
         NEW c, Config(c), c.floor = Null => share[1] = 0, ~ NoLimit(move, c)
  PROVE  BuysOf(move, s, share, c) \in Seq({o \in BuyParts : MovedTo(move, o)})
<1> DEFINE list == BuysOf(move, s, share, c)
           usd   == IF move[s] > 0 THEN (move[s] * share[1]) \div share[2] ELSE 0
           parts == IF usd = 0 THEN << >> ELSE Even(usd, Split(usd, c))
<1>1. list = [k \in DOMAIN parts |-> Order("buy", s, Units(parts[k], CashMark))]
  BY DEF BuysOf
<1>2. list \in Seq(BuyParts)
  BY BuysTyped
<1>3. CASE move[s] > 0
  <2> HIDE DEF parts
  <2>1. \A k \in DOMAIN list : list[k].stock = s /\ list[k].side = "buy"
    BY <1>1 DEF Order
  <2> HIDE DEF list
  <2>2. \A k \in DOMAIN list : list[k] \in {o \in BuyParts : MovedTo(move, o)}
    BY <1>2, <1>3, <2>1 DEF MovedTo
  <2>3. list = [k \in DOMAIN list |-> list[k]] /\ DOMAIN list = 1..Len(list) /\ Len(list) \in Nat
    BY <1>2
  <2>4. list \in Seq({o \in BuyParts : MovedTo(move, o)})
    BY <2>2, <2>3
  <2> QED BY <2>4 DEF list
<1>4. CASE ~ (move[s] > 0)
  <2>1. parts = << >>
    BY <1>4
  <2> HIDE DEF parts
  <2>2. list = << >>
    BY <1>1, <2>1
  <2> QED BY <2>2
<1> QED BY <1>3, <1>4

LEMMA SizedMoves ==
  ASSUME hold \in [Stocks -> Nat], cash \in Nat, NEW move \in [Stocks -> Int],
         NEW c, Config(c), CanSize(move, c)
  PROVE  \A i \in DOMAIN Sized(move, c) : MovedTo(move, Sized(move, c)[i])
<1> DEFINE lists == [s \in Stocks |-> SellsOf(move, s, c)]
           sells == FlattenSeq(lists)
           wants == [s \in Stocks |-> Max({0, move[s]})]
           share == Fund(CashHeld, WorthOf(sells, DOMAIN sells), Total(wants), c)
           after == [s \in Stocks |-> BuysOf(move, s, share, c)]
           buys  == FlattenSeq(after)
           S == {o \in SellParts : MovedTo(move, o)}
           B == {o \in BuyParts : MovedTo(move, o)}
<1>1. Sized(move, c) = sells \o buys
  BY DEF Sized
<1>2. Stocks = 1..Len(Mark) /\ Len(Mark) \in Nat
  BY MarksTyped
<1>3. ~ NoLimit(move, c)
  BY DEF CanSize
<1>4. sells \in Seq(S)
  <2>1. lists \in [1..Len(Mark) -> Seq(S)]
    BY <1>2, <1>3, SellsMove
  <2> HIDE DEF lists, S
  <2> QED BY <1>2, <2>1, FlattenTyped
<1>5. sells \in Seq(Parts)
  <2>1. S \subseteq Parts
    BY DEF SellParts, Parts
  <2> HIDE DEF sells, S
  <2> QED BY <1>4, <2>1
<1>6. share[1] \in Nat /\ share[2] \in Nat \ {0} /\ (c.floor = Null => share[1] = 0)
  <2>1. WorthOf(sells, DOMAIN sells) \in Int
    <3> HIDE DEF sells
    <3> QED BY <1>5, WorthsTyped
  <2>2. Total(wants) \in Int
    <3>1. \A s \in Stocks : Max({0, move[s]}) \in Int
      <4> HIDE DEF Max
      <4> QED BY MaxOfTwo
    <3>2. wants \in Seq(Int)
      BY <1>2, <3>1
    <3> HIDE DEF wants
    <3> QED BY <3>2, TotalType
  <2>3. CashHeld \in Int
    BY MarksTyped, TimesNat DEF CashHeld
  <2> HIDE DEF sells, wants
  <2> QED BY <2>1, <2>2, <2>3, FundTyped
<1>7. buys \in Seq(B)
  <2> HIDE DEF share
  <2>1. after \in [1..Len(Mark) -> Seq(B)]
    BY <1>2, <1>3, <1>6, BuysMove
  <2> HIDE DEF after, B
  <2> QED BY <1>2, <2>1, FlattenTyped
<1>8. (\A o \in S : MovedTo(move, o)) /\ (\A o \in B : MovedTo(move, o))
  OBVIOUS
<1> HIDE DEF sells, buys, S, B
<1> DEFINE orders == sells \o buys
<1>9. /\ Len(sells) \in Nat /\ Len(buys) \in Nat
      /\ DOMAIN orders = 1..(Len(sells) + Len(buys))
      /\ \A i \in 1..Len(sells) : orders[i] = sells[i] /\ sells[i] \in S
      /\ \A i \in DOMAIN orders : i > Len(sells) =>
            /\ orders[i] = buys[i - Len(sells)] /\ i - Len(sells) \in 1..Len(buys)
            /\ buys[i - Len(sells)] \in B
  BY <1>4, <1>7
<1>10. \A i \in DOMAIN orders : MovedTo(move, orders[i])
  <2> HIDE DEF orders
  <2> QED BY <1>8, <1>9
<1> QED BY <1>1, <1>10

(* A position moves the way the reports direct it.                          *)
LEMMA StepNat ==
  ASSUME NEW reports, Reported(reports), NEW s, NEW nav \in Nat, NEW c,
         c.weight \in Nat, Directed(reports, s) # 0
  PROVE  Step(reports, s, nav, c) \in Nat
<1> DEFINE d == Directed(reports, s)
           seats == Cardinality(Calling(reports, "direction", s))
           a == Max({d, -d})
           b == 4 - Caution(reports, s)
<1>1. d \in Int /\ seats \in Nat \ {0}
  BY DirectedTyped
<1>2. a \in Nat
  <2> HIDE DEF d, Max
  <2>1. -d \in Int /\ (d <= -d => -d \in Nat) /\ (~ (d <= -d) => d \in Nat)
    BY <1>1
  <2> QED BY <1>1, <2>1, MaxOfTwo
<1>3. b \in Nat
  BY CautionTyped
<1>4. Step(reports, s, nav, c) = (a * b * c.weight * nav) \div (1600 * seats)
  BY DEF Step
<1> HIDE DEF a, b, d, seats
<1>5. a * b * c.weight * nav \in Nat
  <2>1. a * b \in Nat
    BY <1>2, <1>3, TimesNat
  <2>2. a * b * c.weight \in Nat
    BY <2>1, TimesNat
  <2> QED BY <2>2, TimesNat
<1>6. 1600 * seats \in Nat \ {0}
  BY <1>1
<1> QED BY <1>4, <1>5, <1>6, DivNat

LEMMA TargetDirected ==
  ASSUME NEW reports, Reported(reports), NEW s, NEW values, values[s] \in Nat,
         NEW nav \in Nat, NEW c, c.weight \in Nat
  PROVE  /\ Target(reports, s, values, nav, c) > 0 => Directed(reports, s) > 0
         /\ Target(reports, s, values, nav, c) < 0 => Directed(reports, s) < 0
<1> DEFINE d == Directed(reports, s)
           step == Step(reports, s, nav, c)
           room == (c.weight * nav) \div 100 - values[s]
<1>1. d \in Int
  BY DirectedTyped
<1>2. d # 0 => step \in Nat
  BY StepNat
<1>3. room \in Int
  <2>1. c.weight * nav \in Nat
    BY TimesNat
  <2>2. (c.weight * nav) \div 100 \in Int
    BY <2>1, DivNat
  <2> QED BY <2>2, IntOps
<1> HIDE DEF Max, Min
<1>4. RaiseBy(values[s], step, nav, c) = Min({step, Max({0, room})})
  BY DEF RaiseBy
<1>5. CutBy(values[s], step) = Min({values[s], step})
  <2>1. {step, values[s]} = {values[s], step}
    OBVIOUS
  <2> HIDE DEF step
  <2> QED BY DEF CutBy
<1>6. Target(reports, s, values, nav, c) =
        IF d = 0 THEN 0
        ELSE IF d > 0 THEN RaiseBy(values[s], step, nav, c)
             ELSE -CutBy(values[s], step)
  BY DEF Target
<1> HIDE DEF step, room
<1>7. Max({0, room}) \in Nat
  BY <1>3, MaxOfTwo
<1>8. d # 0 => RaiseBy(values[s], step, nav, c) \in Nat
  <2>1. \A x, y \in Nat : Min({x, y}) \in Nat
    BY MinOfTwo
  <2> QED BY <1>2, <1>4, <1>7, <2>1
<1>9. d # 0 => CutBy(values[s], step) \in Nat
  <2>1. \A x, y \in Nat : Min({x, y}) \in Nat
    BY MinOfTwo
  <2> QED BY <1>2, <1>5, <2>1
<1> DEFINE t == Target(reports, s, values, nav, c)
           up == RaiseBy(values[s], step, nav, c)
           down == CutBy(values[s], step)
<1>10. /\ t = IF d = 0 THEN 0 ELSE IF d > 0 THEN up ELSE -down
       /\ (d # 0 => up \in Nat /\ down \in Nat)
  BY <1>6, <1>8, <1>9
<1> HIDE DEF d, t, up, down
<1>11. (t > 0 => d > 0) /\ (t < 0 => d < 0)
  BY <1>1, <1>10
<1> QED BY <1>11 DEF d, t

(* Some report leans the way their sum does.                                *)
Leans(word, reports, s) ==
  \E r \in Calling(reports, "direction", s) : Contribution(r, s).word = word

LEMMA LeaningWord ==
  ASSUME NEW reports, Reported(reports), NEW s,
         NEW r \in Calling(reports, "direction", s)
  PROVE  /\ Leaning(r, s) \in Int
         /\ Leaning(r, s) > 0 => Contribution(r, s).word = "buy"
         /\ Leaning(r, s) < 0 => Contribution(r, s).word = "sell"
<1> DEFINE w == Contribution(r, s).word
           n == Contribution(r, s).quarters
<1>1. w \in {"buy", "hold", "sell"} /\ n \in {1, 2, 3}
  BY CallingTyped DEF Vocabulary
<1>2. Leaning(r, s) = Direction[w] * n
  BY DEF Leaning
<1> HIDE DEF w, n
<1>3. Direction["buy"] = 1 /\ Direction["hold"] = 0 /\ Direction["sell"] = -1
  BY DEF Direction
<1>4. CASE w = "buy"
  <2>1. Leaning(r, s) = n
    BY <1>1, <1>2, <1>3, <1>4
  <2> QED BY <1>1, <1>4, <2>1 DEF w
<1>5. CASE w = "hold"
  <2>1. Leaning(r, s) = 0
    BY <1>1, <1>2, <1>3, <1>5
  <2> QED BY <2>1
<1>6. CASE w = "sell"
  <2>1. Leaning(r, s) = -n
    BY <1>1, <1>2, <1>3, <1>6
  <2> QED BY <1>1, <1>6, <2>1 DEF w
<1> QED BY <1>1, <1>4, <1>5, <1>6

LEMMA DirectedLeans ==
  ASSUME NEW reports, Reported(reports), NEW s
  PROVE  /\ Directed(reports, s) > 0 => Leans("buy", reports, s)
         /\ Directed(reports, s) < 0 => Leans("sell", reports, s)
<1> DEFINE S == Calling(reports, "direction", s)
           q == SetToSeq(S)
           n == Cardinality(S)
           leanings == [k \in DOMAIN q |-> Leaning(q[k], s)]
           none == [k \in 1..n |-> 0]
<1>1. n \in Nat /\ q \in [1..n -> S]
  <2>1. IsFiniteSet(S)
    BY CallingTyped
  <2> HIDE DEF S
  <2> QED BY <2>1, SeqOfSet
<1>2. Directed(reports, s) = Total(leanings)
  BY DEF Directed
<1>3. \A r \in S : /\ Leaning(r, s) \in Int
                   /\ Leaning(r, s) > 0 => Contribution(r, s).word = "buy"
                   /\ Leaning(r, s) < 0 => Contribution(r, s).word = "sell"
  BY LeaningWord
<1> HIDE DEF S, q, n
<1>4. /\ leanings \in Seq(Int) /\ leanings \in [1..n -> Int]
      /\ \A k \in 1..n : leanings[k] = Leaning(q[k], s) /\ q[k] \in S
  BY <1>1, <1>3
<1>5. /\ none \in Seq(Int) /\ none \in [1..n -> Int] /\ Len(none) = n
      /\ \A k \in 1..n : none[k] = 0
  BY <1>1
<1> HIDE DEF leanings, none
<1>6. Total(none) = 0
  BY <1>5, TotalZero
<1>7. \A k \in 1..n : leanings[k] \in Int
  BY <1>4
<1>8. (\A k \in 1..n : ~ (leanings[k] > 0)) => Total(leanings) <= 0
  <2>1. SUFFICES ASSUME \A k \in 1..n : ~ (leanings[k] > 0)
                 PROVE  Total(leanings) <= 0
    OBVIOUS
  <2>2. \A k \in 1..n : leanings[k] <= none[k]
    BY <1>5, <1>7, <2>1
  <2>3. Total(leanings) <= Total(none)
    BY <1>1, <1>4, <1>5, <2>2, TotalGrows
  <2> QED BY <1>6, <2>3
<1>9. (\A k \in 1..n : ~ (leanings[k] < 0)) => Total(leanings) >= 0
  <2>1. SUFFICES ASSUME \A k \in 1..n : ~ (leanings[k] < 0)
                 PROVE  Total(leanings) >= 0
    OBVIOUS
  <2>2. \A k \in 1..n : none[k] <= leanings[k]
    BY <1>5, <1>7, <2>1
  <2>3. Total(none) <= Total(leanings)
    BY <1>1, <1>4, <1>5, <2>2, TotalGrows
  <2>4. Total(leanings) \in Int
    BY <1>4, TotalType
  <2> QED BY <1>6, <2>3, <2>4
<1>10. Total(leanings) \in Int
  BY <1>4, TotalType
<1>11. ASSUME Total(leanings) > 0 PROVE Leans("buy", reports, s)
  <2>1. PICK k \in 1..n : leanings[k] > 0
    BY <1>8, <1>10, <1>11
  <2>2. q[k] \in S /\ Contribution(q[k], s).word = "buy"
    BY <1>3, <1>4, <2>1
  <2> QED BY <2>2 DEF Leans, S
<1>12. ASSUME Total(leanings) < 0 PROVE Leans("sell", reports, s)
  <2>1. PICK k \in 1..n : leanings[k] < 0
    BY <1>9, <1>10, <1>12
  <2>2. q[k] \in S /\ Contribution(q[k], s).word = "sell"
    BY <1>3, <1>4, <2>1
  <2> QED BY <2>2 DEF Leans, S
<1> QED BY <1>2, <1>11, <1>12

(* A citation that names a field names it in full, when it holds no number. *)
Names(value, path, snap) ==
  \E s \in DOMAIN snap.fields : \E p \in DOMAIN snap.fields[s] :
     value = snap.fields[s][p] /\ (snap.fields[s][p] = Null => p = path)

LEMMA CitedIs ==
  ASSUME NEW cite, NEW scope, NEW snap, Cited(cite, scope, snap) # NoField
  PROVE  Names(Cited(cite, scope, snap).value, cite.path, snap)
<1> DEFINE s == IF cite.stock = Null THEN scope ELSE cite.stock
           fields == IF s \in DOMAIN snap.fields THEN snap.fields[s] ELSE << >>
           ends == {p \in DOMAIN fields : /\ IsSuffix(cite.path, p)
                                          /\ p[1] # "timeline"
                                          /\ fields[p] # Null}
           cited == Cited(cite, scope, snap)
<1>1. \/ cite.path \in DOMAIN fields /\ cited = FieldAt(fields, cite.path)
      \/ Cardinality(ends) = 1 /\ cited = FieldAt(fields, CHOOSE p \in ends : TRUE)
  BY DEF Cited
<1>2. \A p \in ends : p \in DOMAIN fields /\ fields[p] # Null
  OBVIOUS
<1>3. fields = << >> => DOMAIN fields = {}
  OBVIOUS
<1>4. s \in DOMAIN snap.fields => fields = snap.fields[s]
  OBVIOUS
<1>5. s \notin DOMAIN snap.fields => fields = << >>
  OBVIOUS
<1> HIDE DEF cited, ends, fields, s
<1>6. PICK p \in DOMAIN fields :
        cited = FieldAt(fields, p) /\ (fields[p] = Null => p = cite.path)
  <2>1. CASE cite.path \in DOMAIN fields /\ cited = FieldAt(fields, cite.path)
    BY <2>1
  <2>2. CASE Cardinality(ends) = 1 /\ cited = FieldAt(fields, CHOOSE p \in ends : TRUE)
    <3>1. ends # {}
      BY <2>2, FS_EmptySet
    <3>2. (CHOOSE p \in ends : TRUE) \in ends
      BY <3>1
    <3> QED BY <1>2, <2>2, <3>2
  <2> QED BY <1>1, <2>1, <2>2
<1>7. s \in DOMAIN snap.fields /\ fields = snap.fields[s]
  BY <1>3, <1>4, <1>5, <1>6
<1>8. cited.value = fields[p]
  BY <1>6 DEF FieldAt
<1> QED BY <1>6, <1>7, <1>8 DEF cited, Names

(* The numbers a snapshot's fields hold.                                    *)
NumbersOf(snap) ==
  (UNION {{snap.fields[s][p] : p \in DOMAIN snap.fields[s]} :
             s \in DOMAIN snap.fields}) \ {Null}

LEMMA NumberedIs ==
  ASSUME NEW x, NEW stock, NEW snap, NEW k \in DOMAIN x.cites,
         Resolved(x, stock, snap)[k].found
  PROVE  \/ Resolved(x, stock, snap)[k].value \in NumbersOf(snap)
         \/ /\ Resolved(x, stock, snap)[k].value = Null
            /\ \E s \in DOMAIN snap.fields :
                  /\ x.cites[k].path \in DOMAIN snap.fields[s]
                  /\ snap.fields[s][x.cites[k].path] = Null
<1> DEFINE y == Cited(x.cites[k], stock, snap)
<1>1. Resolved(x, stock, snap)[k] = y
  BY DEF Resolved
<1> HIDE DEF y
<1>2. y # NoField
  <2>1. NoField.found = FALSE
    BY DEF NoField
  <2> QED BY <1>1, <2>1
<1>3. \E s \in DOMAIN snap.fields : \E p \in DOMAIN snap.fields[s] :
        /\ y.value = snap.fields[s][p]
        /\ snap.fields[s][p] = Null => p = x.cites[k].path
  <2>1. Cited(x.cites[k], stock, snap) # NoField
    BY <1>2 DEF y
  <2>2. Names(y.value, x.cites[k].path, snap)
    BY <2>1, CitedIs DEF y
  <2> QED BY <2>2 DEF Names
<1>4. y.value # Null => y.value \in NumbersOf(snap)
  BY <1>3 DEF NumbersOf
<1> QED BY <1>1, <1>3, <1>4

(* A figure the contract lets stand is a field, or comes of two of them.    *)
LEMMA FigureShown ==
  ASSUME NEW x, NEW stock, NEW snap, FigureHolds(x, stock, snap),
         ~ Vague(x, snap.fields), NEW claim \in x.claims, claim.value # Null
  PROVE  ~ Fabricated(claim, snap.fields)
<1> DEFINE at == Resolved(x, stock, snap)
           all == NumbersOf(snap)
<1>1. SUFFICES ASSUME claim.kind = "plain", claim.value \notin all,
                      \A a, b \in all : ~ Derived(claim.value, a, b)
               PROVE  FALSE
  BY DEF Fabricated, NumbersOf
<1>2. DOMAIN at = DOMAIN x.cites
  BY DEF Resolved
<1>3. \A k \in Numbers(at) : at[k].value \in all
  <2>1. SUFFICES ASSUME NEW k \in Numbers(at) PROVE at[k].value \in all
    OBVIOUS
  <2>2. k \in DOMAIN at /\ at[k].found /\ at[k].value # Null
    BY DEF Numbers
  <2>3. k \in DOMAIN x.cites
    BY <1>2, <2>2
  <2> QED BY <2>2, <2>3, NumberedIs
<1>4. ~ Given(claim, at)
  BY <1>1, <1>3 DEF Given
<1>5. ~ Computed(claim, at)
  BY <1>1, <1>3 DEF Computed
<1>6. ~ Shows(claim, About(x, stock, snap), snap)
  <2>1. About(x, stock, snap) \subseteq DOMAIN snap.fields
    BY DEF About
  <2> QED BY <1>1, <2>1 DEF Shows, NumbersOf
<1>7. claim.kind # "bps"
  BY <1>1
<1>8. Numbers(at) = {} /\ ~ (DOMAIN at = {} \/ \E k \in DOMAIN at : ~ at[k].found)
  <2> HIDE DEF at
  <2>1. \/ Numbers(at) = {} /\ ~ (DOMAIN at = {} \/ \E k \in DOMAIN at : ~ at[k].found)
        \/ \A y \in x.claims :
              \/ y.kind = "bps"
              \/ Given(y, at) \/ Computed(y, at) \/ Shows(y, About(x, stock, snap), snap)
    BY DEF FigureHolds, at
  <2> QED BY <1>4, <1>5, <1>6, <1>7, <2>1
<1>9. PICK k \in DOMAIN at : at[k].found /\ at[k].value = Null
  BY <1>8 DEF Numbers
<1>10. k \in DOMAIN x.cites
  BY <1>2, <1>9
<1>11. Null \notin all
  BY DEF NumbersOf
<1>12. PICK s \in DOMAIN snap.fields :
         /\ x.cites[k].path \in DOMAIN snap.fields[s]
         /\ snap.fields[s][x.cites[k].path] = Null
  <2> HIDE DEF all
  <2> QED BY <1>9, <1>10, <1>11, NumberedIs DEF all
<1>13. Vague(x, snap.fields)
  BY <1>10, <1>12 DEF Vague
<1> QED BY <1>13

(* A report the decision accepts calls a stock and fabricates nothing.      *)
LEMMA LeansCalled ==
  ASSUME world \in Worlds, NEW o, NEW word, o.side = word,
         Leans(word, Accepted, o.stock)
  PROVE  Called(o)
<1>1. PICK r \in Calling(Accepted, "direction", o.stock) :
        Contribution(r, o.stock).word = word
  BY DEF Leans
<1> DEFINE c == CHOOSE y \in r.calls : y.stock = o.stock
<1>2. r \in Accepted /\ \E y \in r.calls : y.stock = o.stock
  BY DEF Calling
<1>3. c \in r.calls /\ c.stock = o.stock /\ c.word = word
  BY <1>1, <1>2 DEF Contribution
<1> HIDE DEF c
<1>4. PICK x \in Offered :
        /\ ReportHolds(x, world.snap)
        /\ r = [seat |-> x.seat, calls |-> Calls(x.report)]
  BY <1>2 DEF Accepted, Checked
<1>5. PICK k \in CallLines(x.report) : c = x.report.lines[k]
  BY <1>3, <1>4 DEF Calls
<1>6. /\ k \in DOMAIN x.report.lines /\ x.report.lines[k].kind = "call"
      /\ CallHolds(x.report.lines[k], x.seat, world.snap)
  BY <1>4, <1>5 DEF CallLines, IsLine, ReportHolds
<1>7. /\ x.report.lines[k].stock = o.stock /\ x.report.lines[k].word = o.side
      /\ x.report.lines[k].symbol = o.stock
  BY <1>3, <1>5, <1>6 DEF CallHolds
<1>8. x.report.header = [seat |-> x.seat, agent |-> x.agent, snapshot |-> world.snap.id]
  BY <1>4 DEF ReportHolds, HeaderHolds
<1>9. ASSUME NEW j \in FiguresUnderCalls(x.report),
             ~ Vague(x.report.lines[j], world.snap.fields),
             NEW claim \in x.report.lines[j].claims
      PROVE  ~ Fabricated(claim, world.snap.fields)
  <2>1. /\ j \in DOMAIN x.report.lines /\ IsLine(x.report, j, "figure")
        /\ CallOf(x.report, j) # 0
    BY DEF FiguresUnderCalls, IsLine
  <2> DEFINE stock == x.report.lines[CallOf(x.report, j)].stock
  <2>2. FigureHolds(x.report.lines[j], stock, world.snap)
    BY <1>4, <2>1 DEF ReportHolds
  <2> HIDE DEF stock
  <2>3. Figures(x.report)
    BY WorldsAssumption DEF Offered
  <2>4. claim.value # Null
    BY <2>1, <2>3 DEF Figures
  <2> QED BY <1>9, <2>2, <2>4, FigureShown
<1> QED BY <1>6, <1>7, <1>8, <1>9 DEF Called

(* Every order of a plan goes the way some accepted report leans.           *)
OrderLeans(o, reports) == Leans(o.side, reports, o.stock)

LEMMA PlanLeans ==
  ASSUME TypeOK, Types2, Valued, CanSize(Moving, disk)
  PROVE  \A i \in DOMAIN Sized(Moving, disk) : OrderLeans(Sized(Moving, disk)[i], Accepted)
<1>1. /\ world \in Worlds /\ disk \in {world.config} \cup world.edits
      /\ cash \in Nat /\ hold \in [Stocks -> Nat]
  BY DEF TypeOK, Types2
<1>2. Config(disk) /\ Moving \in [Stocks -> Int]
  BY <1>1, MovingTyped
<1>3. Reported(Accepted)
  <2>1. IsFiniteSet(world.offered)
    BY <1>1, WorldsAssumption
  <2>2. Offered \in SUBSET world.offered
    BY DEF Offered
  <2>3. IsFiniteSet(Offered)
    BY <2>1, <2>2, FS_Subset
  <2> QED BY <2>3, CheckedReported DEF Accepted
<1>4. BookNav \in Nat
  <2>1. BookNav \in Int /\ BookNav > 0
    BY <1>1, NavTyped DEF Valued
  <2> QED BY <2>1
<1>5. \A s \in Stocks : Values[s] \in Nat
  <2>1. \A s \in Stocks : hold[s] \in Nat /\ Mark[s] \in Nat
    BY <1>1, MarksTyped
  <2>2. \A s \in Stocks : hold[s] * Mark[s] \in Nat
    BY <2>1, TimesNat
  <2> QED BY <2>2 DEF Values
<1> DEFINE orders == Sized(Moving, disk)
<1>6. \A i \in DOMAIN orders : MovedTo(Moving, orders[i]) /\ orders[i].stock \in Stocks
  <2> DEFINE m == Moving
  <2>1. m \in [Stocks -> Int] /\ CanSize(m, disk)
    BY <1>2
  <2> HIDE DEF m
  <2>2. \A i \in DOMAIN Sized(m, disk) : MovedTo(m, Sized(m, disk)[i])
    BY <1>1, <1>2, <2>1, SizedMoves
  <2>3. Sized(m, disk) \in Seq(AnyOrder)
    BY <1>1, <1>2, <2>1, SizedTyped
  <2>4. \A i \in DOMAIN Sized(m, disk) : Sized(m, disk)[i] \in AnyOrder
    BY <2>3
  <2>5. \A i \in DOMAIN Sized(m, disk) : Sized(m, disk)[i].stock \in Stocks
    BY <2>4 DEF AnyOrder
  <2> QED BY <2>2, <2>5 DEF m
<1>7. ASSUME NEW i \in DOMAIN orders PROVE OrderLeans(orders[i], Accepted)
  <2> DEFINE o == orders[i]
             s == o.stock
  <2>1. MovedTo(Moving, o) /\ s \in Stocks
    BY <1>6
  <2> HIDE DEF o
  <2>2. Moving[s] = IF Rebalances(Accepted, disk)
                    THEN Target(Accepted, s, Values, BookNav, disk) ELSE 0
    BY <2>1 DEF Moving, Aggregated
  <2>3. \/ o.side = "sell" /\ Moving[s] < 0
        \/ o.side = "buy" /\ Moving[s] > 0
    BY <2>1 DEF MovedTo
  <2> DEFINE t == Target(Accepted, s, Values, BookNav, disk)
             d == Directed(Accepted, s)
  <2>4. Rebalances(Accepted, disk) /\ Moving[s] = t
    BY <2>2, <2>3
  <2>5. disk.weight \in Nat
    BY <1>2, <2>4 DEF Rebalances, Config
  <2>6. (t > 0 => d > 0) /\ (t < 0 => d < 0)
    <3>1. Values[s] \in Nat
      BY <1>5, <2>1
    <3> HIDE DEF s
    <3> QED BY <1>3, <1>4, <2>5, <3>1, TargetDirected
  <2>7. /\ d > 0 => Leans("buy", Accepted, s)
        /\ d < 0 => Leans("sell", Accepted, s)
    <3> HIDE DEF s
    <3> QED BY <1>3, DirectedLeans
  <2> HIDE DEF t, d
  <2>8. Leans(o.side, Accepted, s)
    BY <2>3, <2>4, <2>6, <2>7
  <2>9. OrderLeans(o, Accepted)
    BY <2>8 DEF OrderLeans
  <2> QED BY <2>9 DEF o
<1> QED BY <1>7

LEMMA PlanCalled ==
  ASSUME TypeOK, Types2, Valued, CanSize(Moving, disk)
  PROVE  \A i \in DOMAIN Sized(Moving, disk) : Called(Sized(Moving, disk)[i])
<1> DEFINE orders == Sized(Moving, disk)
<1>1. world \in Worlds
  BY DEF Types2
<1>2. \A i \in DOMAIN orders : OrderLeans(orders[i], Accepted)
  BY PlanLeans
<1>3. \A o : OrderLeans(o, Accepted) => Called(o)
  BY <1>1, LeansCalled DEF OrderLeans
<1> HIDE DEF orders
<1>4. \A i \in DOMAIN orders : Called(orders[i])
  BY <1>2, <1>3
<1> QED BY <1>4 DEF orders

(* The invariant: each order of the plan was called for; each that was      *)
(* approved was consented to, and passed the gates of the configuration     *)
(* the decision read; and each that was sent passed, on a fresh quote,      *)
(* those of the configuration the treasurer read.                           *)
Gated(i, c, verdict) ==
  /\ PlanGates(plan, world.snap, c, Cardinality(record.reports))
  /\ OrderGates(plan, i, verdict, world.snap, c)

Sent(i) == row[i].state \in {"submitted", "confirmed", "failed"}

CallInv == \A i \in Indices : Called(plan.orders[i])

ApprovedInv ==
  \A i \in record.approved :
     /\ ConsentedBy(record.reply, plan.orders, i)
     /\ Gated(i, record.config, plan.quotes[i])

SentInv ==
  \A i \in Indices : Sent(i) =>
     Authorizes(admits) /\ \E verdict \in world.fresh : Gated(i, admits, verdict)

JudgedInv == plan.judged = world.judged

SendInv == CallInv /\ ApprovedInv /\ SentInv /\ JudgedInv

LEMMA SendInit == Init => SendInv
<1> SUFFICES ASSUME Init PROVE SendInv
  OBVIOUS
<1>1. /\ plan.orders = << >> /\ plan.judged = world.judged /\ record.approved = {}
      /\ Indices = {}
  BY DEF Init, Written, Indices
<1> QED BY <1>1 DEF SendInv, CallInv, ApprovedInv, SentInv, JudgedInv

LEMMA WorldKept == [Next]_vars => UNCHANGED world
  BY DEF Next, Ready, Edit, Unvalued, Size, SizeRaises, Vote, List, ListRefused, ListDies,
         Start, Take, Treasurer, Refuse, Submit, FillOnPaper, FillRefused, TreasurerEnds,
         TreasurerDies, Keep, KeepDies, Startup, given, vars

(* Only sizing writes the plan, and only the decision's actions the record. *)
LEMMA PlanKept == [Next]_vars /\ ~ Size => UNCHANGED plan
  BY DEF Next, Ready, Edit, Unvalued, SizeRaises, Vote, List, ListRefused, ListDies,
         Start, Take, Treasurer, Refuse, Submit, FillOnPaper, FillRefused,
         TreasurerEnds, TreasurerDies, Keep, KeepDies, Startup, vars

LEMMA RecordKept ==
  [Next]_vars /\ ~ (Unvalued \/ Size \/ Vote) => UNCHANGED record
  BY DEF Next, Ready, Edit, SizeRaises, List, ListRefused, ListDies, Start, Take,
         Treasurer, Refuse, Submit, FillOnPaper, FillRefused, TreasurerEnds,
         TreasurerDies, Keep, KeepDies, Startup, vars

(* What the code reads of a call is what the cycle was given.               *)
LEMMA CalledKept ==
  ASSUME UNCHANGED world, NEW o, Called(o)
  PROVE  Called(o)'
  BY DEF Called, Offered

LEMMA CallStep == RebalanceInv /\ CallInv /\ [Next]_vars => CallInv'
<1> SUFFICES ASSUME RebalanceInv, CallInv, [Next]_vars, NEW i \in Indices'
             PROVE  Called(plan.orders[i])'
  BY DEF CallInv
<1>0. UNCHANGED world
  BY WorldKept
<1>1. CASE Size
  <2> DEFINE orders == Sized(Moving, disk)
  <2>1. Valued /\ CanSize(Moving, disk) /\ \E quotes : plan' = Written(orders, quotes)
    BY <1>1 DEF Size
  <2>2. \A j \in DOMAIN orders : Called(orders[j])
    BY <2>1, PlanCalled DEF RebalanceInv
  <2> HIDE DEF orders
  <2>3. plan'.orders = orders
    BY <2>1 DEF Written
  <2>4. PICK o : o = orders[i] /\ o = plan'.orders[i]
    BY <2>3
  <2>5. Called(o)
    BY <2>2, <2>3, <2>4 DEF Indices
  <2>6. Called(o)'
    BY <1>0, <2>5, CalledKept
  <2> QED BY <2>4, <2>6
<1>2. CASE ~ Size
  <2>1. UNCHANGED plan
    BY <1>2, PlanKept
  <2>2. i \in Indices
    BY <2>1 DEF Indices
  <2>3. PICK o : o = plan.orders[i] /\ o = plan'.orders[i]
    BY <2>1
  <2>4. Called(o)
    BY <2>2, <2>3 DEF CallInv
  <2>5. Called(o)'
    BY <1>0, <2>4, CalledKept
  <2> QED BY <2>3, <2>5
<1> QED BY <1>1, <1>2

LEMMA JudgedStep == RebalanceInv /\ JudgedInv /\ [Next]_vars => JudgedInv'
<1> SUFFICES ASSUME RebalanceInv, JudgedInv, [Next]_vars PROVE JudgedInv'
  OBVIOUS
<1>0. UNCHANGED world
  BY WorldKept
<1>1. CASE Size
  <2> DEFINE orders == Sized(Moving, disk)
  <2>1. PICK quotes \in Judged(orders) : plan' = Written(orders, quotes)
    BY <1>1 DEF Size
  <2> HIDE DEF orders
  <2>2. plan'.judged = world.judged
    BY <2>1 DEF Written
  <2> QED BY <1>0, <2>2 DEF JudgedInv
<1>2. CASE ~ Size
  BY <1>0, <1>2, PlanKept DEF JudgedInv
<1> QED BY <1>1, <1>2

(* What the vote leaves approved.                                           *)
LEMMA VoteApproves ==
  ASSUME TypeOK, Types2, Vote
  PROVE  /\ record'.config = record.config /\ record'.reports = record.reports
         /\ UNCHANGED <<world, plan>>
         /\ \A i \in record'.approved :
              /\ ConsentedBy(record'.reply, plan.orders, i)
              /\ Gated(i, record.config, plan.quotes[i])
<1>1. UNCHANGED <<world, plan>>
  BY DEF Vote, given
<1>2. PICK reply \in Asked :
        record' = Finished(Recorded(reply, Decided(plan, Cleared, reply, record.config)))
  BY DEF Vote
<1> DEFINE a == Decided(plan, Cleared, reply, record.config)
<1>3. \A i \in a : i \in Cleared /\ Approves(reply, plan.orders, i)
  BY DEF Decided
<1>4. record' = Finished(Recorded(reply, a))
  BY <1>2
<1> HIDE DEF a
<1>5. /\ record'.approved = a /\ record'.reply = reply
      /\ record'.config = record.config /\ record'.reports = record.reports
  BY <1>4 DEF Finished, Recorded, Types2
<1>6. ASSUME NEW i \in a
      PROVE  ConsentedBy(reply, plan.orders, i) /\ Gated(i, record.config, plan.quotes[i])
  <2>1. i \in Cleared /\ Approves(reply, plan.orders, i)
    BY <1>3
  <2>2. reply.status = "replied"
    BY <2>1 DEF Approves
  <2>3. Votes(reply.text)
    BY <1>2, <2>2, AskedVotes
  <2>4. ConsentedBy(reply, plan.orders, i)
    BY <2>1, <2>3, ApprovalConsents
  <2>5. Gated(i, record.config, plan.quotes[i])
    BY <2>1 DEF Cleared, Evaluate, Gated
  <2> QED BY <2>4, <2>5
<1> QED BY <1>1, <1>5, <1>6

LEMMA ApprovedStep == RebalanceInv /\ ApprovedInv /\ [Next]_vars => ApprovedInv'
<1> SUFFICES ASSUME RebalanceInv, ApprovedInv, [Next]_vars PROVE ApprovedInv'
  OBVIOUS
<1>a. TypeOK /\ Types2 /\ RowsInv
  BY DEF RebalanceInv
<1>0. UNCHANGED world
  BY WorldKept
<1>1. CASE Unvalued \/ Size
  <2>1. pc = "size" /\ (record' = Prepared \/ record' = Finished(Prepared))
    BY <1>1 DEF Unvalued, Size
  <2>2. record'.approved = record.approved
    BY <1>a, <2>1, PreparedIs
  <2>3. record.approved = {}
    BY <1>a, <2>1 DEF RowsInv
  <2> QED BY <2>2, <2>3 DEF ApprovedInv
<1>2. CASE Vote
  BY <1>a, <1>2, VoteApproves DEF ApprovedInv, Gated
<1>3. CASE ~ (Unvalued \/ Size \/ Vote)
  <2>1. UNCHANGED <<world, plan, record>>
    BY <1>0, <1>3, PlanKept, RecordKept
  <2> QED BY <2>1 DEF ApprovedInv, Gated
<1> QED BY <1>1, <1>2, <1>3

(* An order is sent by the treasurer's Submit, for the order it judged.     *)
LEMMA SentBefore ==
  ASSUME RebalanceInv, [Next]_vars, ~ Size, NEW i \in Indices, Sent(i)'
  PROVE  Sent(i) \/ (Submit /\ i = cur)
<1>a. TypeOK /\ ControlInv
  BY DEF RebalanceInv
<1>b. row'[i].state \in {"submitted", "confirmed", "failed"}
  BY DEF Sent
<1>c. {"submitted", "confirmed", "failed", "refused"} \subseteq States
      /\ {"none", "cash-floor", "other", "stale"} \subseteq Whys
  BY DEF States, Whys
<1>s. SUFFICES ASSUME row'[i] # row[i], ~ Sent(i) PROVE Submit /\ i = cur
  BY <1>b DEF Sent
<1>1. CASE List \/ ListDies
  <2>1. \E n \in Nat : WriteUpTo(n)
    BY <1>a, <1>1, OrdersTyped DEF List, ListDies
  <2>2. row'[i].state \in {"prepared", "none"}
    BY <2>1 DEF WriteUpTo, Unwritten
  <2> QED BY <1>b, <2>2
<1>2. CASE Refuse
  <2> DEFINE w == IF FloorRefuses(cur) THEN "cash-floor" ELSE "other"
  <2>1. pc = "judge" /\ Moved("refused", w) /\ w \in Whys
    BY <1>c, <1>2 DEF Refuse
  <2> HIDE DEF w
  <2>2. row'[i] = [state |-> "refused", why |-> w]
    BY <1>s, <2>1, MovedOne
  <2> QED BY <1>b, <2>2
<1>3. CASE FillRefused
  <2>1. pc = "send" /\ Moved("failed", "none") /\ "none" \in Whys
    BY <1>c, <1>3 DEF FillRefused
  <2>2. i = cur /\ row[i].state \in {"prepared", "submitted"}
    BY <1>s, <2>1, MovedOne
  <2>3. row[cur].state \in {"submitted", "failed"}
    BY <1>a, <2>1 DEF ControlInv, Running
  <2> QED BY <1>s, <2>2, <2>3 DEF Sent
<1>4. CASE Submit
  <2>1. pc = "judge" /\ row' = [row EXCEPT ![cur] = [state |-> "submitted", why |-> "none"]]
    BY <1>4, <1>s DEF Submit, Write
  <2>2. cur \in Indices
    BY <1>a, <2>1 DEF ControlInv, Running, TypeOK
  <2>3. \A k \in Indices \ {cur} : row'[k] = row[k]
    BY <1>a, <1>c, <2>1, <2>2, WriteIs
  <2> QED BY <1>4, <1>s, <2>3
<1>5. CASE FillOnPaper
  <2>1. /\ row' = [row EXCEPT ![cur] = [state |-> "confirmed", why |-> "none"]]
        /\ cur \in Indices /\ row[cur].state = "submitted"
    BY <1>5, FillIs DEF RebalanceInv
  <2>2. \A k \in Indices \ {cur} : row'[k] = row[k]
    BY <1>a, <1>c, <2>1, WriteIs
  <2> QED BY <1>s, <2>1, <2>2 DEF Sent
<1>6. CASE \E j \in Indices : Startup(j)
  <2>1. PICK j \in Indices, s \in {"refused", "failed"} :
          /\ row' = [row EXCEPT ![j] = [state |-> s, why |-> "stale"]]
          /\ s = "failed" => row[j].state = "submitted"
    BY <1>6 DEF Startup, Write
  <2>2. /\ row'[j].state = s
        /\ \A k \in Indices \ {j} : row'[k] = row[k]
    BY <1>a, <1>c, <2>1, WriteIs
  <2>3. i = j
    BY <1>s, <2>2
  <2> QED BY <1>b, <1>s, <2>1, <2>2, <2>3 DEF Sent
<1>7. CASE \/ Ready \/ Edit \/ Unvalued \/ SizeRaises \/ Vote \/ ListRefused \/ Start \/ Take
           \/ TreasurerEnds \/ TreasurerDies \/ Keep \/ KeepDies \/ UNCHANGED vars
  <2>1. row' = row
    BY <1>7 DEF Ready, Edit, Unvalued, SizeRaises, Vote, ListRefused, Start, Take,
                TreasurerEnds, TreasurerDies, Keep, KeepDies, vars
  <2> QED BY <1>s, <2>1
<1> QED BY <1>1, <1>2, <1>3, <1>4, <1>5, <1>6, <1>7 DEF Next

LEMMA SentStep ==
  RebalanceInv /\ RebalanceInv' /\ SentInv /\ [Next]_vars => SentInv'
<1> SUFFICES ASSUME RebalanceInv, RebalanceInv', SentInv, [Next]_vars PROVE SentInv'
  OBVIOUS
<1>a. TypeOK /\ RowsInv /\ ControlInv
  BY DEF RebalanceInv
<1>0. UNCHANGED world
  BY WorldKept
<1>n. ASSUME \A i \in Indices' : ~ Sent(i)' PROVE SentInv'
  BY <1>n DEF SentInv
<1>1. CASE Size
  <2>1. row' = [i \in DOMAIN plan'.orders |-> Unwritten]
    BY <1>1, SizeIs DEF RebalanceInv
  <2>2. \A i \in Indices' : ~ Sent(i)'
    BY <2>1 DEF Indices, Sent, Unwritten
  <2> QED BY <1>n, <2>2
<1>2. CASE Unvalued \/ Vote
  <2>1. pc \in {"size", "vote"} /\ UNCHANGED <<plan, row>>
    BY <1>2 DEF Unvalued, Vote
  <2>2. \A i \in Indices : row[i].state = "none"
    BY <1>a, <2>1 DEF RowsInv
  <2>3. \A i \in Indices' : ~ Sent(i)'
    BY <2>1, <2>2 DEF Indices, Sent
  <2> QED BY <1>n, <2>3
<1>3. CASE Start
  <2>1. pc = "start" /\ UNCHANGED <<plan, row>>
    BY <1>3 DEF Start
  <2>2. cur = 0
    BY <1>a, <2>1 DEF RowsInv, Early
  <2>3. \A i \in Indices : i > 0
    BY <1>a, OrdersTyped
  <2>4. record.approved \subseteq Indices
    BY <1>a DEF TypeOK
  <2>5. \A i \in Indices : row[i].state \in {"prepared", "refused", "none"}
    BY <1>a, <2>1, <2>2, <2>3, <2>4 DEF RowsInv, ControlInv, Running
  <2>6. \A i \in Indices' : ~ Sent(i)'
    BY <2>1, <2>5 DEF Indices, Sent
  <2> QED BY <1>n, <2>6
<1>4. CASE ~ (Unvalued \/ Size \/ Vote \/ Start)
  <2>1. UNCHANGED <<world, plan, record>>
    BY <1>0, <1>4, PlanKept, RecordKept
  <2>2. UNCHANGED admits
    BY <1>4 DEF Next, Ready, Edit, SizeRaises, List, ListRefused, ListDies, Take,
                Treasurer, Refuse, Submit, FillOnPaper, FillRefused, TreasurerEnds,
                TreasurerDies, Keep, KeepDies, Startup, vars
  <2>3. ASSUME NEW i \in Indices, Sent(i)'
        PROVE  Authorizes(admits) /\ \E verdict \in world.fresh : Gated(i, admits, verdict)
    <3>1. CASE Sent(i)
      BY <3>1 DEF SentInv
    <3>2. CASE Submit /\ i = cur
      <4>1. PICK verdict \in world.fresh : Admitted(cur, verdict)
        BY <3>2 DEF Submit
      <4>2. Authorizes(admits) /\ Gated(cur, admits, verdict)
        BY <4>1 DEF Admitted, Gated
      <4> QED BY <3>2, <4>2
    <3> QED BY <1>4, <2>3, <3>1, <3>2, SentBefore
  <2>4. Indices' = Indices
    BY <2>1 DEF Indices
  <2> QED BY <2>1, <2>2, <2>3, <2>4 DEF SentInv, Authorizes, Gated
<1> QED BY <1>1, <1>2, <1>3, <1>4

(* What the gates of one configuration let through, it allowed.             *)
LEMMA GatedAllowed ==
  ASSUME NEW c, NEW i, NEW verdict, Gated(i, c, verdict), JudgedInv,
         world.at \in Int, world.judged \in Int, world.at <= world.judged,
         c.expires \in Int
  PROVE  LET o == plan.orders[i]
         IN  /\ c.revoked = FALSE
             /\ world.at < c.expires /\ plan.judged < c.expires
             /\ Worth(o) <= c.maxTrade /\ Cash \in c.allowed
             /\ o.side = "buy" => /\ o.stock \in c.allowed
                                  /\ o.stock \in world.snap.tradeable
<1> DEFINE o == plan.orders[i]
<1>1. c.revoked = FALSE /\ plan.judged < c.expires
  BY DEF Gated, PlanGates, MandateTerm
<1>2. world.at < c.expires
  BY <1>1 DEF JudgedInv
<1>3. MandateLegs(o, c) /\ OrderSize(o, c)
  BY DEF Gated, OrderGates
<1>4. o.side = "buy" => Tradeable(o.stock, world.snap)
  BY DEF Gated, OrderGates
<1> HIDE DEF o
<1>5. Worth(o) <= c.maxTrade
  BY <1>3 DEF OrderSize
<1>6. Cash \in c.allowed /\ (o.side = "buy" => o.stock \in c.allowed)
  BY <1>3 DEF MandateLegs
<1> QED BY <1>1, <1>2, <1>4, <1>5, <1>6 DEF Tradeable, o

LEMMA SendAuthorized == RebalanceInv /\ SendInv => Authorized
<1> SUFFICES ASSUME RebalanceInv, SendInv, NEW i \in Indices, Sent(i)
             PROVE  LET o == plan.orders[i]
                    IN  /\ Called(o) /\ Consented(i)
                        /\ admits.keys # Null /\ record.signer = admits.keys.public
                        /\ \A c \in {record.config, admits} :
                              /\ c.revoked = FALSE
                              /\ world.at < c.expires /\ plan.judged < c.expires
                              /\ Worth(o) <= c.maxTrade /\ Cash \in c.allowed
                              /\ o.side = "buy" => /\ o.stock \in c.allowed
                                                   /\ o.stock \in world.snap.tradeable
  BY DEF Authorized, In, Sent
<1>a. TypeOK /\ Types2 /\ RowsInv /\ CallInv /\ ApprovedInv /\ SentInv /\ JudgedInv
  BY DEF RebalanceInv, SendInv
<1>1. Called(plan.orders[i])
  BY <1>a DEF CallInv
<1>2. i \in record.approved
  BY <1>a DEF RowsInv, Sent
<1>3. ConsentedBy(record.reply, plan.orders, i) /\ Gated(i, record.config, plan.quotes[i])
  BY <1>a, <1>2 DEF ApprovedInv
<1>4. Consented(i)
  BY <1>3 DEF ConsentedBy, Consented
<1>5. PICK verdict \in world.fresh : Gated(i, admits, verdict)
  BY <1>a DEF SentInv
<1>6. admits.keys # Null /\ record.signer = admits.keys.public
  <2>1. Authorizes(admits)
    BY <1>a DEF SentInv
  <2> QED BY <2>1 DEF Authorizes, PublishedKey
<1>7. /\ world.at \in Int /\ world.judged \in Int /\ world.at <= world.judged
      /\ record.config.expires \in Int /\ admits.expires \in Int
  BY <1>a, WorldsAssumption DEF Types2
<1> DEFINE o == plan.orders[i]
           Allowed(c) == /\ c.revoked = FALSE
                         /\ world.at < c.expires /\ plan.judged < c.expires
                         /\ Worth(o) <= c.maxTrade /\ Cash \in c.allowed
                         /\ o.side = "buy" => /\ o.stock \in c.allowed
                                              /\ o.stock \in world.snap.tradeable
<1>8. Allowed(record.config)
  BY <1>a, <1>3, <1>7, GatedAllowed
<1>9. Allowed(admits)
  BY <1>a, <1>5, <1>7, GatedAllowed
<1>10. \A c \in {record.config, admits} : Allowed(c)
  <2> HIDE DEF Allowed
  <2> QED BY <1>8, <1>9
<1> QED BY <1>1, <1>4, <1>6, <1>10

-------------------------------------------------------------------------------
(* Theorems *)

(* The inductive invariant holds of every run of a decision.                *)
THEOREM RebalanceAlways == Spec => []RebalanceInv
<1>1. RebalanceInv /\ [Next]_vars => RebalanceInv'
  BY TypesStep, RowsStep, ControlStep, InFlightStep, VoteStep, DecisionStep
     DEF RebalanceInv
<1> QED BY RebalanceInit, <1>1, PTL DEF Spec

(* A decision, its plan, its rows and the paper book keep their types,      *)
(* whatever is edited, refused, killed or settled by a later run: the cash  *)
(* and every holding of the book never go below zero.                       *)
THEOREM RebalanceTypes == Spec => []TypeOK
<1>1. RebalanceInv => TypeOK
  BY DEF RebalanceInv
<1> QED BY RebalanceAlways, <1>1, PTL

(* Run at the plan's marks, what was approved and written leaves the floor  *)
(* the decision was judged by whenever it buys anything, for any vetoes,    *)
(* any failed gates, and a runner killed after any of the rows.             *)
THEOREM DecisionFloor == Spec => []DecisionKeepsFloor
<1>1. RebalanceInv => DecisionKeepsFloor
  BY DEF RebalanceInv
<1> QED BY RebalanceAlways, <1>1, PTL

(* No buy that fills leaves the book under the floor the treasurer read,    *)
(* whatever the sells before it booked and whatever a later run settled.    *)
THEOREM NoBuyBelowFloor == Spec => NoBuyBreaksFloor
<1>1. RebalanceInv /\ [Next]_vars =>
        [\A i \in Buys :
           row[i].state # "confirmed" /\ row'[i].state = "confirmed"
             => cash' * CashMark >= admits.floor]_vars
  <2>1. SUFFICES ASSUME RebalanceInv, Next, NEW i \in Buys,
                        row[i].state # "confirmed", row'[i].state = "confirmed"
                 PROVE  cash' * CashMark >= admits.floor
    OBVIOUS
  <2>2. FillOnPaper /\ cur \in Buys
    BY <2>1, ConfirmedStep
  <2> QED BY <2>1, <2>2, FillKeepsFloor
<1> QED BY RebalanceAlways, <1>1, PTL DEF Spec, NoBuyBreaksFloor

(* The cash of the paper book is always the cash the plan was sized on,     *)
(* less the buys that filled and with what every sell that filled got; and  *)
(* what the treasurer read of an order's siblings still holds when it       *)
(* judges the order.                                                        *)
THEOREM DropAlways == Spec => []DropInv
<1>1. RebalanceInv /\ RebalanceInv' /\ DropInv /\ [Next]_vars => DropInv'
  BY BookStep, TakenStep, WhyStep, DropStep DEF DropInv
<1> QED BY DropInit, RebalanceAlways, <1>1, PTL DEF Spec

(* The chokepoint refuses a buy for the floor only when a sell did not      *)
(* fill, or got less than its worth, or the operator raised the floor       *)
(* between the decision's reading of it and the treasurer's.                *)
THEOREM DropNeeded == Spec => []NoNeedlessDrop
<1>1. DropInv => NoNeedlessDrop
  BY DEF DropInv
<1> QED BY DropAlways, <1>1, PTL

(* Run at its marks, a plan that buys at all leaves the floor of the        *)
(* configuration it was sized by: through the share every raise is scaled   *)
(* to, its division into even orders, and the rounding of each to units.    *)
THEOREM PlanFloor == Spec => []PlanKeepsFloor
<1>1. RebalanceInv /\ PlanKeepsFloor /\ [Next]_vars => PlanKeepsFloor'
  BY PlanStep
<1> QED BY PlanInit, RebalanceAlways, <1>1, PTL DEF Spec

(* What every order in a plan, an approval and a sending rests on.          *)
THEOREM SendAlways == Spec => []SendInv
<1>1. RebalanceInv /\ RebalanceInv' /\ SendInv /\ [Next]_vars => SendInv'
  BY CallStep, ApprovedStep, SentStep, JudgedStep DEF SendInv
<1> QED BY SendInit, RebalanceAlways, <1>1, PTL DEF Spec

(* Every order sent to the venue rests on an accepted call, with no figure  *)
(* fabricated under a line that cites numbers, on the risk seat's consent,  *)
(* the published key's signature, and a mandate that allowed it both when   *)
(* the decision read it and when the treasurer did: for any reports and     *)
(* replies, and any edit between the reads.                                 *)
THEOREM SentIsAuthorized == Spec => []Authorized
<1>1. RebalanceInv /\ SendInv => Authorized
  BY SendAuthorized
<1> QED BY RebalanceAlways, SendAlways, <1>1, PTL

-------------------------------------------------------------------------------
(* Sums over some of a list *)

(* The first n amounts of f, those at T alone.                              *)
Masked(f, n, T) == [i \in 1..n |-> IF i \in T THEN f[i] ELSE 0]

(* A list of numbers, or its natural numbers.                               *)
Numbered(f, n) == n \in Nat /\ \A i \in 1..n : f[i] \in Int

LEMMA MaskedTyped ==
  ASSUME NEW n, NEW f, Numbered(f, n), NEW T
  PROVE  /\ Masked(f, n, T) \in Seq(Int) /\ Len(Masked(f, n, T)) = n
         /\ Total(Masked(f, n, T)) \in Int
<1>1. n \in Nat /\ \A i \in 1..n : f[i] \in Int
  BY DEF Numbered
<1>2. Masked(f, n, T) \in [1..n -> Int]
  BY <1>1 DEF Masked
<1>3. Masked(f, n, T) \in Seq(Int) /\ Len(Masked(f, n, T)) = n
  BY <1>1, <1>2
<1> QED BY <1>3, TotalType

(* Nothing taken sums to nothing.                                           *)
LEMMA MaskedNone ==
  ASSUME NEW n, NEW f, Numbered(f, n), NEW T, \A i \in 1..n : i \notin T
  PROVE  Total(Masked(f, n, T)) = 0
<1>1. \A i \in 1..n : Masked(f, n, T)[i] = 0
  BY DEF Masked
<1> QED BY <1>1, MaskedTyped, TotalZero

LEMMA MaskedSame ==
  ASSUME NEW n, NEW f, NEW g, NEW T, NEW U,
         \A i \in 1..n : (i \in T <=> i \in U) /\ (i \in T => f[i] = g[i])
  PROVE  Masked(f, n, T) = Masked(g, n, U)
  BY DEF Masked

(* One more taken adds its amount.                                          *)
LEMMA MaskedAdds ==
  ASSUME NEW n, NEW f, NEW g, Numbered(f, n), Numbered(g, n), NEW T,
         NEW k \in 1..n, k \notin T, \A i \in T \cap (1..n) : g[i] = f[i]
  PROVE  Total(Masked(g, n, T \cup {k})) = Total(Masked(f, n, T)) + g[k]
<1> DEFINE r == Masked(f, n, T)
<1>1. r \in Seq(Int) /\ Len(r) = n /\ Total(r) \in Int /\ n \in Nat /\ g[k] \in Int
  BY MaskedTyped DEF Numbered
<1>2. Masked(g, n, T \cup {k}) = [r EXCEPT ![k] = g[k]]
  BY DEF Masked
<1>3. r[k] = 0
  BY DEF Masked
<1> HIDE DEF r
<1>4. Total([r EXCEPT ![k] = g[k]]) = Total(r) - r[k] + g[k]
  BY <1>1, TotalChange
<1>5. Total([r EXCEPT ![k] = g[k]]) = Total(r) + g[k]
  BY <1>1, <1>3, <1>4
<1> QED BY <1>2, <1>5 DEF r

(* The orders among C that trade a stock of S on one side, and the sum of   *)
(* what f has for each.                                                     *)
Traded(orders, C, side, S) ==
  {i \in C : i \in DOMAIN orders /\ orders[i].side = side /\ orders[i].stock \in S}

Flow(f, orders, C, side, S) ==
  Total(Masked(f, Len(orders), Traded(orders, C, side, S)))

(* Lists that agree at T.                                                   *)
Agree(f, g, T) == \A i \in T : g[i] = f[i]

(* What f has for one order, if it trades a stock of S on that side.        *)
Adds(f, o, k, side, S) == IF o.side = side /\ o.stock \in S THEN f[k] ELSE 0

LEMMA FlowAdds ==
  ASSUME NEW orders \in Seq(AnyOrder), NEW C, NEW k \in DOMAIN orders, k \notin C,
         NEW f, NEW g, Numbered(f, Len(orders)), Numbered(g, Len(orders)),
         Agree(f, g, C \cap DOMAIN orders),
         NEW side, NEW S
  PROVE  Flow(g, orders, C \cup {k}, side, S)
           = Flow(f, orders, C, side, S) + Adds(g, orders[k], k, side, S)
<1> DEFINE n == Len(orders)
           T == Traded(orders, C, side, S)
           U == Traded(orders, C \cup {k}, side, S)
           in == orders[k].side = side /\ orders[k].stock \in S
<1>1. DOMAIN orders = 1..n /\ n \in Nat
  OBVIOUS
<1>2. T \subseteq C \cap DOMAIN orders /\ k \notin T /\ k \in 1..n
  BY <1>1 DEF Traded
<1>3. U = IF in THEN T \cup {k} ELSE T
  BY DEF Traded
<1>4. \A i \in T : g[i] = f[i]
  BY <1>2 DEF Agree
<1>5. Numbered(f, n) /\ Numbered(g, n)
  OBVIOUS
<1> HIDE DEF T, U, n, in
<1>6. CASE in
  <2>1. Total(Masked(g, n, T \cup {k})) = Total(Masked(f, n, T)) + g[k]
    BY <1>2, <1>4, <1>5, MaskedAdds
  <2> QED BY <1>3, <1>6, <2>1 DEF Flow, Adds, T, U, n, in
<1>7. CASE ~ in
  <2>1. Masked(g, n, T) = Masked(f, n, T) /\ Total(Masked(f, n, T)) \in Int
    BY <1>4, <1>5, MaskedSame, MaskedTyped
  <2>2. Total(Masked(g, n, U)) = Total(Masked(f, n, T)) + 0
    BY <1>3, <1>7, <2>1
  <2> QED BY <1>7, <2>2 DEF Flow, Adds, T, U, n, in
<1> QED BY <1>6, <1>7

LEMMA FlowTyped ==
  ASSUME NEW orders \in Seq(AnyOrder), NEW f, Numbered(f, Len(orders)), NEW C,
         NEW side, NEW S
  PROVE  /\ Flow(f, orders, C, side, S) \in Int
         /\ Traded(orders, C, side, S) = {} => Flow(f, orders, C, side, S) = 0
  BY MaskedTyped, MaskedNone DEF Flow

LEMMA FlowNat ==
  ASSUME NEW orders \in Seq(AnyOrder), NEW f, \A i \in DOMAIN orders : f[i] \in Nat,
         NEW C, NEW side, NEW S
  PROVE  Flow(f, orders, C, side, S) >= 0
<1> DEFINE r == Masked(f, Len(orders), Traded(orders, C, side, S))
<1>1. DOMAIN orders = 1..Len(orders) /\ Len(orders) \in Nat
  OBVIOUS
<1>2. r \in [1..Len(orders) -> Nat]
  BY <1>1 DEF Masked
<1> HIDE DEF r
<1>3. Total(r) \in Nat
  BY <1>1, <1>2, TotalType
<1> QED BY <1>3 DEF Flow, r

(* A book that held `start`, and what the fills of C made of it.            *)
SellsIn(orders) == [i \in DOMAIN orders |-> orders[i].sell]

CashOf(start, orders, C, f) ==
  start + Flow(f, orders, C, "sell", Stocks)
        - Flow(SellsIn(orders), orders, C, "buy", Stocks)

HoldOf(start, orders, C, f, s) ==
  start + Flow(f, orders, C, "buy", {s})
        - Flow(SellsIn(orders), orders, C, "sell", {s})

LEMMA SellsInTyped ==
  ASSUME NEW orders \in Seq(AnyOrder)
  PROVE  /\ Numbered(SellsIn(orders), Len(orders))
         /\ \A i \in DOMAIN orders : SellsIn(orders)[i] = orders[i].sell
<1>1. \A i \in 1..Len(orders) : orders[i] \in AnyOrder
  OBVIOUS
<1>2. \A i \in 1..Len(orders) : orders[i].sell \in Int
  BY <1>1 DEF AnyOrder
<1>3. DOMAIN orders = 1..Len(orders) /\ Len(orders) \in Nat
  OBVIOUS
<1> QED BY <1>2, <1>3 DEF Numbered, SellsIn

LEMMA BookEmpty ==
  ASSUME NEW orders \in Seq(AnyOrder), NEW f, Numbered(f, Len(orders)),
         NEW start \in Int
  PROVE  /\ CashOf(start, orders, {}, f) = start
         /\ \A s : HoldOf(start, orders, {}, f, s) = start
<1>1. \A side, S : Traded(orders, {}, side, S) = {}
  BY DEF Traded
<1>2. \A side, S : /\ Flow(f, orders, {}, side, S) = 0
                   /\ Flow(SellsIn(orders), orders, {}, side, S) = 0
  BY <1>1, FlowTyped, SellsInTyped
<1> QED BY <1>2 DEF CashOf, HoldOf

(* One fill more: what it gave of one side of the book and got of the other.*)
BookAdded(orders, C, k, f, g, start) ==
  /\ CashOf(start, orders, C \cup {k}, g)
       = CashOf(start, orders, C, f)
           + (IF orders[k].side = "buy" THEN - orders[k].sell ELSE g[k])
  /\ \A s : HoldOf(start, orders, C \cup {k}, g, s)
              = HoldOf(start, orders, C, f, s)
                  + (IF orders[k].stock # s THEN 0
                     ELSE IF orders[k].side = "buy" THEN g[k]
                     ELSE - orders[k].sell)

LEMMA BookAdds ==
  ASSUME NEW orders \in Seq(AnyOrder), NEW C, NEW k \in DOMAIN orders, k \notin C,
         NEW f, NEW g, Numbered(f, Len(orders)), Numbered(g, Len(orders)),
         Agree(f, g, C \cap DOMAIN orders), NEW start \in Int
  PROVE  BookAdded(orders, C, k, f, g, start)
<1> DEFINE h == SellsIn(orders)
           D == C \cup {k}
<1>1. orders[k] \in AnyOrder /\ DOMAIN orders = 1..Len(orders)
  OBVIOUS
<1>2. /\ orders[k].side \in {"buy", "sell"} /\ orders[k].stock \in Stocks
      /\ orders[k].sell \in Int /\ g[k] \in Int /\ h[k] = orders[k].sell
      /\ Numbered(h, Len(orders))
  BY <1>1, SellsInTyped DEF AnyOrder, Numbered
<1> HIDE DEF h
<1>3. ASSUME NEW side, NEW S
      PROVE  /\ Flow(g, orders, D, side, S)
                  = Flow(f, orders, C, side, S) + Adds(g, orders[k], k, side, S)
             /\ Flow(h, orders, D, side, S)
                  = Flow(h, orders, C, side, S) + Adds(h, orders[k], k, side, S)
             /\ Flow(f, orders, C, side, S) \in Int /\ Flow(h, orders, C, side, S) \in Int
  <2>1. Flow(g, orders, C \cup {k}, side, S)
          = Flow(f, orders, C, side, S) + Adds(g, orders[k], k, side, S)
    BY FlowAdds
  <2>2. Flow(h, orders, C \cup {k}, side, S)
          = Flow(h, orders, C, side, S) + Adds(h, orders[k], k, side, S)
    <3>1. Agree(h, h, C \cap DOMAIN orders)
      BY DEF Agree
    <3> QED BY <1>2, <3>1, FlowAdds
  <2>3. Flow(f, orders, C, side, S) \in Int /\ Flow(h, orders, C, side, S) \in Int
    BY <1>2, FlowTyped
  <2> QED BY <2>1, <2>2, <2>3
<1> HIDE DEF D
<1>4. CashOf(start, orders, D, g)
        = CashOf(start, orders, C, f)
            + (IF orders[k].side = "buy" THEN - orders[k].sell ELSE g[k])
  <2>1. /\ Flow(g, orders, D, "sell", Stocks)
             = Flow(f, orders, C, "sell", Stocks)
                 + (IF orders[k].side = "sell" THEN g[k] ELSE 0)
        /\ Flow(h, orders, D, "buy", Stocks)
             = Flow(h, orders, C, "buy", Stocks)
                 + (IF orders[k].side = "buy" THEN h[k] ELSE 0)
        /\ Flow(f, orders, C, "sell", Stocks) \in Int
        /\ Flow(h, orders, C, "buy", Stocks) \in Int
    BY <1>2, <1>3 DEF Adds
  <2>2. /\ CashOf(start, orders, D, g)
             = start + Flow(g, orders, D, "sell", Stocks) - Flow(h, orders, D, "buy", Stocks)
        /\ CashOf(start, orders, C, f)
             = start + Flow(f, orders, C, "sell", Stocks) - Flow(h, orders, C, "buy", Stocks)
    BY DEF CashOf, h
  <2> QED BY <1>2, <2>1, <2>2
<1>5. ASSUME NEW s
      PROVE  HoldOf(start, orders, D, g, s)
               = HoldOf(start, orders, C, f, s)
                   + (IF orders[k].stock # s THEN 0
                      ELSE IF orders[k].side = "buy" THEN g[k] ELSE - orders[k].sell)
  <2>1. /\ Flow(g, orders, D, "buy", {s})
             = Flow(f, orders, C, "buy", {s})
                 + (IF orders[k].side = "buy" /\ orders[k].stock \in {s} THEN g[k] ELSE 0)
        /\ Flow(h, orders, D, "sell", {s})
             = Flow(h, orders, C, "sell", {s})
                 + (IF orders[k].side = "sell" /\ orders[k].stock \in {s} THEN h[k] ELSE 0)
        /\ Flow(f, orders, C, "buy", {s}) \in Int
        /\ Flow(h, orders, C, "sell", {s}) \in Int
    BY <1>3 DEF Adds
  <2>2. /\ HoldOf(start, orders, D, g, s)
             = start + Flow(g, orders, D, "buy", {s}) - Flow(h, orders, D, "sell", {s})
        /\ HoldOf(start, orders, C, f, s)
             = start + Flow(f, orders, C, "buy", {s}) - Flow(h, orders, C, "sell", {s})
    BY DEF HoldOf, h
  <2> QED BY <1>2, <2>1, <2>2
<1> QED BY <1>4, <1>5 DEF BookAdded, D


-------------------------------------------------------------------------------
(* The invariant *)

ConfirmedRows == In({"confirmed"})

(* An order that has not filled got nothing.                                *)
FillInv == \A i \in Indices : row[i].state # "confirmed" => fill[i] = 0

(* The paper book is what the cycle began with, and its fills.              *)
CashInv == cash = CashOf(world.cash, plan.orders, ConfirmedRows, fill)

HoldInv ==
  \A s \in Stocks :
    hold[s] = HoldOf(world.hold[s], plan.orders, ConfirmedRows, fill, s)

(* The record's reports are the ones the decision accepts, every order of   *)
(* the plan goes the way one leans, and every approved one was cleared.     *)
SourceInv ==
  /\ record.reports \subseteq Accepted
  /\ \A i \in Indices : OrderLeans(plan.orders[i], record.reports)
  /\ record.approved \subseteq Cleared

(* A decision that was listed is signed with a key that was published.      *)
KeyInv ==
  pc \in Running \/ book # Null =>
    \E c \in {world.config} \cup world.edits :
       record.signer = PublishedKey(c.keys, Null)

(* The book is kept when nothing is left to happen: not a row, not a fill.  *)
EndInv ==
  /\ pc = "back" \/ book # Null => \A i \in record.approved : row[i].state \in Final
  /\ book # Null => pc = "off" /\ book = [cash |-> cash, hold |-> hold, nav |-> book.nav]

PageInv ==
  FillInv /\ CashInv /\ HoldInv /\ SourceInv /\ KeyInv /\ EndInv

-------------------------------------------------------------------------------
(* The book and its fills *)

LEMMA FillTyped ==
  ASSUME TypeOK
  PROVE  /\ Numbered(fill, Len(plan.orders)) /\ plan.orders \in Seq(AnyOrder)
         /\ Indices = DOMAIN plan.orders /\ cash \in Nat /\ hold \in [Stocks -> Nat]
         /\ \A s \in Stocks : hold[s] \in Nat
<1>1. /\ Indices = 1..Len(plan.orders) /\ Len(plan.orders) \in Nat
      /\ plan.orders \in Seq(AnyOrder)
  BY OrdersTyped
<1>2. fill \in [Indices -> Nat] /\ cash \in Nat /\ hold \in [Stocks -> Nat]
  BY DEF TypeOK
<1>3. \A i \in 1..Len(plan.orders) : fill[i] \in Int
  BY <1>1, <1>2
<1> QED BY <1>1, <1>2, <1>3 DEF Numbered, Indices

FillsNumbered == Numbered(fill, Len(plan.orders)) /\ plan.orders \in Seq(AnyOrder)

LEMMA FillsAre == TypeOK => FillsNumbered
  BY FillTyped DEF FillsNumbered

LEMMA FillsAreNext == TypeOK' => FillsNumbered'
  BY FillsAre, PTL

LEMMA GivenTyped ==
  ASSUME Types2
  PROVE  world.cash \in Int /\ \A s \in Stocks : world.hold[s] \in Int
<1>1. world.cash \in Nat /\ world.hold \in [Stocks -> Nat]
  BY WorldsAssumption DEF Types2
<1> QED BY <1>1

(* What the paper venue books for the order in flight, of cash and stock.   *)
LEMMA FillBooks ==
  ASSUME RebalanceInv, FillOnPaper
  PROVE  \E got \in Nat :
           /\ fill' = [fill EXCEPT ![cur] = got]
           /\ cash' = IF plan.orders[cur].side = "buy"
                      THEN cash - plan.orders[cur].sell ELSE cash + got
           /\ hold' = [hold EXCEPT ![plan.orders[cur].stock] =
                         IF plan.orders[cur].side = "buy"
                         THEN @ + got ELSE @ - plan.orders[cur].sell]
<1> DEFINE o == plan.orders[cur]
<1>1. PICK got \in PaperFill(o) : Booked(o, got) /\ fill' = [fill EXCEPT ![cur] = got]
  BY DEF FillOnPaper
<1>2. got \in Nat
  BY DEF PaperFill
<1> HIDE DEF o
<1>3. /\ cash' = IF o.side = "buy" THEN cash - o.sell ELSE cash + got
      /\ hold' = [hold EXCEPT ![o.stock] =
                    IF o.side = "buy" THEN @ + got ELSE @ - o.sell]
  BY <1>1 DEF Booked
<1> QED BY <1>1, <1>2, <1>3 DEF o

LEMMA ConfirmedAdds ==
  ASSUME RebalanceInv, FillOnPaper
  PROVE  /\ ConfirmedRows' = ConfirmedRows \cup {cur} /\ cur \notin ConfirmedRows
         /\ cur \in Indices /\ UNCHANGED <<world, plan, record>>
<1>a. TypeOK /\ ControlInv /\ InFlightInv
  BY DEF RebalanceInv
<1>1. /\ cur \in Indices /\ row[cur].state = "submitted"
      /\ row' = [row EXCEPT ![cur] = [state |-> "confirmed", why |-> "none"]]
      /\ UNCHANGED <<given, record, plan>>
  BY <1>a, FillIs
<1>2. "confirmed" \in States /\ "none" \in Whys
  BY DEF States, Whys
<1>3. row'[cur].state = "confirmed" /\ \A k \in Indices \ {cur} : row'[k] = row[k]
  BY <1>a, <1>1, <1>2, WriteIs
<1>4. Indices' = Indices
  BY <1>1 DEF Indices
<1>5. ConfirmedRows = {i \in Indices : row[i].state = "confirmed"}
  BY DEF ConfirmedRows, In
<1>6. ConfirmedRows' = {i \in Indices : row'[i].state = "confirmed"}
  BY <1>4 DEF ConfirmedRows, In
<1> QED BY <1>1, <1>3, <1>5, <1>6 DEF given

LEMMA BookSame ==
  ASSUME RebalanceInv, [Next]_vars, ~ Size, ~ FillOnPaper
  PROVE  /\ ConfirmedRows' = ConfirmedRows
         /\ UNCHANGED <<world, plan, cash, hold, fill>>
<1>1. UNCHANGED <<plan, cash, hold, fill>> /\ UNCHANGED world
  BY BookKept, WorldKept
<1>2. \A i \in Indices : row'[i].state = "confirmed" <=> row[i].state = "confirmed"
  BY RowMoves DEF Rewritten, Filling
<1>3. ConfirmedRows' = ConfirmedRows
  BY <1>1, <1>2 DEF ConfirmedRows, In, Indices
<1> QED BY <1>1, <1>3

(* Before it is sized, a plan has no orders; when it is, none has filled.   *)
LEMMA SizeEmpty ==
  ASSUME RebalanceInv, Size
  PROVE  /\ plan.orders = << >> /\ ConfirmedRows = {} /\ ConfirmedRows' = {}
         /\ \A i \in Indices' : fill'[i] = 0
         /\ UNCHANGED <<world, cash, hold, book>>
<1>a. TypeOK /\ Types2 /\ RowsInv
  BY DEF RebalanceInv
<1>1. /\ pc = "size"
      /\ row' = [i \in DOMAIN plan'.orders |-> Unwritten]
      /\ fill' = [i \in DOMAIN plan'.orders |-> 0]
      /\ UNCHANGED <<given, cash, hold, book>>
  BY <1>a, SizeIs
<1>2. plan.orders = << >>
  BY <1>a, <1>1 DEF RowsInv
<1>3. Unwritten.state = "none"
  BY DEF Unwritten
<1>4. ConfirmedRows' = {}
  BY <1>1, <1>3 DEF ConfirmedRows, In, Indices
<1>5. ConfirmedRows = {}
  BY <1>2 DEF ConfirmedRows, In, Indices
<1> QED BY <1>1, <1>2, <1>4, <1>5 DEF Indices, given

LEMMA FillStep ==
  RebalanceInv /\ FillInv /\ [Next]_vars => FillInv'
<1> SUFFICES ASSUME RebalanceInv, FillInv, [Next]_vars PROVE FillInv'
  OBVIOUS
<1>1. CASE Size
  BY <1>1, SizeEmpty DEF FillInv
<1>2. CASE FillOnPaper
  <2>1. PICK got \in Nat : fill' = [fill EXCEPT ![cur] = got]
    BY <1>2, FillBooks
  <2>2. ConfirmedRows' = ConfirmedRows \cup {cur} /\ UNCHANGED plan
    BY <1>2, ConfirmedAdds
  <2>3. Indices' = Indices
    BY <2>2 DEF Indices
  <2>4. ConfirmedRows = {i \in Indices : row[i].state = "confirmed"}
    BY DEF ConfirmedRows, In
  <2>5. ConfirmedRows' = {i \in Indices : row'[i].state = "confirmed"}
    BY <2>3 DEF ConfirmedRows, In
  <2>6. ASSUME NEW i \in Indices, row'[i].state # "confirmed" PROVE fill'[i] = 0
    <3>1. i # cur /\ row[i].state # "confirmed"
      BY <2>2, <2>4, <2>5, <2>6
    <3>2. fill \in [Indices -> Nat]
      BY DEF RebalanceInv, TypeOK
    <3> QED BY <2>1, <3>1, <3>2 DEF FillInv
  <2> QED BY <2>3, <2>6 DEF FillInv
<1>3. CASE ~ Size /\ ~ FillOnPaper
  <2>1. UNCHANGED <<plan, fill>>
    BY <1>3, BookSame
  <2>2. \A i \in Indices : row'[i].state = "confirmed" <=> row[i].state = "confirmed"
    BY <1>3, RowMoves DEF Rewritten, Filling
  <2> QED BY <2>1, <2>2 DEF FillInv, Indices
<1> QED BY <1>1, <1>2, <1>3


LEMMA LedgerStep ==
  RebalanceInv /\ RebalanceInv' /\ CashInv /\ HoldInv /\ [Next]_vars => CashInv' /\ HoldInv'
<1> SUFFICES ASSUME RebalanceInv, RebalanceInv', CashInv, HoldInv, [Next]_vars
             PROVE  CashInv' /\ HoldInv'
  OBVIOUS
<1>a. TypeOK /\ Types2 /\ TypeOK'
  BY DEF RebalanceInv
<1>b. world.cash \in Int /\ \A s \in Stocks : world.hold[s] \in Int
  BY <1>a, GivenTyped
<1>c. /\ Numbered(fill, Len(plan.orders)) /\ plan.orders \in Seq(AnyOrder)
      /\ Indices = DOMAIN plan.orders /\ cash \in Nat /\ hold \in [Stocks -> Nat]
  BY <1>a, FillTyped
<1>d. Numbered(fill', Len(plan'.orders)) /\ plan'.orders \in Seq(AnyOrder)
  BY <1>a, FillsAreNext DEF FillsNumbered
<1>1. CASE Size
  <2>1. /\ plan.orders = << >> /\ ConfirmedRows = {} /\ ConfirmedRows' = {}
        /\ UNCHANGED <<world, cash, hold>>
    BY <1>1, SizeEmpty
  <2>2. /\ CashOf(world.cash, plan.orders, {}, fill) = world.cash
        /\ CashOf(world.cash, plan'.orders, {}, fill') = world.cash
    BY <1>b, <1>c, <1>d, BookEmpty
  <2>3. \A s \in Stocks :
          /\ HoldOf(world.hold[s], plan.orders, {}, fill, s) = world.hold[s]
          /\ HoldOf(world.hold[s], plan'.orders, {}, fill', s) = world.hold[s]
    BY <1>b, <1>c, <1>d, BookEmpty
  <2>4. cash = world.cash /\ \A s \in Stocks : hold[s] = world.hold[s]
    BY <2>1, <2>2, <2>3 DEF CashInv, HoldInv
  <2>5. CashInv'
    BY <2>1, <2>2, <2>4 DEF CashInv
  <2>6. HoldInv'
    BY <2>1, <2>3, <2>4 DEF HoldInv
  <2> QED BY <2>5, <2>6
<1>2. CASE FillOnPaper
  <2> DEFINE o == plan.orders[cur]
             C == ConfirmedRows
             s0 == o.stock
  <2>1. /\ ConfirmedRows' = C \cup {cur} /\ cur \notin C
        /\ cur \in Indices /\ UNCHANGED <<world, plan>>
    BY <1>2, ConfirmedAdds
  <2>2. PICK got \in Nat :
          /\ fill' = [fill EXCEPT ![cur] = got]
          /\ cash' = IF o.side = "buy" THEN cash - o.sell ELSE cash + got
          /\ hold' = [hold EXCEPT ![s0] = IF o.side = "buy" THEN @ + got ELSE @ - o.sell]
    BY <1>2, FillBooks
  <2>3. o \in AnyOrder
    BY <1>c, <2>1
  <2>4. o.side \in {"buy", "sell"} /\ s0 \in Stocks /\ o.sell \in Nat
    BY <2>3 DEF AnyOrder
  <2>5. fill'[cur] = got /\ Agree(fill, fill', C \cap DOMAIN plan.orders)
    <3>1. fill \in [Indices -> Nat]
      BY <1>a DEF TypeOK
    <3> QED BY <2>1, <2>2, <3>1 DEF Agree
  <2> HIDE DEF C
  <2>6. ASSUME NEW start \in Int
        PROVE  /\ CashOf(start, plan.orders, C \cup {cur}, fill')
                    = CashOf(start, plan.orders, C, fill)
                        + (IF o.side = "buy" THEN - o.sell ELSE got)
               /\ \A s : HoldOf(start, plan.orders, C \cup {cur}, fill', s)
                           = HoldOf(start, plan.orders, C, fill, s)
                               + (IF s0 # s THEN 0
                                  ELSE IF o.side = "buy" THEN got ELSE - o.sell)
    <3>1. Numbered(fill', Len(plan.orders)) /\ cur \in DOMAIN plan.orders
      BY <1>c, <1>d, <2>1
    <3>2. /\ CashOf(start, plan.orders, C \cup {cur}, fill')
               = CashOf(start, plan.orders, C, fill)
                   + (IF o.side = "buy" THEN - o.sell ELSE fill'[cur])
          /\ \A s : HoldOf(start, plan.orders, C \cup {cur}, fill', s)
                      = HoldOf(start, plan.orders, C, fill, s)
                          + (IF s0 # s THEN 0
                             ELSE IF o.side = "buy" THEN fill'[cur] ELSE - o.sell)
      <4>1. BookAdded(plan.orders, C, cur, fill, fill', start)
        BY <1>c, <2>1, <2>5, <3>1, BookAdds
      <4> QED BY <4>1 DEF BookAdded
    <3> QED BY <2>5, <3>2
  <2> HIDE DEF o, s0
  <2>7. cash' = CashOf(world.cash, plan.orders, C \cup {cur}, fill')
    <3>1. cash = CashOf(world.cash, plan.orders, C, fill)
      BY DEF CashInv, C
    <3>2. CashOf(world.cash, plan.orders, C \cup {cur}, fill')
            = cash + (IF o.side = "buy" THEN - o.sell ELSE got)
      BY <1>b, <2>6, <3>1
    <3> QED BY <1>c, <2>2, <2>4, <3>2
  <2>8. ASSUME NEW s \in Stocks
        PROVE  hold'[s] = HoldOf(world.hold[s], plan.orders, C \cup {cur}, fill', s)
    <3>1. hold[s] = HoldOf(world.hold[s], plan.orders, C, fill, s)
      BY DEF HoldInv, C
    <3>2. HoldOf(world.hold[s], plan.orders, C \cup {cur}, fill', s)
            = hold[s] + (IF s0 # s THEN 0
                         ELSE IF o.side = "buy" THEN got ELSE - o.sell)
      BY <1>b, <2>6, <3>1
    <3>3. hold[s] \in Nat
      BY <1>c
    <3>4. hold'[s] = IF s0 # s THEN hold[s]
                     ELSE IF o.side = "buy" THEN hold[s] + got ELSE hold[s] - o.sell
      BY <1>c, <2>2, <2>4
    <3> QED BY <2>4, <3>2, <3>3, <3>4
  <2>9. CashInv' /\ HoldInv'
    BY <2>1, <2>7, <2>8 DEF CashInv, HoldInv, C
  <2> QED BY <2>9
<1>3. CASE ~ Size /\ ~ FillOnPaper
  <2>1. ConfirmedRows' = ConfirmedRows /\ UNCHANGED <<world, plan, cash, hold, fill>>
    BY <1>3, BookSame
  <2> QED BY <2>1 DEF CashInv, HoldInv
<1> QED BY <1>1, <1>2, <1>3


-------------------------------------------------------------------------------
(* Where the orders came from *)

(* What the gates clear, of what they read.                                 *)
ClearedOf(p, snap, c, reports) ==
  IF ContextBudget(RoundedUp(Len(p.orders) + CallsIn(reports), c.perToken)
                     + c.reserved, c)
  THEN Evaluate(p, snap, c, Cardinality(reports))
  ELSE {}

ClearedAgrees == Cleared = ClearedOf(plan, world.snap, record.config, record.reports)

LEMMA ClearedIs == ClearedAgrees
  BY DEF ClearedAgrees, ClearedOf, Cleared, InBudget, Measured, Bundle

LEMMA ClearedIsNext == ClearedAgrees'
  BY ClearedIs, PTL

LEMMA SourcesKept ==
  ASSUME UNCHANGED world
  PROVE  /\ Accepted' = Accepted
         /\ UNCHANGED plan /\ record'.config = record.config
              /\ record'.reports = record.reports => Cleared' = Cleared
<1>1. Accepted' = Accepted
  BY DEF Accepted, Offered
<1>2. /\ Cleared = ClearedOf(plan, world.snap, record.config, record.reports)
      /\ Cleared' = ClearedOf(plan', world'.snap, record'.config, record'.reports)
  BY ClearedIs, ClearedIsNext DEF ClearedAgrees
<1> QED BY <1>1, <1>2

LEMMA SourceInit == Init => SourceInv
<1> SUFFICES ASSUME Init PROVE SourceInv
  OBVIOUS
<1>1. /\ record.reports = {} /\ record.approved = {} /\ plan.orders = << >>
  BY DEF Init, Written
<1> QED BY <1>1 DEF SourceInv, Indices

LEMMA SourceStep == RebalanceInv /\ SourceInv /\ [Next]_vars => SourceInv'
<1> SUFFICES ASSUME RebalanceInv, SourceInv, [Next]_vars PROVE SourceInv'
  OBVIOUS
<1>a. TypeOK /\ Types2 /\ RowsInv
  BY DEF RebalanceInv
<1>b. UNCHANGED world /\ Accepted' = Accepted
  BY WorldKept, SourcesKept
<1>1. CASE Size
  <2> DEFINE orders == Sized(Moving, disk)
  <2>1. /\ pc = "size" /\ Valued /\ CanSize(Moving, disk) /\ record' = Prepared
        /\ \E quotes : plan' = Written(orders, quotes)
    BY <1>1 DEF Size
  <2>2. \A i \in DOMAIN orders : OrderLeans(orders[i], Accepted)
    BY <1>a, <2>1, PlanLeans
  <2>3. record'.reports = Accepted /\ record'.approved = {}
    BY <1>a, <2>1, PreparedIs DEF RowsInv
  <2> HIDE DEF orders
  <2>4. plan'.orders = orders
    BY <2>1 DEF Written
  <2>5. \A i \in DOMAIN plan'.orders : OrderLeans(plan'.orders[i], record'.reports)
    BY <2>2, <2>3, <2>4
  <2> QED BY <1>b, <2>3, <2>5 DEF SourceInv, Indices
<1>2. CASE Unvalued
  <2>1. pc = "size" /\ record' = Finished(Prepared) /\ UNCHANGED plan
    BY <1>2 DEF Unvalued
  <2>2. /\ record'.reports = Accepted /\ record'.approved = {}
        /\ plan'.orders = << >>
    BY <1>a, <2>1, PreparedIs DEF RowsInv
  <2> QED BY <1>b, <2>2 DEF SourceInv, Indices
<1>3. CASE Vote
  <2>1. /\ record'.config = record.config /\ record'.reports = record.reports
        /\ UNCHANGED <<world, plan>>
    BY <1>a, <1>3, VoteApproves
  <2>2. PICK reply \in Asked :
          record' = Finished(Recorded(reply, Decided(plan, Cleared, reply, record.config)))
    BY <1>3 DEF Vote
  <2> DEFINE A == Decided(plan, Cleared, reply, record.config)
  <2>3. A \subseteq Cleared
    BY DEF Decided
  <2> HIDE DEF A
  <2>4. record'.approved = A
    BY <1>a, <2>2 DEF Finished, Recorded, Types2, A
  <2>5. Cleared' = Cleared
    BY <2>1, SourcesKept
  <2>6. \A i \in Indices' : OrderLeans(plan'.orders[i], record'.reports)
    BY <2>1 DEF SourceInv, Indices
  <2> QED BY <1>b, <2>1, <2>3, <2>4, <2>5, <2>6 DEF SourceInv
<1>4. CASE ~ (Unvalued \/ Size \/ Vote)
  <2>1. UNCHANGED <<world, plan, record>>
    BY <1>b, <1>4, PlanKept, RecordKept
  <2>2. Cleared' = Cleared
    BY <2>1, SourcesKept
  <2> QED BY <1>b, <2>1, <2>2 DEF SourceInv, Indices
<1> QED BY <1>1, <1>2, <1>3, <1>4

-------------------------------------------------------------------------------
(* The key, and the end *)

(* Nothing writes the record once its orders are listed.                    *)
LEMMA ListedKept ==
  ASSUME RebalanceInv, EndInv, [Next]_vars, pc \in Running \/ book # Null
  PROVE  UNCHANGED <<world, record, plan>> /\ ~ Size
<1>1. pc \notin {"size", "vote"}
  BY DEF EndInv, Running
<1>2. ~ (Unvalued \/ Size \/ Vote)
  BY <1>1 DEF Unvalued, Size, Vote
<1> QED BY <1>2, WorldKept, RecordKept, PlanKept

(* Only the list starts a treasurer, and only the runner keeps a book.      *)
LEMMA StartsAre ==
  [Next]_vars =>
    /\ pc' \in Running => pc \in Running \/ List
    /\ pc' = "back" => pc = "back" \/ TreasurerEnds
    /\ book' = book \/ Keep
<1>1. Next => \/ pc' \in {"size", "vote", "list", "off"} /\ book' = book
              \/ pc \in Running /\ pc' # "back" /\ book' = book
              \/ pc' = pc /\ book' = book
              \/ List /\ pc' = "start" /\ book' = book
              \/ TreasurerEnds /\ pc = "next" /\ book' = book
              \/ Keep /\ pc' = "off"
  <2>1. Ready \/ Edit \/ Unvalued \/ Size \/ SizeRaises \/ Vote \/ ListRefused \/ ListDies =>
          \/ pc' \in {"size", "vote", "list", "off"} /\ book' = book
          \/ pc' = pc /\ book' = book
    BY DEF Ready, Edit, Unvalued, Size, SizeRaises, Vote, ListRefused, ListDies
  <2>2. Start \/ Take \/ Refuse \/ Submit \/ FillOnPaper \/ FillRefused =>
          pc \in Running /\ pc' # "back" /\ book' = book
    BY DEF Start, Take, Treasurer, Refuse, Submit, FillOnPaper, FillRefused, Moved, Running
  <2>3. TreasurerDies \/ KeepDies => pc' = "off" /\ book' = book
    BY DEF TreasurerDies, KeepDies
  <2>4. (\E i \in Indices : Startup(i)) => pc' = pc /\ book' = book
    BY DEF Startup
  <2>5. List => pc' = "start" /\ book' = book
    BY DEF List
  <2>6. TreasurerEnds => pc = "next" /\ book' = book
    BY DEF TreasurerEnds, Treasurer
  <2>7. Keep => pc' = "off"
    BY DEF Keep
  <2> QED BY <2>1, <2>2, <2>3, <2>4, <2>5, <2>6, <2>7 DEF Next
<1>2. UNCHANGED vars => pc' = pc /\ book' = book
  BY DEF vars
<1> QED BY <1>1, <1>2 DEF Running

LEMMA KeyStep == RebalanceInv /\ EndInv /\ KeyInv /\ [Next]_vars => KeyInv'
<1> SUFFICES ASSUME RebalanceInv, EndInv, KeyInv, [Next]_vars,
                    pc' \in Running \/ book' # Null
             PROVE  \E c \in {world'.config} \cup world'.edits :
                       record'.signer = PublishedKey(c.keys, Null)
  BY DEF KeyInv
<1>1. CASE pc \in Running \/ book # Null
  <2>1. UNCHANGED <<world, record>>
    BY <1>1, ListedKept
  <2> QED BY <1>1, <2>1 DEF KeyInv
<1>2. CASE ~ (pc \in Running \/ book # Null)
  <2>1. ~ Keep
    BY <1>2 DEF Keep, Running
  <2>2. List
    BY <1>2, <2>1, StartsAre
  <2>3. /\ record.signer = PublishedKey(disk.keys, Null)
        /\ UNCHANGED <<world, record>>
    BY <2>2 DEF List, Listed, Authorizes, given
  <2>4. disk \in {world.config} \cup world.edits
    BY DEF RebalanceInv, TypeOK
  <2> QED BY <2>3, <2>4
<1> QED BY <1>1, <1>2

LEMMA EndStep == RebalanceInv /\ EndInv /\ [Next]_vars => EndInv'
<1> SUFFICES ASSUME RebalanceInv, EndInv, [Next]_vars PROVE EndInv'
  OBVIOUS
<1>a. TypeOK /\ ControlInv
  BY DEF RebalanceInv
<1>1. CASE TreasurerEnds
  <2>1. /\ pc = "next" /\ pc' = "back" /\ {i \in In({"prepared"}) : i > cur} = {}
        /\ UNCHANGED <<record, row, book>>
    BY <1>1 DEF TreasurerEnds, Treasurer
  <2>2. book = Null
    BY <2>1 DEF EndInv
  <2>3. /\ record.approved \subseteq Indices /\ cur \in {0} \cup Indices
        /\ \A j \in Indices : j \in Nat /\ j # 0
    BY <1>a, OrdersTyped DEF TypeOK
  <2>4. ASSUME NEW i \in record.approved PROVE row[i].state \in Final
    <3>1. CASE i < cur
      BY <1>a, <2>1, <3>1 DEF ControlInv, Running
    <3>2. CASE i = cur
      BY <1>a, <2>1, <2>3, <3>2 DEF ControlInv, Running
    <3>3. CASE i > cur
      <4>1. row[i].state \in {"prepared", "refused"}
        BY <1>a, <2>1, <3>3 DEF ControlInv, Running
      <4>2. row[i].state # "prepared"
        BY <2>1, <2>3, <3>3 DEF In
      <4> QED BY <4>1, <4>2 DEF Final
    <3>4. i \in Nat /\ cur \in Nat
      <4>1. i \in Indices
        BY <2>3
      <4>2. cur \in Indices \/ cur = 0
        BY <2>3
      <4> QED BY <2>3, <4>1, <4>2
    <3> QED BY <3>1, <3>2, <3>3, <3>4
  <2> QED BY <2>1, <2>2, <2>4 DEF EndInv
<1>2. CASE Keep
  <2>1. /\ pc = "back" /\ pc' = "off" /\ book' = Document
        /\ UNCHANGED <<record, row, cash, hold>>
    BY <1>2 DEF Keep
  <2>2. \A i \in record.approved : row[i].state \in Final
    BY <2>1 DEF EndInv
  <2>3. book' = [cash |-> cash, hold |-> hold, nav |-> book'.nav]
    BY <2>1 DEF Document
  <2> QED BY <2>1, <2>2, <2>3 DEF EndInv
<1>3. CASE ~ TreasurerEnds /\ ~ Keep
  <2>1. book' = book /\ (pc' = "back" => pc = "back")
    BY <1>3, StartsAre
  <2>2. SUFFICES ASSUME pc = "back" \/ book # Null PROVE EndInv'
    BY <2>1 DEF EndInv
  <2>3. \A i \in record.approved : row[i].state \in Final
    BY <2>2 DEF EndInv
  <2>4. UNCHANGED <<record, plan>> /\ ~ Size /\ ~ FillOnPaper
    BY <2>2, ListedKept DEF Running, FillOnPaper, EndInv
  <2>5. record.approved \subseteq Indices
    BY <1>a DEF TypeOK
  <2>6. ASSUME NEW i \in record.approved PROVE row'[i].state \in Final
    <3>1. row'[i] = row[i] \/ Rewritten(i)
      BY <2>4, <2>5, RowMoves
    <3>2. ~ Rewritten(i)
      BY <2>3 DEF Rewritten, Final
    <3> QED BY <2>3, <3>1, <3>2
  <2>7. UNCHANGED <<cash, hold>>
    BY <2>4, BookSame
  <2>8. book # Null => pc' = "off"
    <3>1. pc = "off" => pc' = "off"
      BY DEF Next, Ready, Edit, Unvalued, Size, SizeRaises, Vote, List, ListRefused,
             ListDies, Start, Take, Treasurer, Refuse, Submit, FillOnPaper, FillRefused,
             TreasurerEnds, TreasurerDies, Keep, KeepDies, Startup, vars
    <3> QED BY <3>1 DEF EndInv
  <2> QED BY <2>1, <2>4, <2>6, <2>7, <2>8 DEF EndInv
<1> QED BY <1>1, <1>2, <1>3


-------------------------------------------------------------------------------
(* The invariant holds *)

LEMMA PageInit == Init => PageInv
<1> SUFFICES ASSUME Init PROVE PageInv
  OBVIOUS
<1>1. /\ cash = world.cash /\ hold = world.hold /\ plan.orders = << >> /\ pc = "keys"
      /\ book = Null /\ record.approved = {}
  BY DEF Init, Written
<1>2. RebalanceInv
  BY RebalanceInit
<1>a. TypeOK /\ Types2
  BY <1>2 DEF RebalanceInv
<1>3. Indices = {} /\ ConfirmedRows = {}
  BY <1>1 DEF Indices, ConfirmedRows, In
<1>4. FillInv /\ KeyInv /\ EndInv
  BY <1>1, <1>3 DEF FillInv, KeyInv, EndInv, Running
<1>5. CashInv /\ HoldInv
  <2>1. /\ Numbered(fill, Len(plan.orders)) /\ plan.orders \in Seq(AnyOrder)
        /\ world.cash \in Int /\ \A s \in Stocks : world.hold[s] \in Int
    BY <1>a, FillTyped, GivenTyped
  <2>2. CashOf(world.cash, plan.orders, {}, fill) = world.cash
    BY <2>1, BookEmpty
  <2>3. \A s \in Stocks :
          HoldOf(world.hold[s], plan.orders, {}, fill, s) = world.hold[s]
    BY <2>1, BookEmpty
  <2> QED BY <1>1, <1>3, <2>2, <2>3 DEF CashInv, HoldInv
<1> QED BY <1>4, <1>5, SourceInit DEF PageInv

LEMMA PageStep ==
  RebalanceInv /\ RebalanceInv' /\ PageInv /\ [Next]_vars => PageInv'
<1> SUFFICES ASSUME RebalanceInv, RebalanceInv', PageInv, [Next]_vars PROVE PageInv'
  OBVIOUS
<1>1. FillInv /\ CashInv /\ HoldInv /\ SourceInv /\ KeyInv /\ EndInv
  BY DEF PageInv
<1>2. FillInv' /\ CashInv' /\ HoldInv' /\ SourceInv' /\ KeyInv' /\ EndInv'
  BY <1>1, FillStep, LedgerStep, SourceStep, KeyStep, EndStep
<1> QED BY <1>2 DEF PageInv


-------------------------------------------------------------------------------
(* The sections of the page *)

(* The overview's sums are the journal's.                                   *)
LEMMA FilledIs ==
  ASSUME TypeOK
  PROVE  \A side, S :
           /\ Got(FilledOn(side, S)) = Flow(fill, plan.orders, ConfirmedRows, side, S)
           /\ Gave(FilledOn(side, S))
                = Flow(SellsIn(plan.orders), plan.orders, ConfirmedRows, side, S)
<1> SUFFICES ASSUME NEW side, NEW S
             PROVE  /\ Got(FilledOn(side, S)) = Flow(fill, plan.orders, ConfirmedRows, side, S)
                    /\ Gave(FilledOn(side, S))
                         = Flow(SellsIn(plan.orders), plan.orders, ConfirmedRows, side, S)
  OBVIOUS
<1> DEFINE T == Traded(plan.orders, ConfirmedRows, side, S)
           n == Len(plan.orders)
<1>1. FilledOn(side, S) = T
  BY DEF FilledOn, Traded, Side, ConfirmedRows, In, Indices
<1>2. Indices = 1..n /\ Indices = DOMAIN plan.orders
  BY OrdersTyped DEF Indices
<1> HIDE DEF T, n
<1>3. Masked(fill, n, T) = [i \in Indices |-> IF i \in T THEN fill[i] ELSE 0]
  BY <1>2 DEF Masked
<1>4. Masked(SellsIn(plan.orders), n, T)
        = [i \in Indices |-> IF i \in T THEN plan.orders[i].sell ELSE 0]
  BY <1>2 DEF Masked, SellsIn
<1> QED BY <1>1, <1>3, <1>4 DEF Got, Gave, Flow, T, n

LEMMA TimesSame == \A x, y \in Nat : x * y = y * x
  OBVIOUS

LEMMA OverviewAgrees ==
  ASSUME RebalanceInv, PageInv, book # Null
  PROVE  OverviewIsTheLedger
<1>a. /\ TypeOK /\ CashInv /\ HoldInv
      /\ book = [cash |-> cash, hold |-> hold, nav |-> book.nav]
  BY DEF RebalanceInv, PageInv, EndInv
<1>b. cash \in Nat /\ hold \in [Stocks -> Nat] /\ CashMark \in Nat
  BY <1>a, FillTyped, MarksTyped
<1>c. /\ book.cash = cash /\ book.hold = hold
  BY <1>a
<1>1. Overview.cash = cash * CashMark
  BY <1>c DEF Overview
<1>2. Overview.holdings = [s \in {t \in Stocks : hold[t] > 0} |-> hold[s] * Mark[s]]
  BY <1>c DEF Overview
<1>3. cash = world.cash + Got(FilledOn("sell", Stocks)) - Gave(FilledOn("buy", Stocks))
  BY <1>a, FilledIs DEF CashInv, CashOf
<1>4. Overview.cash = CashMark * (world.cash + Got(FilledOn("sell", Stocks))
                                             - Gave(FilledOn("buy", Stocks)))
  <2>1. cash * CashMark = CashMark * cash
    BY <1>b, TimesSame
  <2> QED BY <1>1, <1>3, <2>1
<1>5. ASSUME NEW s \in Stocks
      PROVE  LET now == world.hold[s] + Got(FilledOn("buy", {s}))
                                      - Gave(FilledOn("sell", {s}))
             IN  IF now = 0 THEN s \notin DOMAIN Overview.holdings
                 ELSE Overview.holdings[s] = now * Mark[s]
  <2>1. hold[s] = world.hold[s] + Got(FilledOn("buy", {s}))
                                - Gave(FilledOn("sell", {s}))
    BY <1>a, FilledIs DEF HoldInv, HoldOf
  <2>2. hold[s] \in Nat
    BY <1>b
  <2>3. IF hold[s] = 0 THEN s \notin DOMAIN Overview.holdings
        ELSE Overview.holdings[s] = hold[s] * Mark[s]
    BY <1>2, <2>2
  <2> QED BY <2>1, <2>3
<1> QED BY <1>4, <1>5 DEF OverviewIsTheLedger

LEMMA RiskAgrees ==
  ASSUME RebalanceInv, PageInv, book # Null
  PROVE  RiskIsTheStore
<1>a. /\ RowsInv /\ FillInv /\ record.approved \subseteq Cleared
      /\ \A i \in record.approved : row[i].state \in Final
  BY DEF RebalanceInv, PageInv, SourceInv, EndInv
<1>1. ASSUME NEW i \in Indices, i \in record.approved
      PROVE  /\ RiskCard(i).status = "approved"
             /\ row[i].state \in Final /\ RiskCard(i).decidedBy = "both"
  BY <1>a, <1>1 DEF RiskCard
<1>2. ASSUME NEW i \in Indices, i \notin record.approved
      PROVE  /\ RiskCard(i).status # "approved"
             /\ row[i].state = "none" /\ fill[i] = 0
  <2>1. row[i].state = "none"
    BY <1>a, <1>2 DEF RowsInv
  <2>2. fill[i] = 0
    BY <1>a, <2>1 DEF FillInv
  <2> QED BY <1>2, <2>1, <2>2 DEF RiskCard
<1> QED BY <1>1, <1>2 DEF RiskIsTheStore

(* Approved and vetoed are the plan's orders.                               *)
LEMMA CountsAgree ==
  ASSUME RebalanceInv
  PROVE  RecordSection.approved + RecordSection.vetoed = Len(plan.orders)
<1>a. /\ Indices = 1..Len(plan.orders) /\ Len(plan.orders) \in Nat
      /\ record.approved \subseteq Indices
  BY OrdersTyped DEF RebalanceInv, TypeOK
<1> DEFINE n == Len(plan.orders)
           A == record.approved
           I == Indices
<1>1. IsFiniteSet(I) /\ Cardinality(I) = n
  <2> HIDE DEF n
  <2>1. IsFiniteSet(1..n) /\ Cardinality(1..n) = n
    BY <1>a, FS_Interval DEF n
  <2> QED BY <1>a, <2>1 DEF n
<1>2. I \cap A = A /\ A \in SUBSET I
  BY <1>a
<1> HIDE DEF n, A, I
<1>3. Cardinality(I \ A) = Cardinality(I) - Cardinality(I \cap A)
  BY <1>1, FS_Difference
<1>4. Cardinality(A) \in Nat
  <2>1. IsFiniteSet(A)
    BY <1>1, <1>2, FS_Subset
  <2> QED BY <2>1, FS_CardinalityType
<1>5. Cardinality(A) + Cardinality(I \ A) = n
  <2>1. Cardinality(I \ A) = n - Cardinality(A)
    BY <1>1, <1>2, <1>3
  <2>2. n \in Nat
    BY <1>a DEF n
  <2> QED BY <1>4, <2>1, <2>2
<1> QED BY <1>5 DEF RecordSection, n, A, I


(* What a report of the record says is a call its seat's result made.       *)
LEMMA SaidIsCalled ==
  ASSUME world \in Worlds, record.reports \subseteq Accepted, NEW s, NEW kind,
         NEW x \in Said(record.reports, kind, s)
  PROVE  /\ x.seat \in DOMAIN Kind /\ Kind[x.seat] = kind
         /\ Swarm[x.seat].status = "reported"
         /\ \E y \in Swarm[x.seat].calls : y.stock = s /\ y.word = x.word
<1>1. PICK r \in Calling(record.reports, kind, s) : x = Contribution(r, s)
  BY DEF Said
<1> DEFINE c == CHOOSE y \in r.calls : y.stock = s
<1>2. r \in record.reports /\ Kind[r.seat] = kind /\ \E y \in r.calls : y.stock = s
  BY DEF Calling
<1>3. c \in r.calls /\ c.stock = s /\ x.word = c.word /\ x.seat = r.seat
  BY <1>1, <1>2 DEF Contribution
<1> HIDE DEF c
<1>4. PICK o \in Offered : r = [seat |-> o.seat, calls |-> Calls(o.report)]
  BY <1>2 DEF Accepted, Checked
<1>5. o \in world.offered /\ o.seat = r.seat
  BY <1>4 DEF Offered
<1>6. r.seat \in DOMAIN Kind
  BY <1>5, SeatsAssumption
<1>7. Swarm[r.seat] =
        [status |-> IF \E q \in record.reports : q.seat = r.seat
                    THEN "reported" ELSE "failed",
         calls  |-> UNION {Calls(q.report) : q \in {y \in Offered : y.seat = r.seat}}]
  BY <1>6 DEF Swarm
<1>8. Swarm[r.seat].status = "reported"
  BY <1>2, <1>7
<1>9. c \in Swarm[r.seat].calls
  <2>1. c \in Calls(o.report) /\ o.seat = r.seat
    BY <1>3, <1>4
  <2> QED BY <1>7, <2>1
<1> QED BY <1>2, <1>3, <1>6, <1>8, <1>9

(* A seat says one thing of a stock.                                        *)
LEMMA SaidOnce ==
  ASSUME world \in Worlds, record.reports \subseteq Accepted, NEW s,
         NEW x \in Said(record.reports, "direction", s)
                     \cup Said(record.reports, "condition", s),
         NEW y \in Said(record.reports, "direction", s)
                     \cup Said(record.reports, "condition", s),
         x.seat = y.seat
  PROVE  x = y
<1>1. PICK r \in record.reports : x = Contribution(r, s)
  BY DEF Said, Calling
<1>2. PICK q \in record.reports : y = Contribution(q, s)
  BY DEF Said, Calling
<1>3. PICK o \in Offered : r = [seat |-> o.seat, calls |-> Calls(o.report)]
  BY DEF Accepted, Checked
<1>4. PICK p \in Offered : q = [seat |-> p.seat, calls |-> Calls(p.report)]
  BY DEF Accepted, Checked
<1>5. r.seat = q.seat
  BY <1>1, <1>2 DEF Contribution
<1>6. o = p
  BY <1>3, <1>4, <1>5, SeatsAssumption DEF Offered
<1> QED BY <1>1, <1>2, <1>3, <1>4, <1>6

(* A seat that leans one way is shown with that word.                       *)
LEMMA LeaningShown ==
  ASSUME world \in Worlds, record.reports \subseteq Accepted, NEW s, NEW word,
         Leans(word, record.reports, s)
  PROVE  \E seat \in DOMAIN DecisionRow(s).words : DecisionRow(s).words[seat] = word
<1> DEFINE said == Said(record.reports, "direction", s)
                     \cup Said(record.reports, "condition", s)
<1>1. PICK x \in Said(record.reports, "direction", s) : x.word = word
  BY DEF Leans, Said
<1>2. x \in said
  OBVIOUS
<1> DEFINE y == CHOOSE z \in said : z.seat = x.seat
<1>3. y \in said /\ y.seat = x.seat
  BY <1>2
<1>4. y = x
  BY <1>2, <1>3, SaidOnce
<1>5. DecisionRow(s).words = [seat \in {z.seat : z \in said} |->
                                (CHOOSE z \in said : z.seat = seat).word]
  BY DEF DecisionRow
<1> HIDE DEF said
<1>6. x.seat \in DOMAIN DecisionRow(s).words /\ DecisionRow(s).words[x.seat] = y.word
  BY <1>2, <1>5
<1> QED BY <1>1, <1>4, <1>6

(* A position that moved was moved by the orders on its stock.              *)
LEMMA MovedByOrder ==
  ASSUME RebalanceInv, HoldInv, NEW s \in Stocks
  PROVE  /\ hold[s] > world.hold[s] =>
              \E i \in Indices : plan.orders[i].side = "buy" /\ plan.orders[i].stock = s
         /\ hold[s] < world.hold[s] =>
              \E i \in Indices : plan.orders[i].side = "sell" /\ plan.orders[i].stock = s
<1>a. TypeOK /\ Types2
  BY DEF RebalanceInv
<1> DEFINE h == SellsIn(plan.orders)
           C == ConfirmedRows
           bought == Flow(fill, plan.orders, C, "buy", {s})
           sold == Flow(h, plan.orders, C, "sell", {s})
<1>b. /\ Numbered(fill, Len(plan.orders)) /\ plan.orders \in Seq(AnyOrder)
      /\ Numbered(h, Len(plan.orders)) /\ Indices = DOMAIN plan.orders
      /\ \A i \in DOMAIN plan.orders : fill[i] \in Nat /\ h[i] \in Nat
  <2>1. Numbered(fill, Len(plan.orders)) /\ plan.orders \in Seq(AnyOrder)
        /\ Indices = DOMAIN plan.orders
    BY <1>a, FillTyped
  <2>2. Numbered(h, Len(plan.orders)) /\ \A i \in DOMAIN plan.orders : h[i] = plan.orders[i].sell
    BY <2>1, SellsInTyped
  <2>3. \A i \in DOMAIN plan.orders : plan.orders[i] \in AnyOrder
    BY <2>1
  <2>4. \A i \in DOMAIN plan.orders : fill[i] \in Nat
    BY <1>a, <2>1 DEF TypeOK
  <2> QED BY <2>1, <2>2, <2>3, <2>4 DEF AnyOrder
<1>1. hold[s] = world.hold[s] + bought - sold
  BY DEF HoldInv, HoldOf
<1>2. world.hold[s] \in Int /\ bought \in Int /\ sold \in Int
  <2>1. world.hold[s] \in Int
    BY <1>a, GivenTyped
  <2>2. bought \in Int /\ sold \in Int
    BY <1>b, FlowTyped
  <2> QED BY <2>1, <2>2
<1>3. bought >= 0 /\ sold >= 0
  BY <1>b, FlowNat
<1>4. bought # 0 =>
        \E i \in Indices : plan.orders[i].side = "buy" /\ plan.orders[i].stock = s
  <2>1. bought # 0 => Traded(plan.orders, C, "buy", {s}) # {}
    BY <1>b, FlowTyped
  <2> QED BY <1>b, <2>1 DEF Traded
<1>5. sold # 0 =>
        \E i \in Indices : plan.orders[i].side = "sell" /\ plan.orders[i].stock = s
  <2>1. sold # 0 => Traded(plan.orders, C, "sell", {s}) # {}
    BY <1>b, FlowTyped
  <2> QED BY <1>b, <2>1 DEF Traded
<1> HIDE DEF bought, sold
<1> QED BY <1>1, <1>2, <1>3, <1>4, <1>5

LEMMA TimesPositive == \A x, y \in Nat \ {0} : x * y > 0
  OBVIOUS

LEMMA WorthPositive ==
  ASSUME NEW o \in AnyOrder
  PROVE  Worth(o) > 0
<1>1. o.sell \in Nat \ {0} /\ o.stock \in Stocks
  BY DEF AnyOrder
<1> DEFINE m == IF o.side = "buy" THEN CashMark ELSE Mark[o.stock]
<1>2. m \in Nat \ {0}
  BY <1>1, MarksAssumption DEF Stocks
<1> HIDE DEF m
<1>3. o.sell * m > 0
  BY <1>1, <1>2, TimesPositive
<1> QED BY <1>3 DEF Worth, m

LEMMA SeatsAgree ==
  ASSUME RebalanceInv, PageInv, book # Null
  PROVE  SeatsExplainMoves
<1>a. /\ TypeOK /\ Types2 /\ HoldInv /\ SourceInv
      /\ book.hold = hold /\ world \in Worlds /\ record.reports \subseteq Accepted
  BY DEF RebalanceInv, PageInv, EndInv, SourceInv, Types2
<1>b. /\ plan.orders \in Seq(Parts) /\ Indices = DOMAIN plan.orders
      /\ \A i \in Indices : plan.orders[i] \in AnyOrder
  BY <1>a, OrdersTyped DEF Indices
<1> SUFFICES ASSUME NEW s \in Stocks
             PROVE  LET shown == DecisionRow(s)
                    IN  /\ \A seat \in DOMAIN shown.words :
                             /\ Swarm[seat].status = "reported"
                             /\ \E x \in Swarm[seat].calls :
                                   x.stock = s /\ x.word = shown.words[seat]
                        /\ book.hold[s] # world.hold[s] =>
                             /\ shown.move > 0
                             /\ \E seat \in DOMAIN shown.words :
                                   shown.words[seat] = IF book.hold[s] > world.hold[s]
                                                       THEN "buy" ELSE "sell"
  BY DEF SeatsExplainMoves
<1> DEFINE words == DecisionRow(s).words
           move == DecisionRow(s).move
           said == Said(record.reports, "direction", s)
                     \cup Said(record.reports, "condition", s)
<1>1. /\ words = [seat \in {x.seat : x \in said} |->
                    (CHOOSE x \in said : x.seat = seat).word]
      /\ move = WorthOf(plan.orders, {i \in Indices : plan.orders[i].stock = s})
  BY DEF DecisionRow
<1>2. ASSUME NEW seat \in DOMAIN words
      PROVE  /\ Swarm[seat].status = "reported"
             /\ \E x \in Swarm[seat].calls : x.stock = s /\ x.word = words[seat]
  <2> DEFINE z == CHOOSE x \in said : x.seat = seat
  <2>1. words[seat] = z.word /\ \E x \in said : x.seat = seat
    <3> HIDE DEF said
    <3> QED BY <1>1
  <2>2. z \in said /\ z.seat = seat
    <3> HIDE DEF said
    <3> QED BY <2>1
  <2> HIDE DEF z
  <2>3. /\ Swarm[z.seat].status = "reported"
        /\ \E y \in Swarm[z.seat].calls : y.stock = s /\ y.word = z.word
    BY <1>a, <2>2, SaidIsCalled
  <2> HIDE DEF words
  <2> QED BY <2>1, <2>2, <2>3
<1>3. ASSUME NEW i \in Indices, plan.orders[i].stock = s
      PROVE  /\ move > 0
             /\ \E seat \in DOMAIN words : words[seat] = plan.orders[i].side
  <2>1. Worth(plan.orders[i]) > 0
    BY <1>b, WorthPositive
  <2>2. Worth(plan.orders[i]) <= move
    <3> DEFINE S == {j \in Indices : plan.orders[j].stock = s}
    <3>1. i \in S /\ move = WorthOf(plan.orders, S) /\ i \in DOMAIN plan.orders
      BY <1>b, <1>1, <1>3
    <3> HIDE DEF S, move
    <3> QED BY <1>b, <3>1, WorthOfOne
  <2>3. move \in Nat /\ Worth(plan.orders[i]) \in Nat
    BY <1>b, <1>1, WorthsTyped, WorthTyped, AnyOrderIsPart
  <2>4. move > 0
    <3> HIDE DEF move
    <3> QED BY <2>1, <2>2, <2>3
  <2>5. Leans(plan.orders[i].side, record.reports, s)
    BY <1>a, <1>3 DEF SourceInv, OrderLeans
  <2>6. \E seat \in DOMAIN words : words[seat] = plan.orders[i].side
    BY <1>a, <2>5, LeaningShown
  <2> QED BY <2>4, <2>6
<1>4. world.hold[s] \in Int /\ hold[s] \in Nat
  BY <1>a, GivenTyped, FillTyped
<1> HIDE DEF words, move
<1>5. ASSUME hold[s] # world.hold[s]
      PROVE  /\ move > 0
             /\ \E seat \in DOMAIN words :
                   words[seat] = IF hold[s] > world.hold[s] THEN "buy" ELSE "sell"
  <2>1. CASE hold[s] > world.hold[s]
    <3>1. PICK i \in Indices : plan.orders[i].side = "buy" /\ plan.orders[i].stock = s
      BY <1>a, <2>1, MovedByOrder
    <3> QED BY <1>3, <2>1, <3>1
  <2>2. CASE ~ (hold[s] > world.hold[s])
    <3>1. hold[s] < world.hold[s]
      BY <1>4, <1>5, <2>2
    <3>2. PICK i \in Indices : plan.orders[i].side = "sell" /\ plan.orders[i].stock = s
      BY <1>a, <3>1, MovedByOrder
    <3> QED BY <1>3, <2>2, <3>2
  <2> QED BY <2>1, <2>2
<1> QED BY <1>a, <1>2, <1>5 DEF words, move


LEMMA PageHolds == RebalanceInv /\ PageInv => PageAgrees
<1> SUFFICES ASSUME RebalanceInv, PageInv, Shown PROVE PageAgrees
  BY DEF PageAgrees
<1>1. book # Null
  BY DEF Shown
<1>2. OverviewIsTheLedger /\ RiskIsTheStore /\ SeatsExplainMoves
  BY <1>1, OverviewAgrees, RiskAgrees, SeatsAgree
<1>3. RecordSection.approved + RecordSection.vetoed = Len(plan.orders)
  BY CountsAgree
<1>4. RecordSection.signer \in
        {PublishedKey(c.keys, Null) : c \in {world.config} \cup world.edits}
  BY <1>1 DEF PageInv, KeyInv, RecordSection
<1> QED BY <1>2, <1>3, <1>4 DEF PageAgrees

-------------------------------------------------------------------------------
(* Theorems *)

(* The paper book is always what the cycle began with and every fill since, *)
(* in cash and in each stock; every order of a plan goes the way an         *)
(* accepted report leans; and a book kept beside a record is the last the   *)
(* decision will ever have.                                                 *)
THEOREM PageAlways == Spec => []PageInv
<1>1. RebalanceInv /\ RebalanceInv' /\ PageInv /\ [Next]_vars => PageInv'
  BY PageStep
<1> QED BY PageInit, RebalanceAlways, <1>1, PTL DEF Spec

(* What the page shows of a decision agrees, across its sections, with the  *)
(* journal's fills, the orders table, the seats' reports and a published    *)
(* key: for any decision, and through kills, edits and later runs.          *)
THEOREM PageTells == Spec => []PageAgrees
<1>1. RebalanceInv /\ PageInv => PageAgrees
  BY PageHolds
<1> QED BY RebalanceAlways, PageAlways, <1>1, PTL

=============================================================================
