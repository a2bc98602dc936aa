------------------------------ MODULE FoldSteps ------------------------------
(***************************************************************************)
(* What FoldLeft of the community modules computes: it is defined over the  *)
(* subsets of a sequence's domain, by a recursive function, and is shown    *)
(* here to take one element at a time.                                      *)
(***************************************************************************)
EXTENDS Naturals, SequencesExt, NaturalsInduction, SequenceTheorems,
        WellFoundedInduction, TLAPS

CONSTANTS
  Op(_, _),  \* one step: what was folded so far, and the next element
  Base       \* what an empty sequence folds to

Fold(s) == FoldLeft(Op, Base, s)

(* The function FoldLeft chooses, over the first n elements.                *)
Chosen(f, s, n) ==
  f = [d \in SUBSET (1..n) |->
         IF d = {} THEN Base ELSE Op(f[d \ {Max(d)}], s[Max(d)])]

(* A set of numbers that has a member has a least one.                      *)
LEMMA LeastNumber ==
  ASSUME NEW S \in SUBSET Nat, S # {}
  PROVE  \E n \in S : \A m \in S : n <= m
<1>1. \E n \in S : \A m \in S : ~ (<<m, n>> \in OpToRel(<, Nat))
  BY NatLessThanWellFounded, WFMin
<1>2. PICK n \in S : \A m \in S : ~ (<<m, n>> \in OpToRel(<, Nat))
  BY <1>1
<1>3. \A m \in S : ~ (m < n)
  BY <1>2 DEF OpToRel
<1> QED BY <1>3

(* The greatest of some of the first numbers.                               *)
LEMMA MaxOf ==
  ASSUME NEW n \in Nat, NEW d \in SUBSET (1..n), d # {}
  PROVE  Max(d) \in d /\ \A x \in d : x <= Max(d)
<1> DEFINE B == {m \in Nat : \A x \in d : x <= m}
<1>1. n \in B /\ B \in SUBSET Nat
  OBVIOUS
<1>2. PICK m \in B : \A k \in B : m <= k
  BY <1>1, LeastNumber
<1>3. m \in d
  <2>1. SUFFICES ASSUME m \notin d PROVE FALSE
    OBVIOUS
  <2>2. PICK x \in d : TRUE
    OBVIOUS
  <2>3. m > 0 /\ m - 1 \in Nat
    BY <1>2, <2>1, <2>2
  <2>4. m - 1 \in B
    BY <1>2, <2>1, <2>3
  <2> QED BY <1>2, <2>3, <2>4
<1>4. \E x \in d : \A y \in d : x >= y
  BY <1>2, <1>3
<1>5. Max(d) \in d /\ \A y \in d : Max(d) >= y
  BY <1>4 DEF Max
<1> QED BY <1>5

LEMMA MaxIs ==
  ASSUME NEW n \in Nat, NEW d \in SUBSET (1..(n + 1)), n + 1 \in d
  PROVE  Max(d) = n + 1
<1> DEFINE x == Max(d)
<1>1. d \in SUBSET (1..(n + 1)) /\ n + 1 \in Nat /\ d # {}
  OBVIOUS
<1>2. x \in d /\ \A y \in d : y <= x
  BY <1>1, MaxOf
<1> HIDE DEF x
<1>3. x \in 1..(n + 1) /\ n + 1 <= x
  BY <1>1, <1>2
<1>4. x = n + 1
  BY <1>3
<1> QED BY <1>4 DEF x

(* There is such a function, whatever the length: one for n elements        *)
(* extends to n + 1.                                                        *)
LEMMA FoldExists ==
  ASSUME NEW s, NEW n \in Nat
  PROVE  \E f : Chosen(f, s, n)
<1> DEFINE Missing == {k \in Nat : ~ \E f : Chosen(f, s, k)}
<1>1. SUFFICES ASSUME Missing # {} PROVE FALSE
  OBVIOUS
<1>2. PICK k \in Missing : \A m \in Missing : k <= m
  BY <1>1, LeastNumber
<1>3. CASE k = 0
  <2> DEFINE f == [d \in SUBSET (1..0) |-> Base]
  <2>1. \A d \in SUBSET (1..0) : d = {}
    OBVIOUS
  <2>2. Chosen(f, s, 0)
    BY <2>1 DEF Chosen
  <2> QED BY <1>2, <1>3, <2>2
<1>4. CASE k # 0
  <2> DEFINE m == k - 1
  <2>1. m \in Nat /\ k = m + 1
    BY <1>4
  <2>2. PICK f : Chosen(f, s, m)
    BY <1>2, <2>1
  <2> DEFINE g == [d \in SUBSET (1..k) |->
                     IF k \in d THEN Op(f[d \ {k}], s[k]) ELSE f[d]]
  <2>3. ASSUME NEW d \in SUBSET (1..k)
        PROVE  g[d] = IF d = {} THEN Base ELSE Op(g[d \ {Max(d)}], s[Max(d)])
    <3>1. CASE k \in d
      <4>1. Max(d) = k
        BY <2>1, <3>1, MaxIs
      <4>2. d \ {k} \in SUBSET (1..k) /\ k \notin d \ {k} /\ d # {}
        BY <3>1
      <4>3. g[d] = Op(f[d \ {k}], s[k]) /\ g[d \ {k}] = f[d \ {k}]
        BY <3>1, <4>2
      <4> HIDE DEF g
      <4> QED BY <4>1, <4>2, <4>3
    <3>2. CASE k \notin d
      <4>1. d \in SUBSET (1..m)
        BY <2>1, <3>2
      <4>2. f[d] = IF d = {} THEN Base ELSE Op(f[d \ {Max(d)}], s[Max(d)])
        BY <2>2, <4>1 DEF Chosen
      <4>3. d \ {Max(d)} \in SUBSET (1..k) /\ k \notin d \ {Max(d)}
        BY <3>2
      <4>4. g[d] = f[d] /\ g[d \ {Max(d)}] = f[d \ {Max(d)}]
        BY <3>2, <4>3
      <4> HIDE DEF g
      <4> QED BY <4>2, <4>4
    <3> QED BY <3>1, <3>2
  <2>4. g = [d \in SUBSET (1..k) |-> g[d]]
    OBVIOUS
  <2> HIDE DEF g
  <2>5. Chosen(g, s, k)
    BY <2>3, <2>4 DEF Chosen
  <2> QED BY <1>2, <2>5
<1> QED BY <1>3, <1>4

(* Two of them agree as far as the sequences do.                            *)
LEMMA FoldAgrees ==
  ASSUME NEW s, NEW t, NEW n \in Nat, NEW m \in Nat, n <= m,
         NEW f, Chosen(f, s, n), NEW g, Chosen(g, t, m),
         \A i \in 1..n : s[i] = t[i]
  PROVE  \A d \in SUBSET (1..n) : f[d] = g[d]
<1> DEFINE Differ == {k \in 0..n : \E d \in SUBSET (1..k) : f[d] # g[d]}
<1>1. SUFFICES ASSUME Differ # {} PROVE FALSE
  OBVIOUS
<1>2. Differ \in SUBSET Nat
  OBVIOUS
<1>3. PICK k \in Differ : \A j \in Differ : k <= j
  BY <1>1, <1>2, LeastNumber
<1>4. PICK d \in SUBSET (1..k) : f[d] # g[d]
  BY <1>3
<1>5. /\ d \in SUBSET (1..n) /\ d \in SUBSET (1..m)
      /\ f[d] = IF d = {} THEN Base ELSE Op(f[d \ {Max(d)}], s[Max(d)])
      /\ g[d] = IF d = {} THEN Base ELSE Op(g[d \ {Max(d)}], t[Max(d)])
  <2>1. d \in SUBSET (1..n) /\ d \in SUBSET (1..m)
    BY <1>2, <1>3
  <2> QED BY <2>1 DEF Chosen
<1>6. d # {} /\ Max(d) \in d /\ \A x \in d : x <= Max(d)
  <2>1. d # {}
    BY <1>4, <1>5
  <2> QED BY <1>5, <2>1, MaxOf
<1> DEFINE x == Max(d)
<1>7. x \in d /\ \A y \in d : y <= x
  BY <1>6
<1> HIDE DEF x
<1>8. x \in 1..k /\ x \in 1..n
  BY <1>5, <1>7
<1>9. f[d \ {x}] = g[d \ {x}]
  <2>1. x - 1 \in 0..n /\ ~ (k <= x - 1)
    BY <1>3, <1>8
  <2>2. d \ {x} \in SUBSET (1..(x - 1))
    BY <1>5, <1>7, <1>8
  <2>3. x - 1 \notin Differ
    BY <1>3, <2>1
  <2> QED BY <2>1, <2>2, <2>3
<1>10. s[Max(d)] = t[Max(d)]
  BY <1>5, <1>6
<1> QED BY <1>4, <1>5, <1>6, <1>9, <1>10 DEF x

(* What Fold stands for.                                                    *)
LEMMA FoldIs ==
  ASSUME NEW s, NEW n \in Nat, DOMAIN s = 1..n, NEW f, Chosen(f, s, n)
  PROVE  Fold(s) = f[1..n]
<1> DEFINE c == CHOOSE g : Chosen(g, s, n)
<1>1. Fold(s) = c[1..n]
  BY DEF Fold, FoldLeft, MapThenFoldSet, Chosen
<1>2. Chosen(c, s, n)
  BY FoldExists
<1> HIDE DEF c
<1>3. \A d \in SUBSET (1..n) : f[d] = c[d]
  BY <1>2, FoldAgrees
<1> QED BY <1>1, <1>3

(* FoldLeft of the empty sequence.                                          *)
THEOREM FoldEmpty == Fold(<<>>) = Base
<1>1. PICK f : Chosen(f, <<>>, 0)
  BY FoldExists
<1>2. Fold(<<>>) = f[1..0] /\ 1..0 = {}
  BY <1>1, FoldIs
<1>3. f[{}] = Base
  BY <1>1 DEF Chosen
<1> QED BY <1>2, <1>3

(* FoldLeft of a sequence and one more element.                             *)
THEOREM FoldAppend ==
  ASSUME NEW T, NEW s \in Seq(T), NEW e \in T
  PROVE  Fold(Append(s, e)) = Op(Fold(s), e)
<1> DEFINE n == Len(s)
           t == Append(s, e)
<1>1. /\ n \in Nat /\ DOMAIN s = 1..n /\ DOMAIN t = 1..(n + 1)
      /\ t[n + 1] = e /\ \A i \in 1..n : s[i] = t[i]
  OBVIOUS
<1> HIDE DEF n, t
<1>2. PICK f : Chosen(f, s, n)
  BY <1>1, FoldExists
<1>3. PICK g : Chosen(g, t, n + 1)
  <2>1. n + 1 \in Nat
    BY <1>1
  <2> QED BY <2>1, FoldExists
<1>4. Fold(s) = f[1..n] /\ Fold(t) = g[1..(n + 1)]
  <2>1. Fold(s) = f[1..n]
    BY <1>1, <1>2, FoldIs
  <2>2. n + 1 \in Nat
    BY <1>1
  <2>3. Fold(t) = g[1..(n + 1)]
    BY <1>1, <1>3, <2>2, FoldIs
  <2> QED BY <2>1, <2>3
<1>5. f[1..n] = g[1..n]
  <2>1. n <= n + 1 /\ n + 1 \in Nat
    BY <1>1
  <2>2. \A d \in SUBSET (1..n) : f[d] = g[d]
    BY <1>1, <1>2, <1>3, <2>1, FoldAgrees
  <2> QED BY <2>2
<1>6. g[1..(n + 1)] = Op(g[1..n], t[n + 1])
  <2>1. Max(1..(n + 1)) = n + 1 /\ 1..(n + 1) # {} /\ (1..(n + 1)) \ {n + 1} = 1..n
    <3>1. n + 1 \in 1..(n + 1) /\ 1..(n + 1) \in SUBSET (1..(n + 1))
          /\ (1..(n + 1)) \ {n + 1} = 1..n
      BY <1>1
    <3>2. Max(1..(n + 1)) = n + 1
      BY <1>1, <3>1, MaxIs
    <3> QED BY <3>1, <3>2
  <2>2. g[1..(n + 1)] = Op(g[(1..(n + 1)) \ {Max(1..(n + 1))}], t[Max(1..(n + 1))])
    BY <1>3, <2>1 DEF Chosen
  <2> QED BY <2>1, <2>2
<1> QED BY <1>1, <1>4, <1>5, <1>6 DEF t

=============================================================================
