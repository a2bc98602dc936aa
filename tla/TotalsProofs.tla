---------------------------- MODULE TotalsProofs ----------------------------
(***************************************************************************)
(* What a sum of a list comes to, for any list of numbers.                  *)
(***************************************************************************)
EXTENDS Totals, SequenceTheorems, TLAPS

Sums == INSTANCE FoldSteps WITH Op <- Plus, Base <- 0

(* A sum takes one number at a time.                                        *)
LEMMA TotalStep ==
  /\ Total(<<>>) = 0
  /\ \A s \in Seq(Int), x \in Int : Total(Append(s, x)) = Total(s) + x
<1>1. \A s : Total(s) = Sums!Fold(s)
  BY DEF Total, Sums!Fold, Sums!FoldLeft, FoldLeft, Sums!MapThenFoldSet, MapThenFoldSet,
         Max, Sums!Max
<1>2. Sums!Fold(<<>>) = 0
  BY Sums!FoldEmpty
<1>3. ASSUME NEW s \in Seq(Int), NEW x \in Int
      PROVE  Sums!Fold(Append(s, x)) = Plus(Sums!Fold(s), x)
  BY Sums!FoldAppend
<1>4. \A s \in Seq(Int), x \in Int : Sums!Fold(Append(s, x)) = Sums!Fold(s) + x
  BY <1>3 DEF Plus
<1> QED BY <1>1, <1>2, <1>4

LEMMA LeastNumber ==
  ASSUME NEW S \in SUBSET Nat, S # {}
  PROVE  \E n \in S : \A m \in S : n <= m
  BY Sums!LeastNumber

(* A sum of numbers is one; of naturals, a natural.                         *)
LEMMA TotalType ==
  /\ \A s \in Seq(Int) : Total(s) \in Int
  /\ \A s \in Seq(Nat) : Total(s) \in Nat
<1>1. ASSUME NEW T, T = Int \/ T = Nat, NEW r \in Seq(T), Total(r) \notin T PROVE FALSE
  <2> DEFINE Bad == {n \in Nat : \E s \in Seq(T) : Len(s) = n /\ Total(s) \notin T}
  <2>1. Len(r) \in Bad
    BY <1>1
  <2>2. PICK n \in Bad : \A m \in Bad : n <= m
    BY <2>1, LeastNumber
  <2>3. PICK s \in Seq(T) : Len(s) = n /\ Total(s) \notin T
    BY <2>2
  <2>4. s # <<>>
    BY <1>1, <2>3, TotalStep
  <2>5. PICK t \in Seq(T), x \in T : s = Append(t, x)
    BY <2>4, SequenceEmptyOrAppend
  <2>6. Len(t) \in Nat /\ Len(t) < n
    BY <2>3, <2>5
  <2>7. Total(t) \in T
    BY <2>2, <2>6
  <2>8. t \in Seq(Int) /\ x \in Int
    BY <1>1, <2>5
  <2>9. Total(s) = Total(t) + x
    BY <2>5, <2>8, TotalStep
  <2>10. CASE T = Int
    BY <2>3, <2>5, <2>7, <2>9, <2>10
  <2>11. CASE T = Nat
    BY <2>3, <2>5, <2>7, <2>9, <2>11
  <2> QED BY <1>1, <2>10, <2>11
<1> QED BY <1>1

(* One number changed in a sum.                                             *)
LEMMA TotalChange ==
  ASSUME NEW r \in Seq(Int), NEW i \in 1..Len(r), NEW y \in Int
  PROVE  Total([r EXCEPT ![i] = y]) = Total(r) - r[i] + y
<1> DEFINE P(s) == Total([s EXCEPT ![i] = y]) = Total(s) - s[i] + y
           Bad == {n \in Nat : \E s \in Seq(Int) : Len(s) = n /\ i \in 1..n /\ ~ P(s)}
<1>1. SUFFICES ASSUME ~ P(r) PROVE FALSE
  OBVIOUS
<1>2. Len(r) \in Bad
  <2>1. Len(r) \in Nat
    OBVIOUS
  <2> HIDE DEF P
  <2> QED BY <1>1, <2>1
<1>3. PICK n \in Bad : \A m \in Bad : n <= m
  BY <1>2, LeastNumber
<1>4. PICK s \in Seq(Int) : Len(s) = n /\ i \in 1..n /\ ~ P(s)
  BY <1>3
<1>5. PICK t \in Seq(Int), x \in Int : s = Append(t, x)
  <2>1. s # <<>>
    BY <1>4
  <2> QED BY <2>1, SequenceEmptyOrAppend
<1>6. Len(t) \in Nat /\ n = Len(t) + 1 /\ s[n] = x
  BY <1>4, <1>5
<1>7. Total(s) = Total(t) + x /\ Total(t) \in Int
  BY <1>5, TotalStep, TotalType
<1>8. CASE i = n
  <2>1. [s EXCEPT ![i] = y] = Append(t, y)
    <3>1. [s EXCEPT ![i] = y] \in Seq(Int) /\ Append(t, y) \in Seq(Int)
      BY <1>4, <1>5
    <3>2. Len([s EXCEPT ![i] = y]) = n /\ Len(Append(t, y)) = n
      BY <1>4, <1>6
    <3>3. ASSUME NEW k \in 1..n PROVE [s EXCEPT ![i] = y][k] = Append(t, y)[k]
      <4>1. CASE k = i
        BY <1>4, <1>5, <1>6, <1>8, <4>1
      <4>2. CASE k # i
        <5>1. k \in 1..Len(t) /\ s[k] = t[k]
          BY <1>4, <1>5, <1>6, <1>8, <4>2
        <5> QED BY <1>4, <4>2, <5>1
      <4> QED BY <4>1, <4>2
    <3> DEFINE changed == [s EXCEPT ![i] = y]
               longer  == Append(t, y)
    <3>4. /\ changed \in Seq(Int) /\ longer \in Seq(Int)
          /\ Len(changed) = n /\ Len(longer) = n
          /\ \A k \in 1..n : changed[k] = longer[k]
      BY <3>1, <3>2, <3>3
    <3> HIDE DEF changed, longer
    <3>5. changed = longer
      BY <3>4, SeqEqual
    <3> QED BY <3>5 DEF changed, longer
  <2>2. Total([s EXCEPT ![i] = y]) = Total(t) + y
    BY <2>1, TotalStep
  <2> QED BY <1>4, <1>6, <1>7, <1>8, <2>2
<1>9. CASE i # n
  <2>1. i \in 1..Len(t) /\ s[i] = t[i] /\ Len(t) < n /\ t[i] \in Int
    BY <1>4, <1>5, <1>6, <1>9
  <2>2. P(t)
    <3>1. Len(t) \notin Bad
      <4> HIDE DEF Bad
      <4> QED BY <1>3, <1>6, <2>1
    <3> HIDE DEF P
    <3> QED BY <3>1, <1>6, <2>1
  <2>3. [t EXCEPT ![i] = y] \in Seq(Int) /\ [s EXCEPT ![i] = y] \in Seq(Int)
    BY <1>4, <1>5, <2>1
  <2>4. [s EXCEPT ![i] = y] = Append([t EXCEPT ![i] = y], x)
    <3>1. Len([s EXCEPT ![i] = y]) = n /\ Len(Append([t EXCEPT ![i] = y], x)) = n
      BY <1>4, <1>6, <2>1
    <3>2. ASSUME NEW k \in 1..n
          PROVE  [s EXCEPT ![i] = y][k] = Append([t EXCEPT ![i] = y], x)[k]
      <4>1. CASE k = n
        <5>1. Append([t EXCEPT ![i] = y], x)[n] = x
          BY <1>5, <1>6, <2>1, <2>3, AppendProperties, ExceptSeq, <3>1
        <5>2. [s EXCEPT ![i] = y][n] = s[n]
          BY <1>4, <1>6, <2>1, ExceptSeq
        <5> QED BY <1>6, <4>1, <5>1, <5>2
      <4>2. CASE k # n
        <5>1. k \in 1..Len(t) /\ s[k] = t[k]
          BY <1>4, <1>5, <1>6, <4>2
        <5>2. Append([t EXCEPT ![i] = y], x)[k] = [t EXCEPT ![i] = y][k]
          BY <2>1, <2>3, <5>1
        <5> QED BY SMTT(40), <1>4, <2>1, <5>1, <5>2
      <4> QED BY <4>1, <4>2
    <3>3. Append([t EXCEPT ![i] = y], x) \in Seq(Int)
      BY <2>3, <1>5, AppendProperties
    <3> DEFINE changed == [s EXCEPT ![i] = y]
               longer  == Append([t EXCEPT ![i] = y], x)
    <3>4. /\ changed \in Seq(Int) /\ longer \in Seq(Int)
          /\ Len(changed) = n /\ Len(longer) = n
          /\ \A k \in 1..n : changed[k] = longer[k]
      BY <2>3, <3>1, <3>2, <3>3
    <3> HIDE DEF changed, longer
    <3>5. changed = longer
      BY <3>4, SeqEqual
    <3> QED BY <3>5 DEF changed, longer
  <2>5. Total([s EXCEPT ![i] = y]) = Total([t EXCEPT ![i] = y]) + x
    BY <2>3, <2>4, TotalStep
  <2>6. Total([s EXCEPT ![i] = y]) = Total(s) - s[i] + y
    BY <1>7, <2>1, <2>2, <2>5
  <2> QED BY <1>4, <2>6
<1> QED BY <1>8, <1>9

(* A sum of nothing but zeros is zero.                                      *)
LEMMA TotalZero ==
  ASSUME NEW r \in Seq(Int), \A i \in 1..Len(r) : r[i] = 0
  PROVE  Total(r) = 0
<1> DEFINE Zeros(s) == \A i \in 1..Len(s) : s[i] = 0
           Bad == {n \in Nat : \E s \in Seq(Int) : Len(s) = n /\ Zeros(s) /\ Total(s) # 0}
<1>1. SUFFICES ASSUME Total(r) # 0 PROVE FALSE
  OBVIOUS
<1>2. Len(r) \in Bad
  BY <1>1
<1>3. PICK n \in Bad : \A m \in Bad : n <= m
  BY <1>2, LeastNumber
<1>4. PICK s \in Seq(Int) : Len(s) = n /\ Zeros(s) /\ Total(s) # 0
  BY <1>3
<1>5. s # <<>>
  BY <1>4, TotalStep
<1>6. PICK t \in Seq(Int), x \in Int : s = Append(t, x)
  BY <1>5, SequenceEmptyOrAppend
<1>7. Len(t) \in Nat /\ n = Len(t) + 1 /\ s[n] = x /\ n \in 1..Len(s)
  BY <1>4, <1>6
<1>8. x = 0
  BY <1>4, <1>7
<1>9. Zeros(t)
  <2>1. ASSUME NEW i \in 1..Len(t) PROVE t[i] = 0
    <3>1. i \in 1..Len(s) /\ s[i] = t[i]
      BY <1>4, <1>6, <1>7
    <3> QED BY <1>4, <3>1
  <2> QED BY <2>1
<1>10. Total(t) # 0
  BY <1>4, <1>6, <1>8, TotalStep, TotalType
<1>11. Len(t) \in Bad
  BY <1>7, <1>9, <1>10
<1> HIDE DEF Bad
<1> QED BY <1>3, <1>7, <1>11

(* Two lists added number by number.                                        *)
LEMMA TotalAdds ==
  ASSUME NEW n \in Nat, NEW r \in [1..n -> Int], NEW s \in [1..n -> Int]
  PROVE  Total([i \in 1..n |-> r[i] + s[i]]) = Total(r) + Total(s)
<1> DEFINE Sum(f, g, m) == [i \in 1..m |-> f[i] + g[i]]
           Bad == {m \in Nat : \E f, g \in [1..m -> Int] :
                      Total(Sum(f, g, m)) # Total(f) + Total(g)}
<1>1. SUFFICES ASSUME n \in Bad PROVE FALSE
  OBVIOUS
<1>2. PICK m \in Bad : \A k \in Bad : m <= k
  BY <1>1, LeastNumber
<1>3. PICK f \in [1..m -> Int], g \in [1..m -> Int] :
        Total(Sum(f, g, m)) # Total(f) + Total(g)
  BY <1>2
<1>4. m \in Nat
  BY <1>2
<1>5. CASE m = 0
  <2>1. f = <<>> /\ g = <<>> /\ Sum(f, g, m) = <<>>
    BY <1>5
  <2> HIDE DEF Sum
  <2>2. Total(f) = 0 /\ Total(g) = 0 /\ Total(Sum(f, g, m)) = 0
    BY <2>1, TotalStep
  <2>3. 0 = 0 + 0
    OBVIOUS
  <2> QED BY <1>3, <2>2, <2>3
<1>6. CASE m # 0
  <2> DEFINE k == m - 1
             lf == [i \in 1..k |-> f[i]]
             lg == [i \in 1..k |-> g[i]]
  <2>1. k \in Nat /\ m = k + 1 /\ m \in 1..m /\ 1..k \subseteq 1..m
    BY <1>4, <1>6
  <2>2. lf \in [1..k -> Int] /\ lg \in [1..k -> Int] /\ f[m] \in Int /\ g[m] \in Int
    BY <2>1
  <2>3. f = Append(lf, f[m]) /\ g = Append(lg, g[m])
    BY <1>4, <2>1, <2>2
  <2>4. Sum(f, g, m) = Append(Sum(lf, lg, k), f[m] + g[m])
    BY <1>4, <2>1, <2>2
  <2>5. Total(Sum(lf, lg, k)) = Total(lf) + Total(lg)
    <3>1. ~ (m <= k)
      BY <2>1
    <3>2. k \notin Bad
      <4> HIDE DEF Bad, k
      <4> QED BY <1>2, <3>1
    <3> HIDE DEF lf, lg, k, Sum
    <3> QED BY <2>1, <2>2, <3>2
  <2>6. lf \in Seq(Int) /\ lg \in Seq(Int) /\ Sum(lf, lg, k) \in Seq(Int)
    BY <2>1, <2>2
  <2>7. Total(lf) \in Int /\ Total(lg) \in Int
    BY <2>6, TotalType
  <2>8. /\ Total(f) = Total(lf) + f[m] /\ Total(g) = Total(lg) + g[m]
        /\ Total(Sum(f, g, m)) = Total(Sum(lf, lg, k)) + (f[m] + g[m])
    <3> HIDE DEF lf, lg, k, Sum
    <3>1. f[m] + g[m] \in Int
      BY <2>2
    <3>2. Total(f) = Total(lf) + f[m]
      BY <2>2, <2>3, <2>6, TotalStep
    <3>3. Total(g) = Total(lg) + g[m]
      BY <2>2, <2>3, <2>6, TotalStep
    <3>4. Total(Sum(f, g, m)) = Total(Sum(lf, lg, k)) + (f[m] + g[m])
      BY <2>4, <2>6, <3>1, TotalStep
    <3> QED BY <3>2, <3>3, <3>4
  <2> HIDE DEF lf, lg, k, Sum
  <2> QED BY <1>3, <2>2, <2>5, <2>7, <2>8
<1> QED BY <1>5, <1>6

(* A list no number of which is smaller adds up to no less.                 *)
LEMMA TotalGrows ==
  ASSUME NEW n \in Nat, NEW r \in [1..n -> Int], NEW s \in [1..n -> Int],
         \A i \in 1..n : r[i] <= s[i]
  PROVE  Total(r) <= Total(s)
<1> DEFINE d == [i \in 1..n |-> s[i] - r[i]]
<1>1. d \in [1..n -> Nat] /\ d \in [1..n -> Int] /\ d \in Seq(Nat)
      /\ r \in Seq(Int) /\ s \in Seq(Int)
  OBVIOUS
<1>2. s = [i \in 1..n |-> r[i] + d[i]]
  OBVIOUS
<1> HIDE DEF d
<1>3. Total(s) = Total(r) + Total(d)
  BY <1>1, <1>2, TotalAdds
<1>4. Total(d) \in Nat /\ Total(r) \in Int
  BY <1>1, TotalType
<1> QED BY <1>3, <1>4


(* A list and another after it.                                             *)
LEMMA TotalConcat ==
  ASSUME NEW r \in Seq(Int), NEW s \in Seq(Int)
  PROVE  Total(r \o s) = Total(r) + Total(s)
<1> DEFINE P(t) == Total(r \o t) = Total(r) + Total(t)
           Bad == {n \in Nat : \E t \in Seq(Int) : Len(t) = n /\ ~ P(t)}
<1>1. SUFFICES ASSUME ~ P(s) PROVE FALSE
  OBVIOUS
<1>2. Len(s) \in Bad
  BY <1>1
<1>3. PICK n \in Bad : \A m \in Bad : n <= m
  BY <1>2, LeastNumber
<1>4. PICK t \in Seq(Int) : Len(t) = n /\ ~ P(t)
  BY <1>3
<1>5. t # <<>>
  <2>1. SUFFICES ASSUME t = <<>> PROVE FALSE
    OBVIOUS
  <2>2. r \o t = r /\ Total(t) = 0 /\ Total(r) \in Int
    BY <2>1, ConcatEmptySeq, TotalStep, TotalType
  <2> QED BY <1>4, <2>2
<1>6. PICK u \in Seq(Int), x \in Int : t = Append(u, x)
  BY <1>5, SequenceEmptyOrAppend
<1>7. Len(u) \in Nat /\ ~ (n <= Len(u))
  BY <1>4, <1>6
<1>8. P(u)
  <2>1. Len(u) \notin Bad
    <3> HIDE DEF Bad
    <3> QED BY <1>3, <1>7
  <2> HIDE DEF P
  <2> QED BY <1>7, <2>1
<1>9. r \o t = Append(r \o u, x)
  <2>1. r \o t \in Seq(Int) /\ Append(r \o u, x) \in Seq(Int)
    BY <1>6
  <2>2. Len(r \o t) = Len(r) + Len(u) + 1 /\ Len(Append(r \o u, x)) = Len(r) + Len(u) + 1
    <3>1. Len(r \o t) = Len(r) + Len(t) /\ Len(t) = Len(u) + 1
      BY <1>6
    <3>2. r \o u \in Seq(Int) /\ Len(r \o u) = Len(r) + Len(u)
      BY <1>6
    <3>3. Len(Append(r \o u, x)) = Len(r \o u) + 1
      BY <3>2
    <3>4. Len(r) \in Nat /\ Len(u) \in Nat
      BY <1>6
    <3> QED BY <3>1, <3>2, <3>3, <3>4
  <2>3. ASSUME NEW i \in 1..Len(r \o t) PROVE (r \o t)[i] = Append(r \o u, x)[i]
    BY <1>6, <2>2
  <2> QED BY <2>1, <2>2, <2>3, SeqEqual
<1>10. Total(t) = Total(u) + x /\ Total(r \o t) = Total(r \o u) + x
  <2>1. r \o u \in Seq(Int)
    BY <1>6
  <2> QED BY <1>6, <1>9, <2>1, TotalStep
<1>11. Total(r) \in Int /\ Total(u) \in Int
  BY <1>6, TotalType
<1> QED BY <1>4, <1>6, <1>8, <1>10, <1>11

(* Every number of a list, so many times over.                              *)
LEMMA TotalTimes ==
  ASSUME NEW k \in Int, NEW n \in Nat, NEW r \in [1..n -> Int]
  PROVE  Total([i \in 1..n |-> k * r[i]]) = k * Total(r)
<1> DEFINE Times(s) == [i \in 1..Len(s) |-> k * s[i]]
           P(s) == Total(Times(s)) = k * Total(s)
           Bad == {m \in Nat : \E s \in Seq(Int) : Len(s) = m /\ ~ P(s)}
<1>1. r \in Seq(Int) /\ Len(r) = n /\ Times(r) = [i \in 1..n |-> k * r[i]]
  OBVIOUS
<1>2. SUFFICES ASSUME ~ P(r) PROVE FALSE
  BY <1>1
<1>3. n \in Bad
  BY <1>1, <1>2
<1>4. PICK m \in Bad : \A j \in Bad : m <= j
  BY <1>3, LeastNumber
<1>5. PICK s \in Seq(Int) : Len(s) = m /\ ~ P(s)
  BY <1>4
<1>6. s # <<>>
  <2>1. SUFFICES ASSUME s = <<>> PROVE FALSE
    OBVIOUS
  <2>2. Times(s) = <<>> /\ Total(<<>>) = 0 /\ k * 0 = 0
    BY <2>1, TotalStep
  <2> QED BY <1>5, <2>1, <2>2
<1>7. PICK t \in Seq(Int), x \in Int : s = Append(t, x)
  BY <1>6, SequenceEmptyOrAppend
<1>8. Len(t) \in Nat /\ ~ (m <= Len(t)) /\ Len(s) = Len(t) + 1
  BY <1>5, <1>7
<1>9. P(t)
  <2>1. Len(t) \notin Bad
    <3> HIDE DEF Bad
    <3> QED BY <1>4, <1>8
  <2> HIDE DEF P
  <2> QED BY <1>8, <2>1
<1>10. \A y \in Int : k * y \in Int
  OBVIOUS
<1>11. Times(t) \in Seq(Int) /\ k * x \in Int
  <2>1. \A i \in 1..Len(t) : k * t[i] \in Int
    BY <1>10
  <2> QED BY <1>8, <1>10, <2>1
<1>12. Times(s) = Append(Times(t), k * x)
  <2>1. Len(Times(t)) = Len(t)
    BY <1>8
  <2>2. \A i \in 1..Len(s) : s[i] = IF i = Len(s) THEN x ELSE t[i]
    BY <1>7, <1>8
  <2>3. \A i \in 1..Len(s) : k * s[i] = IF i = Len(s) THEN k * x ELSE k * t[i]
    BY <2>2
  <2>4. Times(s) \in Seq(Int) /\ Append(Times(t), k * x) \in Seq(Int)
        /\ Len(Times(s)) = Len(s) /\ Len(Append(Times(t), k * x)) = Len(s)
    <3>1. \A i \in 1..Len(s) : k * s[i] \in Int
      BY <1>10
    <3> QED BY <1>8, <1>11, <2>1, <3>1
  <2>5. ASSUME NEW i \in 1..Len(s) PROVE Times(s)[i] = Append(Times(t), k * x)[i]
    <3>1. Times(s)[i] = k * s[i]
      OBVIOUS
    <3>2. Append(Times(t), k * x)[i] = IF i = Len(s) THEN k * x ELSE Times(t)[i]
      <4> HIDE DEF Times
      <4> QED BY <1>8, <1>11, <2>1
    <3>3. i # Len(s) => Times(t)[i] = k * t[i]
      BY <1>8
    <3> HIDE DEF Times
    <3> QED BY <2>3, <3>1, <3>2, <3>3
  <2> HIDE DEF Times
  <2> QED BY <2>4, <2>5, SeqEqual
<1>13. Total(s) = Total(t) + x /\ Total(Times(s)) = Total(Times(t)) + k * x
  <2> HIDE DEF Times
  <2> QED BY <1>7, <1>11, <1>12, TotalStep
<1>14. Total(t) \in Int
  BY TotalType
<1>15. k * (Total(t) + x) = k * Total(t) + k * x
  BY <1>14
<1> HIDE DEF Times
<1> QED BY <1>5, <1>9, <1>13, <1>15

(* One number of a list of naturals is no more than the sum.                *)
LEMMA TotalOfOne ==
  ASSUME NEW r \in Seq(Nat), NEW i \in 1..Len(r)
  PROVE  r[i] <= Total(r)
<1> DEFINE z == [r EXCEPT ![i] = 0]
<1>1. r \in Seq(Int) /\ z \in Seq(Nat) /\ r[i] \in Nat
  OBVIOUS
<1>2. Total(z) = Total(r) - r[i] + 0
  BY <1>1, TotalChange
<1> HIDE DEF z
<1>3. Total(z) \in Nat /\ Total(r) \in Nat
  BY <1>1, TotalType
<1> QED BY <1>1, <1>2, <1>3

=============================================================================
