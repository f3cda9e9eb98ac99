------------------------------ MODULE SumLemmas ------------------------------
(* Facts about SumTo.  The induction over the natural numbers they need is    *)
(* drawn from the well-foundedness of the subsets of 0..n.                    *)
EXTENDS Sums, FiniteSetTheorems, SequenceTheorems, TLAPS

IsSum(s, f, n) == s = [i \in 0..n |-> IF i = 0 THEN 0 ELSE s[i-1] + f[i]]

LEMMA NatSetInduction ==
  ASSUME NEW n \in Nat, NEW G, 0 \in G, \A i \in 0..(n-1) : i \in G => i+1 \in G
  PROVE n \in G
<1> DEFINE B == {T \in SUBSET (0..n) : \E i \in 0..n : T = 0..i /\ i \notin G}
<1>1. SUFFICES ASSUME n \notin G PROVE FALSE
  OBVIOUS
<1>2. 0..n \in B
  BY <1>1
<1>3. IsWellFoundedOn(StrictSubsetOrdering(0..n), SUBSET (0..n))
  <2>1. IsFiniteSet(0..n)
    BY FS_Interval
  <2>2. FiniteSubsetsOf(0..n) = SUBSET (0..n)
    BY <2>1, FS_FiniteSubsetsOfFinite
  <2>3. IsWellFoundedOn(StrictSubsetOrdering(0..n), FiniteSubsetsOf(0..n))
    BY FS_StrictSubsetOrderingWellFounded
  <2> QED BY <2>2, <2>3
<1>4. \E x \in B : \A y \in B : ~ (<<y, x>> \in StrictSubsetOrdering(0..n))
  <2>1. B \subseteq SUBSET (0..n) /\ B # {} BY <1>2
  <2> HIDE DEF B
  <2> QED BY <1>3, <2>1, WFMin
<1>5. PICK T \in B : \A y \in B : ~ (<<y, T>> \in StrictSubsetOrdering(0..n))
  BY <1>4
<1>6. PICK i \in 0..n : T = 0..i /\ i \notin G
  BY <1>5
<1>7. i - 1 \in 0..n /\ i - 1 \notin G
  BY <1>6
<1>8. <<0..(i-1), T>> \in StrictSubsetOrdering(0..n)
  BY <1>6, <1>7 DEF StrictSubsetOrdering
<1>9. 0..(i-1) \in B
  BY <1>7
<1> QED BY <1>5, <1>8, <1>9

LEMMA SumExists ==
  ASSUME NEW n \in Nat, NEW f, \A i \in 1..n : f[i] \in Int
  PROVE \E s \in [0..n -> Int] : IsSum(s, f, n)
<1> DEFINE G == {k \in 0..n : \E s \in [0..k -> Int] : IsSum(s, f, k)}
<1>1. 0 \in G
  <2>1. [i \in 0..0 |-> 0] \in [0..0 -> Int] /\ IsSum([i \in 0..0 |-> 0], f, 0)
    BY DEF IsSum
  <2> QED BY <2>1
<1>2. ASSUME NEW k \in 0..(n-1), k \in G PROVE k+1 \in G
  <2>1. PICK s \in [0..k -> Int] : IsSum(s, f, k)
    BY <1>2
  <2> DEFINE t == [i \in 0..(k+1) |-> IF i = k+1 THEN s[k] + f[k+1] ELSE s[i]]
  <2>2. t \in [0..(k+1) -> Int]
    BY <2>1
  <2>3. \A i \in 0..k : s[i] = IF i = 0 THEN 0 ELSE s[i-1] + f[i]
    BY <2>1 DEF IsSum
  <2>4. \A i \in 0..(k+1) : t[i] = IF i = 0 THEN 0 ELSE t[i-1] + f[i]
    BY <2>1, <2>3
  <2>5. IsSum(t, f, k+1)
    BY <2>4 DEF IsSum
  <2> QED BY <2>2, <2>5
<1>3. n \in G
  <2> HIDE DEF G
  <2> QED BY <1>1, <1>2, NatSetInduction
<1> QED BY <1>3

\* SumTo is the last of the partial sums.
LEMMA SumPartial ==
  ASSUME NEW n \in Nat, NEW f, \A i \in 1..n : f[i] \in Int
  PROVE \E s \in [0..n -> Int] : /\ s[0] = 0
                                 /\ \A i \in 1..n : s[i] = s[i-1] + f[i]
                                 /\ SumTo(f, n) = s[n]
<1>1. PICK s \in [0..n -> Int] : IsSum(s, f, n)
  BY SumExists
<1> DEFINE c == CHOOSE t : IsSum(t, f, n)
<1>2. SumTo(f, n) = c[n]
  BY Zenon DEF SumTo, IsSum
<1>3. IsSum(c, f, n)
  BY <1>1
<1>4. c = [i \in 0..n |-> IF i = 0 THEN 0 ELSE c[i-1] + f[i]]
  BY <1>3 DEF IsSum
<1> HIDE DEF c
<1>5. \A i \in 0..n : s[i] = IF i = 0 THEN 0 ELSE s[i-1] + f[i]
  BY <1>1 DEF IsSum
<1>6. \A i \in 0..n : c[i] = IF i = 0 THEN 0 ELSE c[i-1] + f[i]
  BY <1>4
<1> DEFINE G == {k \in 0..n : c[k] = s[k]}
<1>7. n \in G
  <2>1. 0 \in G
    BY <1>5, <1>6
  <2>2. \A k \in 0..(n-1) : k \in G => k+1 \in G
    BY <1>5, <1>6
  <2> HIDE DEF G
  <2> QED BY <2>1, <2>2, NatSetInduction
<1>8. SumTo(f, n) = s[n]
  BY <1>2, <1>7
<1>9. s[0] = 0
  BY <1>5
<1>10. \A i \in 1..n : s[i] = s[i-1] + f[i]
  BY <1>5
<1> QED BY <1>8, <1>9, <1>10

LEMMA SumInt ==
  ASSUME NEW n \in Nat, NEW f, \A i \in 1..n : f[i] \in Int
  PROVE SumTo(f, n) \in Int
BY SumPartial

\* Equal terms, equal sums.
LEMMA SumCongruence ==
  ASSUME NEW n \in Nat, NEW f, NEW g,
         \A i \in 1..n : f[i] \in Int, \A i \in 1..n : g[i] = f[i]
  PROVE SumTo(g, n) = SumTo(f, n)
<1>1. PICK s \in [0..n -> Int] : s[0] = 0 /\ (\A i \in 1..n : s[i] = s[i-1] + f[i])
                               /\ SumTo(f, n) = s[n]
  BY SumPartial
<1>2. PICK t \in [0..n -> Int] : t[0] = 0 /\ (\A i \in 1..n : t[i] = t[i-1] + g[i])
                               /\ SumTo(g, n) = t[n]
  BY SumPartial
<1> DEFINE G == {k \in 0..n : t[k] = s[k]}
<1>3. 0 \in G
  BY <1>1, <1>2
<1>4. \A k \in 0..(n-1) : k \in G => k+1 \in G
  BY <1>1, <1>2
<1>5. n \in G
  <2> HIDE DEF G
  <2> QED BY <1>3, <1>4, NatSetInduction
<1> QED BY <1>1, <1>2, <1>5

\* Changing one term changes the sum by the difference.
LEMMA SumUpdate ==
  ASSUME NEW n \in Nat, NEW f, NEW g, NEW k \in 1..n,
         \A i \in 1..n : f[i] \in Int, g[k] \in Int,
         \A i \in (1..n) \ {k} : g[i] = f[i]
  PROVE SumTo(g, n) = SumTo(f, n) + g[k] - f[k]
<1>1. PICK s \in [0..n -> Int] : s[0] = 0 /\ (\A i \in 1..n : s[i] = s[i-1] + f[i])
                               /\ SumTo(f, n) = s[n]
  BY SumPartial
<1>2. \A i \in 1..n : g[i] \in Int
  OBVIOUS
<1>3. PICK t \in [0..n -> Int] : t[0] = 0 /\ (\A i \in 1..n : t[i] = t[i-1] + g[i])
                               /\ SumTo(g, n) = t[n]
  BY <1>2, SumPartial
<1> DEFINE G == {j \in 0..n : t[j] = s[j] + IF j < k THEN 0 ELSE g[k] - f[k]}
<1>4. 0 \in G
  BY <1>1, <1>3
<1>5. ASSUME NEW j \in 0..(n-1), j \in G PROVE j+1 \in G
  <2>1. j+1 \in 1..n /\ (j+1) - 1 = j
    OBVIOUS
  <2>2. s[j+1] = s[j] + f[j+1] /\ t[j+1] = t[j] + g[j+1]
    BY <2>1, <1>1, <1>3
  <2>3. s[j] \in Int /\ f[j+1] \in Int /\ f[k] \in Int /\ g[k] \in Int
    BY <2>1
  <2>4. t[j] = s[j] + IF j < k THEN 0 ELSE g[k] - f[k]
    BY <1>5
  <2>5. t[j+1] = s[j+1] + IF j+1 < k THEN 0 ELSE g[k] - f[k]
    <3>1. CASE j+1 = k
      <4>1. t[j] = s[j]
        BY <2>3, <2>4, <3>1
      <4>2. t[j+1] = s[j] + g[k] /\ s[j+1] = s[j] + f[k]
        BY <2>2, <3>1, <4>1
      <4> QED BY <2>3, <3>1, <4>2, SMTT(30)
    <3>2. CASE j+1 < k
      <4>1. g[j+1] = f[j+1]
        BY <2>1, <3>2
      <4>2. t[j] = s[j]
        BY <2>3, <2>4, <3>2
      <4> QED BY <2>2, <2>3, <3>2, <4>1, <4>2
    <3>3. CASE j+1 > k
      <4>1. g[j+1] = f[j+1]
        BY <2>1, <3>3
      <4>2. t[j] = s[j] + (g[k] - f[k])
        BY <2>3, <2>4, <3>3
      <4>3. t[j+1] = (s[j] + (g[k] - f[k])) + f[j+1]
        BY <2>2, <4>1, <4>2
      <4>4. (s[j] + (g[k] - f[k])) + f[j+1] = (s[j] + f[j+1]) + (g[k] - f[k])
        BY <2>3, SMTT(30)
      <4>5. t[j+1] = s[j+1] + (g[k] - f[k])
        BY <2>2, <4>3, <4>4
      <4>6. ~(j+1 < k)
        BY <3>3
      <4> QED BY <4>5, <4>6
    <3> QED BY <3>1, <3>2, <3>3
  <2> QED BY <2>1, <2>5
<1>6. n \in G
  <2> HIDE DEF G
  <2> QED BY <1>4, <1>5, NatSetInduction
<1> QED BY <1>1, <1>3, <1>6

\* Changing two terms.
LEMMA SumUpdateTwo ==
  ASSUME NEW n \in Nat, NEW f, NEW g, NEW j \in 1..n, NEW k \in 1..n, j # k,
         \A i \in 1..n : f[i] \in Int, g[j] \in Int, g[k] \in Int,
         \A i \in (1..n) \ {j, k} : g[i] = f[i]
  PROVE SumTo(g, n) = SumTo(f, n) + (g[j] - f[j]) + (g[k] - f[k])
<1> DEFINE h == [i \in 1..n |-> IF i = j THEN g[j] ELSE f[i]]
<1>1. \A i \in 1..n : h[i] \in Int
  OBVIOUS
<1>2. \A i \in (1..n) \ {j} : h[i] = f[i]
  OBVIOUS
<1>3. h[j] = g[j] /\ h[k] = f[k]
  OBVIOUS
<1>4. \A i \in (1..n) \ {k} : g[i] = h[i]
  OBVIOUS
<1> HIDE DEF h
<1>5. SumTo(h, n) = SumTo(f, n) + h[j] - f[j]
  BY <1>1, <1>2, SumUpdate
<1>6. SumTo(g, n) = SumTo(h, n) + g[k] - h[k]
  BY <1>1, <1>4, SumUpdate
<1>7. SumTo(f, n) \in Int /\ SumTo(h, n) \in Int /\ f[j] \in Int /\ f[k] \in Int
  BY <1>1, SumInt
<1> QED BY <1>3, <1>5, <1>6, <1>7

\* No term of a sum of naturals is larger than the sum.
LEMMA SumBoundsTerm ==
  ASSUME NEW n \in Nat, NEW f, NEW k \in 1..n, \A i \in 1..n : f[i] \in Nat
  PROVE f[k] <= SumTo(f, n)
<1>0. \A i \in 1..n : f[i] \in Int
  OBVIOUS
<1>1. PICK s \in [0..n -> Int] : s[0] = 0 /\ (\A i \in 1..n : s[i] = s[i-1] + f[i])
                               /\ SumTo(f, n) = s[n]
  BY <1>0, SumPartial
<1> DEFINE G == {j \in 0..n : s[j] >= IF j < k THEN 0 ELSE f[k]}
<1>2. 0 \in G
  BY <1>1
<1>3. ASSUME NEW j \in 0..(n-1), j \in G PROVE j+1 \in G
  <2>1. j+1 \in 1..n /\ (j+1) - 1 = j
    OBVIOUS
  <2>2. s[j+1] = s[j] + f[j+1]
    BY <2>1, <1>1
  <2>3. s[j] \in Int /\ f[j+1] \in Nat /\ f[k] \in Nat
    BY <2>1
  <2>4. s[j] >= 0
    BY <2>3, <1>3
  <2> QED BY <2>2, <2>3, <2>4, <1>3
<1>4. n \in G
  <2> HIDE DEF G
  <2> QED BY <1>2, <1>3, NatSetInduction
<1> QED BY <1>1, <1>4

LEMMA SumOfZeros ==
  ASSUME NEW n \in Nat, NEW f, \A i \in 1..n : f[i] = 0
  PROVE SumTo(f, n) = 0
<1>0. \A i \in 1..n : f[i] \in Int
  OBVIOUS
<1>1. PICK s \in [0..n -> Int] : s[0] = 0 /\ (\A i \in 1..n : s[i] = s[i-1] + f[i])
                               /\ SumTo(f, n) = s[n]
  BY <1>0, SumPartial
<1> DEFINE G == {j \in 0..n : s[j] = 0}
<1>2. 0 \in G
  BY <1>1
<1>3. \A j \in 0..(n-1) : j \in G => j+1 \in G
  BY <1>1, SMTT(30)
<1>4. n \in G
  <2> HIDE DEF G
  <2> QED BY <1>2, <1>3, NatSetInduction
<1> QED BY <1>1, <1>4

\* a sum of naturals is one
LEMMA SumNat ==
  ASSUME NEW n \in Nat, NEW f, \A i \in 1..n : f[i] \in Nat
  PROVE SumTo(f, n) \in Nat
<1>1. SumTo(f, n) \in Int
  BY SumInt
<1>2. CASE n = 0
  BY <1>2, SumOfZeros
<1>3. CASE n # 0
  <2>1. 1 \in 1..n
    BY <1>3
  <2>2. f[1] <= SumTo(f, n)
    BY <2>1, SumBoundsTerm
  <2> QED BY <1>1, <2>1, <2>2
<1> QED BY <1>2, <1>3

LEMMA SumEmpty ==
  ASSUME NEW f
  PROVE SumTo(f, 0) = 0
<1>1. 0 \in Nat /\ \A i \in 1..0 : f[i] = 0
  OBVIOUS
<1> QED BY <1>1, SumOfZeros

\* the last term
LEMMA SumStep ==
  ASSUME NEW n \in Nat, NEW f, \A i \in 1..(n+1) : f[i] \in Int
  PROVE SumTo(f, n+1) = SumTo(f, n) + f[n+1]
<1>1. n+1 \in Nat /\ \A i \in 1..n : f[i] \in Int
  OBVIOUS
<1>2. PICK s \in [0..(n+1) -> Int] : s[0] = 0 /\ (\A i \in 1..(n+1) : s[i] = s[i-1] + f[i])
                                   /\ SumTo(f, n+1) = s[n+1]
  BY <1>1, SumPartial
<1>3. PICK t \in [0..n -> Int] : t[0] = 0 /\ (\A i \in 1..n : t[i] = t[i-1] + f[i])
                               /\ SumTo(f, n) = t[n]
  BY <1>1, SumPartial
<1> DEFINE G == {k \in 0..n : t[k] = s[k]}
<1>4. 0 \in G
  BY <1>2, <1>3
<1>5. \A k \in 0..(n-1) : k \in G => k+1 \in G
  BY <1>2, <1>3
<1>6. n \in G
  <2> HIDE DEF G
  <2> QED BY <1>4, <1>5, NatSetInduction
<1>7. s[n+1] = s[n] + f[n+1]
  BY <1>2
<1> QED BY <1>2, <1>3, <1>6, <1>7

LEMMA SumAdd ==
  ASSUME NEW n \in Nat, NEW f, NEW g, NEW h,
         \A i \in 1..n : f[i] \in Int /\ g[i] \in Int /\ h[i] = f[i] + g[i]
  PROVE SumTo(h, n) = SumTo(f, n) + SumTo(g, n)
<1> DEFINE G == {k \in 0..n : SumTo(h, k) = SumTo(f, k) + SumTo(g, k)}
<1>1. 0 \in G
  BY SumEmpty
<1>2. ASSUME NEW k \in 0..(n-1), k \in G PROVE k+1 \in G
  <2>1. k \in Nat /\ \A i \in 1..(k+1) : f[i] \in Int /\ g[i] \in Int /\ h[i] \in Int
    OBVIOUS
  <2>2. /\ SumTo(f, k+1) = SumTo(f, k) + f[k+1]
        /\ SumTo(g, k+1) = SumTo(g, k) + g[k+1]
        /\ SumTo(h, k+1) = SumTo(h, k) + h[k+1]
    BY <2>1, SumStep
  <2>3. SumTo(f, k) \in Int /\ SumTo(g, k) \in Int
    <3>1. \A i \in 1..k : f[i] \in Int /\ g[i] \in Int
      BY <2>1
    <3> QED BY <2>1, <3>1, SumInt
  <2>4. k+1 \in 1..n /\ h[k+1] = f[k+1] + g[k+1] /\ f[k+1] \in Int /\ g[k+1] \in Int
    BY <1>2
  <2> QED BY <1>2, <2>2, <2>3, <2>4
<1>3. n \in G
  <2> HIDE DEF G
  <2> QED BY <1>1, <1>2, NatSetInduction
<1> QED BY <1>3

LEMMA SumMonotone ==
  ASSUME NEW n \in Nat, NEW f, NEW g,
         \A i \in 1..n : f[i] \in Int /\ g[i] \in Int /\ f[i] <= g[i]
  PROVE SumTo(f, n) <= SumTo(g, n)
<1> DEFINE e == [i \in 1..n |-> g[i] - f[i]]
<1>1. \A i \in 1..n : f[i] \in Int /\ e[i] \in Nat /\ e[i] \in Int /\ g[i] = f[i] + e[i]
  OBVIOUS
<1> HIDE DEF e
<1>2. SumTo(g, n) = SumTo(f, n) + SumTo(e, n)
  BY <1>1, SumAdd
<1>3. SumTo(f, n) \in Int /\ SumTo(e, n) \in Nat
  BY <1>1, SumInt, SumNat
<1> QED BY <1>2, <1>3

LEMMA SumStrict ==
  ASSUME NEW n \in Nat, NEW f, NEW g, NEW k \in 1..n, g[k] < f[k],
         \A i \in 1..n : f[i] \in Int /\ g[i] \in Int /\ g[i] <= f[i]
  PROVE SumTo(g, n) < SumTo(f, n)
<1> DEFINE h == [i \in 1..n |-> IF i = k THEN g[k] + 1 ELSE g[i]]
<1>1. /\ \A i \in 1..n : h[i] \in Int /\ f[i] \in Int /\ g[i] \in Int /\ h[i] <= f[i]
      /\ \A i \in (1..n) \ {k} : h[i] = g[i]
      /\ h[k] = g[k] + 1 /\ h[k] \in Int /\ g[k] \in Int
  OBVIOUS
<1> HIDE DEF h
<1>2. SumTo(h, n) = SumTo(g, n) + h[k] - g[k]
  BY <1>1, SumUpdate
<1>3. SumTo(h, n) <= SumTo(f, n)
  BY <1>1, SumMonotone
<1>4. SumTo(h, n) \in Int /\ SumTo(g, n) \in Int /\ SumTo(f, n) \in Int
  BY <1>1, SumInt
<1> QED BY <1>1, <1>2, <1>3, <1>4

LEMMA SumScale ==
  ASSUME NEW n \in Nat, NEW f, NEW g, NEW c \in Int,
         \A i \in 1..n : f[i] \in Int /\ g[i] = c * f[i]
  PROVE SumTo(g, n) = c * SumTo(f, n)
<1> DEFINE G == {k \in 0..n : SumTo(g, k) = c * SumTo(f, k)}
<1>1. 0 \in G
  BY SumEmpty
<1>2. ASSUME NEW k \in 0..(n-1), k \in G PROVE k+1 \in G
  <2>1. k \in Nat /\ \A i \in 1..(k+1) : f[i] \in Int /\ g[i] \in Int
    OBVIOUS
  <2>2. SumTo(f, k+1) = SumTo(f, k) + f[k+1] /\ SumTo(g, k+1) = SumTo(g, k) + g[k+1]
    BY <2>1, SumStep
  <2>3. SumTo(f, k) \in Int /\ f[k+1] \in Int /\ g[k+1] = c * f[k+1]
    <3>1. \A i \in 1..k : f[i] \in Int
      BY <2>1
    <3> QED BY <2>1, <3>1, SumInt
  <2>4. SumTo(g, k) = c * SumTo(f, k)
    BY <1>2
  <2>5. \A a, b \in Int : c * (a + b) = c * a + c * b
    OBVIOUS
  <2>6. SumTo(g, k+1) = c * SumTo(f, k+1)
    BY <2>2, <2>3, <2>4, <2>5
  <2> QED BY <2>6
<1>3. n \in G
  <2> HIDE DEF G
  <2> QED BY <1>1, <1>2, NatSetInduction
<1> QED BY <1>3

\* No term exceeds what the other terms leave of the sum.
LEMMA SumBoundsTwo ==
  ASSUME NEW n \in Nat, NEW f, NEW j \in 1..n, NEW k \in 1..n, j # k,
         \A i \in 1..n : f[i] \in Nat
  PROVE f[j] + f[k] <= SumTo(f, n)
<1> DEFINE g == [i \in 1..n |-> IF i = j THEN 0 ELSE f[i]]
<1>1. /\ \A i \in 1..n : f[i] \in Int /\ g[i] \in Nat
      /\ g[j] = 0 /\ g[k] = f[k]
      /\ \A i \in (1..n) \ {j} : g[i] = f[i]
  OBVIOUS
<1> HIDE DEF g
<1>2. SumTo(g, n) = SumTo(f, n) + g[j] - f[j]
  <2>1. /\ \A i \in 1..n : f[i] \in Int
        /\ g[j] \in Int
        /\ \A i \in (1..n) \ {j} : g[i] = f[i]
    BY <1>1
  <2> QED BY <2>1, SumUpdate
<1>3. g[k] <= SumTo(g, n)
  BY <1>1, SumBoundsTerm
<1>4. SumTo(f, n) \in Int /\ f[j] \in Nat /\ f[k] \in Nat
  BY <1>1, SumInt
<1> QED BY <1>1, <1>2, <1>3, <1>4

\* The sum of an indicator counts.
LEMMA SumCounts ==
  ASSUME NEW n \in Nat, NEW f, NEW S \in SUBSET (1..n),
         \A i \in 1..n : f[i] = IF i \in S THEN 1 ELSE 0
  PROVE SumTo(f, n) = Cardinality(S)
<1> DEFINE G == {k \in 0..n : SumTo(f, k) = Cardinality(S \cap (1..k))}
<1>1. 0 \in G
  BY SumEmpty, FS_EmptySet
<1>2. ASSUME NEW k \in 0..(n-1), k \in G PROVE k+1 \in G
  <2>1. k \in Nat /\ k+1 \in 1..n /\ \A i \in 1..(k+1) : f[i] \in Int
    OBVIOUS
  <2>2. SumTo(f, k+1) = SumTo(f, k) + f[k+1]
    BY <2>1, SumStep
  <2>3. IsFiniteSet(S \cap (1..k)) /\ Cardinality(S \cap (1..k)) \in Nat
    <3>1. IsFiniteSet(1..k)
      BY <2>1, FS_Interval
    <3> QED BY <3>1, FS_Subset, FS_CardinalityType
  <2>4. CASE k+1 \in S
    <3>1. S \cap (1..(k+1)) = (S \cap (1..k)) \cup {k+1} /\ k+1 \notin S \cap (1..k)
      BY <2>4
    <3>2. Cardinality(S \cap (1..(k+1))) = Cardinality(S \cap (1..k)) + 1
      BY <2>3, <3>1, FS_AddElement
    <3> QED BY <1>2, <2>1, <2>2, <2>3, <2>4, <3>2
  <2>5. CASE k+1 \notin S
    <3>1. S \cap (1..(k+1)) = S \cap (1..k)
      BY <2>5
    <3> QED BY <1>2, <2>1, <2>2, <2>3, <2>5, <3>1
  <2> QED BY <2>4, <2>5
<1>3. n \in G
  <2> HIDE DEF G
  <2> QED BY <1>1, <1>2, NatSetInduction
<1>4. S \cap (1..n) = S
  OBVIOUS
<1> QED BY <1>3, <1>4

LEMMA SumOfOne ==
  ASSUME NEW n \in Nat, NEW f, NEW k \in 1..n, f[k] \in Int,
         \A i \in (1..n) \ {k} : f[i] = 0
  PROVE SumTo(f, n) = f[k]
<1> DEFINE z == [i \in 1..n |-> 0]
<1>1. /\ \A i \in 1..n : z[i] \in Int /\ z[i] = 0
      /\ \A i \in (1..n) \ {k} : f[i] = z[i]
  OBVIOUS
<1> HIDE DEF z
<1>2. SumTo(f, n) = SumTo(z, n) + f[k] - z[k]
  BY <1>1, SumUpdate
<1>3. SumTo(z, n) = 0
  BY <1>1, SumOfZeros
<1> QED BY <1>1, <1>2, <1>3

\* The sum of the rows' sums is the sum of the columns'.
LEMMA SumSwap ==
  ASSUME NEW m \in Nat, NEW n \in Nat, NEW a, NEW row, NEW col,
         \A u \in 1..m, k \in 1..n : a[u][k] \in Int,
         \A u \in 1..m : row[u] = SumTo(a[u], n),
         \A k \in 1..n : col[k] = SumTo([u \in 1..m |-> a[u][k]], m)
  PROVE SumTo(row, m) = SumTo(col, n)
<1> DEFINE R(j) == [u \in 1..m |-> SumTo(a[u], j)]
           C(j) == [u \in 1..m |-> a[u][j]]
           G == {j \in 0..n : SumTo(R(j), m) = SumTo(col, j)}
<1>0. ASSUME NEW j \in 0..n, NEW u \in 1..m PROVE R(j)[u] = SumTo(a[u], j) /\ R(j)[u] \in Int
  <2>1. j \in Nat /\ \A k \in 1..j : a[u][k] \in Int
    OBVIOUS
  <2> QED BY <2>1, SumInt
<1>c. \A k \in 1..n : col[k] = SumTo(C(k), m) /\ col[k] \in Int
  <2>1. ASSUME NEW k \in 1..n PROVE SumTo(C(k), m) \in Int
    <3>1. \A u \in 1..m : C(k)[u] \in Int
      OBVIOUS
    <3> HIDE DEF C
    <3> QED BY <3>1, SumInt
  <2> QED BY <2>1
<1>1. 0 \in G
  <2>1. \A u \in 1..m : R(0)[u] = 0
    BY SumEmpty
  <2> HIDE DEF R
  <2> QED BY <2>1, SumOfZeros, SumEmpty
<1>2. ASSUME NEW j \in 0..(n-1), j \in G PROVE j+1 \in G
  <2>1. j \in Nat /\ j \in 0..n /\ j+1 \in 1..n
    OBVIOUS
  <2>2. \A u \in 1..m : R(j)[u] \in Int /\ C(j+1)[u] \in Int /\ R(j+1)[u] = R(j)[u] + C(j+1)[u]
    <3>1. ASSUME NEW u \in 1..m PROVE SumTo(a[u], j+1) = SumTo(a[u], j) + a[u][j+1]
      <4>1. \A k \in 1..(j+1) : a[u][k] \in Int
        BY <2>1
      <4> QED BY <2>1, <4>1, SumStep
    <3> QED BY <1>0, <2>1, <3>1
  <2>3. SumTo(R(j+1), m) = SumTo(R(j), m) + SumTo(C(j+1), m)
    <3> DEFINE f == R(j)
               g == C(j+1)
               h == R(j+1)
    <3>1. \A u \in 1..m : f[u] \in Int /\ g[u] \in Int /\ h[u] = f[u] + g[u]
      BY <2>2
    <3>2. SumTo(h, m) = SumTo(f, m) + SumTo(g, m)
      <4> HIDE DEF f, g, h
      <4> QED BY <3>1, SumAdd, SMTT(30)
    <3> QED BY <3>2
  <2>4. SumTo(col, j+1) = SumTo(col, j) + col[j+1]
    <3>1. \A k \in 1..(j+1) : col[k] \in Int
      <4>1. 1..(j+1) \subseteq 1..n
        BY <2>1
      <4>2. \A k \in 1..n : col[k] \in Int
        BY <1>c
      <4> QED BY <4>1, <4>2
    <3> QED BY <2>1, <3>1, SumStep
  <2>5. SumTo(R(j), m) = SumTo(col, j) /\ SumTo(C(j+1), m) = col[j+1]
    BY <1>2, <1>c, <2>1
  <2> HIDE DEF R, C
  <2> QED BY <2>1, <2>3, <2>4, <2>5
<1>3. n \in G
  <2> HIDE DEF G
  <2> QED BY <1>1, <1>2, NatSetInduction
<1>4. SumTo(R(n), m) = SumTo(row, m)
  <2>1. n \in 0..n
    OBVIOUS
  <2>2. \A u \in 1..m : R(n)[u] \in Int /\ row[u] = R(n)[u]
    BY <1>0, <2>1
  <2> HIDE DEF R
  <2> QED BY <2>2, SumCongruence
<1> QED BY <1>3, <1>4
-----------------------------------------------------------------------------
(* Sums over a sequence, of a value that depends on the element only *)

ValueSum(s, val) == SumTo([k \in DOMAIN s |-> val[s[k]]], Len(s))

LEMMA ValueSumInt ==
  ASSUME NEW S, NEW s \in Seq(S), NEW val \in [S -> Int]
  PROVE /\ Len(s) \in Nat /\ DOMAIN s = 1..Len(s)
        /\ \A k \in 1..Len(s) : /\ s[k] \in S /\ val[s[k]] \in Int
                                /\ [i \in DOMAIN s |-> val[s[i]]][k] = val[s[k]]
        /\ ValueSum(s, val) \in Int
<1>1. /\ Len(s) \in Nat /\ DOMAIN s = 1..Len(s)
      /\ \A k \in 1..Len(s) : s[k] \in S /\ val[s[k]] \in Int
  OBVIOUS
<1> DEFINE f == [i \in DOMAIN s |-> val[s[i]]]
<1>2. \A k \in 1..Len(s) : f[k] = val[s[k]] /\ f[k] \in Int
  BY <1>1
<1>3. SumTo(f, Len(s)) \in Int
  <2> HIDE DEF f
  <2> QED BY <1>1, <1>2, SumInt
<1> QED BY <1>1, <1>2, <1>3 DEF ValueSum

LEMMA ValueSumNat ==
  ASSUME NEW S, NEW s \in Seq(S), NEW val \in [S -> Nat]
  PROVE ValueSum(s, val) \in Nat /\ \A k \in 1..Len(s) : val[s[k]] <= ValueSum(s, val)
<1>1. Len(s) \in Nat /\ DOMAIN s = 1..Len(s)
  OBVIOUS
<1> DEFINE f == [i \in DOMAIN s |-> val[s[i]]]
<1>2. \A k \in 1..Len(s) : f[k] = val[s[k]] /\ f[k] \in Nat
  BY <1>1
<1>3. SumTo(f, Len(s)) \in Nat /\ \A k \in 1..Len(s) : f[k] <= SumTo(f, Len(s))
  <2> HIDE DEF f
  <2> QED BY <1>1, <1>2, SumNat, SumBoundsTerm
<1> QED BY <1>1, <1>2, <1>3 DEF ValueSum

\* Elements of equal value, sequences of equal sum.
LEMMA ValueSumCongruence ==
  ASSUME NEW S, NEW s \in Seq(S), NEW val \in [S -> Int], NEW wal,
         \A k \in 1..Len(s) : wal[s[k]] = val[s[k]]
  PROVE ValueSum(s, wal) = ValueSum(s, val)
<1> DEFINE f == [i \in DOMAIN s |-> val[s[i]]]
           g == [i \in DOMAIN s |-> wal[s[i]]]
<1>1. Len(s) \in Nat /\ \A k \in 1..Len(s) : f[k] \in Int /\ g[k] = f[k]
  BY ValueSumInt
<1>2. SumTo(g, Len(s)) = SumTo(f, Len(s))
  <2> HIDE DEF f, g
  <2> QED BY <1>1, SumCongruence
<1> QED BY <1>2 DEF ValueSum

LEMMA ValueSumEmpty ==
  ASSUME NEW val
  PROVE ValueSum(<<>>, val) = 0
<1>1. Len(<<>>) = 0
  OBVIOUS
<1> QED BY <1>1, SumEmpty DEF ValueSum

LEMMA ValueSumAppend ==
  ASSUME NEW S, NEW s \in Seq(S), NEW val \in [S -> Int], NEW c \in S
  PROVE ValueSum(Append(s, c), val) = ValueSum(s, val) + val[c]
<1> DEFINE t == Append(s, c)
           n == Len(s)
           f == [i \in DOMAIN s |-> val[s[i]]]
           g == [i \in DOMAIN t |-> val[t[i]]]
<1>1. t \in Seq(S) /\ Len(t) = n+1 /\ n \in Nat /\ t[n+1] = c /\ \A i \in 1..n : t[i] = s[i]
  OBVIOUS
<1>2. \A i \in 1..(n+1) : g[i] = val[t[i]] /\ g[i] \in Int
  BY <1>1, ValueSumInt
<1>3. \A i \in 1..n : f[i] = val[s[i]] /\ f[i] \in Int
  BY ValueSumInt
<1>4. g[n+1] = val[c] /\ \A i \in 1..n : g[i] = f[i]
  BY <1>1, <1>2, <1>3
<1>5. SumTo(g, n+1) = SumTo(g, n) + g[n+1] /\ SumTo(g, n) = SumTo(f, n)
  <2>1. n \in Nat /\ \A i \in 1..(n+1) : g[i] \in Int
    BY <1>1, <1>2
  <2>2. \A i \in 1..n : f[i] \in Int /\ g[i] = f[i]
    BY <1>3, <1>4
  <2> HIDE DEF f, g, t, n
  <2> QED BY <2>1, <2>2, SumStep, SumCongruence
<1>6. ValueSum(t, val) = SumTo(g, n+1) /\ ValueSum(s, val) = SumTo(f, n)
  BY <1>1 DEF ValueSum
<1> QED BY <1>4, <1>5, <1>6

\* Without its i-th element.
Without(s, i) == SubSeq(s, 1, i - 1) \o SubSeq(s, i + 1, Len(s))

LEMMA WithoutElements ==
  ASSUME NEW S, NEW s \in Seq(S), NEW i \in 1..Len(s)
  PROVE /\ Without(s, i) \in Seq(S)
        /\ Len(Without(s, i)) = Len(s) - 1
        /\ \A k \in 1..(Len(s) - 1) : Without(s, i)[k] = IF k < i THEN s[k] ELSE s[k + 1]
<1> DEFINE a == SubSeq(s, 1, i - 1)
           b == SubSeq(s, i + 1, Len(s))
<1>1. a \in Seq(S) /\ Len(a) = i - 1 /\ \A k \in 1..(i - 1) : a[k] = s[k]
  OBVIOUS
<1>2. b \in Seq(S) /\ Len(b) = Len(s) - i /\ \A k \in 1..(Len(s) - i) : b[k] = s[k + i]
  OBVIOUS
<1> HIDE DEF a, b
<1>3. /\ a \o b \in Seq(S) /\ Len(a \o b) = Len(a) + Len(b)
      /\ \A k \in 1..(Len(a) + Len(b)) : (a \o b)[k] = IF k <= Len(a) THEN a[k] ELSE b[k - Len(a)]
  BY <1>1, <1>2, ConcatProperties
<1>4. Without(s, i) = a \o b
  BY DEF Without, a, b
<1>5. Len(a) + Len(b) = Len(s) - 1 /\ Len(s) \in Nat
  BY <1>1, <1>2
<1>6. ASSUME NEW k \in 1..(Len(s) - 1) PROVE (a \o b)[k] = IF k < i THEN s[k] ELSE s[k + 1]
  <2>1. (a \o b)[k] = IF k <= Len(a) THEN a[k] ELSE b[k - Len(a)]
    BY <1>3, <1>5
  <2>2. CASE k < i
    BY <1>1, <2>1, <2>2
  <2>3. CASE ~(k < i)
    <3>1. k - (i - 1) \in 1..(Len(s) - i) /\ (k - (i - 1)) + i = k + 1 /\ ~(k <= i - 1)
      BY <2>3
    <3> QED BY <1>1, <1>2, <2>1, <2>3, <3>1
  <2> QED BY <2>2, <2>3
<1> QED BY <1>3, <1>4, <1>5, <1>6

LEMMA ValueSumWithout ==
  ASSUME NEW S, NEW s \in Seq(S), NEW val \in [S -> Int], NEW i \in 1..Len(s)
  PROVE ValueSum(Without(s, i), val) = ValueSum(s, val) - val[s[i]]
<1> DEFINE t == Without(s, i)
           n == Len(s) - 1
           f == [k \in DOMAIN s |-> val[s[k]]]
           g == [k \in DOMAIN t |-> val[t[k]]]
<1>1. t \in Seq(S) /\ Len(t) = n /\ n \in Nat /\ n + 1 = Len(s)
      /\ \A k \in 1..n : t[k] = IF k < i THEN s[k] ELSE s[k + 1]
  <2> HIDE DEF f, g
  <2>1. /\ t \in Seq(S) /\ Len(t) = Len(s) - 1
        /\ \A k \in 1..(Len(s) - 1) : t[k] = IF k < i THEN s[k] ELSE s[k + 1]
    BY WithoutElements, ZenonT(30)
  <2>2. Len(s) \in Nat /\ 1 <= i /\ i <= Len(s) /\ i \in Int
    OBVIOUS
  <2> HIDE DEF t
  <2>3. n \in Nat /\ n + 1 = Len(s)
    BY <2>2
  <2> QED BY <2>1, <2>3
<1>2. \A k \in 1..n : g[k] = val[t[k]] /\ g[k] \in Int
  <2> HIDE DEF t
  <2> QED BY <1>1, ValueSumInt
<1>3. \A k \in 1..(n+1) : f[k] = val[s[k]] /\ f[k] \in Int
  BY <1>1, ValueSumInt
<1>4. \A k \in 1..n : g[k] = IF k < i THEN f[k] ELSE f[k + 1]
  <2> HIDE DEF t, f, g, n
  <2>1. ASSUME NEW k \in 1..n PROVE g[k] = IF k < i THEN f[k] ELSE f[k + 1]
    <3>1. k \in 1..(n+1) /\ k+1 \in 1..(n+1)
      BY <1>1
    <3> QED BY <1>1, <1>2, <1>3, <3>1
  <2> QED BY <2>1
<1>5. f[i] = val[s[i]] /\ i \in 1..(n+1)
  BY <1>1, <1>3
<1>6. ValueSum(t, val) = SumTo(g, n) /\ ValueSum(s, val) = SumTo(f, n+1)
  BY <1>1 DEF ValueSum
<1> HIDE DEF f, g, t, n
<1> DEFINE G == {k \in 0..n : SumTo(g, k) = IF k < i THEN SumTo(f, k)
                                             ELSE SumTo(f, k + 1) - f[i]}
<1>7. 0 \in G
  BY <1>1, <1>5, SumEmpty
<1>8. ASSUME NEW k \in 0..(n-1), k \in G PROVE k+1 \in G
  <2>1. /\ k \in Nat /\ k+1 \in Nat /\ k+1 \in 1..n /\ k+2 \in 1..(n+1) /\ (k+1)+1 = k+2
        /\ \A j \in 1..(k+1) : g[j] \in Int /\ f[j] \in Int
        /\ \A j \in 1..((k+1)+1) : f[j] \in Int
    <3>1. n \in Nat
      BY <1>1
    <3>2. /\ k \in Nat /\ k+1 \in Nat /\ k+1 \in 1..n /\ k+2 \in 1..(n+1) /\ (k+1)+1 = k+2
          /\ 1..(k+1) \subseteq 1..n /\ 1..(k+1) \subseteq 1..(n+1) /\ 1..(k+2) \subseteq 1..(n+1)
      BY <3>1
    <3> QED BY <1>2, <1>3, <3>2
  <2>2. /\ SumTo(g, k+1) = SumTo(g, k) + g[k+1]
        /\ SumTo(f, k+1) = SumTo(f, k) + f[k+1]
        /\ SumTo(f, k+2) = SumTo(f, k+1) + f[k+2]
    <3>1. SumTo(f, (k+1)+1) = SumTo(f, k+1) + f[(k+1)+1]
      BY <2>1, SumStep
    <3>2. /\ SumTo(g, k+1) = SumTo(g, k) + g[k+1]
          /\ SumTo(f, k+1) = SumTo(f, k) + f[k+1]
      BY <2>1, SumStep
    <3> QED BY <2>1, <3>1, <3>2
  <2>3. SumTo(f, k) \in Int /\ SumTo(f, k+1) \in Int /\ SumTo(g, k) \in Int
    <3>1. \A j \in 1..k : g[j] \in Int /\ f[j] \in Int
      BY <2>1
    <3> QED BY <2>1, <3>1, SumInt
  <2>4. g[k+1] = IF k+1 < i THEN f[k+1] ELSE f[k+2]
    BY <1>4, <2>1
  <2>5. SumTo(g, k) = IF k < i THEN SumTo(f, k) ELSE SumTo(f, k + 1) - f[i]
    BY <1>8
  <2>6. f[k+1] \in Int /\ f[k+2] \in Int /\ f[i] \in Int
    BY <2>1, <1>3, <1>5
  <2>7. SumTo(g, k+1) = IF k+1 < i THEN SumTo(f, k+1) ELSE SumTo(f, k+2) - f[i]
    <3>1. CASE k+1 < i
      BY <2>2, <2>4, <2>5, <3>1
    <3>2. CASE k+1 = i
      <4>1. SumTo(g, k+1) = SumTo(f, k) + f[k+2]
        BY <2>2, <2>4, <2>5, <3>2, <1>5
      <4>2. SumTo(f, k+2) = (SumTo(f, k) + f[i]) + f[k+2]
        BY <2>2, <3>2
      <4> QED BY <2>3, <2>6, <3>2, <4>1, <4>2, <1>5
    <3>3. CASE k+1 > i
      <4>1. SumTo(g, k+1) = (SumTo(f, k+1) - f[i]) + f[k+2]
        BY <2>2, <2>4, <2>5, <3>3, <1>5
      <4> QED BY <2>2, <2>3, <2>6, <3>3, <4>1, <1>5
    <3> QED BY <3>1, <3>2, <3>3, <1>5
  <2> QED BY <2>1, <2>7
<1>9. n \in G
  <2> HIDE DEF G
  <2> QED BY <1>1, <1>7, <1>8, NatSetInduction
<1>10. SumTo(g, n) = SumTo(f, n+1) - f[i]
  <2>1. CASE n < i
    <3>1. i = n+1
      BY <1>1, <1>5, <2>1
    <3>2. SumTo(f, n+1) = SumTo(f, n) + f[n+1]
      <4>1. n \in Nat /\ \A j \in 1..(n+1) : f[j] \in Int
        BY <1>1, <1>3
      <4> QED BY <4>1, SumStep
    <3>3. SumTo(f, n) \in Int /\ f[n+1] \in Int
      <4>1. n \in Nat /\ (\A j \in 1..n : f[j] \in Int) /\ f[n+1] \in Int
        BY <1>1, <1>3
      <4> QED BY <4>1, SumInt
    <3> QED BY <1>9, <2>1, <3>1, <3>2, <3>3
  <2>2. CASE ~(n < i)
    BY <1>9, <2>2
  <2> QED BY <2>1, <2>2
<1> QED BY <1>5, <1>6, <1>10 DEF t

\* a nonempty set of positions has a first one
LEMMA SmallestOf ==
  ASSUME NEW n \in Nat, NEW S \in SUBSET (1..n), S # {}
  PROVE \E k \in S : \A j \in S : k <= j
<1> DEFINE Has(i) == (\E k \in S : k <= i) => \E k \in S : \A j \in S : k <= j
           G == {i \in 0..n : Has(i)}
<1>1. 0 \in G
  OBVIOUS
<1>2. ASSUME NEW i \in 0..(n-1), i \in G PROVE i + 1 \in G
  <2>1. Has(i) /\ i + 1 \in 0..n
    BY <1>2
  <2>2. CASE \E k \in S : k <= i
    BY <2>1, <2>2
  <2>3. CASE \A k \in S : ~(k <= i)
    <3>1. \A k \in S : i + 1 <= k
      BY <2>3
    <3>2. \A k \in S : k <= i + 1 => k = i + 1
      BY <3>1
    <3>3. Has(i + 1)
      BY <3>1, <3>2
    <3> QED BY <2>1, <3>3
  <2> QED BY <2>2, <2>3
<1>3. n \in G
  <2> HIDE DEF G
  <2> QED BY <1>1, <1>2, NatSetInduction
<1>4. \E k \in S : k <= n
  <2>1. PICK k : k \in S
    OBVIOUS
  <2>2. k \in 1..n
    BY <2>1
  <2> QED BY <2>1, <2>2
<1>5. Has(n)
  BY <1>3
<1> QED BY <1>4, <1>5
=============================================================================
