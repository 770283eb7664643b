---------------------------- MODULE InductionLemmas ----------------------------
(***************************************************************************)
(* What the proofs about loops and folds share: induction over a set of    *)
(* numbers that is given, least and greatest elements, functions that are  *)
(* computed step by step, sums of sequences, and division.                 *)
(***************************************************************************)
EXTENDS Integers, Sequences, FiniteSets, FiniteSetsExt, SequencesExt, SequenceTheorems, TLAPS

WellFounded == INSTANCE WellFoundedInduction

--------------------------------------------------------------------------------
(* Induction over the natural numbers, for a set that is given.            *)

LEMMA LeastNatural ==
  ASSUME NEW S, S \subseteq Nat, S # {}
  PROVE  \E m \in S : \A n \in S : m <= n
<1> DEFINE Less == {p \in Nat \X Nat : p[1] < p[2]}
<1>1. WellFounded!IsWellFoundedOn(WellFounded!OpToRel(<, Nat), Nat)
  BY WellFounded!NatLessThanWellFounded, Zenon
<1>2. WellFounded!OpToRel(<, Nat) = Less
  BY Zenon DEF WellFounded!OpToRel
<1>3. PICK m \in S : \A n \in S : <<n, m>> \notin Less
  <2> HIDE DEF Less
  <2> QED
    BY <1>1, <1>2, WellFounded!WFMin
<1>4. \A n \in S : ~(n < m)
  BY <1>3
<1> HIDE DEF Less
<1>5. QED
  BY <1>4

LEMMA SetInduction ==
  ASSUME NEW S, 0 \in S, \A n \in Nat : n \in S => n + 1 \in S
  PROVE  Nat \subseteq S
<1> SUFFICES ASSUME Nat \ S # {} PROVE FALSE
  OBVIOUS
<1>1. PICK m \in Nat \ S : \A n \in Nat \ S : m <= n
  BY LeastNatural
<1>2. m - 1 \in Nat
  BY <1>1
<1>3. m - 1 \in S
  BY <1>1, <1>2
<1>4. QED
  BY <1>1, <1>2, <1>3

--------------------------------------------------------------------------------
(* Two recursive functions with the same first value and the same steps.   *)
StepTogether(W, F, N) ==
    /\ W[0] = F[0]
    /\ \A n \in 1..N : W[n - 1] = F[n - 1] => W[n] = F[n]
Agree(W, F, N) == \A n \in 0..N : W[n] = F[n]

LEMMA SameSteps ==
  ASSUME NEW N \in Nat, NEW W, NEW F, StepTogether(W, F, N)
  PROVE  Agree(W, F, N)
<1> DEFINE Same == {n \in Nat : n <= N => W[n] = F[n]}
<1>1. 0 \in Same
  BY DEF StepTogether
<1>2. ASSUME NEW n \in Nat, n \in Same PROVE n + 1 \in Same
  <2>1. ASSUME n + 1 <= N PROVE W[n + 1] = F[n + 1]
    <3>1. n + 1 \in 1..N /\ (n + 1) - 1 = n /\ W[n] = F[n]
      BY <1>2, <2>1
    <3>2. QED
      BY <3>1 DEF StepTogether
  <2>2. QED
    BY <2>1
<1>3. Nat \subseteq Same
  <2> HIDE DEF Same
  <2> QED
    BY <1>1, <1>2, SetInduction
<1>4. QED
  BY <1>3 DEF Agree

(* What is computed from a first value step by step, within a set.         *)
AreRuns(f, r, step, N) == f[0] = r /\ \A n \in 1..N : f[n] = step[<<n, f[n - 1]>>]

LEMMA RunsExist ==
  ASSUME NEW S, NEW r \in S, NEW N \in Nat, NEW step \in [(1..N) \X S -> S]
  PROVE  \E f \in [0..N -> S] : AreRuns(f, r, step, N)
<1> DEFINE Possible == {k \in Nat : k <= N => \E f \in [0..k -> S] : AreRuns(f, r, step, k)}
<1>1. 0 \in Possible
  <2> DEFINE f == [n \in 0..0 |-> r]
  <2>1. f \in [0..0 -> S] /\ AreRuns(f, r, step, 0)
    BY DEF AreRuns
  <2>2. QED
    BY <2>1
<1>2. ASSUME NEW k \in Nat, k \in Possible PROVE k + 1 \in Possible
  <2>1. ASSUME k + 1 <= N PROVE \E g \in [0..(k + 1) -> S] : AreRuns(g, r, step, k + 1)
    <3>1. PICK f \in [0..k -> S] : AreRuns(f, r, step, k)
      BY <1>2, <2>1
    <3> DEFINE g == [n \in 0..(k + 1) |-> IF n = k + 1 THEN step[<<k + 1, f[k]>>] ELSE f[n]]
    <3>2. f[k] \in S /\ k + 1 \in 1..N
      BY <2>1
    <3>3. step[<<k + 1, f[k]>>] \in S
      BY <3>2
    <3>4. g \in [0..(k + 1) -> S]
      BY <3>3
    <3>5. g[0] = r
      BY <3>1 DEF AreRuns
    <3>6. ASSUME NEW n \in 1..(k + 1) PROVE g[n] = step[<<n, g[n - 1]>>]
      <4>1. CASE n = k + 1
        <5>1. n - 1 = k /\ k \in 0..(k + 1) /\ k # k + 1
          BY <4>1
        <5>2. g[n - 1] = f[k]
          BY <5>1
        <5>3. g[n] = step[<<n, f[k]>>]
          BY <4>1
        <5> HIDE DEF g
        <5>4. QED
          BY <5>2, <5>3
      <4>2. CASE n # k + 1
        <5>1. n \in 1..k /\ n - 1 \in 0..k /\ n - 1 # k + 1
          BY <4>2
        <5>2. g[n] = f[n] /\ g[n - 1] = f[n - 1]
          BY <5>1
        <5>3. QED
          BY <3>1, <5>1, <5>2 DEF AreRuns
      <4>3. QED
        BY <4>1, <4>2
    <3> HIDE DEF g
    <3>7. AreRuns(g, r, step, k + 1)
      BY <3>5, <3>6 DEF AreRuns
    <3>8. QED
      BY <3>4, <3>7
  <2>2. QED
    BY <2>1
<1>3. Nat \subseteq Possible
  <2> HIDE DEF Possible
  <2> QED
    BY <1>1, <1>2, SetInduction
<1>4. QED
  BY <1>3

--------------------------------------------------------------------------------
(* Least and greatest elements of sets of numbers.                          *)

LEMMA MinExists ==
  ASSUME NEW S, S \subseteq Nat, S # {}
  PROVE  Min(S) \in S /\ \A n \in S : Min(S) <= n
<1>1. \E m \in S : \A n \in S : m <= n
  BY LeastNatural
<1>2. QED
  BY <1>1 DEF Min

LEMMA MaxExists ==
  ASSUME NEW b \in Nat, NEW S, S \subseteq 0..b, S # {}
  PROVE  Max(S) \in S /\ \A n \in S : n <= Max(S)
<1> DEFINE T == {b - n : n \in S}
<1>1. T \subseteq Nat /\ T # {}
  <2>1. \A n \in S : b - n \in Nat
    OBVIOUS
  <2>2. PICK n : n \in S
    OBVIOUS
  <2>3. QED
    BY <2>1, <2>2
<1>2. PICK t \in T : \A n \in T : t <= n
  BY <1>1, LeastNatural
<1>3. PICK m \in S : t = b - m
  BY <1>2
<1>4. ASSUME NEW n \in S PROVE n <= m
  <2>1. t <= b - n /\ n \in 0..b /\ m \in 0..b
    BY <1>2
  <2>2. QED
    BY <1>3, <2>1
<1>5. \E k \in S : \A n \in S : k >= n
  BY <1>4
<1>6. Max(S) \in S /\ \A n \in S : Max(S) >= n
  BY <1>5 DEF Max
<1>7. QED
  BY <1>6

LEMMA MinIs ==
  ASSUME NEW S, S \subseteq Int, NEW m \in S, \A n \in S : m <= n
  PROVE  Min(S) = m
<1> DEFINE k == Min(S)
<1>1. k \in S /\ \A n \in S : k <= n
  BY DEF Min
<1> HIDE DEF k
<1>2. k \in Int /\ m \in Int /\ k <= m /\ m <= k
  BY <1>1
<1>3. k = m
  BY ONLY <1>2
<1>4. QED
  BY <1>3 DEF k

LEMMA MaxIs ==
  ASSUME NEW S, S \subseteq Int, NEW m \in S, \A n \in S : n <= m
  PROVE  Max(S) = m
<1> DEFINE k == Max(S)
<1>1. k \in S /\ \A n \in S : k >= n
  BY DEF Max
<1> HIDE DEF k
<1>2. k \in Int /\ m \in Int /\ k >= m /\ m <= k /\ k <= m
  BY <1>1
<1>3. k = m
  BY ONLY <1>2
<1>4. QED
  BY <1>3 DEF k

--------------------------------------------------------------------------------
(* Sums of sequences, which the code adds up from the left.                *)

Summed(s) == FoldLeft(LAMBDA n, size : n + size, 0, s)

(* The recursive function behind a sum: over every set of places, the      *)
(* greatest one last.                                                      *)
SumsOver(s, S, f) ==
    [T \in SUBSET S |-> IF T = {} THEN 0 ELSE f[T \ {Max(T)}] + s[Max(T)]]

LEMMA SummedIsChosen ==
  ASSUME NEW k \in Nat, NEW s, DOMAIN s = 1..k
  PROVE  Summed(s) = (CHOOSE f : f = SumsOver(s, 1..k, f))[1..k]
BY DEF Summed, FoldLeft, MapThenFoldSet, SumsOver

LEMMA MaxOfPlaces ==
  ASSUME NEW k \in Nat, NEW T \in SUBSET (1..k)
  PROVE  /\ T # {} => Max(T) \in T
         /\ k \in T => Max(T) = k
<1>1. T \subseteq 0..k /\ T \subseteq Int
  OBVIOUS
<1>2. T # {} => Max(T) \in T
  BY <1>1, MaxExists
<1>3. ASSUME k \in T PROVE Max(T) = k
  <2>1. \A n \in T : n <= k
    OBVIOUS
  <2>2. QED
    BY ONLY <1>1, <1>3, <2>1, MaxIs
<1>4. QED
  BY <1>2, <1>3

LEMMA SumsExist ==
  ASSUME NEW s, NEW k \in Nat
  PROVE  \E f : f = SumsOver(s, 1..k, f)
<1> DEFINE Possible == {n \in Nat : \E f : f = SumsOver(s, 1..n, f)}
<1>1. 0 \in Possible
  <2> DEFINE f == [T \in SUBSET (1..0) |-> 0]
  <2>1. \A T \in SUBSET (1..0) : T = {}
    OBVIOUS
  <2>2. f = SumsOver(s, 1..0, f)
    BY <2>1 DEF SumsOver
  <2>3. QED
    BY <2>2
<1>2. ASSUME NEW n \in Nat, n \in Possible PROVE n + 1 \in Possible
  <2>1. PICK f : f = SumsOver(s, 1..n, f)
    BY <1>2
  <2> DEFINE g == [T \in SUBSET (1..(n + 1)) |->
                      IF n + 1 \in T THEN f[T \ {n + 1}] + s[n + 1] ELSE f[T]]
             Body == SumsOver(s, 1..(n + 1), g)
  <2>2. ASSUME NEW T \in SUBSET (1..(n + 1)) PROVE g[T] = Body[T]
    <3>1. /\ T # {} => Max(T) \in T
          /\ n + 1 \in T => Max(T) = n + 1
      <4>1. n + 1 \in Nat
        OBVIOUS
      <4>2. QED
        BY ONLY <4>1, MaxOfPlaces
    <3>2. Body[T] = IF T = {} THEN 0 ELSE g[T \ {Max(T)}] + s[Max(T)]
      BY DEF SumsOver
    <3>3. CASE n + 1 \in T
      <4>1. g[T] = f[T \ {n + 1}] + s[n + 1]
        BY <3>3
      <4>2. T \ {n + 1} \in SUBSET (1..(n + 1)) /\ n + 1 \notin T \ {n + 1}
        OBVIOUS
      <4>3. g[T \ {n + 1}] = f[T \ {n + 1}]
        BY <4>2
      <4> HIDE DEF g, Body
      <4>4. QED
        BY <3>1, <3>2, <3>3, <4>1, <4>3
    <3>4. CASE n + 1 \notin T
      <4>1. T \in SUBSET (1..n)
        BY <3>4
      <4>2. f[T] = IF T = {} THEN 0 ELSE f[T \ {Max(T)}] + s[Max(T)]
        <5>1. SumsOver(s, 1..n, f)[T] = IF T = {} THEN 0 ELSE f[T \ {Max(T)}] + s[Max(T)]
          BY <4>1 DEF SumsOver
        <5>2. QED
          BY <2>1, <5>1
      <4>3. g[T] = f[T]
        BY <3>4
      <4>4. g[T \ {Max(T)}] = f[T \ {Max(T)}]
        BY <3>4
      <4> HIDE DEF g, Body
      <4>5. QED
        BY <3>2, <4>2, <4>3, <4>4
    <3>5. QED
      BY <3>3, <3>4
  <2>3. g = Body
    <3>1. g = [T \in SUBSET (1..(n + 1)) |-> g[T]]
      OBVIOUS
    <3>2. Body = [T \in SUBSET (1..(n + 1)) |-> Body[T]]
      BY DEF SumsOver
    <3> HIDE DEF g, Body
    <3>3. QED
      BY <2>2, <3>1, <3>2
  <2>4. QED
    BY <2>3
<1>3. Nat \subseteq Possible
  <2> HIDE DEF Possible
  <2> QED
    BY <1>1, <1>2, SetInduction
<1>4. QED
  BY <1>3

(* The sums of the first elements, one after the other.                    *)
First(s, k) == [i \in 1..k |-> s[i]]
ArePrefixSums(p, s, N) ==
    /\ p \in [0..N -> Nat]
    /\ p[0] = 0
    /\ \A k \in 1..N : p[k] = p[k - 1] + s[k]
    /\ \A k \in 0..N : Summed(First(s, k)) = p[k]

LEMMA ChosenSums ==
  ASSUME NEW s, NEW n \in Nat, NEW f, f = SumsOver(s, 1..n, f)
  PROVE  f[1..0] = 0 /\ \A k \in 1..n : f[1..k] = f[1..(k - 1)] + s[k]
<1>1. ASSUME NEW T \in SUBSET (1..n) PROVE f[T] = IF T = {} THEN 0 ELSE f[T \ {Max(T)}] + s[Max(T)]
  <2>1. SumsOver(s, 1..n, f)[T] = IF T = {} THEN 0 ELSE f[T \ {Max(T)}] + s[Max(T)]
    BY DEF SumsOver
  <2>2. QED
    BY <2>1
<1>2. 1..0 \in SUBSET (1..n) /\ 1..0 = {}
  OBVIOUS
<1>3. ASSUME NEW k \in 1..n PROVE f[1..k] = f[1..(k - 1)] + s[k]
  <2> DEFINE T == 1..k
  <2>1. k \in Nat /\ T \in SUBSET (1..n) /\ T \in SUBSET (1..k) /\ k \in T
    OBVIOUS
  <2>2. Max(T) = k
    BY ONLY <2>1, MaxOfPlaces
  <2>3. T \ {k} = 1..(k - 1) /\ T # {}
    OBVIOUS
  <2> HIDE DEF T
  <2>4. f[T] = f[1..(k - 1)] + s[k]
    BY <1>1, <2>1, <2>2, <2>3
  <2>5. QED
    BY <2>4 DEF T
<1>4. QED
  BY <1>1, <1>2, <1>3

LEMMA PrefixSums ==
  ASSUME NEW N \in Nat, NEW s, \A i \in 1..N : s[i] \in Nat
  PROVE  \E p : ArePrefixSums(p, s, N)
<1>1. PICK f : f = SumsOver(s, 1..N, f)
  BY SumsExist
<1>2. f[1..0] = 0 /\ \A k \in 1..N : f[1..k] = f[1..(k - 1)] + s[k]
  BY <1>1, ChosenSums
<1> DEFINE p == [k \in 0..N |-> f[1..k]]
<1>3. p[0] = 0 /\ \A k \in 1..N : p[k] = p[k - 1] + s[k]
  <2>1. \A k \in 1..N : k \in 0..N /\ k - 1 \in 0..N
    OBVIOUS
  <2>2. QED
    BY <1>2, <2>1
<1>4. p = [k \in 0..N |-> p[k]]
  OBVIOUS
<1> HIDE DEF p
<1>5. \A k \in 0..N : p[k] \in Nat
  <2> DEFINE Typed == {k \in Nat : k <= N => p[k] \in Nat}
  <2>1. 0 \in Typed
    BY <1>3
  <2>2. ASSUME NEW k \in Nat, k \in Typed PROVE k + 1 \in Typed
    <3>1. ASSUME k + 1 <= N PROVE p[k + 1] \in Nat
      <4>1. k + 1 \in 1..N /\ (k + 1) - 1 = k /\ p[k] \in Nat
        BY <2>2, <3>1
      <4>2. p[k + 1] = p[k] + s[k + 1] /\ s[k + 1] \in Nat
        BY <1>3, <4>1
      <4>3. QED
        BY <4>1, <4>2
    <3>2. QED
      BY <3>1
  <2>3. Nat \subseteq Typed
    <3> HIDE DEF Typed
    <3> QED
      BY <2>1, <2>2, SetInduction
  <2>4. QED
    BY <2>3
<1>6. ASSUME NEW k \in 0..N PROVE Summed(First(s, k)) = p[k]
  <2> DEFINE t == First(s, k)
             e == CHOOSE e : e = SumsOver(t, 1..k, e)
             E == [i \in 0..k |-> e[1..i]]
  <2>1. k \in Nat /\ DOMAIN t = 1..k
    BY DEF First
  <2>2. \A i \in 1..k : t[i] = s[i]
    BY DEF First
  <2> HIDE DEF t
  <2>3. Summed(t) = e[1..k]
    BY <2>1, SummedIsChosen
  <2>4. e = SumsOver(t, 1..k, e)
    BY <2>1, SumsExist
  <2> HIDE DEF e
  <2>5. e[1..0] = 0 /\ \A i \in 1..k : e[1..i] = e[1..(i - 1)] + t[i]
    BY <2>1, <2>4, ChosenSums
  <2>6. StepTogether(E, p, k)
    <3>1. E[0] = p[0]
      BY <1>3, <2>5
    <3>2. ASSUME NEW i \in 1..k, E[i - 1] = p[i - 1] PROVE E[i] = p[i]
      <4>1. i \in 0..k /\ i - 1 \in 0..k /\ i \in 1..N
        OBVIOUS
      <4>2. E[i] = E[i - 1] + t[i]
        BY <2>5, <4>1
      <4>3. p[i] = p[i - 1] + s[i]
        BY <1>3, <4>1
      <4>4. QED
        BY <2>2, <3>2, <4>2, <4>3
    <3>3. QED
      BY <3>1, <3>2 DEF StepTogether
  <2>7. Agree(E, p, k)
    BY ONLY <2>1, <2>6, SameSteps
  <2>8. E[k] = e[1..k]
    BY <2>1
  <2>9. QED
    BY <2>1, <2>3, <2>7, <2>8 DEF Agree, t
<1>7. p \in [0..N -> Nat]
  BY <1>4, <1>5
<1>8. QED
  BY <1>3, <1>6, <1>7 DEF ArePrefixSums

LEMMA SumsGrow ==
  ASSUME NEW N \in Nat, NEW s, NEW p, ArePrefixSums(p, s, N), \A i \in 1..N : s[i] \in Nat,
         NEW j \in 0..N, NEW k \in 0..N, j <= k
  PROVE  p[j] <= p[k]
<1> DEFINE Grown == {n \in Nat : j + n <= N => p[j] <= p[j + n]}
<1>1. \A n \in 0..N : p[n] \in Nat
  BY DEF ArePrefixSums
<1>2. 0 \in Grown
  BY <1>1
<1>3. ASSUME NEW n \in Nat, n \in Grown PROVE n + 1 \in Grown
  <2>1. ASSUME j + (n + 1) <= N PROVE p[j] <= p[j + (n + 1)]
    <3>1. j + n \in 0..N /\ j + (n + 1) \in 1..N /\ (j + (n + 1)) - 1 = j + n /\ j \in 0..N
      BY <2>1
    <3>2. p[j + (n + 1)] = p[j + n] + s[j + (n + 1)]
      BY <3>1 DEF ArePrefixSums
    <3>3. s[j + (n + 1)] \in Nat /\ p[j + n] \in Nat /\ p[j] \in Nat
      BY <1>1, <3>1
    <3>4. p[j] <= p[j + n]
      BY <1>3, <3>1
    <3>5. QED
      BY ONLY <3>2, <3>3, <3>4
  <2>2. QED
    BY <2>1
<1>4. k - j \in Nat /\ j + (k - j) = k
  OBVIOUS
<1>5. Nat \subseteq Grown
  <2> HIDE DEF Grown
  <2> QED
    BY <1>2, <1>3, SetInduction
<1>6. k - j \in Grown
  <2> HIDE DEF Grown
  <2> QED
    BY <1>4, <1>5
<1>7. QED
  BY <1>4, <1>6

--------------------------------------------------------------------------------
(* Division and multiplication by a number that is not 0.                  *)

LEMMA DivMod ==
  ASSUME NEW b \in Int, NEW d \in Nat \ {0}
  PROVE  /\ b \div d \in Int /\ b % d \in 0..(d - 1)
         /\ b = d * (b \div d) + (b % d)
OBVIOUS

LEMMA DivOfNat ==
  ASSUME NEW b \in Nat, NEW d \in Nat \ {0}
  PROVE  LET q == b \div d IN q \in Nat /\ q * d <= b /\ b < (q + 1) * d
OBVIOUS

(* The quotient is the one number of whole parts.                          *)
LEMMA DivIsUnique ==
  ASSUME NEW b \in Int, NEW d \in Nat \ {0}, NEW q \in Int, d * q <= b, b < d * q + d
  PROVE  b \div d = q
OBVIOUS

LEMMA ProductOrder ==
  ASSUME NEW d \in Nat \ {0}, NEW x \in Int, NEW y \in Int
  PROVE  /\ d * x < d * y <=> x < y
         /\ x <= y => d * x <= d * y
         /\ d * x = x * d /\ d * (x + 1) = d * x + d
OBVIOUS
================================================================================
