-------------------------- MODULE AvDynamicArrayProofs --------------------------
(***************************************************************************)
(* The calls on dynamic arrays do what their names say to the sequence of  *)
(* elements, whatever they do to the pages, for every number of arrays,    *)
(* pages, slots and elements.                                              *)
(***************************************************************************)
EXTENDS AvDynamicArray, InductionLemmas

--------------------------------------------------------------------------------
(* Sequences that are joined to one.                                       *)

Joins(s, N, f) == [n \in 1..N |-> IF n = 1 THEN s[n] ELSE f[n - 1] \o s[n]]

LEMMA JoinsExist ==
  ASSUME NEW s, NEW k \in Nat
  PROVE  \E f : f = Joins(s, k, f)
<1> DEFINE Possible == {n \in Nat : \E f : f = Joins(s, n, f)}
<1>1. 0 \in Possible
  <2> DEFINE f == [n \in 1..0 |-> 0]
  <2>1. \A n \in 1..0 : FALSE
    OBVIOUS
  <2>2. f = Joins(s, 0, f)
    BY <2>1 DEF Joins
  <2>3. QED
    BY <2>2
<1>2. ASSUME NEW n \in Nat, n \in Possible PROVE n + 1 \in Possible
  <2>1. PICK f : f = Joins(s, n, f)
    BY <1>2
  <2> DEFINE g == [m \in 1..(n + 1) |-> IF m = n + 1 /\ n # 0 THEN f[n] \o s[m]
                                        ELSE IF m = n + 1 THEN s[m] ELSE f[m]]
             Body == Joins(s, n + 1, g)
  <2>2. ASSUME NEW m \in 1..(n + 1) PROVE g[m] = Body[m]
    <3>1. Body[m] = IF m = 1 THEN s[m] ELSE g[m - 1] \o s[m]
      BY DEF Joins
    <3>2. CASE m = n + 1 /\ n = 0
      BY <3>1, <3>2
    <3>3. CASE m = n + 1 /\ n # 0
      <4>1. m - 1 = n /\ n \in 1..(n + 1) /\ n # n + 1 /\ m # 1
        BY <3>3
      <4>2. g[m - 1] = f[n]
        BY <4>1
      <4>3. g[m] = f[n] \o s[m]
        BY <3>3
      <4> HIDE DEF g, Body
      <4>4. QED
        BY <3>1, <4>1, <4>2, <4>3
    <3>4. CASE m # n + 1
      <4>1. m \in 1..n /\ (m # 1 => m - 1 \in 1..(n + 1) /\ m - 1 # n + 1)
        BY <3>4
      <4>2. f[m] = IF m = 1 THEN s[m] ELSE f[m - 1] \o s[m]
        <5>1. Joins(s, n, f)[m] = IF m = 1 THEN s[m] ELSE f[m - 1] \o s[m]
          BY <4>1 DEF Joins
        <5>2. QED
          BY <2>1, <5>1
      <4>3. g[m] = f[m] /\ (m # 1 => g[m - 1] = f[m - 1])
        BY <3>4, <4>1
      <4> HIDE DEF g, Body
      <4>4. QED
        BY <3>1, <4>2, <4>3
    <3>5. QED
      BY <3>2, <3>3, <3>4
  <2>3. g = Body
    <3>1. g = [m \in 1..(n + 1) |-> g[m]]
      OBVIOUS
    <3>2. Body = [m \in 1..(n + 1) |-> Body[m]]
      BY DEF Joins
    <3> HIDE DEF g, Body
    <3>3. QED
      BY <2>2, <3>1, <3>2
  <2>4. QED
    BY <2>3
<1>3. Nat \subseteq Possible
  <2> HIDE DEF Possible
  <2> QED
    BY <1>1, <1>2, SetInduction
<1>4. QED
  BY <1>3

(* What is joined of the first n, for each n.                              *)
LEMMA JoinedSteps ==
  ASSUME NEW s, NEW N \in Nat, NEW f, f = Joins(s, N, f), NEW n \in 1..N
  PROVE  f[n] = IF n = 1 THEN s[n] ELSE f[n - 1] \o s[n]
<1>1. Joins(s, N, f)[n] = IF n = 1 THEN s[n] ELSE f[n - 1] \o s[n]
  BY DEF Joins
<1>2. QED
  BY <1>1

LEMMA FlattenIsChosen ==
  ASSUME NEW S, NEW s \in Seq(S), s # <<>>
  PROVE  FlattenSeq(s) = (CHOOSE f : f = Joins(s, Len(s), f))[Len(s)]
<1>1. Len(s) # 0
  OBVIOUS
<1>2. QED
  BY <1>1 DEF FlattenSeq, Joins

LEMMA FlattenNone == FlattenSeq(<<>>) = <<>>
BY DEF FlattenSeq

SameUpTo(s, t, N) == \A n \in 1..N : s[n] = t[n]

LEMMA JoinsAgree ==
  ASSUME NEW s, NEW t, NEW N \in Nat, NEW M \in Nat, N <= M, SameUpTo(s, t, N),
         NEW f, f = Joins(s, N, f), NEW g, g = Joins(t, M, g)
  PROVE  SameUpTo(f, g, N)
<1> USE DEF SameUpTo
<1> DEFINE Same == {n \in Nat : n \in 1..N => f[n] = g[n]}
<1>1. 0 \in Same
  OBVIOUS
<1>2. ASSUME NEW n \in Nat, n \in Same PROVE n + 1 \in Same
  <2>1. ASSUME n + 1 \in 1..N PROVE f[n + 1] = g[n + 1]
    <3>1. n + 1 \in 1..M /\ (n + 1) - 1 = n /\ (n + 1 # 1 => n \in 1..N)
      BY <2>1
    <3>2. f[n + 1] = IF n + 1 = 1 THEN s[n + 1] ELSE f[(n + 1) - 1] \o s[n + 1]
      BY <2>1, JoinedSteps
    <3>3. g[n + 1] = IF n + 1 = 1 THEN t[n + 1] ELSE g[(n + 1) - 1] \o t[n + 1]
      BY <3>1, JoinedSteps
    <3>4. QED
      BY <1>2, <2>1, <3>1, <3>2, <3>3
  <2>2. QED
    BY <2>1
<1>3. Nat \subseteq Same
  <2> HIDE DEF Same
  <2> QED
    BY <1>1, <1>2, SetInduction
<1>4. QED
  BY <1>3

LEMMA FlattenLonger ==
  ASSUME NEW S, NEW s \in Seq(Seq(S)), NEW x \in Seq(S)
  PROVE  FlattenSeq(Append(s, x)) = FlattenSeq(s) \o x
<1> DEFINE N == Len(s)
           t == Append(s, x)
           g == CHOOSE g : g = Joins(t, N + 1, g)
<1>1. /\ N \in Nat /\ N + 1 \in Nat /\ N + 1 \in 1..(N + 1) /\ N <= N + 1
      /\ t \in Seq(Seq(S)) /\ Len(t) = N + 1 /\ t[N + 1] = x
      /\ SameUpTo(s, t, N)
  <2>1. /\ t \in Seq(Seq(S)) /\ Len(t) = N + 1
        /\ t[N + 1] = x /\ \A n \in 1..N : t[n] = s[n]
    <3> DEFINE T == Seq(S)
    <3>1. s \in Seq(T) /\ x \in T
      OBVIOUS
    <3> HIDE DEF T
    <3>2. t \in Seq(T) /\ Len(t) = N + 1 /\ t[N + 1] = x /\ \A n \in 1..N : t[n] = s[n]
      BY ONLY <3>1, AppendProperties
    <3>3. QED
      BY <3>2 DEF T
  <2> HIDE DEF t
  <2>2. QED
    BY <2>1 DEF SameUpTo
<1> HIDE DEF t
<1>8. t # <<>>
  BY <1>1
<1>2. FlattenSeq(t) = g[N + 1]
  BY <1>1, <1>8, FlattenIsChosen
<1>3. g = Joins(t, N + 1, g)
  BY <1>1, JoinsExist
<1> HIDE DEF g
<1>4. g[N + 1] = IF N + 1 = 1 THEN t[N + 1] ELSE g[(N + 1) - 1] \o t[N + 1]
  BY ONLY <1>1, <1>3, JoinedSteps
<1>5. CASE s = <<>>
  <2>1. N = 0 /\ FlattenSeq(s) = <<>>
    BY <1>5, FlattenNone
  <2>2. <<>> \o x = x
    OBVIOUS
  <2>3. QED
    BY <1>1, <1>2, <1>4, <2>1, <2>2 DEF t
<1>6. CASE s # <<>>
  <2> DEFINE f == CHOOSE f : f = Joins(s, N, f)
  <2>1. N \in 1..N /\ N # 0
    BY <1>6
  <2>2. FlattenSeq(s) = f[N]
    BY <1>6, FlattenIsChosen
  <2>3. f = Joins(s, N, f)
    BY <1>1, JoinsExist
  <2> HIDE DEF f, N
  <2>4. f[N] = g[N]
    <3>1. SameUpTo(f, g, N)
      BY ONLY <1>1, <1>3, <2>3, JoinsAgree
    <3>2. QED
      BY <2>1, <3>1 DEF SameUpTo
  <2>5. (N + 1) - 1 = N /\ N + 1 # 1
    BY <1>1, <2>1
  <2>6. QED
    BY <1>1, <1>2, <1>4, <2>1, <2>2, <2>4, <2>5 DEF t
<1>7. QED
  BY <1>5, <1>6

(* The first n of a sequence, one by one.                                  *)
LEMMA PrefixGrows ==
  ASSUME NEW S, NEW s \in Seq(S), NEW n \in 1..Len(s)
  PROVE  /\ SubSeq(s, 1, n - 1) \in Seq(S)
         /\ SubSeq(s, 1, n) = Append(SubSeq(s, 1, n - 1), s[n])
<1> DEFINE longer == Append(SubSeq(s, 1, n - 1), s[n])
<1>1. n - 1 \in 0..Len(s) /\ n \in Nat /\ s[n] \in S
  OBVIOUS
<1>2. SubSeq(s, 1, n - 1) \in Seq(S) /\ Len(SubSeq(s, 1, n - 1)) = n - 1
  BY <1>1
<1>3. \A i \in 1..(n - 1) : SubSeq(s, 1, n - 1)[i] = s[i]
  BY <1>1
<1>4. longer \in Seq(S) /\ Len(longer) = n
  BY <1>1, <1>2
<1>5. \A i \in 1..n : longer[i] = s[i]
  BY <1>1, <1>2, <1>3
<1>6. SubSeq(s, 1, n) \in Seq(S) /\ Len(SubSeq(s, 1, n)) = n /\ \A i \in 1..n : SubSeq(s, 1, n)[i] = s[i]
  BY <1>1
<1> HIDE DEF longer
<1>7. SubSeq(s, 1, n) = longer
  BY <1>4, <1>5, <1>6, SeqEqual
<1>8. QED
  BY <1>2, <1>7 DEF longer

LEMMA PrefixEnds ==
  ASSUME NEW S, NEW s \in Seq(S)
  PROVE  SubSeq(s, 1, 0) = <<>> /\ SubSeq(s, 1, Len(s)) = s
OBVIOUS

LEMMA FlattenTyped ==
  ASSUME NEW S, NEW s \in Seq(Seq(S))
  PROVE  FlattenSeq(s) \in Seq(S)
<1> DEFINE Typed == {n \in Nat : n <= Len(s) => FlattenSeq(SubSeq(s, 1, n)) \in Seq(S)}
<1>1. 0 \in Typed
  <2>1. FlattenSeq(SubSeq(s, 1, 0)) = <<>> /\ <<>> \in Seq(S)
    <3>1. SubSeq(s, 1, 0) = <<>> /\ <<>> \in Seq(S)
      OBVIOUS
    <3>2. QED
      BY ONLY <3>1, FlattenNone
  <2>2. QED
    BY <2>1
<1>2. ASSUME NEW n \in Nat, n \in Typed PROVE n + 1 \in Typed
  <2>1. ASSUME n + 1 <= Len(s) PROVE FlattenSeq(SubSeq(s, 1, n + 1)) \in Seq(S)
    <3>1. n + 1 \in 1..Len(s) /\ (n + 1) - 1 = n /\ s[n + 1] \in Seq(S)
      BY <2>1
    <3>2. SubSeq(s, 1, n) \in Seq(Seq(S)) /\ SubSeq(s, 1, n + 1) = Append(SubSeq(s, 1, n), s[n + 1])
      BY <3>1, PrefixGrows
    <3>3. FlattenSeq(SubSeq(s, 1, n + 1)) = FlattenSeq(SubSeq(s, 1, n)) \o s[n + 1]
      BY <3>1, <3>2, FlattenLonger
    <3>4. FlattenSeq(SubSeq(s, 1, n)) \in Seq(S)
      BY <1>2, <2>1
    <3>5. QED
      BY <3>1, <3>3, <3>4, ConcatProperties
  <2>2. QED
    BY <2>1
<1>3. Nat \subseteq Typed
  <2> HIDE DEF Typed
  <2> QED
    BY <1>1, <1>2, SetInduction
<1>4. FlattenSeq(SubSeq(s, 1, Len(s))) \in Seq(S)
  BY <1>3
<1>5. QED
  BY <1>4, PrefixEnds

LEMMA FlattenConcat ==
  ASSUME NEW S, NEW s \in Seq(Seq(S)), NEW t \in Seq(Seq(S))
  PROVE  FlattenSeq(s \o t) = FlattenSeq(s) \o FlattenSeq(t)
<1> DEFINE Joined(n) == FlattenSeq(s \o SubSeq(t, 1, n)) = FlattenSeq(s) \o FlattenSeq(SubSeq(t, 1, n))
           Holds == {n \in Nat : n <= Len(t) => Joined(n)}
<1>1. 0 \in Holds
  <2>1. SubSeq(t, 1, 0) = <<>> /\ s \o <<>> = s /\ FlattenSeq(s) \o <<>> = FlattenSeq(s)
    BY FlattenTyped, PrefixEnds
  <2>2. QED
    BY <2>1, FlattenNone
<1>2. ASSUME NEW n \in Nat, n \in Holds PROVE n + 1 \in Holds
  <2>1. ASSUME n + 1 <= Len(t) PROVE Joined(n + 1)
    <3> DEFINE u == SubSeq(t, 1, n)
    <3>1. n + 1 \in 1..Len(t) /\ (n + 1) - 1 = n /\ t[n + 1] \in Seq(S)
      BY <2>1
    <3>2. u \in Seq(Seq(S)) /\ SubSeq(t, 1, n + 1) = Append(u, t[n + 1])
      BY <3>1, PrefixGrows
    <3>3. FlattenSeq(s \o u) = FlattenSeq(s) \o FlattenSeq(u)
      BY <1>2, <2>1
    <3> HIDE DEF u
    <3>4. s \o Append(u, t[n + 1]) = Append(s \o u, t[n + 1]) /\ s \o u \in Seq(Seq(S))
      <4>1. /\ s \o u \in Seq(Seq(S)) /\ <<t[n + 1]>> \in Seq(Seq(S))
            /\ Append(u, t[n + 1]) = u \o <<t[n + 1]>>
        BY <3>1, <3>2, AppendIsConcat, ConcatProperties
      <4>2. Append(s \o u, t[n + 1]) = (s \o u) \o <<t[n + 1]>>
        BY <3>1, <4>1, AppendIsConcat
      <4>3. (s \o u) \o <<t[n + 1]>> = s \o (u \o <<t[n + 1]>>)
        <5> DEFINE T == Seq(S)
                   x == <<t[n + 1]>>
        <5>1. s \in Seq(T) /\ u \in Seq(T) /\ x \in Seq(T)
          BY <3>2, <4>1
        <5> HIDE DEF T, x
        <5>2. (s \o u) \o x = s \o (u \o x)
          BY ONLY <5>1
        <5>3. QED
          BY <5>2 DEF x
      <4>4. QED
        BY <4>1, <4>2, <4>3
    <3>5. FlattenSeq(Append(s \o u, t[n + 1])) = FlattenSeq(s \o u) \o t[n + 1]
      BY <3>1, <3>4, FlattenLonger
    <3>6. FlattenSeq(Append(u, t[n + 1])) = FlattenSeq(u) \o t[n + 1]
      BY <3>1, <3>2, FlattenLonger
    <3>7. (FlattenSeq(s) \o FlattenSeq(u)) \o t[n + 1] = FlattenSeq(s) \o (FlattenSeq(u) \o t[n + 1])
      <4> DEFINE x == FlattenSeq(s)
                 y == FlattenSeq(u)
                 z == t[n + 1]
      <4>1. x \in Seq(S) /\ y \in Seq(S) /\ z \in Seq(S)
        BY <3>1, <3>2, FlattenTyped
      <4> HIDE DEF x, y, z
      <4>2. (x \o y) \o z = x \o (y \o z)
        BY ONLY <4>1
      <4>3. QED
        BY <4>2 DEF x, y, z
    <3>8. QED
      BY <3>2, <3>3, <3>4, <3>5, <3>6, <3>7
  <2>2. QED
    BY <2>1
<1>3. Nat \subseteq Holds
  <2> HIDE DEF Holds
  <2> QED
    BY <1>1, <1>2, SetInduction
<1>4. Joined(Len(t))
  BY <1>3
<1>5. QED
  BY <1>4, PrefixEnds

LEMMA FlattenOne ==
  ASSUME NEW S, NEW x \in Seq(S)
  PROVE  FlattenSeq(<<x>>) = x
<1>1. <<>> \in Seq(Seq(S)) /\ Append(<<>>, x) = <<x>> /\ <<>> \o x = x
  OBVIOUS
<1>2. QED
  BY <1>1, FlattenLonger, FlattenNone

(* How many elements come before the k-th sequence.                        *)
Before(s, k) == Len(FlattenSeq(SubSeq(s, 1, k - 1)))

LEMMA BeforeGrows ==
  ASSUME NEW S, NEW s \in Seq(Seq(S))
  PROVE  /\ Before(s, 1) = 0
         /\ \A k \in 1..Len(s) : /\ Before(s, k) \in Nat
                                 /\ Len(s[k]) \in Nat
                                 /\ Before(s, k + 1) = Before(s, k) + Len(s[k])
         /\ Before(s, Len(s) + 1) = Len(FlattenSeq(s))
<1>1. Before(s, 1) = 0
  <2>1. SubSeq(s, 1, 1 - 1) = <<>> /\ Len(<<>>) = 0
    OBVIOUS
  <2>2. QED
    BY ONLY <2>1, FlattenNone DEF Before
<1>2. ASSUME NEW k \in 1..Len(s)
      PROVE  /\ Before(s, k) \in Nat /\ Len(s[k]) \in Nat
             /\ Before(s, k + 1) = Before(s, k) + Len(s[k])
  <2> DEFINE u == SubSeq(s, 1, k - 1)
             x == s[k]
             y == FlattenSeq(u)
  <2>1. u \in Seq(Seq(S)) /\ SubSeq(s, 1, k) = Append(u, x)
    BY PrefixGrows
  <2>2. x \in Seq(S)
    OBVIOUS
  <2>3. (k + 1) - 1 = k
    OBVIOUS
  <2> HIDE DEF u, x
  <2>4. FlattenSeq(SubSeq(s, 1, k)) = y \o x
    BY ONLY <2>1, <2>2, FlattenLonger
  <2>5. y \in Seq(S)
    BY <2>1, FlattenTyped
  <2> HIDE DEF y
  <2>6. Len(y \o x) = Len(y) + Len(x) /\ Len(y) \in Nat /\ Len(x) \in Nat
    BY ONLY <2>2, <2>5
  <2>7. QED
    BY <2>3, <2>4, <2>6 DEF Before, x, y, u
<1>3. Before(s, Len(s) + 1) = Len(FlattenSeq(s))
  <2>1. (Len(s) + 1) - 1 = Len(s) /\ SubSeq(s, 1, Len(s)) = s
    OBVIOUS
  <2>2. QED
    BY <2>1 DEF Before
<1>4. QED
  BY <1>1, <1>2, <1>3

(* A number of elements that grows from nothing.                           *)
AreStarts(p, L, N) ==
    p[1] = 0 /\ \A k \in 1..N : L[k] \in Nat /\ p[k] \in Nat /\ p[k + 1] = p[k] + L[k]
IsWithin(n, p, L, N) == \E k \in 1..N : \E i \in 1..L[k] : n = p[k] + i

LEMMA StartsWithin ==
  ASSUME NEW N \in Nat, NEW p, NEW L, AreStarts(p, L, N), NEW place \in 1..(p[N + 1])
  PROVE  IsWithin(place, p, L, N)
<1> USE DEF AreStarts, IsWithin
<1> DEFINE Covered(m) == \A n \in 1..(p[m + 1]) : \E k \in 1..N : \E i \in 1..L[k] : n = p[k] + i
           Holds == {m \in Nat : m <= N => Covered(m)}
<1>1. 0 \in Holds
  BY 0 + 1 = 1
<1>2. ASSUME NEW m \in Nat, m \in Holds PROVE m + 1 \in Holds
  <2>1. SUFFICES ASSUME m + 1 <= N PROVE Covered(m + 1)
    OBVIOUS
  <2>2. SUFFICES ASSUME NEW n \in 1..(p[(m + 1) + 1])
                 PROVE  \E k \in 1..N : \E i \in 1..L[k] : n = p[k] + i
    OBVIOUS
  <2>3. /\ m + 1 \in 1..N /\ p[m + 1] \in Nat /\ L[m + 1] \in Nat
        /\ p[(m + 1) + 1] = p[m + 1] + L[m + 1]
    BY <2>1
  <2>4. CASE n <= p[m + 1]
    <3>1. Covered(m)
      BY <1>2, <2>1
    <3>2. n \in 1..(p[m + 1])
      BY <2>3, <2>4
    <3>3. QED
      BY <3>1, <3>2
  <2>5. CASE n > p[m + 1]
    <3>1. n - p[m + 1] \in 1..(L[m + 1]) /\ n = p[m + 1] + (n - p[m + 1])
      BY <2>3, <2>5
    <3>2. QED
      BY <2>3, <3>1
  <2>6. QED
    BY <2>3, <2>4, <2>5
<1>3. Nat \subseteq Holds
  <2> HIDE DEF Holds
  <2> QED
    BY <1>1, <1>2, SetInduction
<1>4. QED
  BY <1>3

LEMMA FlattenCovers ==
  ASSUME NEW S, NEW s \in Seq(Seq(S)), NEW n \in 1..Len(FlattenSeq(s))
  PROVE  \E k \in 1..Len(s) : \E i \in 1..Len(s[k]) : n = Before(s, k) + i
<1> DEFINE p == [k \in 1..(Len(s) + 1) |-> Before(s, k)]
           L == [k \in 1..Len(s) |-> Len(s[k])]
<1>1. Len(s) \in Nat /\ 1 \in 1..(Len(s) + 1) /\ Len(s) + 1 \in 1..(Len(s) + 1)
      /\ \A k \in 1..Len(s) : k \in 1..(Len(s) + 1) /\ k + 1 \in 1..(Len(s) + 1)
  OBVIOUS
<1>2. AreStarts(p, L, Len(s))
  BY <1>1, BeforeGrows DEF AreStarts
<1>3. p[Len(s) + 1] = Len(FlattenSeq(s))
  BY <1>1, BeforeGrows
<1>4. \A k \in 1..Len(s) : L[k] = Len(s[k]) /\ p[k] = Before(s, k)
  BY <1>1
<1> HIDE DEF p, L
<1>5. IsWithin(n, p, L, Len(s))
  <2>1. n \in 1..(p[Len(s) + 1])
    BY <1>3
  <2>2. QED
    BY ONLY <1>1, <1>2, <2>1, StartsWithin
<1>6. QED
  BY <1>4, <1>5 DEF IsWithin

IsJoin(z, x, y, S) ==
    /\ z \in Seq(S) /\ Len(z) = Len(x) + Len(y)
    /\ \A i \in 1..(Len(x) + Len(y)) : z[i] = IF i <= Len(x) THEN x[i] ELSE y[i - Len(x)]

LEMMA JoinOf ==
  ASSUME NEW S, NEW x, x \in Seq(S), NEW y, y \in Seq(S)
  PROVE  IsJoin(x \o y, x, y, S)
BY ConcatProperties DEF IsJoin

LEMMA SequenceSplits ==
  ASSUME NEW S, NEW s \in Seq(S), NEW k \in 1..Len(s)
  PROVE  /\ SubSeq(s, 1, k - 1) \in Seq(S) /\ <<s[k]>> \in Seq(S) /\ SubSeq(s, k + 1, Len(s)) \in Seq(S)
         /\ s = SubSeq(s, 1, k - 1) \o (<<s[k]>> \o SubSeq(s, k + 1, Len(s)))
<1> DEFINE a == SubSeq(s, 1, k - 1)
           b == <<s[k]>>
           c == SubSeq(s, k + 1, Len(s))
           d == b \o c
           e == a \o d
<1>1. a \in Seq(S) /\ Len(a) = k - 1 /\ \A i \in 1..(k - 1) : a[i] = s[i]
  OBVIOUS
<1>2. b \in Seq(S) /\ Len(b) = 1 /\ b[1] = s[k]
  OBVIOUS
<1>3. c \in Seq(S) /\ Len(c) = Len(s) - k /\ \A i \in 1..(Len(s) - k) : c[i] = s[k + i]
  <2>1. CASE k = Len(s)
    BY <2>1
  <2>2. CASE k < Len(s)
    BY <2>2
  <2>3. QED
    BY <2>1, <2>2
<1>9. d = b \o c /\ e = a \o d
  OBVIOUS
<1> HIDE DEF a, b, c, d, e
<1>4. IsJoin(d, b, c, S)
  BY <1>2, <1>3, <1>9, JoinOf
<1>11. d \in Seq(S)
  BY <1>4 DEF IsJoin
<1>5. IsJoin(e, a, d, S)
  BY <1>1, <1>9, <1>11, JoinOf
<1>6. /\ e \in Seq(S) /\ Len(e) = Len(s) /\ Len(s) \in Nat /\ k \in 1..Len(s)
      /\ Len(a) = k - 1 /\ Len(b) = 1 /\ Len(c) = Len(s) - k
      /\ Len(b) + Len(c) = Len(s) - (k - 1) /\ Len(a) + Len(d) = Len(s)
  BY <1>1, <1>2, <1>3, <1>4, <1>5 DEF IsJoin
<1>7. ASSUME NEW i \in 1..Len(s) PROVE e[i] = s[i]
  <2>1. e[i] = IF i <= k - 1 THEN a[i] ELSE d[i - (k - 1)]
    BY <1>5, <1>6 DEF IsJoin
  <2>2. ASSUME NEW j \in 1..(Len(s) - (k - 1)) PROVE d[j] = IF j <= 1 THEN b[j] ELSE c[j - 1]
    BY <1>4, <1>6 DEF IsJoin
  <2>3. CASE i < k
    <3>1. i \in 1..(k - 1)
      BY <1>6, <2>3
    <3>2. QED
      BY <1>1, <2>1, <3>1
  <2>4. CASE i = k
    <3>1. i - (k - 1) = 1 /\ 1 \in 1..(Len(s) - (k - 1)) /\ ~(i <= k - 1)
      BY <1>6, <2>4
    <3>2. QED
      BY <1>2, <2>1, <2>2, <2>4, <3>1
  <2>5. CASE i > k
    <3>1. /\ i - (k - 1) \in 1..(Len(s) - (k - 1)) /\ ~(i - (k - 1) <= 1) /\ ~(i <= k - 1)
          /\ (i - (k - 1)) - 1 = i - k /\ i - k \in 1..(Len(s) - k) /\ k + (i - k) = i
      BY <1>6, <2>5
    <3>2. QED
      BY <1>3, <2>1, <2>2, <3>1
  <2>6. QED
    BY <1>6, <2>3, <2>4, <2>5
<1>8. e = s
  BY <1>6, <1>7, SeqEqual
<1>10. QED
  BY <1>1, <1>2, <1>3, <1>8 DEF a, b, c, d, e

(* The place of the i-th element of the k-th sequence.                     *)
LEMMA FlattenAt ==
  ASSUME NEW S, NEW s \in Seq(Seq(S)), NEW k \in 1..Len(s), NEW i \in 1..Len(s[k])
  PROVE  /\ Before(s, k) + i \in 1..Len(FlattenSeq(s))
         /\ FlattenSeq(s)[Before(s, k) + i] = s[k][i]
<1> DEFINE a == SubSeq(s, 1, k - 1)
           c == SubSeq(s, k + 1, Len(s))
           x == FlattenSeq(a)
           y == s[k]
           z == FlattenSeq(c)
           t == <<y>> \o c
           yz == y \o z
           whole == FlattenSeq(s)
<1>1. /\ a \in Seq(Seq(S)) /\ <<y>> \in Seq(Seq(S)) /\ c \in Seq(Seq(S)) /\ y \in Seq(S)
      /\ s = a \o t
  <2> DEFINE T == Seq(S)
  <2>1. s \in Seq(T) /\ y \in T
    OBVIOUS
  <2> HIDE DEF T
  <2>2. a \in Seq(T) /\ <<y>> \in Seq(T) /\ c \in Seq(T) /\ s = a \o t
    BY <2>1, SequenceSplits
  <2>3. QED
    BY <2>1, <2>2 DEF T
<1>2. t \in Seq(Seq(S))
  <2> HIDE DEF a, c, y
  <2>1. QED
    BY <1>1, ConcatProperties
<1>3. x \in Seq(S) /\ z \in Seq(S) /\ Before(s, k) = Len(x)
  BY <1>1, FlattenTyped DEF Before
<1>4. whole = x \o FlattenSeq(t)
  <2> HIDE DEF a, c, t
  <2>1. QED
    BY <1>1, <1>2, FlattenConcat
<1>5. FlattenSeq(t) = yz
  <2> HIDE DEF a, c, y
  <2>1. FlattenSeq(t) = FlattenSeq(<<y>>) \o z
    BY <1>1, FlattenConcat
  <2>2. QED
    BY <1>1, <2>1, FlattenOne
<1>6. IsJoin(yz, y, z, S)
  <2> HIDE DEF y, z
  <2>1. QED
    BY <1>1, <1>3, JoinOf
<1>7. IsJoin(whole, x, yz, S)
  <2> HIDE DEF x, yz, whole
  <2>1. yz \in Seq(S)
    BY <1>6 DEF IsJoin
  <2>2. QED
    BY <1>3, <1>4, <1>5, <2>1, JoinOf
<1>8. i \in 1..Len(y)
  OBVIOUS
<1> HIDE DEF x, y, z, yz, whole
<1>9. whole[Len(x) + i] = y[i] /\ Len(x) + i \in 1..Len(whole)
  <2>1. Len(x) \in Nat /\ Len(y) \in Nat /\ Len(z) \in Nat
    BY <1>1, <1>3
  <2>2. Len(x) + i \in 1..(Len(x) + Len(yz)) /\ (Len(x) + i) - Len(x) = i /\ ~(Len(x) + i <= Len(x))
    BY <1>6, <1>8, <2>1 DEF IsJoin
  <2>3. whole[Len(x) + i] = yz[i]
    BY <1>7, <2>2 DEF IsJoin
  <2>4. yz[i] = y[i]
    BY <1>6, <1>8, <2>1 DEF IsJoin
  <2>5. QED
    BY <1>7, <2>2, <2>3, <2>4 DEF IsJoin
<1>10. QED
  BY <1>3, <1>9 DEF y, whole

(* Starts depend on the lengths only.                                      *)
LEMMA StartsAgree ==
  ASSUME NEW N \in Nat, NEW L, NEW p, AreStarts(p, L, N), NEW q, AreStarts(q, L, N)
  PROVE  SameUpTo(p, q, N + 1)
<1> USE DEF AreStarts, SameUpTo
<1> DEFINE Same == {n \in Nat : n <= N => p[n + 1] = q[n + 1]}
<1>1. 0 \in Same
  BY 0 + 1 = 1
<1>2. ASSUME NEW n \in Nat, n \in Same PROVE n + 1 \in Same
  <2>1. ASSUME n + 1 <= N PROVE p[(n + 1) + 1] = q[(n + 1) + 1]
    <3>1. n + 1 \in 1..N
      BY <2>1
    <3>2. QED
      BY <1>2, <2>1, <3>1
  <2>2. QED
    BY <2>1
<1>3. Nat \subseteq Same
  <2> HIDE DEF Same
  <2> QED
    BY <1>1, <1>2, SetInduction
<1>4. ASSUME NEW n \in 1..(N + 1) PROVE p[n] = q[n]
  <2>1. n - 1 \in Nat /\ n - 1 <= N /\ (n - 1) + 1 = n
    OBVIOUS
  <2>2. n - 1 \in Same
    <3> HIDE DEF Same
    <3> QED
      BY <1>3, <2>1
  <2>3. QED
    BY <2>1, <2>2
<1>5. QED
  BY <1>4

StartsOf(s) == [k \in 1..(Len(s) + 1) |-> Before(s, k)]
Lengths(s) == [k \in 1..Len(s) |-> Len(s[k])]

LEMMA StartsFollow ==
  ASSUME NEW S, NEW s \in Seq(Seq(S))
  PROVE  /\ AreStarts(StartsOf(s), Lengths(s), Len(s))
         /\ \A k \in 1..(Len(s) + 1) : StartsOf(s)[k] = Before(s, k)
         /\ StartsOf(s)[Len(s) + 1] = Len(FlattenSeq(s))
<1>1. Len(s) \in Nat /\ 1 \in 1..(Len(s) + 1) /\ Len(s) + 1 \in 1..(Len(s) + 1)
      /\ \A k \in 1..Len(s) : k \in 1..(Len(s) + 1) /\ k + 1 \in 1..(Len(s) + 1)
  OBVIOUS
<1>2. QED
  BY <1>1, BeforeGrows DEF AreStarts, StartsOf, Lengths

LEMMA SameStarts ==
  ASSUME NEW S, NEW s \in Seq(Seq(S)), NEW T, NEW t \in Seq(Seq(T)), Len(s) = Len(t),
         \A k \in 1..Len(s) : Len(s[k]) = Len(t[k])
  PROVE  /\ \A k \in 1..(Len(s) + 1) : Before(s, k) = Before(t, k)
         /\ Len(FlattenSeq(s)) = Len(FlattenSeq(t))
<1>1. Lengths(s) = Lengths(t)
  BY DEF Lengths
<1>2. AreStarts(StartsOf(s), Lengths(s), Len(s)) /\ AreStarts(StartsOf(t), Lengths(s), Len(s))
  BY <1>1, StartsFollow
<1>3. Len(s) \in Nat /\ Len(s) + 1 \in 1..(Len(s) + 1)
  OBVIOUS
<1>4. SameUpTo(StartsOf(s), StartsOf(t), Len(s) + 1)
  BY ONLY <1>2, <1>3, StartsAgree
<1>5. \A k \in 1..(Len(s) + 1) : StartsOf(s)[k] = StartsOf(t)[k]
  BY <1>4 DEF SameUpTo
<1>6. QED
  BY <1>3, <1>5, StartsFollow

(* The total of the lengths.                                               *)
LEMMA TotalIsLength ==
  ASSUME NEW S, NEW s \in Seq(Seq(S))
  PROVE  Total(Lengths(s)) = Len(FlattenSeq(s))
<1> DEFINE N == Len(s)
           c == Lengths(s)
<1>1. N \in Nat /\ \A k \in 1..N : c[k] \in Nat
  BY DEF Lengths
<1>2. c = [k \in 1..N |-> c[k]] /\ DOMAIN c = 1..N
  BY DEF Lengths
<1> HIDE DEF c, N
<1>3. PICK p : ArePrefixSums(p, c, N)
  BY ONLY <1>1, PrefixSums
<1> DEFINE q == [k \in 1..(N + 1) |-> p[k - 1]]
<1>4. AreStarts(q, c, N)
  <2>1. 1 \in 1..(N + 1) /\ 1 - 1 = 0
    BY <1>1
  <2>2. ASSUME NEW k \in 1..N PROVE k \in 1..(N + 1) /\ k + 1 \in 1..(N + 1) /\ (k + 1) - 1 = k /\ k - 1 \in 0..N
    BY <1>1
  <2>3. QED
    BY <1>1, <1>3, <2>1, <2>2 DEF AreStarts, ArePrefixSums
<1>5. N + 1 \in 1..(N + 1) /\ (N + 1) - 1 = N /\ N \in 0..N
  BY <1>1
<1>6. q[N + 1] = p[N]
  BY <1>5
<1> HIDE DEF q
<1>7. AreStarts(StartsOf(s), c, N)
  BY StartsFollow DEF c, N
<1>8. SameUpTo(q, StartsOf(s), N + 1)
  BY ONLY <1>1, <1>4, <1>7, StartsAgree
<1>9. p[N] = Len(FlattenSeq(s))
  <2>1. StartsOf(s)[N + 1] = Len(FlattenSeq(s))
    BY StartsFollow DEF N
  <2>2. QED
    BY <1>5, <1>6, <1>8, <2>1 DEF SameUpTo
<1>10. Summed(First(c, N)) = p[N]
  BY <1>3, <1>5 DEF ArePrefixSums
<1>11. First(c, N) = c
  BY <1>2 DEF First
<1>12. Total(c) = Summed(c)
  BY DEF Total, Summed
<1>13. QED
  BY <1>9, <1>10, <1>11, <1>12 DEF c

--------------------------------------------------------------------------------
(* Pages: their slots one after the other, and the elements in them.       *)

Page == [slots : Seq(Values), count : Nat]
Fit(pages) == \A k \in DOMAIN pages : pages[k].count <= Capacity(pages[k])
Memory(pages) == [k \in DOMAIN pages |-> pages[k].slots]
Places(pages) == [k \in DOMAIN pages |-> [i \in DOMAIN pages[k].slots |-> <<k, i>>]]
Live(page) == SubSeq(page.slots, 1, page.count)
Lives(pages) == [k \in DOMAIN pages |-> Live(pages[k])]
Elems(pages) == FlattenSeq(Lives(pages))
Space(pages) == Len(FlattenSeq(Memory(pages)))

(* The slots before those of page k, and the elements before its own.      *)
Room(pages, k) == Before(Memory(pages), k)
Ahead(pages, k) == Before(Lives(pages), k)

LEMMA PageFields ==
  ASSUME NEW pages \in Seq(Page)
  PROVE  /\ Len(pages) \in Nat /\ DOMAIN pages = 1..Len(pages)
         /\ \A k \in 1..Len(pages) :
              /\ pages[k] \in Page
              /\ pages[k].slots \in Seq(Values) /\ pages[k].count \in Nat
              /\ Capacity(pages[k]) = Len(pages[k].slots) /\ Capacity(pages[k]) \in Nat
<1>1. Len(pages) \in Nat /\ DOMAIN pages = 1..Len(pages) /\ \A k \in 1..Len(pages) : pages[k] \in Page
  <2> HIDE DEF Page
  <2> QED
    OBVIOUS
<1>2. ASSUME NEW page \in Page
      PROVE  page.slots \in Seq(Values) /\ page.count \in Nat /\ Len(page.slots) \in Nat
  BY DEF Page
<1>3. QED
  BY <1>1, <1>2 DEF Capacity

LEMMA LiveTyped ==
  ASSUME NEW page \in Page, page.count <= Capacity(page)
  PROVE  /\ Live(page) \in Seq(Values) /\ Len(Live(page)) = page.count
         /\ \A i \in 1..page.count : Live(page)[i] = page.slots[i]
BY DEF Live, Page, Capacity

LEMMA MemoryTyped ==
  ASSUME NEW pages \in Seq(Page)
  PROVE  /\ Memory(pages) \in Seq(Seq(Values)) /\ Len(Memory(pages)) = Len(pages)
         /\ \A k \in 1..Len(pages) : /\ Memory(pages)[k] = pages[k].slots
                                     /\ Len(Memory(pages)[k]) = Capacity(pages[k])
BY PageFields DEF Memory, Capacity

LEMMA PlacesTyped ==
  ASSUME NEW pages \in Seq(Page)
  PROVE  /\ Places(pages) \in Seq(Seq(Nat \X Nat)) /\ Len(Places(pages)) = Len(pages)
         /\ \A k \in 1..Len(pages) :
              /\ Len(Places(pages)[k]) = Capacity(pages[k])
              /\ \A i \in 1..Capacity(pages[k]) : Places(pages)[k][i] = <<k, i>>
<1>1. ASSUME NEW k \in 1..Len(pages)
      PROVE  /\ Places(pages)[k] \in Seq(Nat \X Nat)
             /\ Len(Places(pages)[k]) = Capacity(pages[k])
             /\ \A i \in 1..Capacity(pages[k]) : Places(pages)[k][i] = <<k, i>>
  <2>1. pages[k].slots \in Seq(Values) /\ k \in DOMAIN pages /\ k \in Nat
    BY PageFields
  <2>2. Places(pages)[k] = [i \in 1..Len(pages[k].slots) |-> <<k, i>>]
    BY <2>1 DEF Places
  <2>3. QED
    BY <2>1, <2>2 DEF Capacity
<1>2. Places(pages) = [k \in 1..Len(pages) |-> Places(pages)[k]]
  BY DEF Places
<1>3. Len(pages) \in Nat
  OBVIOUS
<1> DEFINE s == Places(pages)
<1> HIDE DEF s
<1>4. s \in Seq(Seq(Nat \X Nat)) /\ Len(s) = Len(pages)
  BY <1>1, <1>2, <1>3 DEF s
<1>5. QED
  BY <1>1, <1>4 DEF s

LEMMA LivesTyped ==
  ASSUME NEW pages \in Seq(Page), Fit(pages)
  PROVE  /\ Lives(pages) \in Seq(Seq(Values)) /\ Len(Lives(pages)) = Len(pages)
         /\ \A k \in 1..Len(pages) : /\ Lives(pages)[k] = Live(pages[k])
                                     /\ Len(Lives(pages)[k]) = pages[k].count
<1>1. ASSUME NEW k \in 1..Len(pages)
      PROVE  Live(pages[k]) \in Seq(Values) /\ Len(Live(pages[k])) = pages[k].count
  BY PageFields, LiveTyped DEF Fit
<1>2. Len(pages) \in Nat /\ Lives(pages) = [k \in 1..Len(pages) |-> Live(pages[k])]
  BY PageFields DEF Lives
<1> DEFINE s == Lives(pages)
           T == Seq(Values)
<1> HIDE DEF s, T
<1>3. \A k \in 1..Len(pages) : s[k] = Live(pages[k]) /\ s[k] \in T
  BY <1>1, <1>2 DEF s, T
<1>4. s \in Seq(T) /\ Len(s) = Len(pages)
  BY <1>2, <1>3 DEF s
<1>5. QED
  BY <1>1, <1>3, <1>4 DEF s, T

LEMMA TotalsAreLengths ==
  ASSUME NEW pages \in Seq(Page)
  PROVE  /\ Total(Capacities(pages)) = Space(pages)
         /\ Fit(pages) => Total(Counts(pages)) = Len(Elems(pages))
         /\ Space(pages) \in Nat
         /\ Fit(pages) => Elems(pages) \in Seq(Values) /\ Len(Elems(pages)) \in Nat
<1>1. Capacities(pages) = Lengths(Memory(pages))
  BY MemoryTyped, PageFields DEF Capacities, Lengths
<1>2. ASSUME Fit(pages) PROVE Counts(pages) = Lengths(Lives(pages))
  BY <1>2, LivesTyped, PageFields DEF Counts, Lengths
<1>3. FlattenSeq(Memory(pages)) \in Seq(Values)
  BY MemoryTyped, FlattenTyped
<1>4. ASSUME Fit(pages) PROVE Elems(pages) \in Seq(Values)
  BY <1>4, LivesTyped, FlattenTyped DEF Elems
<1>5. Total(Capacities(pages)) = Space(pages)
  BY <1>1, MemoryTyped, TotalIsLength DEF Space
<1>6. ASSUME Fit(pages) PROVE Total(Counts(pages)) = Len(Elems(pages))
  BY <1>2, <1>6, LivesTyped, TotalIsLength DEF Elems
<1>7. QED
  BY <1>3, <1>4, <1>5, <1>6 DEF Space

--------------------------------------------------------------------------------
(* Pages in order: none has an element unless those before it are full.    *)

IsPacked(c, C, N) ==
    /\ \A k \in 1..N : c[k] <= C[k]
    /\ \A k \in 1..N : \A j \in 1..(k - 1) : c[k] # 0 => c[j] = C[j]

(* q lags behind p as soon as one of the pages before is not full.         *)
IsLevel(p, q, c, C, N) ==
    \A k \in 1..(N + 1) :
        /\ p[k] \in Nat /\ q[k] \in Nat /\ q[k] <= p[k]
        /\ q[k] < p[k] => \E j \in 1..(k - 1) : c[j] # C[j]
        /\ q[k] = p[k] => \A j \in 1..(k - 1) : c[j] = C[j]

LEMMA Levels ==
  ASSUME NEW N \in Nat, NEW p, NEW q, NEW c, NEW C,
         AreStarts(p, C, N), AreStarts(q, c, N), IsPacked(c, C, N)
  PROVE  IsLevel(p, q, c, C, N)
<1> DEFINE At(k) == /\ p[k] \in Nat /\ q[k] \in Nat /\ q[k] <= p[k]
                    /\ q[k] < p[k] => \E j \in 1..(k - 1) : c[j] # C[j]
                    /\ q[k] = p[k] => \A j \in 1..(k - 1) : c[j] = C[j]
           Holds == {n \in Nat : n <= N => At(n + 1)}
<1>1. 0 \in Holds
  <2>1. 0 + 1 = 1 /\ 1 - 1 = 0 /\ 1..0 = {}
    OBVIOUS
  <2>2. p[1] = 0 /\ q[1] = 0
    BY DEF AreStarts
  <2>3. QED
    BY <2>1, <2>2
<1>2. ASSUME NEW n \in Nat, n \in Holds PROVE n + 1 \in Holds
  <2>1. SUFFICES ASSUME n + 1 <= N PROVE At((n + 1) + 1)
    OBVIOUS
  <2> DEFINE k == n + 1
  <2>2. k \in 1..N /\ At(k) /\ ((n + 1) + 1) - 1 = k
    BY <1>2, <2>1
  <2> HIDE DEF At
  <2>3. /\ C[k] \in Nat /\ c[k] \in Nat /\ c[k] <= C[k]
        /\ p[k + 1] = p[k] + C[k] /\ q[k + 1] = q[k] + c[k]
    BY <2>2 DEF AreStarts, IsPacked
  <2> USE DEF At
  <2> HIDE DEF k
  <2>4. p[k] \in Nat /\ q[k] \in Nat /\ q[k] <= p[k]
    BY <2>2
  <2>5. \A j \in 1..k : j \in 1..(k - 1) \/ j = k
    BY <2>2
  <2>6. 1..(k - 1) \subseteq 1..k /\ k \in 1..k
    BY <2>2
  <2>7. CASE q[k] < p[k]
    <3>1. q[k + 1] < p[k + 1] /\ \E j \in 1..k : c[j] # C[j]
      BY <2>2, <2>3, <2>4, <2>6, <2>7
    <3>2. QED
      BY <2>2, <2>3, <2>4, <3>1 DEF k
  <2>8. CASE q[k] = p[k] /\ c[k] = C[k]
    <3>1. q[k + 1] = p[k + 1] /\ \A j \in 1..k : c[j] = C[j]
      BY <2>2, <2>3, <2>4, <2>5, <2>8
    <3>2. QED
      BY <2>2, <2>3, <2>4, <3>1 DEF k
  <2>9. CASE q[k] = p[k] /\ c[k] # C[k]
    <3>1. q[k + 1] < p[k + 1] /\ \E j \in 1..k : c[j] # C[j]
      BY <2>2, <2>3, <2>4, <2>6, <2>9
    <3>2. QED
      BY <2>2, <2>3, <2>4, <3>1 DEF k
  <2>10. QED
    BY <2>3, <2>4, <2>7, <2>8, <2>9
<1>3. Nat \subseteq Holds
  <2> HIDE DEF Holds
  <2> QED
    BY <1>1, <1>2, SetInduction
<1>4. ASSUME NEW k \in 1..(N + 1) PROVE At(k)
  <2>1. k - 1 \in Nat /\ k - 1 <= N /\ (k - 1) + 1 = k
    OBVIOUS
  <2>2. At((k - 1) + 1)
    BY <1>3, <2>1
  <2>3. QED
    BY <2>1, <2>2
<1>5. QED
  BY <1>4 DEF IsLevel

(* What lags behind once gets nothing more.                                *)
Settled(p, q, N) ==
    \A k \in 1..(N + 1) : q[k] <= q[N + 1] /\ (q[k] < p[k] => q[N + 1] = q[k])

LEMMA LevelsSettle ==
  ASSUME NEW N \in Nat, NEW p, NEW q, NEW c, NEW C,
         AreStarts(p, C, N), AreStarts(q, c, N), IsPacked(c, C, N)
  PROVE  Settled(p, q, N)
<1>1. SUFFICES ASSUME NEW k \in 1..(N + 1)
               PROVE  q[k] <= q[N + 1] /\ (q[k] < p[k] => q[N + 1] = q[k])
  BY DEF Settled
<1>2. IsLevel(p, q, c, C, N)
  BY Levels
<1> DEFINE Holds == {n \in Nat : k <= n + 1 /\ n <= N => q[k] <= q[n + 1] /\ (q[k] < p[k] => q[n + 1] = q[k])}
<1>3. 0 \in Holds
  <2>1. ASSUME k <= 0 + 1 PROVE k = 0 + 1
    BY <2>1
  <2>2. q[k] \in Nat
    BY <1>2 DEF IsLevel
  <2>3. QED
    BY <2>1, <2>2
<1>4. ASSUME NEW n \in Nat, n \in Holds PROVE n + 1 \in Holds
  <2>1. SUFFICES ASSUME k <= (n + 1) + 1, n + 1 <= N
                 PROVE  q[k] <= q[(n + 1) + 1] /\ (q[k] < p[k] => q[(n + 1) + 1] = q[k])
    OBVIOUS
  <2>2. q[k] \in Nat /\ p[k] \in Nat
    BY <1>2 DEF IsLevel
  <2>3. CASE k = (n + 1) + 1
    BY <2>2, <2>3
  <2>4. CASE k <= n + 1
    <3>1. q[k] <= q[n + 1] /\ (q[k] < p[k] => q[n + 1] = q[k])
      BY <1>4, <2>1, <2>4
    <3>2. /\ n + 1 \in 1..N /\ n + 1 \in 1..(N + 1) /\ c[n + 1] \in Nat /\ q[n + 1] \in Nat
          /\ q[(n + 1) + 1] = q[n + 1] + c[n + 1]
      BY <2>1 DEF AreStarts
    <3>3. ASSUME q[k] < p[k] PROVE c[n + 1] = 0
      <4>1. PICK j \in 1..(k - 1) : c[j] # C[j]
        BY <1>2, <3>3 DEF IsLevel
      <4>2. j \in 1..((n + 1) - 1)
        BY <2>4, <4>1
      <4>3. QED
        BY <3>2, <4>1, <4>2 DEF IsPacked
    <3>4. QED
      BY <2>2, <3>1, <3>2, <3>3
  <2>5. QED
    BY <2>1, <2>3, <2>4
<1>5. Nat \subseteq Holds
  <2> HIDE DEF Holds
  <2> QED
    BY <1>3, <1>4, SetInduction
<1>6. N \in Holds /\ k <= N + 1 /\ N <= N
  BY <1>5
<1>7. QED
  BY <1>6

Levelled(p, q, c, C, N) == AreStarts(p, C, N) /\ AreStarts(q, c, N) /\ IsPacked(c, C, N)

LEMMA OwnLevel ==
  ASSUME NEW N \in Nat, NEW p, NEW q, NEW c, NEW C, Levelled(p, q, c, C, N),
         NEW k \in 1..N, c[k] # 0
  PROVE  q[k] = p[k]
<1>1. IsLevel(p, q, c, C, N)
  BY Levels DEF Levelled
<1>2. p[k] \in Nat /\ q[k] \in Nat /\ q[k] <= p[k] /\ (q[k] < p[k] => \E j \in 1..(k - 1) : c[j] # C[j])
  BY <1>1 DEF IsLevel
<1>3. \A j \in 1..(k - 1) : c[j] = C[j]
  BY DEF Levelled, IsPacked
<1>4. QED
  BY <1>2, <1>3

LEMMA BeyondLevel ==
  ASSUME NEW N \in Nat, NEW p, NEW q, NEW c, NEW C, Levelled(p, q, c, C, N),
         NEW k \in 1..N, NEW i \in 1..C[k], p[k] + i > q[N + 1]
  PROVE  i > c[k]
<1>1. SUFFICES ASSUME i <= c[k] PROVE FALSE
  BY DEF Levelled, AreStarts
<1>2. C[k] \in Nat /\ c[k] \in Nat /\ q[k + 1] = q[k] + c[k] /\ k + 1 \in 1..(N + 1)
  BY DEF Levelled, AreStarts
<1>3. q[k] = p[k]
  BY <1>1, <1>2, OwnLevel
<1>4. /\ p[k] \in Nat /\ q[k + 1] \in Nat /\ q[N + 1] \in Nat
  BY <1>2, Levels DEF Levelled, IsLevel
<1>5. q[k + 1] <= q[N + 1]
  BY <1>2, LevelsSettle DEF Levelled, Settled
<1>6. QED
  BY <1>1, <1>2, <1>3, <1>4, <1>5

LEMMA NextLevel ==
  ASSUME NEW N \in Nat, NEW p, NEW q, NEW c, NEW C, Levelled(p, q, c, C, N),
         NEW k \in 1..N, NEW i \in 1..C[k], p[k] + i = q[N + 1] + 1
  PROVE  /\ i = c[k] + 1
         /\ \A j \in 1..(k - 1) : c[j] = C[j]
         /\ \A j \in (k + 1)..N : c[j] = 0
<1>1. IsLevel(p, q, c, C, N) /\ Settled(p, q, N)
  BY Levels, LevelsSettle DEF Levelled
<1>2. /\ k \in 1..(N + 1) /\ k + 1 \in 1..(N + 1) /\ C[k] \in Nat /\ c[k] \in Nat /\ c[k] <= C[k]
      /\ p[k + 1] = p[k] + C[k] /\ q[k + 1] = q[k] + c[k]
  BY DEF Levelled, AreStarts, IsPacked
<1>3. /\ p[k] \in Nat /\ q[k] \in Nat /\ q[k] <= p[k] /\ q[N + 1] \in Nat
      /\ q[k + 1] \in Nat /\ p[k + 1] \in Nat
      /\ q[k] = p[k] => \A j \in 1..(k - 1) : c[j] = C[j]
  BY <1>1, <1>2 DEF IsLevel
<1>4. /\ q[k] < p[k] => q[N + 1] = q[k]
      /\ q[k + 1] < p[k + 1] => q[N + 1] = q[k + 1]
      /\ q[k + 1] <= q[N + 1]
  BY <1>1, <1>2 DEF Settled
<1>5. q[k] = p[k] /\ c[k] < C[k] /\ i = c[k] + 1
  BY <1>2, <1>3, <1>4
<1>6. ASSUME NEW j \in (k + 1)..N PROVE c[j] = 0
  <2>1. j \in 1..N /\ k \in 1..(j - 1)
    OBVIOUS
  <2>2. c[k] # C[k]
    BY <1>2, <1>5
  <2>3. QED
    BY <2>1, <2>2 DEF Levelled, IsPacked
<1>7. QED
  BY <1>3, <1>5, <1>6

LEMMA AllLevel ==
  ASSUME NEW N \in Nat, NEW p, NEW q, NEW c, NEW C, Levelled(p, q, c, C, N)
  PROVE  /\ q[N + 1] <= p[N + 1] /\ p[N + 1] \in Nat /\ q[N + 1] \in Nat
         /\ q[N + 1] = p[N + 1] => \A j \in 1..N : c[j] = C[j]
<1>1. IsLevel(p, q, c, C, N)
  BY Levels DEF Levelled
<1>2. N + 1 \in 1..(N + 1) /\ (N + 1) - 1 = N
  OBVIOUS
<1>3. QED
  BY <1>1, <1>2 DEF IsLevel

--------------------------------------------------------------------------------
(* The same of pages.                                                      *)

Packed(pages) ==
    /\ Fit(pages)
    /\ \A k \in 1..Len(pages) : \A j \in 1..(k - 1) :
          pages[k].count # 0 => pages[j].count = Capacity(pages[j])

IsFull(pages) == \A k \in 1..Len(pages) : pages[k].count = Capacity(pages[k])

LEMMA PagesAreLevelled ==
  ASSUME NEW pages \in Seq(Page), Packed(pages)
  PROVE  /\ Levelled(StartsOf(Memory(pages)), StartsOf(Lives(pages)),
                     Lengths(Lives(pages)), Lengths(Memory(pages)), Len(pages))
         /\ \A k \in 1..Len(pages) : /\ Lengths(Lives(pages))[k] = pages[k].count
                                     /\ Lengths(Memory(pages))[k] = Capacity(pages[k])
         /\ \A k \in 1..(Len(pages) + 1) : /\ StartsOf(Memory(pages))[k] = Room(pages, k)
                                           /\ StartsOf(Lives(pages))[k] = Ahead(pages, k)
         /\ StartsOf(Memory(pages))[Len(pages) + 1] = Space(pages)
         /\ StartsOf(Lives(pages))[Len(pages) + 1] = Len(Elems(pages))
<1> DEFINE m == Memory(pages)
           v == Lives(pages)
<1>1. Fit(pages)
  BY DEF Packed
<1>2. /\ m \in Seq(Seq(Values)) /\ Len(m) = Len(pages)
      /\ \A k \in 1..Len(pages) : Len(m[k]) = Capacity(pages[k])
  BY MemoryTyped
<1>3. /\ v \in Seq(Seq(Values)) /\ Len(v) = Len(pages)
      /\ \A k \in 1..Len(pages) : Len(v[k]) = pages[k].count
  BY <1>1, LivesTyped
<1> HIDE DEF m, v
<1>4. /\ AreStarts(StartsOf(m), Lengths(m), Len(m)) /\ AreStarts(StartsOf(v), Lengths(v), Len(v))
      /\ \A k \in 1..(Len(pages) + 1) : StartsOf(m)[k] = Before(m, k) /\ StartsOf(v)[k] = Before(v, k)
      /\ StartsOf(m)[Len(pages) + 1] = Len(FlattenSeq(m)) /\ StartsOf(v)[Len(pages) + 1] = Len(FlattenSeq(v))
  BY <1>2, <1>3, StartsFollow
<1>5. \A k \in 1..Len(pages) : Lengths(m)[k] = Capacity(pages[k]) /\ Lengths(v)[k] = pages[k].count
  BY <1>2, <1>3 DEF Lengths
<1>6. IsPacked(Lengths(v), Lengths(m), Len(pages))
  <2>1. Len(pages) \in Nat /\ DOMAIN pages = 1..Len(pages)
    BY PageFields
  <2>2. \A k \in 1..Len(pages) : \A j \in 1..(k - 1) : j \in 1..Len(pages)
    BY <2>1
  <2>3. QED
    BY <1>5, <2>1, <2>2 DEF Packed, Fit, IsPacked
<1>7. QED
  BY <1>2, <1>3, <1>4, <1>5, <1>6 DEF Levelled, m, v, Room, Ahead, Space, Elems

LEMMA PagesLevel ==
  ASSUME NEW pages \in Seq(Page), Packed(pages)
  PROVE  /\ Len(Elems(pages)) <= Space(pages)
         /\ Len(Elems(pages)) = Space(pages) => IsFull(pages)
         /\ \A k \in 1..Len(pages) : pages[k].count # 0 => Ahead(pages, k) = Room(pages, k)
         /\ \A k \in 1..Len(pages) : \A i \in 1..Capacity(pages[k]) :
              /\ Room(pages, k) + i > Len(Elems(pages)) => i > pages[k].count
              /\ Room(pages, k) + i = Len(Elems(pages)) + 1 =>
                    /\ i = pages[k].count + 1
                    /\ \A j \in 1..(k - 1) : pages[j].count = Capacity(pages[j])
                    /\ \A j \in (k + 1)..Len(pages) : pages[j].count = 0
<1> DEFINE p == StartsOf(Memory(pages))
           q == StartsOf(Lives(pages))
           c == Lengths(Lives(pages))
           C == Lengths(Memory(pages))
           N == Len(pages)
<1>1. /\ Levelled(p, q, c, C, N)
      /\ \A k \in 1..N : c[k] = pages[k].count /\ C[k] = Capacity(pages[k])
      /\ \A k \in 1..(N + 1) : p[k] = Room(pages, k) /\ q[k] = Ahead(pages, k)
      /\ p[N + 1] = Space(pages)
      /\ q[N + 1] = Len(Elems(pages))
      /\ N \in Nat
  BY PagesAreLevelled
<1> HIDE DEF p, q, c, C, N
<1>2. Len(Elems(pages)) <= Space(pages) /\ (Len(Elems(pages)) = Space(pages) => IsFull(pages))
  <2>1. q[N + 1] <= p[N + 1] /\ (q[N + 1] = p[N + 1] => \A j \in 1..N : c[j] = C[j])
    BY ONLY <1>1, AllLevel
  <2>2. QED
    BY <1>1, <2>1 DEF IsFull, N
<1>3. ASSUME NEW k \in 1..N, pages[k].count # 0 PROVE Ahead(pages, k) = Room(pages, k)
  <2>1. c[k] # 0 /\ k \in 1..(N + 1)
    BY <1>1, <1>3
  <2>2. q[k] = p[k]
    BY ONLY <1>1, <2>1, OwnLevel
  <2>3. QED
    BY <1>1, <2>1, <2>2
<1>4. ASSUME NEW k \in 1..N, NEW i \in 1..Capacity(pages[k]), Room(pages, k) + i > Len(Elems(pages))
      PROVE  i > pages[k].count
  <2>1. i \in 1..(C[k]) /\ k \in 1..(N + 1) /\ p[k] + i > q[N + 1]
    BY <1>1, <1>4
  <2>2. i > c[k]
    BY ONLY <1>1, <2>1, BeyondLevel
  <2>3. QED
    BY <1>1, <2>2
<1>5. ASSUME NEW k \in 1..N, NEW i \in 1..Capacity(pages[k]), Room(pages, k) + i = Len(Elems(pages)) + 1
      PROVE  /\ i = pages[k].count + 1
             /\ \A j \in 1..(k - 1) : pages[j].count = Capacity(pages[j])
             /\ \A j \in (k + 1)..N : pages[j].count = 0
  <2>1. i \in 1..(C[k]) /\ k \in 1..(N + 1) /\ p[k] + i = q[N + 1] + 1
    BY <1>1, <1>5
  <2>2. /\ i = c[k] + 1
        /\ \A j \in 1..(k - 1) : c[j] = C[j]
        /\ \A j \in (k + 1)..N : c[j] = 0
    BY ONLY <1>1, <2>1, NextLevel
  <2>3. \A j \in 1..(k - 1) : j \in 1..N
    BY <1>1
  <2>4. \A j \in (k + 1)..N : j \in 1..N
    BY <1>1
  <2>5. QED
    BY <1>1, <2>2, <2>3, <2>4
<1>6. QED
  BY <1>2, <1>3, <1>4, <1>5 DEF N

--------------------------------------------------------------------------------
(* What getPage finds for an index.                                        *)

LEMMA SlotsAre ==
  ASSUME NEW pages \in Seq(Page)
  PROVE  /\ FlattenSeq(Places(pages)) \in Seq(Nat \X Nat)
         /\ Len(FlattenSeq(Places(pages))) = Space(pages)
         /\ Space(pages) \in Nat
         /\ \A k \in 1..Len(pages) : \A i \in 1..Capacity(pages[k]) :
              /\ Room(pages, k) + i \in 1..Space(pages)
              /\ FlattenSeq(Places(pages))[Room(pages, k) + i] = <<k, i>>
         /\ \A n \in 1..Space(pages) :
              \E k \in 1..Len(pages) : \E i \in 1..Capacity(pages[k]) : n = Room(pages, k) + i
<1> DEFINE t == Places(pages)
           m == Memory(pages)
           T == Nat \X Nat
<1>1. /\ t \in Seq(Seq(T)) /\ Len(t) = Len(pages)
      /\ \A k \in 1..Len(pages) : /\ Len(t[k]) = Capacity(pages[k])
                                  /\ \A i \in 1..Capacity(pages[k]) : t[k][i] = <<k, i>>
  BY PlacesTyped
<1>2. /\ m \in Seq(Seq(Values)) /\ Len(m) = Len(pages)
      /\ \A k \in 1..Len(pages) : Len(m[k]) = Capacity(pages[k])
  BY MemoryTyped
<1>10. Len(pages) \in Nat
  OBVIOUS
<1> HIDE DEF t, m, T
<1>3. Len(t) = Len(m) /\ \A k \in 1..Len(t) : Len(t[k]) = Len(m[k])
  BY <1>1, <1>2
<1>4. /\ \A k \in 1..(Len(t) + 1) : Before(t, k) = Before(m, k)
      /\ Len(FlattenSeq(t)) = Len(FlattenSeq(m))
  BY <1>1, <1>2, <1>3, SameStarts
<1>5. FlattenSeq(t) \in Seq(T) /\ Len(FlattenSeq(t)) \in Nat
  BY <1>1, FlattenTyped
<1>6. ASSUME NEW k \in 1..Len(pages), NEW i \in 1..Capacity(pages[k])
      PROVE  Before(m, k) + i \in 1..Len(FlattenSeq(m)) /\ FlattenSeq(t)[Before(m, k) + i] = <<k, i>>
  <2>1. k \in 1..Len(t) /\ i \in 1..Len(t[k]) /\ k \in 1..(Len(t) + 1)
    BY <1>1, <1>10
  <2>2. Before(t, k) + i \in 1..Len(FlattenSeq(t)) /\ FlattenSeq(t)[Before(t, k) + i] = t[k][i]
    BY <1>1, <2>1, FlattenAt
  <2>3. QED
    BY <1>1, <1>4, <2>1, <2>2
<1>7. ASSUME NEW n \in 1..Len(FlattenSeq(m))
      PROVE  \E k \in 1..Len(pages) : \E i \in 1..Capacity(pages[k]) : n = Before(m, k) + i
  <2>1. PICK k \in 1..Len(m) : \E i \in 1..Len(m[k]) : n = Before(m, k) + i
    BY <1>2, FlattenCovers
  <2>2. QED
    BY <1>2, <2>1
<1>8. QED
  BY <1>4, <1>5, <1>6, <1>7 DEF t, m, T, Room, Space

LEMMA ElemsAre ==
  ASSUME NEW pages \in Seq(Page), Fit(pages)
  PROVE  /\ Elems(pages) \in Seq(Values)
         /\ Len(Elems(pages)) \in Nat
         /\ \A k \in 1..Len(pages) : \A i \in 1..(pages[k].count) :
              /\ Ahead(pages, k) + i \in 1..Len(Elems(pages))
              /\ Elems(pages)[Ahead(pages, k) + i] = pages[k].slots[i]
         /\ \A n \in 1..Len(Elems(pages)) :
              \E k \in 1..Len(pages) : \E i \in 1..(pages[k].count) : n = Ahead(pages, k) + i
<1> DEFINE v == Lives(pages)
<1>1. /\ v \in Seq(Seq(Values)) /\ Len(v) = Len(pages)
      /\ \A k \in 1..Len(pages) : Len(v[k]) = pages[k].count /\ v[k] = Live(pages[k])
  BY LivesTyped
<1>2. \A k \in 1..Len(pages) : \A i \in 1..(pages[k].count) : Live(pages[k])[i] = pages[k].slots[i]
  BY PageFields, LiveTyped DEF Fit
<1> HIDE DEF v
<1>3. FlattenSeq(v) \in Seq(Values) /\ Len(FlattenSeq(v)) \in Nat
  BY <1>1, FlattenTyped
<1>4. ASSUME NEW k \in 1..Len(pages), NEW i \in 1..(pages[k].count)
      PROVE  /\ Before(v, k) + i \in 1..Len(FlattenSeq(v))
             /\ FlattenSeq(v)[Before(v, k) + i] = pages[k].slots[i]
  <2>1. k \in 1..Len(v) /\ i \in 1..Len(v[k])
    BY <1>1
  <2>2. Before(v, k) + i \in 1..Len(FlattenSeq(v)) /\ FlattenSeq(v)[Before(v, k) + i] = v[k][i]
    BY <1>1, <2>1, FlattenAt
  <2>3. QED
    BY <1>1, <1>2, <2>2
<1>5. ASSUME NEW n \in 1..Len(FlattenSeq(v))
      PROVE  \E k \in 1..Len(pages) : \E i \in 1..(pages[k].count) : n = Before(v, k) + i
  <2>1. PICK k \in 1..Len(v) : \E i \in 1..Len(v[k]) : n = Before(v, k) + i
    BY <1>1, FlattenCovers
  <2>2. QED
    BY <1>1, <2>1
<1>6. QED
  BY <1>3, <1>4, <1>5 DEF v, Ahead, Elems

(* Each index of an array leads to a slot of a page.                       *)
LEMMA LocateIs ==
  ASSUME NEW r, r.pages \in Seq(Page)
  PROVE  /\ Slots(r) = FlattenSeq(Places(r.pages))
         /\ \A index \in Nat : Located(r, index) <=> index < Space(r.pages)
         /\ \A index \in Nat : Located(r, index) =>
              \E k \in 1..Len(r.pages) : \E i \in 1..Capacity(r.pages[k]) :
                 index + 1 = Room(r.pages, k) + i /\ Locate(r, index) = <<k, i>>
         /\ \A k \in 1..Len(r.pages) : \A i \in 1..Capacity(r.pages[k]) : \A index \in Nat :
                index + 1 = Room(r.pages, k) + i => Located(r, index) /\ Locate(r, index) = <<k, i>>
<1> DEFINE pages == r.pages
<1>1. Slots(r) = FlattenSeq(Places(pages))
  BY DEF Slots, Places
<1> HIDE DEF pages
<1>2. pages \in Seq(Page)
  BY DEF pages
<1>3. /\ Len(Slots(r)) = Space(pages) /\ Space(pages) \in Nat
      /\ \A k \in 1..Len(pages) : \A i \in 1..Capacity(pages[k]) :
              Room(pages, k) + i \in 1..Space(pages) /\ Slots(r)[Room(pages, k) + i] = <<k, i>>
      /\ \A n \in 1..Space(pages) :
              \E k \in 1..Len(pages) : \E i \in 1..Capacity(pages[k]) : n = Room(pages, k) + i
  <2>1. Len(FlattenSeq(Places(pages))) = Space(pages) /\ Space(pages) \in Nat
    BY ONLY <1>2, SlotsAre
  <2>2. \A k \in 1..Len(pages) : \A i \in 1..Capacity(pages[k]) :
           /\ Room(pages, k) + i \in 1..Space(pages)
           /\ FlattenSeq(Places(pages))[Room(pages, k) + i] = <<k, i>>
    BY ONLY <1>2, SlotsAre
  <2>3. \A n \in 1..Space(pages) :
           \E k \in 1..Len(pages) : \E i \in 1..Capacity(pages[k]) : n = Room(pages, k) + i
    BY ONLY <1>2, SlotsAre
  <2>4. QED
    BY <1>1, <2>1, <2>2, <2>3
<1>4. \A index \in Nat : Located(r, index) <=> index < Space(pages)
  BY <1>3 DEF Located
<1>5. ASSUME NEW index \in Nat, Located(r, index)
      PROVE  \E k \in 1..Len(pages) : \E i \in 1..Capacity(pages[k]) :
                 index + 1 = Room(pages, k) + i /\ Locate(r, index) = <<k, i>>
  <2>1. index + 1 \in 1..Space(pages)
    BY <1>3, <1>4, <1>5
  <2>2. QED
    BY <1>3, <2>1 DEF Locate
<1>6. ASSUME NEW k \in 1..Len(pages), NEW i \in 1..Capacity(pages[k]), NEW index \in Nat,
             index + 1 = Room(pages, k) + i
      PROVE  Located(r, index) /\ Locate(r, index) = <<k, i>>
  <2>1. index + 1 \in 1..Space(pages) /\ Slots(r)[index + 1] = <<k, i>>
    BY <1>3, <1>6
  <2>2. QED
    BY <1>3, <1>4, <2>1 DEF Locate
<1>7. QED
  BY <1>1, <1>4, <1>5, <1>6 DEF pages

(* What avDynamicArrayRead gives, on any array.                            *)
LEMMA ReadsTyped ==
  ASSUME NEW r, r.pages \in Seq(Page)
  PROVE  /\ Reads(r) \in Seq(Values \cup {None}) /\ Len(Reads(r)) = Space(r.pages)
         /\ \A k \in 1..Len(r.pages) : \A i \in 1..Capacity(r.pages[k]) : \A index \in Nat :
                index + 1 = Room(r.pages, k) + i =>
                   Reads(r)[index + 1] = IF i <= r.pages[k].count THEN r.pages[k].slots[i] ELSE None
         /\ \A index \in Nat : Found(r, index) <=> index < Space(r.pages) /\ Reads(r)[index + 1] \in Values
         /\ \A index \in Nat : Found(r, index) =>
              \E k \in 1..Len(r.pages) : \E i \in 1..Capacity(r.pages[k]) :
                 /\ index + 1 = Room(r.pages, k) + i /\ Locate(r, index) = <<k, i>>
                 /\ i <= r.pages[k].count /\ Reads(r)[index + 1] = r.pages[k].slots[i]
<1> DEFINE pages == r.pages
           Value(k, i) == IF i <= pages[k].count THEN pages[k].slots[i] ELSE None
<1>1. pages \in Seq(Page) /\ Slots(r) = FlattenSeq(Places(pages))
  BY LocateIs
<1>2. /\ Slots(r) \in Seq(Nat \X Nat)
      /\ Len(Slots(r)) = Space(pages) /\ Space(pages) \in Nat
      /\ \A k \in 1..Len(pages) : \A i \in 1..Capacity(pages[k]) :
              Room(pages, k) + i \in 1..Space(pages) /\ Slots(r)[Room(pages, k) + i] = <<k, i>>
      /\ \A n \in 1..Space(pages) :
              \E k \in 1..Len(pages) : \E i \in 1..Capacity(pages[k]) : n = Room(pages, k) + i
  <2> HIDE DEF pages
  <2>1. FlattenSeq(Places(pages)) \in Seq(Nat \X Nat)
    BY ONLY <1>1, SlotsAre
  <2>2. Slots(r) \in Seq(Nat \X Nat)
    BY ONLY <1>1, <2>1
  <2>3. Len(FlattenSeq(Places(pages))) = Space(pages) /\ Space(pages) \in Nat
    BY ONLY <1>1, SlotsAre
  <2>4. \A k \in 1..Len(pages) : \A i \in 1..Capacity(pages[k]) :
           /\ Room(pages, k) + i \in 1..Space(pages)
           /\ FlattenSeq(Places(pages))[Room(pages, k) + i] = <<k, i>>
    BY ONLY <1>1, SlotsAre
  <2>5. \A n \in 1..Space(pages) :
           \E k \in 1..Len(pages) : \E i \in 1..Capacity(pages[k]) : n = Room(pages, k) + i
    BY ONLY <1>1, SlotsAre
  <2>6. QED
    BY <1>1, <2>2, <2>3, <2>4, <2>5
<1>3. DOMAIN Slots(r) = 1..Space(pages)
  <2> HIDE DEF pages
  <2> QED
    BY <1>2
<1>4. Reads(r) = [n \in 1..Space(pages) |-> Value(Slots(r)[n][1], Slots(r)[n][2])]
  BY <1>3 DEF Reads
<1> HIDE DEF pages
<1>5. ASSUME NEW k \in 1..Len(pages), NEW i \in 1..Capacity(pages[k])
      PROVE  Value(k, i) \in Values \cup {None} /\ (i <= pages[k].count => Value(k, i) \in Values)
  <2>1. pages[k].slots \in Seq(Values) /\ Len(pages[k].slots) = Capacity(pages[k])
    BY <1>1, PageFields
  <2>2. pages[k].slots[i] \in Values
    BY <2>1
  <2>3. QED
    BY <2>2
<1>6. ASSUME NEW k \in 1..Len(pages), NEW i \in 1..Capacity(pages[k]), NEW n \in 1..Space(pages),
             n = Room(pages, k) + i
      PROVE  Reads(r)[n] = Value(k, i)
  <2>1. Slots(r)[n] = <<k, i>>
    BY <1>2, <1>6
  <2>2. QED
    BY <1>4, <2>1
<1>7. ASSUME NEW n \in 1..Space(pages) PROVE Reads(r)[n] \in Values \cup {None}
  <2>1. PICK k \in 1..Len(pages) : \E i \in 1..Capacity(pages[k]) : n = Room(pages, k) + i
    BY <1>2
  <2>2. QED
    BY <1>5, <1>6, <2>1
<1> HIDE DEF Value
<1>8. Reads(r) \in Seq(Values \cup {None}) /\ Len(Reads(r)) = Space(pages)
  <2> DEFINE s == Reads(r)
             T == Values \cup {None}
  <2>1. s = [n \in 1..Space(pages) |-> s[n]]
    BY <1>4
  <2> HIDE DEF s, T
  <2>2. \A n \in 1..Space(pages) : s[n] \in T
    BY <1>7 DEF s, T
  <2> DEFINE n == Space(pages)
  <2>3. n \in Nat
    BY <1>2
  <2> HIDE DEF n
  <2>4. s \in Seq(T) /\ Len(s) = n
    BY ONLY <2>1, <2>2, <2>3 DEF n
  <2>5. QED
    BY <2>4 DEF s, T, n
<1>9. ASSUME NEW k \in 1..Len(pages), NEW i \in 1..Capacity(pages[k]), NEW index \in Nat,
             index + 1 = Room(pages, k) + i
      PROVE  Reads(r)[index + 1] = Value(k, i)
  <2>1. index + 1 \in 1..Space(pages)
    BY <1>2, <1>9
  <2>2. QED
    BY <1>6, <1>9, <2>1
<1>10. None \notin Values
  BY NoneIsNoElement DEF Values
<1>11. ASSUME NEW index \in Nat
       PROVE  Found(r, index) <=> index < Space(pages) /\ Reads(r)[index + 1] \in Values
  <2>1. index < Space(pages) => index + 1 \in 1..Space(pages)
    BY <1>2
  <2>2. Found(r, index) <=> index < Space(pages) /\ Reads(r)[index + 1] # None
    BY <1>8 DEF Found
  <2>3. QED
    BY <1>7, <1>10, <2>1, <2>2
<1>12. ASSUME NEW index \in Nat, Found(r, index)
       PROVE  \E k \in 1..Len(pages) : \E i \in 1..Capacity(pages[k]) :
                 /\ index + 1 = Room(pages, k) + i /\ Locate(r, index) = <<k, i>>
                 /\ i <= pages[k].count /\ Reads(r)[index + 1] = pages[k].slots[i]
  <2>1. index + 1 \in 1..Space(pages) /\ Reads(r)[index + 1] \in Values
    BY <1>2, <1>11, <1>12
  <2>2. PICK k \in 1..Len(pages) : \E i \in 1..Capacity(pages[k]) : index + 1 = Room(pages, k) + i
    BY <1>2, <2>1
  <2>3. PICK i \in 1..Capacity(pages[k]) : index + 1 = Room(pages, k) + i
    BY <2>2
  <2>4. Slots(r)[index + 1] = <<k, i>> /\ Reads(r)[index + 1] = Value(k, i)
    BY <1>2, <1>9, <2>3
  <2>5. i <= pages[k].count
    BY <1>10, <2>1, <2>4 DEF Value
  <2>6. QED
    BY <2>3, <2>4, <2>5 DEF Value, Locate
<1>13. QED
  BY <1>8, <1>9, <1>11, <1>12 DEF Value, pages

(* What it gives on pages in order: the elements, and nothing behind them. *)
LEMMA ReadsAre ==
  ASSUME NEW r, r.pages \in Seq(Page), Packed(r.pages)
  PROVE  /\ \A index \in Nat : Found(r, index) <=> index < Len(Elems(r.pages))
         /\ \A n \in 1..Len(Elems(r.pages)) : Reads(r)[n] = Elems(r.pages)[n]
         /\ \A index \in Nat : index < Len(Elems(r.pages)) =>
              \E k \in 1..Len(r.pages) : \E i \in 1..(r.pages[k].count) :
                 /\ index + 1 = Ahead(r.pages, k) + i /\ Locate(r, index) = <<k, i>>
                 /\ i <= Capacity(r.pages[k])
<1> DEFINE pages == r.pages
           all == Elems(pages)
<1>1. pages \in Seq(Page) /\ Fit(pages)
  BY DEF Packed
<1>2. /\ all \in Seq(Values) /\ Len(all) \in Nat
      /\ \A k \in 1..Len(pages) : \A i \in 1..(pages[k].count) :
              Ahead(pages, k) + i \in 1..Len(all) /\ all[Ahead(pages, k) + i] = pages[k].slots[i]
      /\ \A n \in 1..Len(all) :
              \E k \in 1..Len(pages) : \E i \in 1..(pages[k].count) : n = Ahead(pages, k) + i
  <2> HIDE DEF pages
  <2> QED
    BY <1>1, ElemsAre
<1>3. /\ Len(all) <= Space(pages)
      /\ \A k \in 1..Len(pages) : pages[k].count # 0 => Ahead(pages, k) = Room(pages, k)
      /\ \A k \in 1..Len(pages) : \A i \in 1..Capacity(pages[k]) :
              Room(pages, k) + i > Len(all) => i > pages[k].count
  <2> HIDE DEF pages
  <2> QED
    BY <1>1, PagesLevel DEF pages
<1>4. /\ \A k \in 1..Len(pages) : \A i \in 1..Capacity(pages[k]) : \A index \in Nat :
                index + 1 = Room(pages, k) + i =>
                   Reads(r)[index + 1] = IF i <= pages[k].count THEN pages[k].slots[i] ELSE None
      /\ \A index \in Nat : Found(r, index) <=> index < Space(pages) /\ Reads(r)[index + 1] \in Values
      /\ \A index \in Nat : Found(r, index) =>
              \E k \in 1..Len(pages) : \E i \in 1..Capacity(pages[k]) :
                 index + 1 = Room(pages, k) + i /\ i <= pages[k].count
  BY ReadsTyped
<1>5. \A k \in 1..Len(pages) : \A i \in 1..Capacity(pages[k]) : \A index \in Nat :
          index + 1 = Room(pages, k) + i => Locate(r, index) = <<k, i>>
  BY LocateIs
<1>6. \A k \in 1..Len(pages) : /\ pages[k].count \in Nat /\ Capacity(pages[k]) \in Nat
                               /\ pages[k].count <= Capacity(pages[k])
  <2> HIDE DEF pages
  <2> QED
    BY <1>1, PageFields DEF Fit
<1>7. Space(pages) \in Nat
  <2> HIDE DEF pages
  <2> QED
    BY <1>1, SlotsAre
<1> HIDE DEF pages, all
<1>8. ASSUME NEW index \in Nat, index < Len(all)
      PROVE  /\ index < Space(pages) /\ Reads(r)[index + 1] = all[index + 1] /\ all[index + 1] \in Values
             /\ \E k \in 1..Len(pages) : \E i \in 1..(pages[k].count) :
                 /\ index + 1 = Ahead(pages, k) + i /\ Locate(r, index) = <<k, i>>
                 /\ i <= Capacity(pages[k])
  <2>1. index + 1 \in 1..Len(all)
    BY <1>2, <1>8
  <2>2. PICK k \in 1..Len(pages) : \E i \in 1..(pages[k].count) : index + 1 = Ahead(pages, k) + i
    BY <1>2, <2>1
  <2>3. PICK i \in 1..(pages[k].count) : index + 1 = Ahead(pages, k) + i
    BY <2>2
  <2>4. i \in 1..Capacity(pages[k]) /\ pages[k].count # 0 /\ i <= pages[k].count /\ i <= Capacity(pages[k])
    BY <1>6
  <2>5. index + 1 = Room(pages, k) + i
    BY <1>3, <2>3, <2>4
  <2>6. Reads(r)[index + 1] = pages[k].slots[i] /\ Locate(r, index) = <<k, i>>
    BY <1>4, <1>5, <2>4, <2>5
  <2>7. all[index + 1] = pages[k].slots[i] /\ all[index + 1] \in Values
    BY <1>2, <2>1, <2>3
  <2>8. QED
    BY <1>2, <1>3, <1>7, <1>8, <2>3, <2>4, <2>6, <2>7
<1>9. ASSUME NEW index \in Nat, Found(r, index) PROVE index < Len(all)
  <2>1. PICK k \in 1..Len(pages) : \E i \in 1..Capacity(pages[k]) :
                 index + 1 = Room(pages, k) + i /\ i <= pages[k].count
    BY <1>4, <1>9
  <2>2. PICK i \in 1..Capacity(pages[k]) : index + 1 = Room(pages, k) + i /\ i <= pages[k].count
    BY <2>1
  <2>3. ~(Room(pages, k) + i > Len(all))
    BY <1>3, <1>6, <2>2
  <2>4. QED
    BY <1>2, <2>2, <2>3
<1>10. ASSUME NEW n \in 1..Len(all) PROVE Reads(r)[n] = all[n]
  <2>1. n - 1 \in Nat /\ n - 1 < Len(all) /\ (n - 1) + 1 = n
    BY <1>2
  <2>2. Reads(r)[(n - 1) + 1] = all[(n - 1) + 1]
    BY <1>8, <2>1
  <2>3. QED
    BY <2>1, <2>2
<1>11. QED
  BY <1>4, <1>8, <1>9, <1>10 DEF pages, all

LEMMA ContentsAre ==
  ASSUME NEW r, r.pages \in Seq(Page), Packed(r.pages), r.count = Len(Elems(r.pages))
  PROVE  Contents(r) = Elems(r.pages)
<1> DEFINE all == Elems(r.pages)
<1>1. all \in Seq(Values) /\ Len(all) \in Nat /\ Len(all) <= Space(r.pages)
  <2>1. Fit(r.pages)
    BY DEF Packed
  <2>2. QED
    BY <2>1, ElemsAre, PagesLevel
<1>2. /\ Len(Reads(r)) = Space(r.pages) /\ Space(r.pages) \in Nat
      /\ \A n \in 1..Len(all) : Reads(r)[n] = all[n]
  BY ReadsTyped, ReadsAre, SlotsAre
<1>3. Contents(r) = [i \in 1..Len(all) |-> IF i <= Len(Reads(r)) THEN Reads(r)[i] ELSE None]
  BY DEF Contents
<1> HIDE DEF all
<1>4. Contents(r) = [i \in 1..Len(all) |-> all[i]]
  BY <1>1, <1>2, <1>3
<1>5. QED
  BY <1>1, <1>4 DEF all

(* The page of the next element, if it has one.                            *)
LEMMA NextPlaceIs ==
  ASSUME NEW r, r.pages \in Seq(Page), Packed(r.pages), r.count = Len(Elems(r.pages)), Located(r, r.count)
  PROVE  \E k \in 1..Len(r.pages) :
            /\ Locate(r, r.count) = <<k, r.pages[k].count + 1>>
            /\ r.pages[k].count < Capacity(r.pages[k])
            /\ \A j \in 1..(k - 1) : r.pages[j].count = Capacity(r.pages[j])
            /\ \A j \in (k + 1)..Len(r.pages) : r.pages[j].count = 0
<1>1. Fit(r.pages) /\ r.count \in Nat
  BY ElemsAre DEF Packed
<1>2. PICK k \in 1..Len(r.pages) : \E i \in 1..Capacity(r.pages[k]) :
         r.count + 1 = Room(r.pages, k) + i /\ Locate(r, r.count) = <<k, i>>
  BY <1>1, LocateIs
<1>3. PICK i \in 1..Capacity(r.pages[k]) : r.count + 1 = Room(r.pages, k) + i /\ Locate(r, r.count) = <<k, i>>
  BY <1>2
<1>4. /\ i = r.pages[k].count + 1
      /\ \A j \in 1..(k - 1) : r.pages[j].count = Capacity(r.pages[j])
      /\ \A j \in (k + 1)..Len(r.pages) : r.pages[j].count = 0
  BY <1>3, PagesLevel
<1>5. r.pages[k].count \in Nat /\ Capacity(r.pages[k]) \in Nat
  BY PageFields
<1>6. QED
  BY <1>3, <1>4, <1>5

(* Without one, all pages are full.                                        *)
LEMMA NoPlaceIsFull ==
  ASSUME NEW r, r.pages \in Seq(Page), Packed(r.pages), r.count = Len(Elems(r.pages)), ~Located(r, r.count)
  PROVE  IsFull(r.pages)
<1>1. Fit(r.pages) /\ r.count \in Nat
  BY ElemsAre DEF Packed
<1>2. ~(r.count < Space(r.pages)) /\ Space(r.pages) \in Nat
  BY <1>1, LocateIs, SlotsAre
<1>3. Len(Elems(r.pages)) <= Space(r.pages) /\ (Len(Elems(r.pages)) = Space(r.pages) => IsFull(r.pages))
  BY PagesLevel
<1>4. QED
  BY <1>1, <1>2, <1>3

--------------------------------------------------------------------------------
(* Pages that are joined, replaced and taken out.                          *)

LEMMA JoinedPages ==
  ASSUME NEW x \in Seq(Page), NEW y \in Seq(Page)
  PROVE  /\ x \o y \in Seq(Page) /\ Len(x \o y) = Len(x) + Len(y) /\ Len(x) \in Nat /\ Len(y) \in Nat
         /\ \A k \in 1..Len(x) : (x \o y)[k] = x[k]
         /\ \A k \in 1..Len(y) : (x \o y)[Len(x) + k] = y[k]
         /\ Fit(x) /\ Fit(y) => Fit(x \o y)
<1> DEFINE z == x \o y
<1> HIDE DEF Page
<1>1. IsJoin(z, x, y, Page) /\ Len(x) \in Nat /\ Len(y) \in Nat
  BY JoinOf
<1> HIDE DEF z
<1>2. z \in Seq(Page) /\ Len(z) = Len(x) + Len(y)
  BY <1>1 DEF IsJoin
<1>3. \A k \in 1..Len(x) : z[k] = x[k]
  BY <1>1 DEF IsJoin
<1>4. ASSUME NEW k \in 1..Len(y) PROVE z[Len(x) + k] = y[k]
  <2>1. Len(x) + k \in 1..(Len(x) + Len(y)) /\ ~(Len(x) + k <= Len(x)) /\ (Len(x) + k) - Len(x) = k
    BY <1>1
  <2>2. QED
    BY <1>1, <2>1 DEF IsJoin
<1>5. ASSUME Fit(x), Fit(y), NEW k \in 1..Len(z) PROVE z[k].count <= Capacity(z[k])
  <2>1. CASE k <= Len(x)
    <3>1. k \in 1..Len(x) /\ k \in DOMAIN x
      BY <1>1, <2>1
    <3>2. QED
      BY <1>3, <1>5, <3>1 DEF Fit
  <2>2. CASE k > Len(x)
    <3>1. k - Len(x) \in 1..Len(y) /\ k - Len(x) \in DOMAIN y /\ Len(x) + (k - Len(x)) = k
      BY <1>1, <1>2, <2>2
    <3>2. z[k] = y[k - Len(x)]
      BY <1>4, <3>1
    <3>3. QED
      BY <1>5, <3>1, <3>2 DEF Fit
  <2>3. QED
    BY <1>1, <1>2, <2>1, <2>2
<1>6. DOMAIN z = 1..Len(z)
  BY <1>2
<1>7. QED
  BY <1>1, <1>2, <1>3, <1>4, <1>5, <1>6 DEF z, Fit

(* A sequence that has the elements of x and then those of y.              *)
LEMMA JoinIs ==
  ASSUME NEW S, NEW x \in Seq(S), NEW y \in Seq(S), NEW z \in Seq(S), Len(z) = Len(x) + Len(y),
         \A k \in 1..Len(x) : z[k] = x[k], \A k \in 1..Len(y) : z[Len(x) + k] = y[k]
  PROVE  z = x \o y
<1> DEFINE w == x \o y
<1>1. IsJoin(w, x, y, S) /\ Len(x) \in Nat /\ Len(y) \in Nat
  BY JoinOf
<1> HIDE DEF w
<1>2. w \in Seq(S) /\ Len(w) = Len(z) /\ Len(z) \in Nat
  BY <1>1 DEF IsJoin
<1>3. ASSUME NEW k \in 1..Len(z) PROVE w[k] = z[k]
  <2>1. w[k] = IF k <= Len(x) THEN x[k] ELSE y[k - Len(x)]
    BY <1>1 DEF IsJoin
  <2>2. CASE k <= Len(x)
    BY <1>1, <2>1, <2>2
  <2>3. CASE k > Len(x)
    <3>1. k - Len(x) \in 1..Len(y) /\ Len(x) + (k - Len(x)) = k
      BY <1>1, <2>3
    <3>2. z[Len(x) + (k - Len(x))] = y[k - Len(x)]
      BY <3>1
    <3>3. QED
      BY <1>1, <2>1, <2>3, <3>1, <3>2
  <2>4. QED
    BY <1>1, <2>2, <2>3
<1>4. w = z
  BY <1>2, <1>3, SeqEqual
<1>5. QED
  BY <1>4 DEF w

LEMMA ElemsJoin ==
  ASSUME NEW x \in Seq(Page), NEW y \in Seq(Page)
  PROVE  /\ Space(x \o y) = Space(x) + Space(y) /\ Space(x) \in Nat /\ Space(y) \in Nat
         /\ Fit(x) /\ Fit(y) =>
               /\ Elems(x \o y) = Elems(x) \o Elems(y)
               /\ Elems(x) \in Seq(Values) /\ Elems(y) \in Seq(Values)
               /\ Len(Elems(x \o y)) = Len(Elems(x)) + Len(Elems(y))
<1> DEFINE z == x \o y
<1>1. /\ z \in Seq(Page) /\ Len(z) = Len(x) + Len(y) /\ Len(x) \in Nat /\ Len(y) \in Nat
      /\ \A k \in 1..Len(x) : z[k] = x[k]
      /\ \A k \in 1..Len(y) : z[Len(x) + k] = y[k]
      /\ Fit(x) /\ Fit(y) => Fit(z)
  BY JoinedPages
<1> HIDE DEF z
<1>2. /\ \A k \in 1..Len(x) : k \in 1..Len(z)
      /\ \A k \in 1..Len(y) : Len(x) + k \in 1..Len(z)
  BY <1>1
<1>3. Space(z) = Space(x) + Space(y) /\ Space(x) \in Nat /\ Space(y) \in Nat
  <2> DEFINE mx == Memory(x)
             my == Memory(y)
             mz == Memory(z)
             T == Seq(Values)
  <2>1. /\ mx \in Seq(T) /\ Len(mx) = Len(x) /\ \A k \in 1..Len(x) : mx[k] = x[k].slots
        /\ my \in Seq(T) /\ Len(my) = Len(y) /\ \A k \in 1..Len(y) : my[k] = y[k].slots
        /\ mz \in Seq(T) /\ Len(mz) = Len(z) /\ \A k \in 1..Len(z) : mz[k] = z[k].slots
    BY <1>1, MemoryTyped
  <2> HIDE DEF mx, my, mz, T
  <2>2. mz = mx \o my
    <3>1. Len(mz) = Len(mx) + Len(my)
      BY <1>1, <2>1
    <3>2. ASSUME NEW k \in 1..Len(mx) PROVE mz[k] = mx[k]
      BY <1>1, <1>2, <2>1
    <3>3. ASSUME NEW k \in 1..Len(my) PROVE mz[Len(mx) + k] = my[k]
      <4>1. k \in 1..Len(y) /\ Len(x) + k \in 1..Len(z)
        BY <1>2, <2>1
      <4>2. QED
        BY <1>1, <2>1, <4>1
    <3>4. QED
      BY ONLY <2>1, <3>1, <3>2, <3>3, JoinIs
  <2>3. FlattenSeq(mz) = FlattenSeq(mx) \o FlattenSeq(my)
    BY <2>1, <2>2, FlattenConcat DEF T
  <2>4. FlattenSeq(mx) \in Seq(Values) /\ FlattenSeq(my) \in Seq(Values)
    BY <2>1, FlattenTyped DEF T
  <2> DEFINE fx == FlattenSeq(mx)
             fy == FlattenSeq(my)
  <2> HIDE DEF fx, fy
  <2>5. Len(fx \o fy) = Len(fx) + Len(fy) /\ Len(fx) \in Nat /\ Len(fy) \in Nat
    BY ONLY <2>4 DEF fx, fy
  <2>6. QED
    BY <2>3, <2>5 DEF fx, fy, mx, my, mz, Space
<1>4. ASSUME Fit(x), Fit(y)
      PROVE  /\ Elems(z) = Elems(x) \o Elems(y)
             /\ Elems(x) \in Seq(Values) /\ Elems(y) \in Seq(Values)
             /\ Len(Elems(z)) = Len(Elems(x)) + Len(Elems(y))
  <2> DEFINE mx == Lives(x)
             my == Lives(y)
             mz == Lives(z)
             T == Seq(Values)
  <2>1. /\ mx \in Seq(T) /\ Len(mx) = Len(x) /\ \A k \in 1..Len(x) : mx[k] = Live(x[k])
        /\ my \in Seq(T) /\ Len(my) = Len(y) /\ \A k \in 1..Len(y) : my[k] = Live(y[k])
        /\ mz \in Seq(T) /\ Len(mz) = Len(z) /\ \A k \in 1..Len(z) : mz[k] = Live(z[k])
    BY <1>1, <1>4, LivesTyped
  <2> HIDE DEF mx, my, mz, T
  <2>2. mz = mx \o my
    <3>1. Len(mz) = Len(mx) + Len(my)
      BY <1>1, <2>1
    <3>2. ASSUME NEW k \in 1..Len(mx) PROVE mz[k] = mx[k]
      BY <1>1, <1>2, <2>1
    <3>3. ASSUME NEW k \in 1..Len(my) PROVE mz[Len(mx) + k] = my[k]
      <4>1. k \in 1..Len(y) /\ Len(x) + k \in 1..Len(z)
        BY <1>2, <2>1
      <4>2. QED
        BY <1>1, <2>1, <4>1
    <3>4. QED
      BY ONLY <2>1, <3>1, <3>2, <3>3, JoinIs
  <2>3. FlattenSeq(mz) = FlattenSeq(mx) \o FlattenSeq(my)
    BY <2>1, <2>2, FlattenConcat DEF T
  <2>4. FlattenSeq(mx) \in Seq(Values) /\ FlattenSeq(my) \in Seq(Values)
    BY <2>1, FlattenTyped DEF T
  <2> DEFINE fx == FlattenSeq(mx)
             fy == FlattenSeq(my)
  <2> HIDE DEF fx, fy
  <2>5. Len(fx \o fy) = Len(fx) + Len(fy)
    BY ONLY <2>4 DEF fx, fy
  <2>6. QED
    BY <2>3, <2>4, <2>5 DEF fx, fy, mx, my, mz, Elems
<1>5. QED
  BY <1>3, <1>4 DEF z

LEMMA ElemsOfOne ==
  ASSUME NEW page \in Page
  PROVE  /\ <<page>> \in Seq(Page)
         /\ Space(<<page>>) = Capacity(page)
         /\ page.count <= Capacity(page) => Fit(<<page>>) /\ Elems(<<page>>) = Live(page)
<1> DEFINE s == <<page>>
<1>1. s \in Seq(Page) /\ Len(s) = 1 /\ s[1] = page /\ DOMAIN s = 1..1
  <2> HIDE DEF Page
  <2> QED
    OBVIOUS
<1>2. Memory(s) = <<page.slots>>
  BY DEF Memory
<1>3. page.slots \in Seq(Values)
  BY DEF Page
<1>4. FlattenSeq(<<page.slots>>) = page.slots
  BY <1>3, FlattenOne
<1>5. ASSUME page.count <= Capacity(page) PROVE Fit(s) /\ Elems(s) = Live(page)
  <2>1. Live(page) \in Seq(Values)
    BY <1>5, LiveTyped
  <2>2. Lives(s) = <<Live(page)>>
    BY DEF Lives
  <2>3. FlattenSeq(<<Live(page)>>) = Live(page)
    BY <2>1, FlattenOne
  <2>4. Fit(s)
    BY <1>1, <1>5 DEF Fit
  <2>5. QED
    BY <2>2, <2>3, <2>4 DEF Elems
<1>6. QED
  BY <1>1, <1>2, <1>4, <1>5 DEF Space, Capacity

FrontOf(pages, k) == SubSeq(pages, 1, k - 1)
BackOf(pages, k) == SubSeq(pages, k + 1, Len(pages))

(* A part of a sequence.                                                   *)
LEMMA PartIs ==
  ASSUME NEW S, NEW s \in Seq(S), NEW m \in Nat \ {0}, NEW n \in Nat, n <= Len(s), m <= n + 1
  PROVE  /\ SubSeq(s, m, n) \in Seq(S) /\ Len(SubSeq(s, m, n)) = (n + 1) - m
         /\ \A i \in 1..((n + 1) - m) : SubSeq(s, m, n)[i] = s[(m - 1) + i]
<1>1. CASE m = n + 1
  BY <1>1
<1>2. CASE m <= n
  <2>1. \A i \in 1..((n + 1) - m) : (i + m) - 1 = (m - 1) + i
    BY <1>2
  <2>2. QED
    BY <1>2, <2>1
<1>3. QED
  BY <1>1, <1>2

LEMMA FitParts ==
  ASSUME NEW pages \in Seq(Page), Fit(pages), NEW m \in Nat \ {0}, NEW n \in Nat, n <= Len(pages), m <= n + 1
  PROVE  SubSeq(pages, m, n) \in Seq(Page) /\ Fit(SubSeq(pages, m, n))
<1> DEFINE t == SubSeq(pages, m, n)
<1> HIDE DEF Page
<1>1. t \in Seq(Page) /\ Len(t) = (n + 1) - m /\ \A i \in 1..((n + 1) - m) : t[i] = pages[(m - 1) + i]
  BY PartIs
<1> HIDE DEF t
<1>2. DOMAIN t = 1..((n + 1) - m) /\ DOMAIN pages = 1..Len(pages) /\ Len(pages) \in Nat
  BY <1>1
<1>3. ASSUME NEW i \in DOMAIN t PROVE t[i].count <= Capacity(t[i])
  <2>1. i \in 1..((n + 1) - m)
    BY <1>2
  <2>2. (m - 1) + i \in 1..Len(pages)
    BY <1>2, <2>1
  <2>3. t[i] = pages[(m - 1) + i]
    BY <1>1, <2>1
  <2>4. QED
    BY <1>2, <2>2, <2>3 DEF Fit
<1>4. QED
  BY <1>1, <1>3 DEF t, Fit

(* The pages before one, the one and those behind.                         *)
LEMMA PagesSplit ==
  ASSUME NEW pages \in Seq(Page), Fit(pages), NEW k \in 1..Len(pages)
  PROVE  /\ FrontOf(pages, k) \in Seq(Page) /\ Fit(FrontOf(pages, k))
         /\ BackOf(pages, k) \in Seq(Page) /\ Fit(BackOf(pages, k))
         /\ Elems(FrontOf(pages, k)) \in Seq(Values) /\ Elems(BackOf(pages, k)) \in Seq(Values)
         /\ Live(pages[k]) \in Seq(Values)
         /\ Elems(pages) = Elems(FrontOf(pages, k)) \o (Live(pages[k]) \o Elems(BackOf(pages, k)))
         /\ Space(pages) = Space(FrontOf(pages, k)) + (Capacity(pages[k]) + Space(BackOf(pages, k)))
         /\ Space(FrontOf(pages, k)) \in Nat /\ Space(BackOf(pages, k)) \in Nat
<1> DEFINE a == FrontOf(pages, k)
           b == <<pages[k]>>
           c == BackOf(pages, k)
           d == b \o c
<1>1. /\ pages[k] \in Page /\ pages[k].count <= Capacity(pages[k]) /\ Len(pages) \in Nat
  BY PageFields DEF Fit
<1>2. /\ a \in Seq(Page) /\ b \in Seq(Page) /\ c \in Seq(Page) /\ pages = a \o d
  BY SequenceSplits DEF FrontOf, BackOf
<1>3. Fit(a) /\ Fit(c)
  <2>1. k - 1 \in Nat /\ k + 1 \in Nat \ {0} /\ k - 1 <= Len(pages) /\ 1 <= (k - 1) + 1 /\ k + 1 <= Len(pages) + 1
    BY <1>1
  <2>2. QED
    BY <1>1, <2>1, FitParts DEF FrontOf, BackOf
<1> HIDE DEF a, c
<1>4. Fit(b) /\ Elems(b) = Live(pages[k]) /\ Space(b) = Capacity(pages[k]) /\ Live(pages[k]) \in Seq(Values)
  BY <1>1, ElemsOfOne, LiveTyped
<1> HIDE DEF b
<1>5. /\ d \in Seq(Page) /\ Fit(d) /\ Elems(d) = Elems(b) \o Elems(c) /\ Space(d) = Space(b) + Space(c)
      /\ Elems(c) \in Seq(Values) /\ Space(c) \in Nat
  BY <1>2, <1>3, <1>4, ElemsJoin, JoinedPages
<1> HIDE DEF d
<1>6. /\ Elems(pages) = Elems(a) \o Elems(d) /\ Space(pages) = Space(a) + Space(d)
      /\ Elems(a) \in Seq(Values) /\ Space(a) \in Nat
  BY <1>2, <1>3, <1>5, ElemsJoin
<1>7. QED
  BY <1>2, <1>3, <1>4, <1>5, <1>6 DEF a, c

LEMMA PageReplaced ==
  ASSUME NEW pages \in Seq(Page), Fit(pages), NEW k \in 1..Len(pages), NEW page \in Page,
         page.count <= Capacity(page)
  PROVE  LET t == [pages EXCEPT ![k] = page] IN
         /\ t \in Seq(Page) /\ Len(t) = Len(pages) /\ Fit(t)
         /\ \A j \in 1..Len(pages) : t[j] = IF j = k THEN page ELSE pages[j]
         /\ Elems(t) = Elems(FrontOf(pages, k)) \o (Live(page) \o Elems(BackOf(pages, k)))
         /\ Space(t) = Space(FrontOf(pages, k)) + (Capacity(page) + Space(BackOf(pages, k)))
<1> DEFINE t == [pages EXCEPT ![k] = page]
<1> HIDE DEF Page
<1>1. /\ t \in Seq(Page) /\ Len(t) = Len(pages) /\ DOMAIN t = 1..Len(pages) /\ Len(pages) \in Nat
      /\ DOMAIN pages = 1..Len(pages)
      /\ \A j \in 1..Len(pages) : t[j] = IF j = k THEN page ELSE pages[j]
  OBVIOUS
<1> HIDE DEF t
<1>2. Fit(t)
  BY <1>1 DEF Fit
<1>3. FrontOf(t, k) = FrontOf(pages, k)
  <2>1. k - 1 \in Nat /\ k - 1 <= Len(pages) /\ (k - 1) + 1 = k /\ 1 <= k /\ (((k - 1) + 1) - 1) = k - 1
    BY <1>1
  <2> DEFINE x == SubSeq(t, 1, k - 1)
             y == SubSeq(pages, 1, k - 1)
  <2>2. /\ x \in Seq(Page) /\ Len(x) = k - 1 /\ \A i \in 1..(k - 1) : x[i] = t[(1 - 1) + i]
        /\ y \in Seq(Page) /\ Len(y) = k - 1 /\ \A i \in 1..(k - 1) : y[i] = pages[(1 - 1) + i]
    BY <1>1, <2>1, PartIs
  <2> HIDE DEF x, y
  <2>3. ASSUME NEW i \in 1..(k - 1) PROVE x[i] = y[i]
    <3>1. (1 - 1) + i = i /\ i \in 1..Len(pages) /\ i # k
      BY <1>1
    <3>2. QED
      BY <1>1, <2>2, <3>1
  <2>4. x = y
    BY <2>2, <2>3, SeqEqual
  <2>5. QED
    BY <2>4 DEF x, y, FrontOf
<1>4. BackOf(t, k) = BackOf(pages, k)
  <2>1. /\ k + 1 \in Nat \ {0} /\ Len(pages) \in Nat /\ k + 1 <= Len(pages) + 1
        /\ (Len(pages) + 1) - (k + 1) = Len(pages) - k
    BY <1>1
  <2> DEFINE m == k + 1
             n == Len(pages)
             x == SubSeq(t, m, n)
             y == SubSeq(pages, m, n)
  <2>2. /\ m \in Nat \ {0} /\ n \in Nat /\ m <= n + 1 /\ n = Len(t) /\ n = Len(pages)
        /\ (n + 1) - m = n - k /\ m - 1 = k
    BY <1>1, <2>1
  <2> HIDE DEF m, n
  <2>3. /\ x \in Seq(Page) /\ Len(x) = (n + 1) - m /\ \A i \in 1..((n + 1) - m) : x[i] = t[(m - 1) + i]
        /\ y \in Seq(Page) /\ Len(y) = (n + 1) - m /\ \A i \in 1..((n + 1) - m) : y[i] = pages[(m - 1) + i]
    BY <1>1, <2>2, PartIs
  <2> HIDE DEF x, y
  <2>4. ASSUME NEW i \in 1..(n - k) PROVE x[i] = y[i]
    <3>1. k + i \in 1..Len(pages) /\ k + i # k
      BY <1>1, <2>2
    <3>2. QED
      BY <1>1, <2>2, <2>3, <3>1
  <2>5. x = y
    BY <2>2, <2>3, <2>4, SeqEqual
  <2>6. QED
    BY <1>1, <2>5 DEF x, y, m, n, BackOf
<1>5. t[k] = page
  BY <1>1
<1>6. k \in 1..Len(t)
  BY <1>1
<1>7. /\ Elems(t) = Elems(FrontOf(t, k)) \o (Live(t[k]) \o Elems(BackOf(t, k)))
      /\ Space(t) = Space(FrontOf(t, k)) + (Capacity(t[k]) + Space(BackOf(t, k)))
  BY <1>1, <1>2, <1>6, PagesSplit
<1>8. QED
  BY <1>1, <1>2, <1>3, <1>4, <1>5, <1>7 DEF t

LEMMA RemoveAtIs ==
  ASSUME NEW S, NEW s \in Seq(S), NEW k \in 1..Len(s)
  PROVE  /\ RemoveAt(s, k) \in Seq(S) /\ Len(RemoveAt(s, k)) = Len(s) - 1
         /\ \A j \in 1..(Len(s) - 1) : RemoveAt(s, k)[j] = IF j < k THEN s[j] ELSE s[j + 1]
<1> DEFINE a == SubSeq(s, 1, k - 1)
           c == SubSeq(s, k + 1, Len(s))
           t == RemoveAt(s, k)
<1>1. Len(s) \in Nat /\ t = a \o c
  BY DEF RemoveAt
<1>2. /\ a \in Seq(S) /\ Len(a) = k - 1 /\ \A i \in 1..(k - 1) : a[i] = s[i]
      /\ c \in Seq(S) /\ Len(c) = Len(s) - k /\ \A i \in 1..(Len(s) - k) : c[i] = s[k + i]
  <2>1. /\ k - 1 \in Nat /\ k - 1 <= Len(s) /\ 1 <= (k - 1) + 1 /\ ((k - 1) + 1) - 1 = k - 1
    BY <1>1
  <2>2. a \in Seq(S) /\ Len(a) = k - 1 /\ \A i \in 1..(k - 1) : a[i] = s[(1 - 1) + i]
    BY <2>1, PartIs
  <2>3. \A i \in 1..(k - 1) : (1 - 1) + i = i
    OBVIOUS
  <2> DEFINE m == k + 1
             n == Len(s)
  <2>4. /\ m \in Nat \ {0} /\ n \in Nat /\ m <= n + 1 /\ n = Len(s)
        /\ (n + 1) - m = n - k /\ m - 1 = k /\ c = SubSeq(s, m, n)
    BY <1>1
  <2> HIDE DEF a, c, m, n
  <2>5. c \in Seq(S) /\ Len(c) = (n + 1) - m /\ \A i \in 1..((n + 1) - m) : c[i] = s[(m - 1) + i]
    BY <2>4, PartIs
  <2>6. QED
    BY <2>2, <2>3, <2>4, <2>5
<1> HIDE DEF a, c, t
<1>3. IsJoin(t, a, c, S)
  BY <1>1, <1>2, JoinOf
<1>4. t \in Seq(S) /\ Len(t) = Len(s) - 1
  BY <1>1, <1>2, <1>3 DEF IsJoin
<1>5. ASSUME NEW j \in 1..(Len(s) - 1) PROVE t[j] = IF j < k THEN s[j] ELSE s[j + 1]
  <2>1. t[j] = IF j <= k - 1 THEN a[j] ELSE c[j - (k - 1)]
    <3>1. j \in 1..(Len(a) + Len(c))
      BY <1>1, <1>2
    <3>2. QED
      BY <1>2, <1>3, <3>1 DEF IsJoin
  <2>2. CASE j < k
    <3>1. j \in 1..(k - 1)
      BY <1>1, <2>2
    <3>2. QED
      BY <1>2, <2>1, <2>2, <3>1
  <2>3. CASE j >= k
    <3>1. j - (k - 1) \in 1..(Len(s) - k) /\ k + (j - (k - 1)) = j + 1 /\ ~(j <= k - 1) /\ ~(j < k)
      BY <1>1, <2>3
    <3>2. c[j - (k - 1)] = s[k + (j - (k - 1))]
      BY <1>2, <3>1
    <3>3. QED
      BY <2>1, <3>1, <3>2
  <2>4. QED
    BY <2>2, <2>3
<1>6. QED
  BY <1>4, <1>5 DEF t

LEMMA PageTaken ==
  ASSUME NEW pages \in Seq(Page), Fit(pages), NEW k \in 1..Len(pages)
  PROVE  LET t == RemoveAt(pages, k) IN
         /\ t \in Seq(Page) /\ Len(t) = Len(pages) - 1 /\ Fit(t)
         /\ \A j \in 1..(Len(pages) - 1) : t[j] = IF j < k THEN pages[j] ELSE pages[j + 1]
         /\ Elems(t) = Elems(FrontOf(pages, k)) \o Elems(BackOf(pages, k))
         /\ Space(t) = Space(FrontOf(pages, k)) + Space(BackOf(pages, k))
<1> DEFINE a == FrontOf(pages, k)
           c == BackOf(pages, k)
           t == RemoveAt(pages, k)
<1>1. a \in Seq(Page) /\ Fit(a) /\ c \in Seq(Page) /\ Fit(c)
  BY PagesSplit
<1>2. t = a \o c
  BY DEF RemoveAt, FrontOf, BackOf
<1>3. /\ t \in Seq(Page) /\ Len(t) = Len(pages) - 1
      /\ \A j \in 1..(Len(pages) - 1) : t[j] = IF j < k THEN pages[j] ELSE pages[j + 1]
  <2> HIDE DEF Page
  <2> QED
    BY RemoveAtIs
<1> HIDE DEF a, c, t
<1>4. Fit(t)
  BY <1>1, <1>2, JoinedPages
<1>5. Elems(t) = Elems(a) \o Elems(c) /\ Space(t) = Space(a) + Space(c)
  BY <1>1, <1>2, ElemsJoin
<1>6. QED
  BY <1>3, <1>4, <1>5 DEF a, c, t

(* Pages without elements.                                                 *)
LEMMA NoElems ==
  ASSUME NEW pages \in Seq(Page), Fit(pages), \A k \in 1..Len(pages) : pages[k].count = 0
  PROVE  Elems(pages) = <<>>
<1> DEFINE all == Elems(pages)
<1>1. /\ all \in Seq(Values) /\ Len(all) \in Nat
      /\ \A n \in 1..Len(all) : \E k \in 1..Len(pages) : \E i \in 1..(pages[k].count) : n = Ahead(pages, k) + i
  BY ElemsAre
<1> HIDE DEF all
<1>2. ASSUME Len(all) # 0 PROVE FALSE
  <2>1. 1 \in 1..Len(all)
    BY <1>1, <1>2
  <2>2. PICK k \in 1..Len(pages) : \E i \in 1..(pages[k].count) : 1 = Ahead(pages, k) + i
    BY <1>1, <2>1
  <2>3. pages[k].count = 0
    OBVIOUS
  <2>4. QED
    BY <2>2, <2>3
<1>3. QED
  BY <1>1, <1>2 DEF all

(* The number of elements before a page is that of its front.              *)
LEMMA AheadIsFront ==
  ASSUME NEW pages \in Seq(Page), Fit(pages), NEW k \in 1..Len(pages)
  PROVE  Ahead(pages, k) = Len(Elems(FrontOf(pages, k)))
<1> DEFINE v == Lives(pages)
           a == FrontOf(pages, k)
           w == Lives(a)
           x == SubSeq(v, 1, k - 1)
           T == Seq(Values)
<1>1. k - 1 \in Nat /\ k - 1 <= Len(pages) /\ 1 <= (k - 1) + 1 /\ ((k - 1) + 1) - 1 = k - 1 /\ Len(pages) \in Nat
  OBVIOUS
<1>2. v \in Seq(T) /\ Len(v) = Len(pages) /\ \A j \in 1..Len(pages) : v[j] = Live(pages[j])
  BY LivesTyped
<1>3. a \in Seq(Page) /\ Fit(a)
  BY PagesSplit
<1>4. Len(a) = k - 1 /\ \A i \in 1..(k - 1) : a[i] = pages[(1 - 1) + i]
  <2> HIDE DEF Page
  <2> QED
    BY <1>1, PartIs DEF FrontOf
<1> HIDE DEF a
<1>5. w \in Seq(T) /\ Len(w) = k - 1 /\ \A j \in 1..(k - 1) : w[j] = Live(a[j])
  BY <1>3, <1>4, LivesTyped
<1> HIDE DEF v, w, T
<1>6. x \in Seq(T) /\ Len(x) = k - 1 /\ \A i \in 1..(k - 1) : x[i] = v[(1 - 1) + i]
  BY <1>1, <1>2, PartIs
<1> HIDE DEF x
<1>7. ASSUME NEW j \in 1..(k - 1) PROVE w[j] = x[j]
  <2>1. (1 - 1) + j = j /\ j \in 1..Len(pages)
    BY <1>1
  <2>2. QED
    BY <1>2, <1>4, <1>5, <1>6, <2>1
<1>8. w = x
  BY <1>1, <1>5, <1>6, <1>7, SeqEqual
<1>9. QED
  BY <1>8 DEF a, v, w, x, Ahead, Before, Elems

--------------------------------------------------------------------------------
(* The middle one of three sequences that are joined is changed.           *)

LEMMA JoinTyped ==
  ASSUME NEW S, NEW x \in Seq(S), NEW y \in Seq(S)
  PROVE  x \o y \in Seq(S) /\ Len(x \o y) = Len(x) + Len(y)
BY ConcatProperties

LEMMA JoinIsAssociative ==
  ASSUME NEW S, NEW x \in Seq(S), NEW y \in Seq(S), NEW z \in Seq(S)
  PROVE  (x \o y) \o z = x \o (y \o z)
OBVIOUS

LEMMA MiddlePlace ==
  ASSUME NEW S, NEW f \in Seq(S), NEW m \in Seq(S), NEW b \in Seq(S)
  PROVE  /\ f \o (m \o b) \in Seq(S) /\ Len(f \o (m \o b)) = Len(f) + Len(m) + Len(b)
         /\ Len(f) \in Nat /\ Len(m) \in Nat /\ Len(b) \in Nat
         /\ \A n \in 1..(Len(f) + Len(m) + Len(b)) :
              (f \o (m \o b))[n] = IF n <= Len(f) THEN f[n]
                                   ELSE IF n <= Len(f) + Len(m) THEN m[n - Len(f)]
                                   ELSE b[n - (Len(f) + Len(m))]
<1> DEFINE mb == m \o b
           z == f \o mb
<1>1. IsJoin(mb, m, b, S) /\ Len(f) \in Nat /\ Len(m) \in Nat /\ Len(b) \in Nat
  BY JoinOf
<1>4. z = f \o mb
  OBVIOUS
<1> HIDE DEF mb, z
<1>2. mb \in Seq(S)
  BY <1>1 DEF IsJoin
<1>5. IsJoin(z, f, mb, S)
  BY <1>2, <1>4, JoinOf
<1>6. z \in Seq(S) /\ Len(z) = Len(f) + Len(m) + Len(b) /\ Len(mb) = Len(m) + Len(b)
  BY <1>1, <1>5 DEF IsJoin
<1>7. ASSUME NEW n \in 1..(Len(f) + Len(m) + Len(b))
      PROVE  z[n] = IF n <= Len(f) THEN f[n]
                    ELSE IF n <= Len(f) + Len(m) THEN m[n - Len(f)]
                    ELSE b[n - (Len(f) + Len(m))]
  <2>1. n \in 1..(Len(f) + Len(mb))
    BY <1>1, <1>6
  <2>2. z[n] = IF n <= Len(f) THEN f[n] ELSE mb[n - Len(f)]
    BY <1>5, <2>1 DEF IsJoin
  <2>3. ASSUME ~(n <= Len(f))
        PROVE mb[n - Len(f)] = IF n - Len(f) <= Len(m) THEN m[n - Len(f)] ELSE b[(n - Len(f)) - Len(m)]
    <3>1. n - Len(f) \in 1..(Len(m) + Len(b))
      BY <1>1, <2>3
    <3>2. QED
      BY <1>1, <3>1 DEF IsJoin
  <2>4. n - Len(f) <= Len(m) <=> n <= Len(f) + Len(m)
    BY <1>1
  <2>5. (n - Len(f)) - Len(m) = n - (Len(f) + Len(m))
    BY <1>1
  <2>6. QED
    BY <2>2, <2>3, <2>4, <2>5
<1>8. QED
  BY <1>1, <1>6, <1>7 DEF z, mb

Put(s, i, e) == [s EXCEPT ![i] = e]
HasMiddle(f, m, b, i, S) == f \in Seq(S) /\ m \in Seq(S) /\ b \in Seq(S) /\ i \in 1..Len(m)

LEMMA MiddleWritten ==
  ASSUME NEW S, NEW f, NEW m, NEW b, NEW i, HasMiddle(f, m, b, i, S), NEW e \in S
  PROVE  f \o (Put(m, i, e) \o b) = Put(f \o (m \o b), Len(f) + i, e)
<1> DEFINE w == [m EXCEPT ![i] = e]
           x == f \o (w \o b)
           y == f \o (m \o b)
           z == [y EXCEPT ![Len(f) + i] = e]
           n == Len(f) + Len(m) + Len(b)
<1>1. w \in Seq(S) /\ Len(w) = Len(m) /\ \A j \in 1..Len(m) : w[j] = IF j = i THEN e ELSE m[j]
  BY DEF HasMiddle
<1> USE DEF HasMiddle
<1> HIDE DEF w
<1>2. /\ y \in Seq(S) /\ Len(y) = n /\ Len(f) \in Nat /\ Len(m) \in Nat /\ Len(b) \in Nat
      /\ \A j \in 1..n : y[j] = IF j <= Len(f) THEN f[j]
                                ELSE IF j <= Len(f) + Len(m) THEN m[j - Len(f)]
                                ELSE b[j - (Len(f) + Len(m))]
  BY MiddlePlace
<1>3. /\ x \in Seq(S) /\ Len(x) = n
      /\ \A j \in 1..n : x[j] = IF j <= Len(f) THEN f[j]
                                ELSE IF j <= Len(f) + Len(m) THEN w[j - Len(f)]
                                ELSE b[j - (Len(f) + Len(m))]
  <2>1. w \in Seq(S) /\ f \in Seq(S) /\ b \in Seq(S)
    BY <1>1
  <2>2. /\ x \in Seq(S) /\ Len(x) = Len(f) + Len(w) + Len(b)
        /\ \A j \in 1..(Len(f) + Len(w) + Len(b)) :
             x[j] = IF j <= Len(f) THEN f[j]
                    ELSE IF j <= Len(f) + Len(w) THEN w[j - Len(f)]
                    ELSE b[j - (Len(f) + Len(w))]
    BY ONLY <2>1, MiddlePlace
  <2>3. Len(w) = Len(m)
    BY <1>1
  <2> HIDE DEF x, y
  <2>4. QED
    BY <2>2, <2>3
<1> HIDE DEF x, y
<1>4. n \in Nat /\ Len(f) + i \in 1..n
  BY <1>2
<1> HIDE DEF n
<1>5. z \in Seq(S) /\ Len(z) = n /\ \A j \in 1..n : z[j] = IF j = Len(f) + i THEN e ELSE y[j]
  BY <1>2, <1>4
<1> HIDE DEF z
<1>6. ASSUME NEW j \in 1..n PROVE x[j] = z[j]
  <2>1. CASE j <= Len(f)
    <3>1. j # Len(f) + i
      BY <1>2, <2>1
    <3>2. QED
      BY <1>2, <1>3, <1>5, <2>1, <3>1
  <2>2. CASE ~(j <= Len(f)) /\ j <= Len(f) + Len(m)
    <3>1. j - Len(f) \in 1..Len(m) /\ (j = Len(f) + i <=> j - Len(f) = i)
      BY <1>2, <1>4, <2>2
    <3>2. QED
      BY <1>1, <1>2, <1>3, <1>5, <2>2, <3>1
  <2>3. CASE ~(j <= Len(f)) /\ ~(j <= Len(f) + Len(m))
    <3>1. j # Len(f) + i
      BY <1>2, <2>3
    <3>2. QED
      BY <1>2, <1>3, <1>5, <2>3, <3>1
  <2>4. QED
    BY <2>1, <2>2, <2>3
<1>7. x = z
  BY <1>3, <1>5, <1>6, SeqEqual
<1>8. QED
  BY <1>7 DEF Put, w, x, y, z

LEMMA MiddleRemoved ==
  ASSUME NEW S, NEW f, NEW m, NEW b, NEW i, HasMiddle(f, m, b, i, S)
  PROVE  f \o (RemoveAt(m, i) \o b) = RemoveAt(f \o (m \o b), Len(f) + i)
<1> USE DEF HasMiddle
<1> DEFINE w == RemoveAt(m, i)
           x == f \o (w \o b)
           y == f \o (m \o b)
           z == RemoveAt(y, Len(f) + i)
           n == Len(f) + Len(m) + Len(b)
<1>1. /\ w \in Seq(S) /\ Len(w) = Len(m) - 1
      /\ \A j \in 1..(Len(m) - 1) : w[j] = IF j < i THEN m[j] ELSE m[j + 1]
  BY RemoveAtIs
<1> HIDE DEF w
<1>2. /\ y \in Seq(S) /\ Len(y) = n /\ Len(f) \in Nat /\ Len(m) \in Nat /\ Len(b) \in Nat
      /\ \A j \in 1..n : y[j] = IF j <= Len(f) THEN f[j]
                                ELSE IF j <= Len(f) + Len(m) THEN m[j - Len(f)]
                                ELSE b[j - (Len(f) + Len(m))]
  BY MiddlePlace
<1>3. /\ x \in Seq(S) /\ Len(x) = Len(f) + Len(w) + Len(b)
      /\ \A j \in 1..(Len(f) + Len(w) + Len(b)) :
             x[j] = IF j <= Len(f) THEN f[j]
                    ELSE IF j <= Len(f) + Len(w) THEN w[j - Len(f)]
                    ELSE b[j - (Len(f) + Len(w))]
  <2>1. w \in Seq(S) /\ f \in Seq(S) /\ b \in Seq(S)
    BY <1>1
  <2>2. QED
    BY ONLY <2>1, MiddlePlace
<1>9. z = RemoveAt(y, Len(f) + i)
  OBVIOUS
<1> HIDE DEF x, y, z
<1>4. n \in Nat /\ Len(f) + i \in 1..n /\ Len(f) + Len(w) + Len(b) = n - 1 /\ Len(f) + Len(w) = Len(f) + Len(m) - 1
  BY <1>1, <1>2
<1>5. z \in Seq(S) /\ Len(z) = n - 1 /\ \A j \in 1..(n - 1) : z[j] = IF j < Len(f) + i THEN y[j] ELSE y[j + 1]
  <2> HIDE DEF n
  <2> QED
    BY <1>2, <1>4, <1>9, RemoveAtIs
<1>6. ASSUME NEW j \in 1..(n - 1) PROVE x[j] = z[j]
  <2>1. j \in 1..n /\ j + 1 \in 1..n
    BY <1>4
  <2>2. x[j] = IF j <= Len(f) THEN f[j]
               ELSE IF j <= Len(f) + Len(m) - 1 THEN w[j - Len(f)]
               ELSE b[j - (Len(f) + Len(m) - 1)]
    BY <1>3, <1>4
  <2>3. y[j] = IF j <= Len(f) THEN f[j]
               ELSE IF j <= Len(f) + Len(m) THEN m[j - Len(f)]
               ELSE b[j - (Len(f) + Len(m))]
    BY <1>2, <2>1
  <2>4. y[j + 1] = IF j + 1 <= Len(f) THEN f[j + 1]
                   ELSE IF j + 1 <= Len(f) + Len(m) THEN m[(j + 1) - Len(f)]
                   ELSE b[(j + 1) - (Len(f) + Len(m))]
    BY <1>2, <2>1
  <2>5. z[j] = IF j < Len(f) + i THEN y[j] ELSE y[j + 1]
    BY <1>5
  <2> HIDE DEF n
  <2>6. CASE j <= Len(f)
    <3>1. j < Len(f) + i
      BY <1>2, <2>6
    <3>2. QED
      BY <2>2, <2>3, <2>5, <2>6, <3>1
  <2>7. CASE ~(j <= Len(f)) /\ j <= Len(f) + Len(m) - 1
    <3>1. /\ j - Len(f) \in 1..(Len(m) - 1) /\ (j < Len(f) + i <=> j - Len(f) < i)
          /\ (j + 1) - Len(f) = (j - Len(f)) + 1 /\ j <= Len(f) + Len(m) /\ j + 1 <= Len(f) + Len(m)
          /\ ~(j + 1 <= Len(f))
      BY <1>2, <1>4, <2>7
    <3>2. w[j - Len(f)] = IF j - Len(f) < i THEN m[j - Len(f)] ELSE m[(j - Len(f)) + 1]
      BY <1>1, <3>1
    <3>3. QED
      BY <2>2, <2>3, <2>4, <2>5, <2>7, <3>1, <3>2
  <2>8. CASE ~(j <= Len(f)) /\ ~(j <= Len(f) + Len(m) - 1)
    <3>1. /\ ~(j < Len(f) + i) /\ ~(j + 1 <= Len(f)) /\ ~(j + 1 <= Len(f) + Len(m))
          /\ (j + 1) - (Len(f) + Len(m)) = j - (Len(f) + Len(m) - 1)
      BY <1>2, <1>4, <2>8
    <3>2. QED
      BY <2>2, <2>4, <2>5, <2>8, <3>1
  <2>9. QED
    BY <2>6, <2>7, <2>8
<1>7. x = z
  <2>1. Len(x) = Len(z) /\ Len(z) = n - 1
    BY <1>3, <1>4, <1>5
  <2>2. QED
    BY <1>3, <1>5, <1>6, <2>1, SeqEqual
<1>8. QED
  BY <1>7 DEF w, x, y, z

--------------------------------------------------------------------------------
(* Arrays.                                                                 *)

ArrayType ==
    [pages : Seq(Page), last : Nat, pageCount : 0..(Word - 1), growSize : Nat \ {0},
     count : Nat, capacity : Nat, allowRelocation : BOOLEAN, deallocElement : BOOLEAN, lost : BOOLEAN]

(* Only the first page may have no slots: that of an array that was made   *)
(* contiguous when it was empty.                                           *)
WellMade(r) ==
    /\ r \in ArrayType
    /\ r.last <= Len(r.pages)
    /\ \A k \in 2..r.last : Capacity(r.pages[k]) # 0

(* Sound, with pages that are in order all along.                          *)
Orderly(r) ==
    /\ WellMade(r)
    /\ r.last = Len(r.pages)
    /\ Packed(r.pages)
    /\ r.count = Len(Elems(r.pages))
    /\ r.capacity = Space(r.pages)

(* Each slot of the pages is where it was.                                 *)
Extends(pages, more) ==
    /\ Len(pages) <= Len(more)
    /\ \A k \in 1..Len(pages) : Capacity(more[k]) = Capacity(pages[k])

(* pageCount wraps around.                                                 *)
CountedOrMany(r) == r.pageCount = Len(r.pages) \/ Len(r.pages) >= Word

LEMMA WordIsTyped == Word \in Nat /\ Word > 1 /\ DefaultGrowSize \in Nat \ {0} /\ Sizes \subseteq Nat \ {0}
<1>1. Word \in Nat /\ DefaultGrowSize \in 1..(Word - 1) /\ Sizes \subseteq 1..(Word - 1)
  BY WordHoldsTheCounters, SizesArePositive
<1>2. QED
  BY <1>1

LEMMA FieldsTyped ==
  ASSUME NEW r \in ArrayType
  PROVE  /\ r.pages \in Seq(Page) /\ r.last \in Nat /\ r.pageCount \in 0..(Word - 1)
         /\ r.growSize \in Nat \ {0} /\ r.count \in Nat /\ r.capacity \in Nat
         /\ r.allowRelocation \in BOOLEAN /\ r.deallocElement \in BOOLEAN /\ r.lost \in BOOLEAN
         /\ Len(r.pages) \in Nat
<1> HIDE DEF Page
<1>1. r.pages \in Seq(Page) /\ r.last \in Nat /\ r.pageCount \in 0..(Word - 1)
  BY DEF ArrayType
<1>2. r.growSize \in Nat \ {0} /\ r.count \in Nat /\ r.capacity \in Nat
  BY DEF ArrayType
<1>3. r.allowRelocation \in BOOLEAN /\ r.deallocElement \in BOOLEAN /\ r.lost \in BOOLEAN
  BY DEF ArrayType
<1>4. QED
  BY <1>1, <1>2, <1>3

LEMMA ModSmall ==
  ASSUME NEW x \in Nat, NEW w \in Nat \ {0}, x < w
  PROVE  x % w = x
OBVIOUS

LEMMA ModIsSmall ==
  ASSUME NEW x \in Int
  PROVE  x % Word \in 0..(Word - 1)
BY WordIsTyped

LEMMA MinusIs ==
  ASSUME NEW x \in Nat, NEW y \in Nat, y <= x, x < Word
  PROVE  Minus(x, y) = x - y
<1>1. (x + Word) - y = (x - y) + Word /\ x - y \in Nat /\ x - y < Word /\ Word \in Nat \ {0}
  BY WordIsTyped
<1>2. ((x - y) + Word) % Word = x - y
  BY <1>1
<1>3. QED
  BY <1>1, <1>2 DEF Minus

LEMMA MinusTyped ==
  ASSUME NEW x \in Nat, NEW y \in Int
  PROVE  Minus(x, y) \in 0..(Word - 1)
<1>1. (x + Word) - y \in Int
  BY WordIsTyped
<1>2. QED
  BY <1>1, ModIsSmall DEF Minus

LEMMA BlankPageIs ==
  ASSUME NEW c \in Nat
  PROVE  BlankPage(c) \in Page /\ Capacity(BlankPage(c)) = c /\ BlankPage(c).count = 0
<1>1. [i \in 1..c |-> Zero] \in Seq(Values) /\ Len([i \in 1..c |-> Zero]) = c
  BY DEF Values
<1>2. QED
  BY <1>1 DEF BlankPage, Page, Capacity

LEMMA ExtendsAgain ==
  ASSUME NEW x \in Seq(Page), NEW y \in Seq(Page), NEW z \in Seq(Page), Extends(x, y), Extends(y, z)
  PROVE  Extends(x, z)
<1>1. Len(x) \in Nat /\ Len(y) \in Nat /\ Len(z) \in Nat
  BY PageFields
<1>2. QED
  BY <1>1 DEF Extends

(* From Sound: by local conditions to all pages before.                    *)
LEMMA NeighboursArePacked ==
  ASSUME NEW pages \in Seq(Page), Fit(pages), \A k \in 2..Len(pages) : Capacity(pages[k]) # 0,
         \A k \in 2..Len(pages) : pages[k].count # 0 => pages[k - 1].count = Capacity(pages[k - 1])
  PROVE  Packed(pages)
<1> DEFINE FullBefore(k) == \A j \in 1..(k - 1) : pages[j].count = Capacity(pages[j])
           Holds == {n \in Nat : n + 1 \in 1..Len(pages) /\ pages[n + 1].count # 0 => FullBefore(n + 1)}
<1>1. 0 \in Holds
  OBVIOUS
<1>2. ASSUME NEW n \in Nat, n \in Holds PROVE n + 1 \in Holds
  <2> DEFINE k == (n + 1) + 1
  <2>1. SUFFICES ASSUME k \in 1..Len(pages), pages[k].count # 0 PROVE FullBefore(k)
    OBVIOUS
  <2>2. k \in 2..Len(pages) /\ k - 1 = n + 1 /\ n + 1 \in 1..Len(pages) /\ Len(pages) \in Nat
    BY <2>1
  <2>3. pages[n + 1].count = Capacity(pages[n + 1])
    BY <2>1, <2>2
  <2>4. CASE n = 0
    BY <2>2, <2>3, <2>4
  <2>5. CASE n # 0
    <3>1. Capacity(pages[n + 1]) # 0
      BY <2>2, <2>5
    <3>2. FullBefore(n + 1)
      BY <1>2, <2>2, <2>3, <3>1
    <3>3. QED
      BY <2>2, <2>3, <3>2
  <2>6. QED
    BY <2>4, <2>5
<1>3. Nat \subseteq Holds
  <2> HIDE DEF Holds
  <2> QED
    BY <1>1, <1>2, SetInduction
<1>4. ASSUME NEW k \in 1..Len(pages), pages[k].count # 0 PROVE FullBefore(k)
  <2>1. k - 1 \in Nat /\ (k - 1) + 1 = k
    OBVIOUS
  <2>2. FullBefore((k - 1) + 1)
    BY <1>3, <1>4, <2>1
  <2>3. QED
    BY <2>1, <2>2
<1>5. QED
  BY <1>4 DEF Packed

LEMMA PackedNeighbours ==
  ASSUME NEW pages \in Seq(Page), Packed(pages), NEW k \in 2..Len(pages), pages[k].count # 0
  PROVE  pages[k - 1].count = Capacity(pages[k - 1])
<1>1. k \in 1..Len(pages) /\ k - 1 \in 1..(k - 1)
  OBVIOUS
<1>2. QED
  BY <1>1 DEF Packed

(* Sound, of the array and not of its handle.                              *)
SoundArray(r) ==
    LET pages == r.pages IN
    /\ r.last = Len(pages)
    /\ r.count = Total(Counts(pages))
    /\ r.capacity = Total(Capacities(pages))
    /\ \A k \in DOMAIN pages : pages[k].count <= Capacity(pages[k])
    /\ \A k \in 2..Len(pages) :
        pages[k].count # 0 => pages[k - 1].count = Capacity(pages[k - 1])

LEMMA SoundArrayIsOrderly ==
  ASSUME NEW r, WellMade(r)
  PROVE  SoundArray(r) <=> Orderly(r)
<1> DEFINE pages == r.pages
<1>1. pages \in Seq(Page) /\ DOMAIN pages = 1..Len(pages) /\ Len(pages) \in Nat
  BY FieldsTyped, PageFields DEF WellMade
<1>2. \A k \in 2..(r.last) : Capacity(pages[k]) # 0
  BY DEF WellMade
<1>3. Total(Capacities(pages)) = Space(pages) /\ (Fit(pages) => Total(Counts(pages)) = Len(Elems(pages)))
  <2> HIDE DEF pages
  <2> QED
    BY <1>1, TotalsAreLengths
<1>4. ASSUME SoundArray(r) PROVE Orderly(r)
  <2>1. Fit(pages)
    BY <1>4 DEF SoundArray, Fit
  <2>2. Packed(pages)
    <3>1. /\ \A k \in 2..Len(pages) : Capacity(pages[k]) # 0
          /\ \A k \in 2..Len(pages) : pages[k].count # 0 => pages[k - 1].count = Capacity(pages[k - 1])
      BY <1>2, <1>4 DEF SoundArray
    <3> HIDE DEF pages
    <3>2. QED
      BY <1>1, <2>1, <3>1, NeighboursArePacked
  <2>3. QED
    BY <1>3, <1>4, <2>1, <2>2 DEF SoundArray, Orderly
<1>5. ASSUME Orderly(r) PROVE SoundArray(r)
  <2>1. Packed(pages) /\ Fit(pages)
    BY <1>5 DEF Orderly, Packed
  <2>2. \A k \in 2..Len(pages) : pages[k].count # 0 => pages[k - 1].count = Capacity(pages[k - 1])
    <3> HIDE DEF pages
    <3> QED
      BY <1>1, <2>1, PackedNeighbours
  <2>3. QED
    BY <1>1, <1>3, <1>5, <2>1, <2>2 DEF SoundArray, Orderly, Fit
<1>6. QED
  BY <1>4, <1>5

LEMMA SoundIsOrderly ==
  ASSUME NEW a \in DOMAIN array, WellMade(array[a])
  PROVE  Sound(a) <=> Orderly(array[a])
<1>1. Sound(a) <=> SoundArray(array[a])
  BY DEF Sound, SoundArray
<1>2. QED
  BY <1>1, SoundArrayIsOrderly

LEMMA SoundNext ==
  ASSUME NEW a, WellMade(array'[a])
  PROVE  Sound(a)' <=> Orderly(array'[a])
<1>1. Sound(a)' <=> SoundArray(array'[a])
  BY DEF Sound, SoundArray
<1>2. QED
  BY <1>1, SoundArrayIsOrderly

--------------------------------------------------------------------------------
(* Pages in order that get another page, or another element.               *)

LEMMA BlankIsAppended ==
  ASSUME NEW pages \in Seq(Page), Packed(pages), NEW c \in Nat \ {0}
  PROVE  LET t == Append(pages, BlankPage(c)) IN
         /\ t \in Seq(Page) /\ Len(t) = Len(pages) + 1 /\ Packed(t) /\ Extends(pages, t)
         /\ \A k \in 1..Len(pages) : t[k] = pages[k]
         /\ t[Len(pages) + 1] = BlankPage(c)
         /\ Elems(t) = Elems(pages) /\ Space(t) = Space(pages) + c
<1> DEFINE b == BlankPage(c)
           t == Append(pages, b)
           s == <<b>>
<1>1. b \in Page /\ Capacity(b) = c /\ b.count = 0 /\ Len(pages) \in Nat /\ Fit(pages) /\ c \in Nat
  BY BlankPageIs DEF Packed
<1> HIDE DEF b, Page
<1>2. /\ t \in Seq(Page) /\ Len(t) = Len(pages) + 1 /\ t = pages \o s
      /\ \A k \in 1..Len(pages) : t[k] = pages[k]
      /\ t[Len(pages) + 1] = b
  BY <1>1, AppendIsConcat
<1>3. s \in Seq(Page) /\ Space(s) = c /\ Fit(s) /\ Elems(s) = Live(b)
  BY <1>1, ElemsOfOne
<1>4. Live(b) = <<>>
  <2>1. Live(b) \in Seq(Values) /\ Len(Live(b)) = 0
    BY <1>1, LiveTyped
  <2>2. QED
    BY <2>1
<1> HIDE DEF s, t
<1>5. /\ Space(t) = Space(pages) + c /\ Fit(t) /\ Elems(t) = Elems(pages) \o <<>>
      /\ Elems(pages) \in Seq(Values)
  <2>1. /\ Space(pages \o s) = Space(pages) + Space(s)
        /\ Fit(pages \o s) /\ Elems(pages \o s) = Elems(pages) \o Elems(s)
        /\ Elems(pages) \in Seq(Values)
    BY <1>1, <1>3, ElemsJoin, JoinedPages
  <2>2. QED
    BY <1>2, <1>3, <1>4, <2>1
<1>6. Elems(t) = Elems(pages)
  BY <1>5
<1>7. ASSUME NEW k \in 1..Len(t), NEW j \in 1..(k - 1), t[k].count # 0
      PROVE  t[j].count = Capacity(t[j])
  <2>1. k \in 1..Len(pages)
    BY <1>1, <1>2, <1>7
  <2>2. j \in 1..Len(pages)
    BY <1>1, <2>1
  <2>3. QED
    BY <1>2, <1>7, <2>1, <2>2 DEF Packed
<1>8. Extends(pages, t)
  BY <1>1, <1>2 DEF Extends
<1>9. QED
  BY <1>2, <1>5, <1>6, <1>7, <1>8 DEF t, b, Packed

(* The page is the one NextPlaceIs describes.                              *)
LEMMA ElemIsAdded ==
  ASSUME NEW pages \in Seq(Page), Packed(pages), NEW k \in 1..Len(pages), NEW page \in Page,
         Capacity(page) = Capacity(pages[k]), page.count = pages[k].count + 1, page.count <= Capacity(page),
         \A i \in 1..(pages[k].count) : page.slots[i] = pages[k].slots[i],
         \A j \in 1..(k - 1) : pages[j].count = Capacity(pages[j]),
         \A j \in (k + 1)..Len(pages) : pages[j].count = 0
  PROVE  LET t == [pages EXCEPT ![k] = page] IN
         /\ t \in Seq(Page) /\ Len(t) = Len(pages) /\ Packed(t) /\ Extends(pages, t)
         /\ Elems(t) = Append(Elems(pages), page.slots[page.count]) /\ Space(t) = Space(pages)
<1> DEFINE t == [pages EXCEPT ![k] = page]
           f == Elems(FrontOf(pages, k))
           b == Elems(BackOf(pages, k))
           m == Live(pages[k])
           n == Live(page)
           v == page.slots[page.count]
<1>1. Fit(pages) /\ Len(pages) \in Nat /\ DOMAIN pages = 1..Len(pages)
  BY PageFields DEF Packed
<1>2. /\ t \in Seq(Page) /\ Len(t) = Len(pages) /\ Fit(t)
      /\ \A j \in 1..Len(pages) : t[j] = IF j = k THEN page ELSE pages[j]
      /\ Elems(t) = f \o (n \o b)
      /\ Space(t) = Space(FrontOf(pages, k)) + (Capacity(page) + Space(BackOf(pages, k)))
  BY <1>1, PageReplaced
<1>3. /\ BackOf(pages, k) \in Seq(Page) /\ Fit(BackOf(pages, k))
      /\ f \in Seq(Values) /\ b \in Seq(Values) /\ m \in Seq(Values)
      /\ Elems(pages) = f \o (m \o b)
      /\ Space(pages) = Space(FrontOf(pages, k)) + (Capacity(pages[k]) + Space(BackOf(pages, k)))
  BY <1>1, PagesSplit
<1>4. b = <<>>
  <2> DEFINE o == k + 1
             N == Len(pages)
             u == BackOf(pages, k)
  <2>1. o \in Nat \ {0} /\ N \in Nat /\ o <= N + 1 /\ u = SubSeq(pages, o, N) /\ N <= Len(pages)
    BY <1>1 DEF BackOf
  <2> HIDE DEF u, Page
  <2>2. Len(u) = (N + 1) - o /\ \A i \in 1..((N + 1) - o) : u[i] = pages[(o - 1) + i]
    <3> HIDE DEF o, N
    <3> QED
      BY <2>1, PartIs
  <2>3. ASSUME NEW i \in 1..Len(u) PROVE u[i].count = 0
    <3>1. i \in 1..((N + 1) - o) /\ (o - 1) + i \in (k + 1)..Len(pages)
      BY <1>1, <2>2
    <3>2. u[i] = pages[(o - 1) + i]
      BY <2>2, <3>1
    <3>3. QED
      BY <3>1, <3>2
  <2>4. QED
    BY <1>3, <2>3, NoElems DEF u
<1>5. pages[k] \in Page /\ pages[k].count <= Capacity(pages[k]) /\ pages[k].count \in Nat
  BY <1>1, PageFields DEF Fit
<1>6. n = Append(m, v)
  <2>1. /\ m \in Seq(Values) /\ Len(m) = pages[k].count
        /\ \A i \in 1..(pages[k].count) : m[i] = pages[k].slots[i]
    BY <1>5, LiveTyped
  <2>2. /\ n \in Seq(Values) /\ Len(n) = page.count
        /\ \A i \in 1..(page.count) : n[i] = page.slots[i]
    BY LiveTyped
  <2>3. v \in Values
    <3>1. page.slots \in Seq(Values) /\ page.count \in 1..Len(page.slots)
      BY <1>5 DEF Page, Capacity
    <3>2. QED
      BY <3>1
  <2> DEFINE w == Append(m, v)
  <2> HIDE DEF m, n, v
  <2>8. m \in Seq(Values) /\ Len(m) = pages[k].count
    BY <2>1
  <2>9. /\ w \in Seq(Values) /\ Len(w) = Len(m) + 1
        /\ \A i \in 1..(Len(m) + 1) : w[i] = IF i <= Len(m) THEN m[i] ELSE v
    BY ONLY <2>3, <2>8
  <2> HIDE DEF w
  <2>4. /\ w \in Seq(Values) /\ Len(w) = pages[k].count + 1
        /\ \A i \in 1..(pages[k].count + 1) : w[i] = IF i <= pages[k].count THEN m[i] ELSE v
    BY <2>8, <2>9
  <2>5. ASSUME NEW i \in 1..(pages[k].count + 1) PROVE n[i] = w[i]
    <3>1. n[i] = page.slots[i]
      BY <2>2
    <3>2. CASE i <= pages[k].count
      <4>1. i \in 1..(pages[k].count)
        BY <1>5, <3>2
      <4>2. QED
        BY <2>1, <2>4, <3>1, <3>2, <4>1
    <3>3. CASE ~(i <= pages[k].count)
      <4>1. i = page.count
        BY <1>5, <3>3
      <4>2. QED
        BY <2>4, <3>1, <3>3, <4>1 DEF v
    <3>4. QED
      BY <3>2, <3>3
  <2>6. n = w
    <3>1. Len(n) = Len(w) /\ Len(n) = pages[k].count + 1
      BY <2>2, <2>4
    <3>2. QED
      BY <2>2, <2>4, <2>5, <3>1, SeqEqual
  <2>7. QED
    BY <2>6 DEF w
<1>7. Elems(t) = Append(Elems(pages), v)
  <2>1. v \in Values
    <3>1. page.slots \in Seq(Values) /\ page.count \in 1..Len(page.slots)
      BY <1>5 DEF Page, Capacity
    <3>2. QED
      BY <3>1
  <2> HIDE DEF f, m, b, n, v, t
  <2>2. n \o b = n /\ m \o b = m /\ n \in Seq(Values)
    BY <1>3, <1>4, <1>6, <2>1
  <2>3. f \o Append(m, v) = Append(f \o m, v)
    <3> DEFINE s == <<v>>
    <3>1. s \in Seq(Values)
      BY <2>1
    <3>2. Append(m, v) = m \o s /\ f \o m \in Seq(Values)
      BY <1>3, <2>1, AppendIsConcat, JoinTyped
    <3>3. Append(f \o m, v) = (f \o m) \o s
      BY <2>1, <3>2, AppendIsConcat
    <3> HIDE DEF s
    <3>6. f \in Seq(Values) /\ m \in Seq(Values)
      BY <1>3
    <3>4. (f \o m) \o s = f \o (m \o s)
      BY ONLY <3>1, <3>6
    <3>5. QED
      BY <3>2, <3>3, <3>4
  <2>4. QED
    BY <1>2, <1>3, <1>6, <2>2, <2>3
<1>8. ASSUME NEW l \in 1..Len(t), NEW j \in 1..(l - 1), t[l].count # 0
      PROVE  t[j].count = Capacity(t[j])
  <2>1. l \in 1..Len(pages) /\ j \in 1..Len(pages) /\ j < l
    BY <1>1, <1>2
  <2>2. CASE l = k
    <3>1. j \in 1..(k - 1) /\ j # k
      BY <2>1, <2>2
    <3>2. QED
      BY <1>2, <2>1, <3>1
  <2>3. CASE l > k
    <3>1. l \in (k + 1)..Len(pages) /\ l # k
      BY <2>1, <2>3
    <3>2. QED
      BY <1>2, <1>8, <2>1, <3>1
  <2>4. CASE l < k
    <3>1. j # k /\ l # k
      BY <2>1, <2>4
    <3>2. QED
      BY <1>2, <1>8, <2>1, <3>1 DEF Packed
  <2>5. QED
    BY <2>1, <2>2, <2>3, <2>4
<1>9. Extends(pages, t)
  BY <1>1, <1>2 DEF Extends
<1>10. Space(t) = Space(pages)
  BY <1>2, <1>3
<1>11. QED
  BY <1>2, <1>7, <1>8, <1>9, <1>10 DEF t, v, Packed

(* addPage, on any array.                                                  *)
LEMMA PageAddedTyped ==
  ASSUME NEW r, WellMade(r), NEW c \in Nat \ {0}
  PROVE  LET s == PageAdded(r, c) IN
         /\ WellMade(s) /\ s.last = r.last + 1 /\ Len(s.pages) = r.last + 1
         /\ s.pages = Append(SubSeq(r.pages, 1, r.last), BlankPage(c))
         /\ \A k \in 1..(r.last) : s.pages[k] = r.pages[k]
         /\ s.pages[r.last + 1] = BlankPage(c)
         /\ s.count = r.count /\ s.capacity = r.capacity + c /\ s.pageCount = (r.pageCount + 1) % Word
         /\ s.allowRelocation = r.allowRelocation /\ s.deallocElement = r.deallocElement
<1> DEFINE s == PageAdded(r, c)
           x == SubSeq(r.pages, 1, r.last)
           b == BlankPage(c)
           t == Append(x, b)
           l == r.lost \/ CutOff(r) # <<>>
<1>1. r \in ArrayType /\ r.last <= Len(r.pages)
  BY DEF WellMade
<1>2. /\ r.pages \in Seq(Page) /\ r.last \in Nat /\ r.pageCount \in 0..(Word - 1)
      /\ r.capacity \in Nat /\ r.lost \in BOOLEAN /\ Len(r.pages) \in Nat
  BY <1>1, FieldsTyped
<1>3. b \in Page /\ Capacity(b) = c /\ c \in Nat
  BY BlankPageIs
<1> HIDE DEF b, Page
<1>4. x \in Seq(Page) /\ Len(x) = r.last /\ \A k \in 1..(r.last) : x[k] = r.pages[k]
  <2>1. 1 <= r.last + 1 /\ (r.last + 1) - 1 = r.last /\ \A k \in 1..(r.last) : (1 - 1) + k = k
    BY <1>2
  <2>2. /\ x \in Seq(Page) /\ Len(x) = (r.last + 1) - 1
        /\ \A k \in 1..((r.last + 1) - 1) : x[k] = r.pages[(1 - 1) + k]
    BY <1>1, <1>2, <2>1, PartIs
  <2> HIDE DEF x
  <2>3. QED
    BY <2>1, <2>2
<1> HIDE DEF x
<1>5. /\ t \in Seq(Page) /\ Len(t) = r.last + 1
      /\ \A k \in 1..(r.last) : t[k] = r.pages[k]
      /\ t[r.last + 1] = b
  BY <1>2, <1>3, <1>4
<1> HIDE DEF t
<1>6. s = [r EXCEPT !.pages = t, !.last = r.last + 1, !.pageCount = (r.pageCount + 1) % Word,
                    !.capacity = r.capacity + c, !.lost = l]
  BY <1>1 DEF PageAdded, ArrayType, t, x, b
<1>7. /\ (r.pageCount + 1) % Word \in 0..(Word - 1)
      /\ l \in BOOLEAN /\ r.last + 1 \in Nat /\ r.capacity + c \in Nat
  <2>1. r.pageCount + 1 \in Int /\ r.last + 1 \in Nat /\ r.capacity + c \in Nat
    BY <1>2, <1>3
  <2>2. (r.pageCount + 1) % Word \in 0..(Word - 1)
    BY ONLY <2>1, ModIsSmall
  <2>3. l \in BOOLEAN
    BY <1>2
  <2>4. QED
    BY <2>1, <2>2, <2>3
<1> HIDE DEF l, s
<1>8. s \in ArrayType
  BY <1>1, <1>5, <1>6, <1>7 DEF ArrayType
<1>9. /\ s.pages = t /\ s.last = r.last + 1 /\ s.count = r.count /\ s.capacity = r.capacity + c
      /\ s.pageCount = (r.pageCount + 1) % Word
      /\ s.allowRelocation = r.allowRelocation /\ s.deallocElement = r.deallocElement
  BY <1>1, <1>6 DEF ArrayType
<1>10. ASSUME NEW k \in 2..(s.last) PROVE Capacity(s.pages[k]) # 0
  <2>1. CASE k = r.last + 1
    BY <1>3, <1>5, <1>9, <2>1
  <2>2. CASE k # r.last + 1
    <3>1. k \in 2..(r.last) /\ k \in 1..(r.last)
      BY <1>2, <1>9, <2>2
    <3>2. QED
      BY <1>5, <1>9, <3>1 DEF WellMade
  <2>3. QED
    BY <2>1, <2>2
<1>11. WellMade(s)
  BY <1>2, <1>5, <1>8, <1>9, <1>10 DEF WellMade
<1>12. QED
  BY <1>5, <1>9, <1>11 DEF s, t, x, b

LEMMA PageAddedOrderly ==
  ASSUME NEW r, Orderly(r), NEW c \in Nat \ {0}
  PROVE  LET s == PageAdded(r, c) IN
         /\ Orderly(s) /\ Elems(s.pages) = Elems(r.pages) /\ Extends(r.pages, s.pages)
         /\ CountedOrMany(r) => CountedOrMany(s)
<1> DEFINE s == PageAdded(r, c)
<1>1. WellMade(r) /\ r.last = Len(r.pages) /\ Packed(r.pages)
      /\ r.count = Len(Elems(r.pages)) /\ r.capacity = Space(r.pages)
  BY DEF Orderly
<1>2. r.pages \in Seq(Page) /\ r.pageCount \in 0..(Word - 1) /\ Len(r.pages) \in Nat
  BY <1>1, FieldsTyped DEF WellMade
<1>3. SubSeq(r.pages, 1, r.last) = r.pages
  <2> HIDE DEF Page
  <2> QED
    BY <1>1, <1>2, PrefixEnds
<1>4. /\ WellMade(s) /\ s.last = r.last + 1 /\ s.pages = Append(r.pages, BlankPage(c))
      /\ s.count = r.count /\ s.capacity = r.capacity + c /\ s.pageCount = (r.pageCount + 1) % Word
  BY <1>1, <1>3, PageAddedTyped
<1> HIDE DEF s
<1>5. /\ Len(s.pages) = Len(r.pages) + 1 /\ Packed(s.pages) /\ Extends(r.pages, s.pages)
      /\ Elems(s.pages) = Elems(r.pages) /\ Space(s.pages) = Space(r.pages) + c
  BY <1>1, <1>2, <1>4, BlankIsAppended
<1>6. ASSUME CountedOrMany(r) PROVE CountedOrMany(s)
  <2>1. CASE r.pageCount = Len(r.pages) /\ Len(r.pages) + 1 < Word
    <3> DEFINE n == Len(r.pages) + 1
    <3>2. n \in Nat /\ Word \in Nat \ {0} /\ n < Word /\ r.pageCount + 1 = n
      BY <1>2, <2>1, WordIsTyped
    <3> HIDE DEF n
    <3>3. n % Word = n
      BY ONLY <3>2, ModSmall
    <3>1. (r.pageCount + 1) % Word = Len(r.pages) + 1
      BY <3>2, <3>3 DEF n
    <3>4. QED
      BY <1>4, <1>5, <3>1 DEF CountedOrMany
  <2>2. CASE Len(r.pages) + 1 >= Word
    BY <1>5, <2>2 DEF CountedOrMany
  <2>3. QED
    BY <1>2, <1>6, <2>1, <2>2, WordIsTyped DEF CountedOrMany
<1>7. QED
  BY <1>1, <1>4, <1>5, <1>6 DEF Orderly, s

(* A place in a page of an array.                                          *)
IsSlot(slot, pages) ==
    \E k \in 1..Len(pages) : \E i \in 1..Capacity(pages[k]) : slot = <<k, i>>

LEMMA GrownTyped ==
  ASSUME NEW r, WellMade(r)
  PROVE  /\ WellMade(Grown(r)) /\ IsSlot(NextSlot(r), Grown(r).pages)
         /\ Grown(r).count = r.count
         /\ Grown(r).allowRelocation = r.allowRelocation /\ Grown(r).deallocElement = r.deallocElement
<1>1. r \in ArrayType /\ r.pages \in Seq(Page) /\ r.count \in Nat /\ r.growSize \in Nat \ {0} /\ r.last \in Nat
  BY FieldsTyped DEF WellMade
<1>2. CASE Located(r, r.count)
  <2>1. Grown(r) = r /\ NextSlot(r) = Locate(r, r.count)
    BY <1>2 DEF Grown, NextSlot
  <2>2. IsSlot(Locate(r, r.count), r.pages)
    BY <1>1, <1>2, LocateIs DEF IsSlot
  <2>3. QED
    BY <2>1, <2>2
<1>3. CASE ~Located(r, r.count)
  <2> DEFINE s == PageAdded(r, r.growSize)
  <2>1. Grown(r) = s /\ NextSlot(r) = <<s.last, 1>>
    BY <1>3 DEF Grown, NextSlot
  <2>2. /\ WellMade(s) /\ s.last = r.last + 1 /\ Len(s.pages) = r.last + 1
        /\ s.pages[r.last + 1] = BlankPage(r.growSize) /\ s.count = r.count
        /\ s.allowRelocation = r.allowRelocation /\ s.deallocElement = r.deallocElement
    BY <1>1, PageAddedTyped
  <2> HIDE DEF s
  <2>3. s.last \in 1..Len(s.pages) /\ 1 \in 1..Capacity(s.pages[s.last])
    <3>1. Capacity(s.pages[s.last]) = r.growSize
      BY <1>1, <2>2, BlankPageIs
    <3>2. QED
      BY <1>1, <2>2, <3>1
  <2>4. QED
    BY <2>1, <2>2, <2>3 DEF IsSlot
<1>4. QED
  BY <1>2, <1>3

(* In order, it is the next place of the first page that is not full.      *)
IsNextPlace(k, pages) ==
    /\ pages[k].count < Capacity(pages[k])
    /\ \A j \in 1..(k - 1) : pages[j].count = Capacity(pages[j])
    /\ \A j \in (k + 1)..Len(pages) : pages[j].count = 0

LEMMA GrownOrderly ==
  ASSUME NEW r, Orderly(r)
  PROVE  /\ Orderly(Grown(r)) /\ Elems(Grown(r).pages) = Elems(r.pages) /\ Extends(r.pages, Grown(r).pages)
         /\ CountedOrMany(r) => CountedOrMany(Grown(r))
         /\ \E k \in 1..Len(Grown(r).pages) :
               /\ NextSlot(r) = <<k, Grown(r).pages[k].count + 1>>
               /\ IsNextPlace(k, Grown(r).pages)
<1>1. WellMade(r) /\ r.last = Len(r.pages) /\ Packed(r.pages) /\ r.count = Len(Elems(r.pages))
  BY DEF Orderly
<1>2. r.pages \in Seq(Page) /\ r.count \in Nat /\ r.growSize \in Nat \ {0} /\ Len(r.pages) \in Nat
  BY <1>1, FieldsTyped DEF WellMade
<1>3. CASE Located(r, r.count)
  <2>1. Grown(r) = r /\ NextSlot(r) = Locate(r, r.count)
    BY <1>3 DEF Grown, NextSlot
  <2>2. \E k \in 1..Len(r.pages) : Locate(r, r.count) = <<k, r.pages[k].count + 1>> /\ IsNextPlace(k, r.pages)
    BY <1>1, <1>2, <1>3, NextPlaceIs DEF IsNextPlace
  <2>3. Extends(r.pages, r.pages)
    BY <1>2 DEF Extends
  <2>4. QED
    BY <2>1, <2>2, <2>3
<1>4. CASE ~Located(r, r.count)
  <2> DEFINE s == PageAdded(r, r.growSize)
  <2>1. Grown(r) = s /\ NextSlot(r) = <<s.last, 1>>
    BY <1>4 DEF Grown, NextSlot
  <2>2. /\ s.last = r.last + 1 /\ Len(s.pages) = r.last + 1
        /\ s.pages[r.last + 1] = BlankPage(r.growSize)
        /\ \A k \in 1..(r.last) : s.pages[k] = r.pages[k]
    BY <1>1, <1>2, PageAddedTyped
  <2>3. /\ Orderly(s) /\ Elems(s.pages) = Elems(r.pages) /\ Extends(r.pages, s.pages)
        /\ CountedOrMany(r) => CountedOrMany(s)
    BY <1>2, PageAddedOrderly
  <2> HIDE DEF s
  <2>4. IsFull(r.pages)
    BY <1>1, <1>2, <1>4, NoPlaceIsFull
  <2>5. s.pages[s.last].count = 0 /\ Capacity(s.pages[s.last]) = r.growSize
    BY <1>2, <2>2, BlankPageIs
  <2>6. IsNextPlace(s.last, s.pages)
    <3>1. \A j \in 1..(s.last - 1) : j \in 1..(r.last) /\ j \in 1..Len(r.pages)
      BY <1>1, <1>2, <2>2
    <3>2. \A j \in (s.last + 1)..Len(s.pages) : FALSE
      BY <1>1, <1>2, <2>2
    <3>3. \A j \in 1..(s.last - 1) : s.pages[j].count = Capacity(s.pages[j])
      BY <2>2, <2>4, <3>1 DEF IsFull
    <3>4. s.pages[s.last].count < Capacity(s.pages[s.last])
      BY <1>2, <2>5
    <3>5. QED
      BY <3>2, <3>3, <3>4 DEF IsNextPlace
  <2>7. s.last \in 1..Len(s.pages)
    BY <1>1, <1>2, <2>2
  <2>8. s.pages[s.last].count + 1 = 1
    BY <2>5
  <2>9. QED
    BY <2>1, <2>3, <2>6, <2>7, <2>8
<1>5. QED
  BY <1>3, <1>4

(* One page of an array is changed, and its count of elements.             *)
IsPageSet(h, g, k, page, n) == h = [g EXCEPT !.pages = [g.pages EXCEPT ![k] = page], !.count = n]

LEMMA PageSet ==
  ASSUME NEW g, WellMade(g), NEW k \in 1..Len(g.pages), NEW page \in Page,
         Capacity(page) = Capacity(g.pages[k]), NEW n \in Nat,
         NEW h, IsPageSet(h, g, k, page, n)
  PROVE  /\ WellMade(h) /\ h.pages = [g.pages EXCEPT ![k] = page] /\ Len(h.pages) = Len(g.pages)
         /\ Extends(g.pages, h.pages)
         /\ h.count = n /\ h.last = g.last /\ h.capacity = g.capacity /\ h.pageCount = g.pageCount
         /\ h.allowRelocation = g.allowRelocation /\ h.deallocElement = g.deallocElement
<1> DEFINE t == [g.pages EXCEPT ![k] = page]
<1>1. g \in ArrayType /\ g.pages \in Seq(Page) /\ Len(g.pages) \in Nat /\ g.last \in Nat /\ g.last <= Len(g.pages)
  BY FieldsTyped DEF WellMade
<1> HIDE DEF Page
<1>2. /\ t \in Seq(Page) /\ Len(t) = Len(g.pages)
      /\ \A j \in 1..Len(g.pages) : t[j] = IF j = k THEN page ELSE g.pages[j]
  BY <1>1
<1>9. h = [g EXCEPT !.pages = t, !.count = n]
  BY DEF IsPageSet
<1> HIDE DEF t
<1>3. /\ h \in ArrayType /\ h.pages = t /\ h.count = n /\ h.last = g.last
      /\ h.capacity = g.capacity /\ h.pageCount = g.pageCount
      /\ h.allowRelocation = g.allowRelocation /\ h.deallocElement = g.deallocElement
  <2>1. h \in ArrayType
    BY <1>1, <1>2, <1>9 DEF ArrayType
  <2>2. QED
    BY <1>1, <1>9, <2>1 DEF ArrayType
<1>4. \A j \in 1..Len(g.pages) : Capacity(t[j]) = Capacity(g.pages[j])
  BY <1>2
<1>5. \A j \in 2..(g.last) : Capacity(t[j]) # 0
  <2>1. \A j \in 2..(g.last) : j \in 1..Len(g.pages)
    BY <1>1
  <2>2. QED
    BY <1>4, <2>1 DEF WellMade
<1>6. WellMade(h)
  BY <1>1, <1>2, <1>3, <1>5 DEF WellMade
<1>7. Extends(g.pages, t)
  BY <1>1, <1>2, <1>4 DEF Extends
<1>8. QED
  BY <1>2, <1>3, <1>6, <1>7 DEF t

OneMore(page) == [slots |-> page.slots, count |-> page.count + 1]
WithElement(page, i, e) == [slots |-> [page.slots EXCEPT ![i] = e], count |-> page.count]

LEMMA PageChanges ==
  ASSUME NEW page \in Page
  PROVE  /\ OneMore(page) \in Page /\ Capacity(OneMore(page)) = Capacity(page)
         /\ OneMore(page).count = page.count + 1 /\ OneMore(page).slots = page.slots
         /\ page.slots \in Seq(Values) /\ page.count \in Nat /\ Capacity(page) = Len(page.slots)
<1>1. page.slots \in Seq(Values) /\ page.count \in Nat /\ Len(page.slots) \in Nat
  BY DEF Page
<1>2. OneMore(page) \in Page /\ Capacity(OneMore(page)) = Capacity(page)
  BY <1>1 DEF Page, OneMore, Capacity
<1>3. QED
  BY <1>1, <1>2 DEF OneMore, Capacity

HasElement(q, page, i, e) ==
    /\ q \in Page /\ Capacity(q) = Capacity(page) /\ q.count = page.count
    /\ q.slots = [page.slots EXCEPT ![i] = e]
    /\ \A j \in 1..Capacity(page) : q.slots[j] = IF j = i THEN e ELSE page.slots[j]

LEMMA WithElementIs ==
  ASSUME NEW page \in Page, NEW i \in 1..Capacity(page), NEW e \in Values
  PROVE  HasElement(WithElement(page, i, e), page, i, e)
<1> DEFINE s == page.slots
           t == [s EXCEPT ![i] = e]
<1>1. s \in Seq(Values) /\ page.count \in Nat /\ Len(s) \in Nat /\ Capacity(page) = Len(s)
  BY PageChanges
<1> HIDE DEF s
<1>2. t \in Seq(Values) /\ Len(t) = Len(s) /\ \A j \in 1..Len(s) : t[j] = IF j = i THEN e ELSE s[j]
  BY <1>1
<1> HIDE DEF t
<1>3. WithElement(page, i, e) = [slots |-> t, count |-> page.count]
  BY DEF WithElement, t, s
<1>4. QED
  BY <1>1, <1>2, <1>3 DEF HasElement, Page, Capacity, s, t

(* avDynamicArrayAddEmpty, on any array.                                   *)
LEMMA AddedEmptyTyped ==
  ASSUME NEW r, WellMade(r)
  PROVE  LET g == Grown(r)
             s == AddedEmpty(r)
             k == NextSlot(r)[1]
         IN  /\ WellMade(s) /\ s.pages = [g.pages EXCEPT ![k] = OneMore(g.pages[k])]
             /\ Len(s.pages) = Len(g.pages) /\ Extends(g.pages, s.pages)
             /\ k \in 1..Len(g.pages)
             /\ s.count = r.count + 1 /\ s.last = g.last /\ s.capacity = g.capacity
             /\ s.pageCount = g.pageCount
             /\ s.allowRelocation = r.allowRelocation /\ s.deallocElement = r.deallocElement
<1> DEFINE g == Grown(r)
           s == AddedEmpty(r)
           k == NextSlot(r)[1]
           page == OneMore(g.pages[k])
<1>1. /\ WellMade(g) /\ IsSlot(NextSlot(r), g.pages) /\ g.count = r.count
      /\ g.allowRelocation = r.allowRelocation /\ g.deallocElement = r.deallocElement
  BY GrownTyped
<1>2. g \in ArrayType /\ g.pages \in Seq(Page) /\ g.count \in Nat /\ Len(g.pages) \in Nat
  BY <1>1, FieldsTyped DEF WellMade
<1>3. s = [g EXCEPT !.pages[k].count = @ + 1, !.count = @ + 1]
  BY DEF AddedEmpty
<1>4. k \in 1..Len(g.pages)
  BY <1>1 DEF IsSlot
<1> HIDE DEF g, s, k
<1>5. g.pages[k] \in Page
  BY <1>2, <1>4, PageFields
<1>6. page \in Page /\ Capacity(page) = Capacity(g.pages[k])
  BY <1>5, PageChanges
<1>7. [g.pages[k] EXCEPT !.count = @ + 1] = page
  BY <1>5 DEF Page, OneMore
<1> HIDE DEF page
<1>8. s = [g EXCEPT !.pages = [g.pages EXCEPT ![k] = page], !.count = g.count + 1]
  <2>1. s = [g EXCEPT !.pages = [g.pages EXCEPT ![k] = [g.pages[k] EXCEPT !.count = @ + 1]], !.count = g.count + 1]
    BY <1>2, <1>3, <1>4 DEF ArrayType
  <2>2. QED
    BY <1>7, <2>1
<1>9. g.count + 1 \in Nat
  BY <1>2
<1>10. /\ WellMade(s) /\ s.pages = [g.pages EXCEPT ![k] = page] /\ Len(s.pages) = Len(g.pages)
       /\ Extends(g.pages, s.pages)
       /\ s.count = g.count + 1 /\ s.last = g.last /\ s.capacity = g.capacity /\ s.pageCount = g.pageCount
       /\ s.allowRelocation = g.allowRelocation /\ s.deallocElement = g.deallocElement
  <2> DEFINE n == g.count + 1
  <2>1. WellMade(g) /\ k \in 1..Len(g.pages) /\ page \in Page /\ Capacity(page) = Capacity(g.pages[k]) /\ n \in Nat
    BY <1>1, <1>4, <1>6, <1>9
  <2>2. IsPageSet(s, g, k, page, n)
    BY <1>8 DEF IsPageSet
  <2> HIDE DEF n
  <2>3. /\ WellMade(s) /\ s.pages = [g.pages EXCEPT ![k] = page] /\ Len(s.pages) = Len(g.pages)
        /\ Extends(g.pages, s.pages)
        /\ s.count = n /\ s.last = g.last /\ s.capacity = g.capacity /\ s.pageCount = g.pageCount
        /\ s.allowRelocation = g.allowRelocation /\ s.deallocElement = g.deallocElement
    BY ONLY <2>1, <2>2, PageSet
  <2>4. QED
    BY <2>3 DEF n
<1>11. QED
  BY <1>1, <1>4, <1>10 DEF g, s, k, page

LEMMA PagesOfWellMade ==
  ASSUME NEW r, WellMade(r)
  PROVE  /\ r \in ArrayType /\ r.pages \in Seq(Page) /\ Len(r.pages) \in Nat /\ DOMAIN r.pages = 1..Len(r.pages)
         /\ r.count \in Nat /\ r.capacity \in Nat /\ r.last \in Nat /\ r.last <= Len(r.pages)
         /\ r.growSize \in Nat \ {0} /\ r.pageCount \in 0..(Word - 1)
         /\ r.pageCount \in Nat /\ r.pageCount < Word
         /\ \A k \in 1..Len(r.pages) :
              /\ r.pages[k] \in Page /\ r.pages[k].slots \in Seq(Values) /\ r.pages[k].count \in Nat
              /\ Capacity(r.pages[k]) = Len(r.pages[k].slots) /\ Capacity(r.pages[k]) \in Nat
<1>1. r.pageCount \in 0..(Word - 1) /\ Word \in Nat
  BY FieldsTyped, WordIsTyped DEF WellMade
<1>2. r.pageCount \in Nat /\ r.pageCount < Word
  BY ONLY <1>1
<1>3. QED
  BY <1>2, FieldsTyped, PageFields DEF WellMade

(* The write of an element to a slot.                                      *)
LEMMA StoredIs ==
  ASSUME NEW r, WellMade(r), NEW k \in 1..Len(r.pages), NEW i \in 1..Capacity(r.pages[k]), NEW e \in Values
  PROVE  LET s == Stored(r, <<k, i>>, e) IN
         /\ IsPageSet(s, r, k, WithElement(r.pages[k], i, e), r.count)
         /\ WellMade(s) /\ s.pages = [r.pages EXCEPT ![k] = WithElement(r.pages[k], i, e)]
         /\ Len(s.pages) = Len(r.pages) /\ Extends(r.pages, s.pages)
         /\ s.count = r.count /\ s.last = r.last /\ s.capacity = r.capacity /\ s.pageCount = r.pageCount
         /\ s.allowRelocation = r.allowRelocation /\ s.deallocElement = r.deallocElement
<1> DEFINE s == Stored(r, <<k, i>>, e)
           page == WithElement(r.pages[k], i, e)
<1>1. /\ r \in ArrayType /\ r.pages \in Seq(Page) /\ DOMAIN r.pages = 1..Len(r.pages) /\ r.count \in Nat
      /\ r.pages[k] \in Page
  BY PagesOfWellMade
<1>2. page \in Page /\ Capacity(page) = Capacity(r.pages[k])
  <2> DEFINE p == r.pages[k]
  <2>1. p \in Page /\ i \in 1..Capacity(p) /\ e \in Values
    BY <1>1
  <2> HIDE DEF p
  <2>2. WithElement(p, i, e) \in Page /\ Capacity(WithElement(p, i, e)) = Capacity(p)
    <3>1. HasElement(WithElement(p, i, e), p, i, e)
      BY <2>1, WithElementIs
    <3>2. QED
      BY <3>1 DEF HasElement
  <2>3. QED
    BY <2>2 DEF p
<1>3. page = [r.pages[k] EXCEPT !.slots[i] = e]
  <2> DEFINE p == r.pages[k]
  <2>1. p \in Page
    BY <1>1
  <2> HIDE DEF p
  <2>2. p = [slots |-> p.slots, count |-> p.count]
    BY ONLY <2>1 DEF Page
  <2>3. [p EXCEPT !.slots[i] = e] = [slots |-> [p.slots EXCEPT ![i] = e], count |-> p.count]
    BY ONLY <2>2
  <2>4. WithElement(p, i, e) = [p EXCEPT !.slots[i] = e]
    BY <2>3 DEF WithElement
  <2>5. QED
    BY <2>4 DEF p
<1>4. s = [r EXCEPT !.pages = [r.pages EXCEPT ![k] = [r.pages[k] EXCEPT !.slots[i] = e]]]
  BY <1>1 DEF Stored, ArrayType
<1> HIDE DEF page, s
<1>5. s = [r EXCEPT !.pages = [r.pages EXCEPT ![k] = page]]
  BY <1>3, <1>4
<1>6. IsPageSet(s, r, k, page, r.count)
  <2> DEFINE t == [r.pages EXCEPT ![k] = page]
  <2>1. s = [r EXCEPT !.pages = t]
    BY <1>5
  <2> HIDE DEF t
  <2>2. s = [r EXCEPT !.pages = t, !.count = r.count]
    BY <1>1, <2>1 DEF ArrayType
  <2>3. QED
    BY <2>2 DEF IsPageSet, t
<1> DEFINE n == r.count
<1>7. n \in Nat /\ IsPageSet(s, r, k, page, n)
  BY <1>1, <1>6
<1> HIDE DEF n
<1>8. /\ WellMade(s) /\ s.pages = [r.pages EXCEPT ![k] = page]
      /\ Len(s.pages) = Len(r.pages) /\ Extends(r.pages, s.pages)
      /\ s.count = n /\ s.last = r.last /\ s.capacity = r.capacity /\ s.pageCount = r.pageCount
      /\ s.allowRelocation = r.allowRelocation /\ s.deallocElement = r.deallocElement
  BY <1>2, <1>7, PageSet
<1>9. QED
  BY <1>6, <1>8 DEF s, page, n

LEMMA AddedTyped ==
  ASSUME NEW r, WellMade(r), NEW e \in Values
  PROVE  LET g == Grown(r)
             s == Added(r, e)
             k == NextSlot(r)[1]
             i == NextSlot(r)[2]
         IN  /\ WellMade(s) /\ s.pages = [g.pages EXCEPT ![k] = WithElement(OneMore(g.pages[k]), i, e)]
             /\ Len(s.pages) = Len(g.pages) /\ Extends(g.pages, s.pages)
             /\ k \in 1..Len(g.pages) /\ i \in 1..Capacity(g.pages[k])
             /\ s.count = r.count + 1 /\ s.last = g.last /\ s.capacity = g.capacity /\ s.pageCount = g.pageCount
             /\ s.allowRelocation = r.allowRelocation /\ s.deallocElement = r.deallocElement
<1> DEFINE g == Grown(r)
           h == AddedEmpty(r)
           s == Added(r, e)
           k == NextSlot(r)[1]
           i == NextSlot(r)[2]
<1>1. WellMade(g) /\ IsSlot(NextSlot(r), g.pages)
  BY GrownTyped
<1>2. k \in 1..Len(g.pages) /\ i \in 1..Capacity(g.pages[k]) /\ NextSlot(r) = <<k, i>>
  BY <1>1 DEF IsSlot
<1>3. /\ WellMade(h) /\ h.pages = [g.pages EXCEPT ![k] = OneMore(g.pages[k])]
      /\ Len(h.pages) = Len(g.pages) /\ Extends(g.pages, h.pages)
      /\ h.count = r.count + 1 /\ h.last = g.last /\ h.capacity = g.capacity /\ h.pageCount = g.pageCount
      /\ h.allowRelocation = r.allowRelocation /\ h.deallocElement = r.deallocElement
  BY AddedEmptyTyped
<1>4. s = Stored(h, <<k, i>>, e)
  BY <1>2 DEF Added
<1> HIDE DEF g, h, s, k, i
<1>5. g.pages \in Seq(Page) /\ DOMAIN g.pages = 1..Len(g.pages) /\ g.pages[k] \in Page /\ h.pages \in Seq(Page)
  BY <1>1, <1>2, <1>3, PagesOfWellMade
<1>6. h.pages[k] = OneMore(g.pages[k]) /\ Capacity(h.pages[k]) = Capacity(g.pages[k])
  BY <1>2, <1>3, <1>5, PageChanges
<1>7. k \in 1..Len(h.pages) /\ i \in 1..Capacity(h.pages[k])
  BY <1>2, <1>3, <1>6
<1>8. /\ WellMade(s) /\ s.pages = [h.pages EXCEPT ![k] = WithElement(h.pages[k], i, e)]
      /\ Len(s.pages) = Len(h.pages) /\ Extends(h.pages, s.pages)
      /\ s.count = h.count /\ s.last = h.last /\ s.capacity = h.capacity /\ s.pageCount = h.pageCount
      /\ s.allowRelocation = h.allowRelocation /\ s.deallocElement = h.deallocElement
  <2>1. WellMade(h) /\ e \in Values
    BY <1>3
  <2>2. QED
    BY ONLY <1>4, <1>7, <2>1, StoredIs
<1>9. s.pages = [g.pages EXCEPT ![k] = WithElement(OneMore(g.pages[k]), i, e)]
  <2> DEFINE p == OneMore(g.pages[k])
             q == WithElement(p, i, e)
             x == g.pages
             y == h.pages
             z == s.pages
  <2>1. y = [x EXCEPT ![k] = p] /\ z = [y EXCEPT ![k] = q]
    BY <1>3, <1>6, <1>8
  <2> HIDE DEF p, q, x, y, z
  <2>2. z = [x EXCEPT ![k] = q]
    BY <2>1
  <2>3. QED
    BY <2>2 DEF p, q, x, z
<1>10. Extends(g.pages, s.pages)
  <2>1. s.pages \in Seq(Page)
    BY <1>8, PagesOfWellMade
  <2> DEFINE x == g.pages
             y == h.pages
             z == s.pages
  <2>2. x \in Seq(Page) /\ y \in Seq(Page) /\ z \in Seq(Page) /\ Extends(x, y) /\ Extends(y, z)
    BY <1>3, <1>5, <1>8, <2>1
  <2> HIDE DEF x, y, z
  <2>3. Extends(x, z)
    BY <2>2, ExtendsAgain
  <2>4. QED
    BY <2>3 DEF x, z
<1>11. QED
  BY <1>2, <1>3, <1>8, <1>9, <1>10 DEF g, s, k, i

LEMMA AddedEmptyOrderly ==
  ASSUME NEW r, Orderly(r)
  PROVE  LET s == AddedEmpty(r) IN
         /\ Orderly(s) /\ Extends(r.pages, s.pages)
         /\ \E v \in Values : Elems(s.pages) = Append(Elems(r.pages), v)
         /\ CountedOrMany(r) => CountedOrMany(s)
<1> DEFINE g == Grown(r)
           s == AddedEmpty(r)
<1>1. /\ Orderly(g) /\ Elems(g.pages) = Elems(r.pages) /\ Extends(r.pages, g.pages)
      /\ CountedOrMany(r) => CountedOrMany(g)
      /\ \E k \in 1..Len(g.pages) : NextSlot(r) = <<k, g.pages[k].count + 1>> /\ IsNextPlace(k, g.pages)
  BY GrownOrderly
<1>2. PICK k \in 1..Len(g.pages) : NextSlot(r) = <<k, g.pages[k].count + 1>> /\ IsNextPlace(k, g.pages)
  BY <1>1
<1>3. WellMade(r) /\ WellMade(g) /\ Packed(g.pages) /\ r.count = Len(Elems(r.pages))
      /\ g.last = Len(g.pages) /\ g.capacity = Space(g.pages)
  BY <1>1 DEF Orderly
<1>4. NextSlot(r)[1] = k
  BY <1>2
<1>5. /\ WellMade(s) /\ s.pages = [g.pages EXCEPT ![k] = OneMore(g.pages[k])]
      /\ Len(s.pages) = Len(g.pages) /\ Extends(g.pages, s.pages)
      /\ s.count = r.count + 1 /\ s.last = g.last /\ s.capacity = g.capacity /\ s.pageCount = g.pageCount
  BY <1>3, <1>4, AddedEmptyTyped
<1> HIDE DEF g, s
<1> DEFINE x == g.pages
           y == s.pages
           w == r.pages
           page == OneMore(g.pages[k])
           v == page.slots[page.count]
<1>6. x \in Seq(Page) /\ y \in Seq(Page) /\ w \in Seq(Page)
  BY <1>3, <1>5, PagesOfWellMade
<1>7. /\ page \in Page /\ Capacity(page) = Capacity(x[k]) /\ page.count = x[k].count + 1
      /\ page.slots = x[k].slots /\ x[k].count \in Nat /\ Capacity(x[k]) \in Nat
      /\ x[k].slots \in Seq(Values) /\ Capacity(x[k]) = Len(x[k].slots)
  <2>1. x[k] \in Page /\ Capacity(x[k]) \in Nat
    BY <1>3, PagesOfWellMade
  <2>2. QED
    BY <2>1, PageChanges
<1>8. /\ page.count <= Capacity(page)
      /\ \A i \in 1..(x[k].count) : page.slots[i] = x[k].slots[i]
      /\ \A j \in 1..(k - 1) : x[j].count = Capacity(x[j])
      /\ \A j \in (k + 1)..Len(x) : x[j].count = 0
  <2> HIDE DEF page
  <2> QED
    BY <1>2, <1>7 DEF IsNextPlace
<1>9. v \in Values
  <2> HIDE DEF page
  <2>1. page.count \in 1..Len(x[k].slots)
    BY <1>7, <1>8
  <2>2. QED
    BY <1>7, <2>1
<1>10. k \in 1..Len(x) /\ y = [x EXCEPT ![k] = page] /\ Packed(x)
  BY <1>3, <1>5
<1> HIDE DEF x, y, w, page
<1>11. Packed(y) /\ Elems(y) = Append(Elems(x), v) /\ Space(y) = Space(x)
  BY <1>6, <1>7, <1>8, <1>10, ElemIsAdded
<1>12. Extends(w, x) /\ Extends(x, y)
  BY <1>1, <1>5 DEF w, x, y
<1>13. Extends(w, y)
  BY <1>6, <1>12, ExtendsAgain
<1>14. Elems(x) \in Seq(Values) /\ Len(Elems(y)) = Len(Elems(x)) + 1
  <2>1. Elems(x) \in Seq(Values)
    BY <1>6, <1>10, ElemsAre DEF Packed
  <2> HIDE DEF v
  <2>2. QED
    BY <1>9, <1>11, <2>1
<1>15. Orderly(s)
  BY <1>1, <1>3, <1>5, <1>11, <1>14 DEF Orderly, x, y
<1>16. ASSUME CountedOrMany(r) PROVE CountedOrMany(s)
  BY <1>1, <1>5, <1>16 DEF CountedOrMany
<1>17. QED
  BY <1>1, <1>9, <1>11, <1>13, <1>15, <1>16 DEF s, x, y, w

LEMMA AddedOrderly ==
  ASSUME NEW r, Orderly(r), NEW e \in Values
  PROVE  LET s == Added(r, e) IN
         /\ Orderly(s) /\ Extends(r.pages, s.pages)
         /\ Elems(s.pages) = Append(Elems(r.pages), e)
         /\ CountedOrMany(r) => CountedOrMany(s)
<1> DEFINE g == Grown(r)
           s == Added(r, e)
<1>1. /\ Orderly(g) /\ Elems(g.pages) = Elems(r.pages) /\ Extends(r.pages, g.pages)
      /\ CountedOrMany(r) => CountedOrMany(g)
      /\ \E k \in 1..Len(g.pages) : NextSlot(r) = <<k, g.pages[k].count + 1>> /\ IsNextPlace(k, g.pages)
  BY GrownOrderly
<1>2. PICK k \in 1..Len(g.pages) : NextSlot(r) = <<k, g.pages[k].count + 1>> /\ IsNextPlace(k, g.pages)
  BY <1>1
<1> DEFINE i == g.pages[k].count + 1
<1>3. WellMade(r) /\ WellMade(g) /\ Packed(g.pages) /\ r.count = Len(Elems(r.pages))
      /\ g.last = Len(g.pages) /\ g.capacity = Space(g.pages)
  BY <1>1 DEF Orderly
<1>4. NextSlot(r)[1] = k /\ NextSlot(r)[2] = i
  BY <1>2
<1>5. /\ WellMade(s) /\ s.pages = [g.pages EXCEPT ![k] = WithElement(OneMore(g.pages[k]), i, e)]
      /\ Len(s.pages) = Len(g.pages) /\ Extends(g.pages, s.pages)
      /\ s.count = r.count + 1 /\ s.last = g.last /\ s.capacity = g.capacity /\ s.pageCount = g.pageCount
      /\ i \in 1..Capacity(g.pages[k])
  <2> HIDE DEF i, s, g
  <2>1. QED
    BY <1>3, <1>4, AddedTyped DEF g, s
<1> HIDE DEF g, s
<1> DEFINE x == g.pages
           y == s.pages
           w == r.pages
           p == OneMore(g.pages[k])
           page == WithElement(p, i, e)
<1>6. x \in Seq(Page) /\ y \in Seq(Page) /\ w \in Seq(Page)
  BY <1>3, <1>5, PagesOfWellMade
<1>7. /\ x[k] \in Page /\ x[k].count \in Nat /\ Capacity(x[k]) \in Nat
      /\ p \in Page /\ Capacity(p) = Capacity(x[k]) /\ p.count = i /\ p.slots = x[k].slots
      /\ i \in 1..Capacity(p)
  <2>1. x[k] \in Page /\ Capacity(x[k]) \in Nat
    BY <1>3, PagesOfWellMade
  <2>2. QED
    BY <1>5, <2>1, PageChanges
<1>10. k \in 1..Len(x) /\ y = [x EXCEPT ![k] = page] /\ Packed(x) /\ i = x[k].count + 1
       /\ IsNextPlace(k, x)
  BY <1>2, <1>3, <1>5
<1>12. Extends(w, x) /\ Extends(x, y)
  BY <1>1, <1>5
<1> HIDE DEF x, y, w, p, i
<1>8. /\ page \in Page /\ Capacity(page) = Capacity(p) /\ page.count = p.count
      /\ \A j \in 1..Capacity(p) : page.slots[j] = IF j = i THEN e ELSE p.slots[j]
  <2>1. p \in Page /\ i \in 1..Capacity(p) /\ e \in Values
    BY <1>7
  <2>2. HasElement(page, p, i, e)
    BY <2>1, WithElementIs
  <2>3. QED
    BY <2>2 DEF HasElement
<1> HIDE DEF page
<1>9. /\ Capacity(page) = Capacity(x[k]) /\ page.count = x[k].count + 1
      /\ page.count <= Capacity(page)
      /\ \A j \in 1..(x[k].count) : page.slots[j] = x[k].slots[j]
      /\ \A j \in 1..(k - 1) : x[j].count = Capacity(x[j])
      /\ \A j \in (k + 1)..Len(x) : x[j].count = 0
      /\ page.slots[page.count] = e
  <2>1. \A j \in 1..(x[k].count) : j \in 1..Capacity(p) /\ j # i
    BY <1>7, <1>10
  <2>2. QED
    BY <1>7, <1>8, <1>10, <2>1 DEF IsNextPlace
<1>11. Packed(y) /\ Elems(y) = Append(Elems(x), e) /\ Space(y) = Space(x)
  BY <1>6, <1>8, <1>9, <1>10, ElemIsAdded
<1>13. Extends(w, y)
  BY <1>6, <1>12, ExtendsAgain
<1>14. Elems(x) \in Seq(Values) /\ Len(Elems(y)) = Len(Elems(x)) + 1
  <2>1. Elems(x) \in Seq(Values)
    BY <1>6, <1>10, ElemsAre DEF Packed
  <2>2. QED
    BY <1>11, <2>1
<1>15. Orderly(s)
  BY <1>1, <1>3, <1>5, <1>11, <1>14 DEF Orderly, x, y
<1>16. ASSUME CountedOrMany(r) PROVE CountedOrMany(s)
  BY <1>1, <1>5, <1>16 DEF CountedOrMany
<1>17. QED
  BY <1>1, <1>11, <1>13, <1>15, <1>16 DEF s, x, y, w


--------------------------------------------------------------------------------
(* avDynamicArrayWrite.                                                    *)

(* Pages of the same capacities and counts are in order alike.             *)
LEMMA PackedAlike ==
  ASSUME NEW x \in Seq(Page), NEW y \in Seq(Page), Packed(x), Len(y) = Len(x),
         \A k \in 1..Len(x) : y[k].count = x[k].count /\ Capacity(y[k]) = Capacity(x[k])
  PROVE  Packed(y)
<1>1. DOMAIN x = 1..Len(x) /\ DOMAIN y = 1..Len(x) /\ Len(x) \in Nat
  BY PageFields
<1>2. Fit(y)
  BY <1>1 DEF Fit, Packed
<1>3. ASSUME NEW k \in 1..Len(y), NEW j \in 1..(k - 1), y[k].count # 0 PROVE y[j].count = Capacity(y[j])
  <2>1. k \in 1..Len(x) /\ j \in 1..Len(x)
    BY <1>1
  <2>2. QED
    BY <1>3, <2>1 DEF Packed
<1>4. QED
  BY <1>2, <1>3 DEF Packed

(* What is written to a place of a page is written to the sequence.        *)
PageWritten(t, pages, n, e) ==
    /\ t \in Seq(Page) /\ Len(t) = Len(pages) /\ Packed(t) /\ Space(t) = Space(pages)
    /\ Elems(t) = Put(Elems(pages), n, e)

LEMMA ElemIsWritten ==
  ASSUME NEW pages \in Seq(Page), Packed(pages), NEW k \in 1..Len(pages), NEW i \in 1..(pages[k].count),
         NEW e \in Values, NEW page, HasElement(page, pages[k], i, e)
  PROVE  PageWritten(Put(pages, k, page), pages, Ahead(pages, k) + i, e)
<1> DEFINE t == [pages EXCEPT ![k] = page]
           F == Elems(FrontOf(pages, k))
           B == Elems(BackOf(pages, k))
           m == Live(pages[k])
           l == Live(page)
<1>1. /\ pages[k] \in Page /\ pages[k].count \in Nat /\ Capacity(pages[k]) = Len(pages[k].slots)
      /\ pages[k].slots \in Seq(Values) /\ Len(pages) \in Nat /\ DOMAIN pages = 1..Len(pages)
  BY PageFields
<1>2. Fit(pages) /\ pages[k].count <= Capacity(pages[k])
  BY <1>1 DEF Packed, Fit
<1>3. /\ page \in Page /\ Capacity(page) = Capacity(pages[k]) /\ page.count = pages[k].count
      /\ \A j \in 1..Capacity(pages[k]) : page.slots[j] = IF j = i THEN e ELSE pages[k].slots[j]
  BY DEF HasElement
<1>4. page.count <= Capacity(page)
  BY <1>2, <1>3
<1>5. /\ t \in Seq(Page) /\ Len(t) = Len(pages) /\ Fit(t)
      /\ \A j \in 1..Len(pages) : t[j] = IF j = k THEN page ELSE pages[j]
      /\ Elems(t) = F \o (l \o B)
      /\ Space(t) = Space(FrontOf(pages, k)) + (Capacity(page) + Space(BackOf(pages, k)))
  BY <1>2, <1>3, <1>4, PageReplaced
<1>6. /\ F \in Seq(Values) /\ B \in Seq(Values) /\ m \in Seq(Values) /\ Elems(pages) = F \o (m \o B)
      /\ Space(pages) = Space(FrontOf(pages, k)) + (Capacity(pages[k]) + Space(BackOf(pages, k)))
  BY <1>2, PagesSplit
<1>7. Ahead(pages, k) = Len(F)
  BY <1>2, AheadIsFront
<1>8. l = [m EXCEPT ![i] = e]
  <2>1. /\ m \in Seq(Values) /\ Len(m) = pages[k].count
        /\ \A j \in 1..(pages[k].count) : m[j] = pages[k].slots[j]
    BY <1>1, <1>2, LiveTyped
  <2>2. /\ l \in Seq(Values) /\ Len(l) = page.count
        /\ \A j \in 1..(page.count) : l[j] = page.slots[j]
    BY <1>3, <1>4, LiveTyped
  <2> HIDE DEF l, m
  <2>3. \A j \in 1..(pages[k].count) : l[j] = IF j = i THEN e ELSE m[j]
    BY <1>1, <1>2, <1>3, <2>1, <2>2
  <2>4. QED
    BY <1>1, <1>3, <2>1, <2>2, <2>3
<1>9. Len(m) = pages[k].count
  BY <1>1, <1>2, LiveTyped
<1>10. Packed(t)
  <2> HIDE DEF t
  <2> QED
    BY <1>3, <1>5, PackedAlike
<1> HIDE DEF F, B, m, l, t
<1>11. F \o (l \o B) = Put(F \o (m \o B), Len(F) + i, e)
  <2>1. HasMiddle(F, m, B, i, Values) /\ e \in Values
    BY <1>6, <1>9 DEF HasMiddle
  <2>2. F \o (Put(m, i, e) \o B) = Put(F \o (m \o B), Len(F) + i, e)
    BY ONLY <2>1, MiddleWritten
  <2>3. QED
    BY <1>8, <2>2 DEF Put
<1>12. Elems(t) = Put(Elems(pages), Ahead(pages, k) + i, e)
  BY <1>5, <1>6, <1>7, <1>11
<1>13. Space(t) = Space(pages)
  BY <1>3, <1>5, <1>6
<1>14. t = Put(pages, k, page)
  BY DEF Put, t
<1>15. QED
  BY <1>5, <1>10, <1>12, <1>13, <1>14 DEF PageWritten

IsWritten(s, r, index, e) ==
    /\ Orderly(s) /\ Extends(r.pages, s.pages) /\ Len(s.pages) = Len(r.pages) /\ s.pageCount = r.pageCount
    /\ Elems(s.pages) = Put(Elems(r.pages), index + 1, e)
    /\ s.count = r.count /\ s.capacity = r.capacity
    /\ s.allowRelocation = r.allowRelocation /\ s.deallocElement = r.deallocElement

LEMMA StoredOrderly ==
  ASSUME NEW r, Orderly(r), NEW index \in Nat, index < Len(Elems(r.pages)), NEW e \in Values
  PROVE  IsWritten(Stored(r, Locate(r, index), e), r, index, e)
<1>1. /\ WellMade(r) /\ r.last = Len(r.pages) /\ Packed(r.pages) /\ r.count = Len(Elems(r.pages))
      /\ r.capacity = Space(r.pages)
  BY DEF Orderly
<1>2. r.pages \in Seq(Page) /\ Len(r.pages) \in Nat
  BY <1>1, PagesOfWellMade
<1>3. PICK k \in 1..Len(r.pages) : \E i \in 1..(r.pages[k].count) :
         index + 1 = Ahead(r.pages, k) + i /\ Locate(r, index) = <<k, i>> /\ i <= Capacity(r.pages[k])
  BY <1>1, <1>2, ReadsAre
<1>4. PICK i \in 1..(r.pages[k].count) :
         index + 1 = Ahead(r.pages, k) + i /\ Locate(r, index) = <<k, i>> /\ i <= Capacity(r.pages[k])
  BY <1>3
<1>5. r.pages[k] \in Page /\ r.pages[k].count \in Nat /\ Capacity(r.pages[k]) \in Nat
  BY <1>1, PagesOfWellMade
<1> DEFINE s == Stored(r, <<k, i>>, e)
           page == WithElement(r.pages[k], i, e)
           x == r.pages
           y == s.pages
<1>6. i \in 1..Capacity(r.pages[k])
  BY <1>4, <1>5
<1>7. /\ WellMade(s) /\ y = [x EXCEPT ![k] = page] /\ Len(y) = Len(x) /\ Extends(x, y)
      /\ s.count = r.count /\ s.last = r.last /\ s.capacity = r.capacity /\ s.pageCount = r.pageCount
      /\ s.allowRelocation = r.allowRelocation /\ s.deallocElement = r.deallocElement
  <2> HIDE DEF s, page
  <2> QED
    BY <1>1, <1>6, StoredIs DEF s, page
<1>8. HasElement(page, x[k], i, e)
  BY <1>5, <1>6, WithElementIs
<1>9. x \in Seq(Page) /\ Packed(x) /\ k \in 1..Len(x) /\ i \in 1..(x[k].count)
  BY <1>1, <1>2
<1> HIDE DEF s, page, x, y
<1>10. Packed(y) /\ Space(y) = Space(x) /\ Elems(y) = Put(Elems(x), Ahead(x, k) + i, e)
  <2>1. PageWritten(Put(x, k, page), x, Ahead(x, k) + i, e)
    BY <1>8, <1>9, ElemIsWritten
  <2>2. y = Put(x, k, page)
    BY <1>7 DEF Put
  <2>3. QED
    BY <2>1, <2>2 DEF PageWritten
<1>11. Len(Elems(y)) = Len(Elems(x))
  <2>1. Elems(x) \in Seq(Values)
    BY <1>9, ElemsAre DEF Packed
  <2> DEFINE n == Ahead(x, k) + i
             z == Elems(x)
  <2>2. z \in Seq(Values) /\ Elems(y) = [z EXCEPT ![n] = e]
    BY <1>10, <2>1 DEF Put
  <2> HIDE DEF n, z
  <2>3. Len(Elems(y)) = Len(z)
    BY <2>2
  <2>4. QED
    BY <2>3 DEF z
<1>12. Orderly(s)
  BY <1>1, <1>7, <1>10, <1>11 DEF Orderly, x, y
<1>13. Stored(r, Locate(r, index), e) = s /\ Ahead(x, k) + i = index + 1
  BY <1>4 DEF s, x
<1>14. QED
  BY <1>7, <1>10, <1>12, <1>13 DEF IsWritten, x, y

LEMMA WrittenTyped ==
  ASSUME NEW r, WellMade(r), NEW index \in Nat, NEW e \in Values
  PROVE  WellMade(Written(r, index, e))
<1>1. CASE Found(r, index)
  <2>1. r.pages \in Seq(Page)
    BY PagesOfWellMade
  <2>2. PICK k \in 1..Len(r.pages) : \E i \in 1..Capacity(r.pages[k]) : Locate(r, index) = <<k, i>>
    BY <1>1, <2>1, ReadsTyped
  <2>5. PICK i \in 1..Capacity(r.pages[k]) : Locate(r, index) = <<k, i>>
    BY <2>2
  <2>3. WellMade(Stored(r, <<k, i>>, e))
    BY StoredIs
  <2>4. QED
    BY <1>1, <2>5, <2>3 DEF Written
<1>2. CASE ~Found(r, index)
  BY <1>2 DEF Written
<1>3. QED
  BY <1>1, <1>2

LEMMA WrittenOrderly ==
  ASSUME NEW r, Orderly(r), NEW index \in Nat, index < Len(Elems(r.pages)), NEW e \in Values
  PROVE  IsWritten(Written(r, index, e), r, index, e)
<1>1. Found(r, index)
  <2>1. r.pages \in Seq(Page) /\ Packed(r.pages)
    BY PagesOfWellMade DEF Orderly
  <2>2. QED
    BY <2>1, ReadsAre
<1>2. QED
  BY <1>1, StoredOrderly DEF Written


--------------------------------------------------------------------------------
(* avDynamicArrayAddRange and avDynamicArrayWriteRange.                    *)

AreAdded(f, r, es, N) == f[0] = r /\ \A n \in 1..N : f[n] = Added(f[n - 1], es[n])

LEMMA AddedAllRuns ==
  ASSUME NEW S, NEW r \in S, NEW es \in Seq(Values), \A s \in S : \A e \in Values : Added(s, e) \in S
  PROVE  \E f \in [0..Len(es) -> S] : AreAdded(f, r, es, Len(es)) /\ AddedAll(r, es) = f[Len(es)]
<1> DEFINE N == Len(es)
           step == [m \in (1..N) \X S |-> Added(m[2], es[m[1]])]
           Steps(g) == [n \in 0..N |-> IF n = 0 THEN r ELSE Added(g[n - 1], es[n])]
           F == CHOOSE g : g = Steps(g)
<1>1. N \in Nat /\ \A n \in 1..N : es[n] \in Values
  OBVIOUS
<1>2. step \in [(1..N) \X S -> S]
  BY <1>1
<1>3. PICK f \in [0..N -> S] : AreRuns(f, r, step, N)
  <2> HIDE DEF N, step
  <2> QED
    BY <1>1, <1>2, RunsExist
<1>4. ASSUME NEW n \in 1..N PROVE n - 1 \in 0..N /\ n \in 0..N /\ n # 0 /\ f[n] = Added(f[n - 1], es[n])
  <2>1. n - 1 \in 0..N /\ n \in 0..N /\ n # 0
    BY <1>1
  <2>2. f[n - 1] \in S
    BY <2>1
  <2>3. f[n] = step[<<n, f[n - 1]>>]
    BY <1>3 DEF AreRuns
  <2>4. step[<<n, f[n - 1]>>] = Added(f[n - 1], es[n])
    BY <2>2
  <2>5. QED
    BY <2>1, <2>3, <2>4
<1>5. f[0] = r
  BY <1>3 DEF AreRuns
<1> HIDE DEF step, N
<1>6. f = Steps(f)
  <2>1. ASSUME NEW n \in 0..N PROVE f[n] = Steps(f)[n]
    <3>1. CASE n = 0
      BY <1>1, <1>5, <3>1
    <3>2. CASE n # 0
      <4>1. n \in 1..N
        BY <1>1, <3>2
      <4>2. QED
        BY <1>4, <3>2, <4>1
    <3>3. QED
      BY <3>1, <3>2
  <2>2. f = [n \in 0..N |-> f[n]]
    OBVIOUS
  <2>3. Steps(f) = [n \in 0..N |-> Steps(f)[n]]
    OBVIOUS
  <2> HIDE DEF Steps
  <2>4. QED
    BY <2>1, <2>2, <2>3
<1>7. F = Steps(F)
  <2> HIDE DEF Steps
  <2> QED
    BY <1>6
<1>8. AddedAll(r, es) = F[N]
  BY DEF AddedAll, N
<1>9. StepTogether(F, f, N)
  <2>1. F[0] = r
    <3>1. Steps(F)[0] = r
      BY <1>1
    <3> HIDE DEF Steps, F
    <3>2. QED
      BY <1>7, <3>1
  <2>2. ASSUME NEW n \in 1..N PROVE F[n] = Added(F[n - 1], es[n])
    <3> HIDE DEF F
    <3>1. Steps(F)[n] = Added(F[n - 1], es[n])
      BY <1>4
    <3> HIDE DEF Steps
    <3>2. QED
      BY <1>7, <3>1
  <2> HIDE DEF F
  <2>3. QED
    BY <1>4, <1>5, <2>1, <2>2 DEF StepTogether
<1> HIDE DEF F
<1>10. F[N] = f[N]
  <2>1. Agree(F, f, N)
    BY <1>1, <1>9, SameSteps
  <2>2. QED
    BY <1>1, <2>1 DEF Agree
<1>11. AreAdded(f, r, es, N)
  BY <1>4, <1>5 DEF AreAdded
<1>12. QED
  BY <1>8, <1>10, <1>11 DEF N

LEMMA AddedAllTyped ==
  ASSUME NEW r, WellMade(r), NEW es \in Seq(Values)
  PROVE  WellMade(AddedAll(r, es))
<1> DEFINE S == {s \in ArrayType : WellMade(s)}
<1>1. r \in S
  BY DEF WellMade
<1>2. \A s \in S : \A e \in Values : Added(s, e) \in S
  <2>1. ASSUME NEW s \in S, NEW e \in Values PROVE Added(s, e) \in S
    <3>1. WellMade(Added(s, e))
      BY AddedTyped
    <3>2. QED
      BY <3>1 DEF WellMade
  <2>2. QED
    BY <2>1
<1>3. \A s \in S : WellMade(s)
  OBVIOUS
<1> HIDE DEF S
<1>4. PICK f \in [0..Len(es) -> S] : AddedAll(r, es) = f[Len(es)]
  BY <1>1, <1>2, AddedAllRuns
<1>5. Len(es) \in 0..Len(es)
  OBVIOUS
<1>6. QED
  BY <1>3, <1>4, <1>5

GrowTogether(x, y, e) == Append(x \o y, e) = x \o Append(y, e)

LEMMA JoinGrows ==
  ASSUME NEW S, NEW x \in Seq(S), NEW y \in Seq(S), NEW e \in S
  PROVE  GrowTogether(x, y, e)
BY DEF GrowTogether

IsAdded(s, r, es) ==
    /\ Orderly(s) /\ Extends(r.pages, s.pages)
    /\ Elems(s.pages) = Elems(r.pages) \o es
    /\ CountedOrMany(r) => CountedOrMany(s)

LEMMA AddedAllOrderly ==
  ASSUME NEW r, Orderly(r), NEW es \in Seq(Values)
  PROVE  IsAdded(AddedAll(r, es), r, es)
<1> DEFINE Good(s) == Orderly(s) /\ Extends(r.pages, s.pages) /\ (CountedOrMany(r) => CountedOrMany(s))
           S == {s \in ArrayType : Good(s)}
           N == Len(es)
<1>1. \A s : Good(s) => s \in S
  BY DEF Orderly, WellMade
<1>2. Good(r) /\ r.pages \in Seq(Page) /\ Elems(r.pages) \in Seq(Values)
  <2>1. r.pages \in Seq(Page) /\ Packed(r.pages)
    BY PagesOfWellMade DEF Orderly
  <2>2. Extends(r.pages, r.pages)
    BY <2>1, PageFields DEF Extends
  <2>3. QED
    BY <2>1, <2>2, ElemsAre DEF Packed
<1>3. \A s \in S : \A e \in Values : Added(s, e) \in S
  <2>1. ASSUME NEW s \in S, NEW e \in Values PROVE Added(s, e) \in S
    <3> DEFINE t == Added(s, e)
               x == r.pages
               y == s.pages
               z == t.pages
    <3>1. /\ Orderly(t) /\ Extends(y, z)
          /\ CountedOrMany(s) => CountedOrMany(t)
      BY AddedOrderly
    <3> HIDE DEF t
    <3>2. x \in Seq(Page) /\ y \in Seq(Page) /\ z \in Seq(Page) /\ Extends(x, y)
      BY <1>2, <3>1, PagesOfWellMade DEF Orderly
    <3> HIDE DEF x, y, z
    <3>3. Extends(x, z)
      BY <3>1, <3>2, ExtendsAgain
    <3>4. Good(t)
      BY <3>1, <3>3 DEF x, z
    <3>5. QED
      BY <1>1, <3>4 DEF t
  <2>2. QED
    BY <2>1
<1>4. \A s \in S : Good(s)
  OBVIOUS
<1>5. r \in S /\ N \in Nat /\ \A n \in 1..N : es[n] \in Values
  BY <1>1, <1>2
<1> HIDE DEF S, Good
<1>6. PICK f \in [0..N -> S] : AreAdded(f, r, es, N) /\ AddedAll(r, es) = f[N]
  <2> HIDE DEF N
  <2> QED
    BY <1>3, <1>5, AddedAllRuns DEF N
<1> HIDE DEF N
<1> DEFINE Joined == {n \in Nat : n <= N => Elems(f[n].pages) = Elems(r.pages) \o SubSeq(es, 1, n)}
<1>7. 0 \in Joined
  <2>1. SubSeq(es, 1, 0) = <<>> /\ f[0] = r
    BY <1>6, PrefixEnds DEF AreAdded
  <2> DEFINE x == Elems(r.pages)
  <2>2. x \in Seq(Values)
    BY <1>2
  <2> HIDE DEF x
  <2>3. x \o <<>> = x
    BY <2>2
  <2>4. QED
    BY <2>1, <2>3 DEF x
<1>8. ASSUME NEW n \in Nat, n \in Joined PROVE n + 1 \in Joined
  <2>1. ASSUME n + 1 <= N PROVE Elems(f[n + 1].pages) = Elems(r.pages) \o SubSeq(es, 1, n + 1)
    <3> DEFINE x == Elems(r.pages)
               y == SubSeq(es, 1, n)
               m == n + 1
               e == es[m]
               s == f[n]
    <3>1. m \in 1..N /\ m - 1 = n /\ n \in 0..N /\ m \in 1..Len(es)
      BY <1>5, <2>1 DEF N
    <3>2. f[m] = Added(s, e) /\ s \in S /\ e \in Values
      BY <1>5, <1>6, <3>1 DEF AreAdded
    <3>3. Elems(s.pages) = x \o y
      BY <1>8, <3>1
    <3> HIDE DEF m
    <3>4. y \in Seq(Values) /\ SubSeq(es, 1, m) = Append(y, e)
      <4>1. SubSeq(es, 1, m - 1) \in Seq(Values) /\ SubSeq(es, 1, m) = Append(SubSeq(es, 1, m - 1), e)
        BY <3>1, PrefixGrows
      <4>2. QED
        BY <3>1, <4>1
    <3> HIDE DEF s, e, x, y
    <3>5. Elems(f[m].pages) = Append(Elems(s.pages), e)
      <4>1. Orderly(s)
        BY <1>4, <3>2 DEF Good
      <4>2. QED
        BY <3>2, <4>1, AddedOrderly
    <3>6. x \in Seq(Values)
      BY <1>2 DEF x
    <3>7. Append(x \o y, e) = x \o Append(y, e)
      <4>1. x \in Seq(Values) /\ y \in Seq(Values) /\ e \in Values
        BY <3>2, <3>4, <3>6
      <4>2. GrowTogether(x, y, e)
        BY <4>1, JoinGrows
      <4>3. QED
        BY <4>2 DEF GrowTogether
    <3>8. QED
      BY <3>3, <3>4, <3>5, <3>7 DEF x, m
  <2>2. QED
    BY <2>1
<1>9. Nat \subseteq Joined
  <2> HIDE DEF Joined
  <2> QED
    BY <1>7, <1>8, SetInduction
<1>10. Elems(f[N].pages) = Elems(r.pages) \o es
  <2>1. N \in Nat /\ N \in Joined /\ SubSeq(es, 1, N) = es
    BY <1>5, <1>9, PrefixEnds DEF N
  <2>2. N <= N => Elems(f[N].pages) = Elems(r.pages) \o SubSeq(es, 1, N)
    BY ONLY <2>1
  <2>3. QED
    BY ONLY <2>1, <2>2
<1>11. Good(f[N])
  BY <1>4, <1>5, <1>6
<1>12. QED
  BY <1>6, <1>10, <1>11 DEF IsAdded, Good

(* The range that is written to: all before this one is found.             *)
Reached(r, start, n) == \A m \in 1..n : Found(r, start + m - 1)
AreWritten(f, r, start, es, N) ==
    /\ f[0] = r
    /\ \A n \in 1..N :
        f[n] = IF Reached(r, start, n) THEN Written(f[n - 1], start + n - 1, es[n]) ELSE f[n - 1]

LEMMA WrittenAllRuns ==
  ASSUME NEW S, NEW r \in S, NEW start \in Nat, NEW es \in Seq(Values),
         \A s \in S : \A n \in 1..Len(es) : Found(r, start + n - 1) => Written(s, start + n - 1, es[n]) \in S
  PROVE  WrittenAll(r, start, es) \in S
<1> DEFINE N == Len(es)
           Next1(n, s) == IF Reached(r, start, n) THEN Written(s, start + n - 1, es[n]) ELSE s
           step == [m \in (1..N) \X S |-> Next1(m[1], m[2])]
           Steps(g) == [n \in 0..N |-> IF n = 0 THEN r ELSE Next1(n, g[n - 1])]
           F == CHOOSE g : g = Steps(g)
<1>1. N \in Nat /\ \A n \in 1..N : n \in 1..n /\ es[n] \in Values
  OBVIOUS
<1>2. step \in [(1..N) \X S -> S]
  <2>1. ASSUME NEW n \in 1..N, NEW s \in S PROVE Next1(n, s) \in S
    BY <1>1 DEF Reached
  <2> HIDE DEF Next1
  <2>2. QED
    BY <2>1
<1> HIDE DEF Next1
<1>3. PICK f \in [0..N -> S] : AreRuns(f, r, step, N)
  <2> HIDE DEF N, step
  <2> QED
    BY <1>1, <1>2, RunsExist
<1>4. ASSUME NEW n \in 1..N PROVE n - 1 \in 0..N /\ n \in 0..N /\ n # 0 /\ f[n] = Next1(n, f[n - 1])
  <2>1. n - 1 \in 0..N /\ n \in 0..N /\ n # 0
    BY <1>1
  <2>2. f[n - 1] \in S
    BY <2>1
  <2>3. f[n] = step[<<n, f[n - 1]>>]
    BY <1>3 DEF AreRuns
  <2>4. step[<<n, f[n - 1]>>] = Next1(n, f[n - 1])
    BY <2>2
  <2>5. QED
    BY <2>1, <2>3, <2>4
<1>5. f[0] = r
  BY <1>3 DEF AreRuns
<1> HIDE DEF step, N
<1>6. f = Steps(f)
  <2>1. ASSUME NEW n \in 0..N PROVE f[n] = Steps(f)[n]
    <3>1. CASE n = 0
      BY <1>1, <1>5, <3>1
    <3>2. CASE n # 0
      <4>1. n \in 1..N
        BY <1>1, <3>2
      <4>2. QED
        BY <1>4, <3>2, <4>1
    <3>3. QED
      BY <3>1, <3>2
  <2>2. f = [n \in 0..N |-> f[n]]
    OBVIOUS
  <2>3. Steps(f) = [n \in 0..N |-> Steps(f)[n]]
    OBVIOUS
  <2> HIDE DEF Steps
  <2>4. QED
    BY <2>1, <2>2, <2>3
<1>7. F = Steps(F)
  <2> HIDE DEF Steps
  <2> QED
    BY <1>6
<1>8. WrittenAll(r, start, es) = F[N]
  BY DEF WrittenAll, N, Next1, Reached
<1>9. StepTogether(F, f, N)
  <2>1. F[0] = r
    <3>1. Steps(F)[0] = r
      BY <1>1
    <3> HIDE DEF Steps, F
    <3>2. QED
      BY <1>7, <3>1
  <2>2. ASSUME NEW n \in 1..N PROVE F[n] = Next1(n, F[n - 1])
    <3> HIDE DEF F
    <3>1. Steps(F)[n] = Next1(n, F[n - 1])
      BY <1>4
    <3> HIDE DEF Steps
    <3>2. QED
      BY <1>7, <3>1
  <2> HIDE DEF F
  <2>3. QED
    BY <1>4, <1>5, <2>1, <2>2 DEF StepTogether
<1> HIDE DEF F
<1>10. F[N] = f[N]
  <2>1. Agree(F, f, N)
    BY <1>1, <1>9, SameSteps
  <2>2. QED
    BY <1>1, <2>1 DEF Agree
<1>11. N \in 0..N
  BY <1>1
<1>12. QED
  BY <1>8, <1>10, <1>11

LEMMA WrittenAllTyped ==
  ASSUME NEW r, WellMade(r), NEW start \in Nat, NEW es \in Seq(Values)
  PROVE  WellMade(WrittenAll(r, start, es))
<1> DEFINE S == {s \in ArrayType : WellMade(s)}
<1>1. r \in S
  BY DEF WellMade
<1>2. ASSUME NEW s \in S, NEW n \in 1..Len(es) PROVE Written(s, start + n - 1, es[n]) \in S
  <2> DEFINE index == start + n - 1
  <2>1. index \in Nat /\ es[n] \in Values /\ WellMade(s)
    OBVIOUS
  <2> HIDE DEF index
  <2>2. WellMade(Written(s, index, es[n]))
    BY <2>1, WrittenTyped
  <2>3. QED
    BY <2>2 DEF WellMade, index
<1>3. \A s \in S : WellMade(s)
  OBVIOUS
<1> HIDE DEF S
<1>4. WrittenAll(r, start, es) \in S
  BY <1>1, <1>2, WrittenAllRuns
<1>5. QED
  BY <1>3, <1>4

(* A write moves nothing and counts nothing.                               *)
IsRewritten(s, r) ==
    /\ Orderly(s) /\ Extends(r.pages, s.pages) /\ Len(s.pages) = Len(r.pages)
    /\ s.pageCount = r.pageCount /\ s.count = r.count

LEMMA WrittenAllOrderly ==
  ASSUME NEW r, Orderly(r), NEW start \in Nat, NEW es \in Seq(Values)
  PROVE  IsRewritten(WrittenAll(r, start, es), r)
<1> DEFINE S == {s \in ArrayType : IsRewritten(s, r)}
<1>1. r.pages \in Seq(Page) /\ Packed(r.pages) /\ r.count = Len(Elems(r.pages))
  BY PagesOfWellMade DEF Orderly
<1>2. r \in S
  <2>1. Extends(r.pages, r.pages)
    BY <1>1, PageFields DEF Extends
  <2>2. QED
    BY <2>1 DEF IsRewritten, Orderly, WellMade
<1>3. ASSUME NEW s \in S, NEW n \in 1..Len(es), Found(r, start + n - 1)
      PROVE  Written(s, start + n - 1, es[n]) \in S
  <2> DEFINE index == start + n - 1
             e == es[n]
             t == Written(s, index, e)
             x == r.pages
             y == s.pages
             z == t.pages
  <2>1. index \in Nat /\ e \in Values /\ IsRewritten(s, r) /\ Found(r, index)
    BY <1>3
  <2>2. /\ Orderly(s) /\ Extends(x, y) /\ Len(y) = Len(x) /\ s.pageCount = r.pageCount /\ s.count = r.count
        /\ s.count = Len(Elems(y))
    BY <2>1 DEF IsRewritten, Orderly
  <2> HIDE DEF index, e
  <2>3. index < Len(Elems(x))
    BY <1>1, <2>1, ReadsAre
  <2>4. IsWritten(t, s, index, e)
    <3>1. index < Len(Elems(y))
      BY <1>1, <2>2, <2>3
    <3>2. QED
      BY <2>1, <2>2, <3>1, WrittenOrderly
  <2>5. /\ Orderly(t) /\ Extends(y, z) /\ Len(z) = Len(y) /\ t.pageCount = s.pageCount /\ t.count = s.count
    BY <2>4 DEF IsWritten
  <2> HIDE DEF t
  <2>6. x \in Seq(Page) /\ y \in Seq(Page) /\ z \in Seq(Page)
    BY <1>1, <2>2, <2>5, PagesOfWellMade DEF Orderly
  <2> HIDE DEF x, y, z
  <2>7. Extends(x, z)
    BY <2>2, <2>5, <2>6, ExtendsAgain
  <2>8. IsRewritten(t, r) /\ t \in ArrayType
    BY <2>2, <2>5, <2>7 DEF IsRewritten, Orderly, WellMade, x, y, z
  <2>9. QED
    BY <2>8 DEF t, index, e
<1>4. \A s \in S : IsRewritten(s, r)
  OBVIOUS
<1> HIDE DEF S
<1>5. WrittenAll(r, start, es) \in S
  BY <1>2, <1>3, WrittenAllRuns
<1>6. QED
  BY <1>4, <1>5


--------------------------------------------------------------------------------
(* removePage and resizePage.                                              *)

SameFlags(s, r) == s.allowRelocation = r.allowRelocation /\ s.deallocElement = r.deallocElement

IsPageRemoved(s, r, k) ==
    /\ WellMade(s) /\ s.pages = RemoveAt(r.pages, k) /\ Len(s.pages) = Len(r.pages) - 1
    /\ s.last = IF k <= r.last THEN r.last - 1 ELSE r.last
    /\ s.pageCount = Minus(r.pageCount, 1)
    /\ s.count = Minus(r.count, r.pages[k].count)
    /\ s.capacity = Minus(r.capacity, Capacity(r.pages[k]))
    /\ SameFlags(s, r)

LEMMA PageRemovedTyped ==
  ASSUME NEW r, WellMade(r), NEW k \in 1..Len(r.pages)
  PROVE  IsPageRemoved(PageRemoved(r, k), r, k)
<1> DEFINE s == PageRemoved(r, k)
           x == r.pages
           y == RemoveAt(r.pages, k)
           last == IF k <= r.last THEN r.last - 1 ELSE r.last
           pageCount == Minus(r.pageCount, 1)
           count == Minus(r.count, r.pages[k].count)
           capacity == Minus(r.capacity, Capacity(r.pages[k]))
<1>1. /\ r \in ArrayType /\ x \in Seq(Page) /\ Len(x) \in Nat
      /\ r.last \in Nat /\ r.last <= Len(x) /\ r.count \in Nat /\ r.capacity \in Nat
      /\ r.pageCount \in Nat /\ x[k].count \in Nat /\ Capacity(x[k]) \in Nat
  BY PagesOfWellMade, WordIsTyped
<1>2. /\ y \in Seq(Page) /\ Len(y) = Len(x) - 1
      /\ \A j \in 1..(Len(x) - 1) : y[j] = IF j < k THEN x[j] ELSE x[j + 1]
  <2>1. k \in 1..Len(x) /\ x \in Seq(Page)
    BY <1>1
  <2> HIDE DEF x, Page
  <2>2. /\ RemoveAt(x, k) \in Seq(Page) /\ Len(RemoveAt(x, k)) = Len(x) - 1
        /\ \A j \in 1..(Len(x) - 1) : RemoveAt(x, k)[j] = IF j < k THEN x[j] ELSE x[j + 1]
    BY <2>1, RemoveAtIs
  <2>3. QED
    BY <2>2 DEF x
<1>3. pageCount \in 0..(Word - 1) /\ count \in Nat /\ capacity \in Nat
  <2>1. 1 \in Int /\ x[k].count \in Int /\ Capacity(x[k]) \in Int
    BY <1>1
  <2>2. pageCount \in 0..(Word - 1) /\ count \in 0..(Word - 1) /\ capacity \in 0..(Word - 1)
    BY <1>1, <2>1, MinusTyped
  <2>3. QED
    BY <2>2, WordIsTyped
<1>4. last \in Nat /\ last <= Len(y)
  BY <1>1, <1>2
<1>5. s = [r EXCEPT !.pages = y, !.last = last, !.pageCount = pageCount, !.count = count, !.capacity = capacity]
  BY <1>1 DEF PageRemoved, ArrayType
<1> HIDE DEF s, y, last, pageCount, count, capacity
<1>6. /\ s \in ArrayType /\ s.pages = y /\ s.last = last /\ s.pageCount = pageCount
      /\ s.count = count /\ s.capacity = capacity /\ SameFlags(s, r)
  <2> HIDE DEF Page
  <2> QED
    BY <1>1, <1>2, <1>3, <1>4, <1>5 DEF ArrayType, SameFlags
<1>7. ASSUME NEW j \in 2..last PROVE Capacity(y[j]) # 0
  <2>1. \A n \in 2..(r.last) : Capacity(x[n]) # 0
    BY DEF WellMade
  <2>2. j \in 1..(Len(x) - 1)
    BY <1>1, <1>2, <1>4
  <2>3. CASE j < k
    <3>1. y[j] = x[j] /\ j \in 2..(r.last)
      BY <1>1, <1>2, <2>2, <2>3 DEF last
    <3>2. QED
      BY <2>1, <3>1
  <2>4. CASE ~(j < k)
    <3>1. y[j] = x[j + 1] /\ j + 1 \in 2..(r.last)
      BY <1>1, <1>2, <2>2, <2>4 DEF last
    <3>2. QED
      BY <2>1, <3>1
  <2>5. QED
    BY <2>3, <2>4
<1>8. WellMade(s)
  BY <1>4, <1>6, <1>7 DEF WellMade
<1>9. QED
  BY <1>2, <1>6, <1>8 DEF IsPageRemoved, s, x, y, last, pageCount, count, capacity

Cut(page, capacity) ==
    [slots |-> SubSeq(page.slots, 1, capacity), count |-> IF page.count < capacity THEN page.count ELSE capacity]

LEMMA CutIs ==
  ASSUME NEW page \in Page, NEW c \in Nat, c <= Capacity(page)
  PROVE  /\ Cut(page, c) \in Page /\ Capacity(Cut(page, c)) = c
         /\ Cut(page, c).count = (IF page.count < c THEN page.count ELSE c)
         /\ \A i \in 1..c : Cut(page, c).slots[i] = page.slots[i]
<1> DEFINE s == page.slots
           t == SubSeq(page.slots, 1, c)
           n == IF page.count < c THEN page.count ELSE c
<1>1. s \in Seq(Values) /\ Capacity(page) = Len(s) /\ Len(s) \in Nat /\ page.count \in Nat /\ n \in Nat
  BY PageChanges
<1>2. t \in Seq(Values) /\ Len(t) = c /\ \A i \in 1..c : t[i] = s[i]
  <2>1. 1 \in Nat \ {0} /\ c <= Len(s) /\ 1 <= c + 1 /\ s \in Seq(Values)
    BY <1>1
  <2> HIDE DEF s
  <2>2. /\ SubSeq(s, 1, c) \in Seq(Values) /\ Len(SubSeq(s, 1, c)) = (c + 1) - 1
        /\ \A i \in 1..((c + 1) - 1) : SubSeq(s, 1, c)[i] = s[(1 - 1) + i]
    BY <2>1, PartIs
  <2>3. (c + 1) - 1 = c /\ \A i \in 1..c : (1 - 1) + i = i
    OBVIOUS
  <2>4. QED
    BY <2>2, <2>3 DEF s
<1>3. Cut(page, c) = [slots |-> t, count |-> n]
  BY DEF Cut
<1> HIDE DEF t, n
<1>4. QED
  BY <1>1, <1>2, <1>3 DEF Page, Capacity, s, n

IsResized(s, r, k, c) ==
    /\ WellMade(s) /\ s.pages = Put(r.pages, k, Cut(r.pages[k], c)) /\ Len(s.pages) = Len(r.pages)
    /\ s.last = r.last /\ s.pageCount = r.pageCount
    /\ s.count = Minus(r.count, r.pages[k].count - Cut(r.pages[k], c).count)
    /\ s.capacity = Minus(r.capacity, Capacity(r.pages[k]) - c)
    /\ SameFlags(s, r)

LEMMA PageResizedTyped ==
  ASSUME NEW r, WellMade(r), NEW k \in 1..Len(r.pages), NEW c \in Nat \ {0}, c <= Capacity(r.pages[k])
  PROVE  IsResized(PageResized(r, k, c), r, k, c)
<1> DEFINE s == PageResized(r, k, c)
           x == r.pages
           page == Cut(r.pages[k], c)
           y == [x EXCEPT ![k] = page]
           count == Minus(r.count, r.pages[k].count - page.count)
           capacity == Minus(r.capacity, Capacity(r.pages[k]) - c)
<1>1. /\ r \in ArrayType /\ x \in Seq(Page) /\ Len(x) \in Nat /\ DOMAIN x = 1..Len(x)
      /\ r.last \in Nat /\ r.last <= Len(x) /\ r.count \in Nat /\ r.capacity \in Nat
      /\ x[k] \in Page /\ x[k].count \in Nat /\ Capacity(x[k]) \in Nat
  BY PagesOfWellMade
<1>2. /\ page \in Page /\ Capacity(page) = c
      /\ page.count = (IF x[k].count < c THEN x[k].count ELSE c)
      /\ page.count \in Nat
  BY <1>1, CutIs
<1>3. count \in Nat /\ capacity \in Nat
  <2>1. x[k].count - page.count \in Int /\ Capacity(x[k]) - c \in Int
    BY <1>1, <1>2
  <2>2. count \in 0..(Word - 1) /\ capacity \in 0..(Word - 1)
    BY <1>1, <2>1, MinusTyped
  <2>3. QED
    BY <2>2, WordIsTyped
<1>4. s = [r EXCEPT !.pages = y, !.count = count, !.capacity = capacity]
  BY <1>1 DEF PageResized, ArrayType, Cut
<1> HIDE DEF page, count, capacity
<1>5. /\ y \in Seq(Page) /\ Len(y) = Len(x) /\ \A j \in 1..Len(x) : y[j] = IF j = k THEN page ELSE x[j]
  <2> HIDE DEF x, Page
  <2> QED
    BY <1>1, <1>2 DEF x
<1> HIDE DEF s, y
<1>6. /\ s \in ArrayType /\ s.pages = y /\ s.last = r.last /\ s.pageCount = r.pageCount
      /\ s.count = count /\ s.capacity = capacity /\ SameFlags(s, r)
  <2> HIDE DEF Page
  <2> QED
    BY <1>1, <1>3, <1>4, <1>5 DEF ArrayType, SameFlags
<1>7. ASSUME NEW j \in 2..(r.last) PROVE Capacity(y[j]) # 0
  <2>1. Capacity(x[j]) # 0 /\ j \in 1..Len(x)
    BY <1>1 DEF WellMade
  <2>2. QED
    BY <1>2, <1>5, <2>1
<1>8. WellMade(s)
  BY <1>1, <1>5, <1>6, <1>7 DEF WellMade
<1>9. QED
  BY <1>5, <1>6, <1>8 DEF IsResized, Put, s, x, y, page, count, capacity

(* Pages in order of which one is changed, and is full or has none behind. *)
LEMMA PackedReplaced ==
  ASSUME NEW x \in Seq(Page), Packed(x), NEW k \in 1..Len(x), NEW page \in Page,
         page.count <= Capacity(page), page.count <= x[k].count,
         page.count = Capacity(page) \/ \A j \in (k + 1)..Len(x) : x[j].count = 0
  PROVE  Packed(Put(x, k, page))
<1> DEFINE y == Put(x, k, page)
<1>1. Len(x) \in Nat /\ DOMAIN x = 1..Len(x) /\ \A j \in 1..Len(x) : x[j].count \in Nat
  BY PageFields
<1>2. /\ y \in Seq(Page) /\ Len(y) = Len(x) /\ DOMAIN y = 1..Len(x)
      /\ \A j \in 1..Len(x) : y[j] = IF j = k THEN page ELSE x[j]
  <2> HIDE DEF Page
  <2> QED
    BY <1>1 DEF Put
<1> HIDE DEF y
<1>3. Fit(y)
  <2>1. \A j \in 1..Len(x) : x[j].count <= Capacity(x[j])
    BY <1>1 DEF Packed, Fit
  <2>2. QED
    BY <1>2, <2>1 DEF Fit
<1>4. ASSUME NEW j \in 1..Len(y), NEW i \in 1..(j - 1), y[j].count # 0 PROVE y[i].count = Capacity(y[i])
  <2>1. j \in 1..Len(x) /\ i \in 1..Len(x) /\ i < j /\ page.count \in Nat
    <3>1. page.count \in Nat
      BY PageChanges
    <3>2. QED
      BY <1>1, <1>2, <3>1
  <2>2. x[j].count # 0
    BY <1>1, <1>2, <1>4, <2>1
  <2>3. x[i].count = Capacity(x[i])
    BY <2>1, <2>2 DEF Packed
  <2>4. CASE i = k
    <3>1. j \in (k + 1)..Len(x)
      BY <1>1, <2>1, <2>4
    <3>2. page.count = Capacity(page)
      BY <2>2, <3>1
    <3>3. QED
      BY <1>2, <2>1, <2>4, <3>2
  <2>5. CASE i # k
    BY <1>2, <2>1, <2>3, <2>5
  <2>6. QED
    BY <2>4, <2>5
<1>5. QED
  BY <1>3, <1>4 DEF Packed, y

LEMMA PackedTaken ==
  ASSUME NEW x \in Seq(Page), Packed(x), NEW k \in 1..Len(x)
  PROVE  Packed(RemoveAt(x, k))
<1> DEFINE y == RemoveAt(x, k)
<1>1. Len(x) \in Nat /\ Fit(x)
  BY PageFields DEF Packed
<1>2. /\ y \in Seq(Page) /\ Len(y) = Len(x) - 1 /\ Fit(y)
      /\ \A j \in 1..(Len(x) - 1) : y[j] = IF j < k THEN x[j] ELSE x[j + 1]
  <2>1. /\ y \in Seq(Page) /\ Len(y) = Len(x) - 1 /\ Fit(y)
        /\ \A j \in 1..(Len(x) - 1) : y[j] = IF j < k THEN x[j] ELSE x[j + 1]
        /\ Elems(y) = Elems(FrontOf(x, k)) \o Elems(BackOf(x, k))
        /\ Space(y) = Space(FrontOf(x, k)) + Space(BackOf(x, k))
    BY <1>1, PageTaken
  <2>2. QED
    BY <2>1
<1> HIDE DEF y
<1>3. ASSUME NEW j \in 1..Len(y), NEW i \in 1..(j - 1), y[j].count # 0 PROVE y[i].count = Capacity(y[i])
  <2> DEFINE m == IF j < k THEN j ELSE j + 1
             n == IF i < k THEN i ELSE i + 1
  <2>1. m \in 1..Len(x) /\ n \in 1..(m - 1) /\ j \in 1..(Len(x) - 1) /\ i \in 1..(Len(x) - 1)
    BY <1>1, <1>2
  <2>2. y[j] = x[m] /\ y[i] = x[n]
    BY <1>2, <2>1
  <2> HIDE DEF m, n
  <2>3. x[n].count = Capacity(x[n])
    BY <1>3, <2>1, <2>2 DEF Packed
  <2>4. QED
    BY <2>2, <2>3
<1>4. QED
  BY <1>2, <1>3 DEF Packed, y

(* The page k of the sequence without its i-th element.                    *)
IsWithout(page, old, i) ==
    /\ page \in Page /\ page.count = old.count - 1 /\ page.count <= Capacity(page)
    /\ \A j \in 1..(page.count) : page.slots[j] = IF j < i THEN old.slots[j] ELSE old.slots[j + 1]

LEMMA LiveWithout ==
  ASSUME NEW old \in Page, old.count <= Capacity(old), NEW i \in 1..(old.count),
         NEW page, IsWithout(page, old, i)
  PROVE  Live(page) = RemoveAt(Live(old), i)
<1> DEFINE x == Live(old)
           y == Live(page)
<1>1. x \in Seq(Values) /\ Len(x) = old.count /\ \A j \in 1..(old.count) : x[j] = old.slots[j]
  BY LiveTyped
<1>2. page \in Page /\ page.count = old.count - 1 /\ page.count <= Capacity(page) /\ old.count \in Nat
  BY DEF IsWithout, Page
<1>3. y \in Seq(Values) /\ Len(y) = page.count /\ \A j \in 1..(page.count) : y[j] = page.slots[j]
  BY <1>2, LiveTyped
<1>4. /\ RemoveAt(x, i) \in Seq(Values) /\ Len(RemoveAt(x, i)) = Len(x) - 1
      /\ \A j \in 1..(Len(x) - 1) : RemoveAt(x, i)[j] = IF j < i THEN x[j] ELSE x[j + 1]
  <2>1. i \in 1..Len(x)
    BY <1>1
  <2> HIDE DEF x
  <2>2. QED
    BY <1>1, <2>1, RemoveAtIs
<1> DEFINE z == RemoveAt(x, i)
<1> HIDE DEF x, y, z
<1>5. ASSUME NEW j \in 1..Len(y) PROVE y[j] = z[j]
  <2>1. j \in 1..(page.count) /\ j \in 1..(Len(x) - 1) /\ j \in 1..(old.count) /\ j + 1 \in 1..(old.count)
    BY <1>1, <1>2, <1>3
  <2>2. y[j] = IF j < i THEN old.slots[j] ELSE old.slots[j + 1]
    BY <1>3, <2>1 DEF IsWithout
  <2>3. z[j] = IF j < i THEN x[j] ELSE x[j + 1]
    BY <1>4, <2>1 DEF z
  <2>4. QED
    BY <1>1, <2>1, <2>2, <2>3
<1>6. y = z
  <2>1. y \in Seq(Values) /\ z \in Seq(Values) /\ Len(y) = Len(z)
    BY <1>1, <1>2, <1>3, <1>4 DEF z
  <2>2. QED
    BY <1>5, <2>1, SeqEqual
<1>7. QED
  BY <1>6 DEF x, y, z

LEMMA ElemIsTaken ==
  ASSUME NEW pages \in Seq(Page), Fit(pages), NEW k \in 1..Len(pages), NEW i \in 1..(pages[k].count),
         NEW page, IsWithout(page, pages[k], i)
  PROVE  /\ Elems(Put(pages, k, page)) = RemoveAt(Elems(pages), Ahead(pages, k) + i)
         /\ Space(Put(pages, k, page)) = (Space(pages) - Capacity(pages[k])) + Capacity(page)
         /\ pages[k].count = 1 => Elems(RemoveAt(pages, k)) = RemoveAt(Elems(pages), Ahead(pages, k) + i)
         /\ Space(RemoveAt(pages, k)) = Space(pages) - Capacity(pages[k])
<1> DEFINE F == Elems(FrontOf(pages, k))
           B == Elems(BackOf(pages, k))
           m == Live(pages[k])
           l == Live(page)
           t == [pages EXCEPT ![k] = page]
           u == RemoveAt(pages, k)
           sf == Space(FrontOf(pages, k))
           sb == Space(BackOf(pages, k))
<1>1. /\ pages[k] \in Page /\ pages[k].count \in Nat /\ Capacity(pages[k]) \in Nat
      /\ DOMAIN pages = 1..Len(pages)
  BY PageFields
<1>2. pages[k].count <= Capacity(pages[k])
  BY <1>1 DEF Fit
<1>3. page \in Page /\ page.count <= Capacity(page) /\ Capacity(page) \in Nat
  BY PageChanges DEF IsWithout
<1>4. /\ t \in Seq(Page) /\ Len(t) = Len(pages) /\ Fit(t)
      /\ \A j \in 1..Len(pages) : t[j] = IF j = k THEN page ELSE pages[j]
      /\ Elems(t) = Elems(FrontOf(pages, k)) \o (Live(page) \o Elems(BackOf(pages, k)))
      /\ Space(t) = Space(FrontOf(pages, k)) + (Capacity(page) + Space(BackOf(pages, k)))
  BY <1>3, PageReplaced
<1>5. /\ u \in Seq(Page) /\ Len(u) = Len(pages) - 1 /\ Fit(u)
      /\ \A j \in 1..(Len(pages) - 1) : u[j] = IF j < k THEN pages[j] ELSE pages[j + 1]
      /\ Elems(u) = Elems(FrontOf(pages, k)) \o Elems(BackOf(pages, k))
      /\ Space(u) = Space(FrontOf(pages, k)) + Space(BackOf(pages, k))
  BY PageTaken
<1>6. /\ F \in Seq(Values) /\ B \in Seq(Values) /\ m \in Seq(Values) /\ Elems(pages) = F \o (m \o B)
      /\ Space(pages) = sf + (Capacity(pages[k]) + sb) /\ sf \in Nat /\ sb \in Nat
  BY PagesSplit
<1>7. Ahead(pages, k) = Len(F) /\ Len(m) = pages[k].count /\ l = RemoveAt(m, i)
  BY <1>1, <1>2, AheadIsFront, LiveTyped, LiveWithout
<1>8. t = Put(pages, k, page)
  BY DEF Put
<1>9. Elems(t) = F \o (l \o B) /\ Elems(u) = F \o B /\ Space(t) = sf + (Capacity(page) + sb) /\ Space(u) = sf + sb
  BY <1>4, <1>5
<1> HIDE DEF F, B, m, l, t, u, sf, sb
<1>10. F \o (RemoveAt(m, i) \o B) = RemoveAt(F \o (m \o B), Len(F) + i)
  <2>1. HasMiddle(F, m, B, i, Values)
    BY <1>6, <1>7 DEF HasMiddle
  <2>2. QED
    BY <2>1, MiddleRemoved
<1>11. Elems(t) = RemoveAt(Elems(pages), Ahead(pages, k) + i)
  BY <1>6, <1>7, <1>9, <1>10
<1>12. ASSUME pages[k].count = 1 PROVE Elems(u) = RemoveAt(Elems(pages), Ahead(pages, k) + i)
  <2>1. l = <<>>
    <3>1. l \in Seq(Values) /\ Len(l) = page.count
      BY <1>3, LiveTyped DEF l
    <3>2. page.count = 0
      BY <1>12 DEF IsWithout
    <3>3. QED
      BY <3>1, <3>2
  <2>2. l \o B = B
    BY <1>6, <2>1
  <2>3. QED
    BY <1>9, <1>11, <2>2
<1>13. Space(t) = (Space(pages) - Capacity(pages[k])) + Capacity(page) /\ Space(u) = Space(pages) - Capacity(pages[k])
  <2> DEFINE before == Capacity(pages[k])
             after == Capacity(page)
  <2>1. before \in Nat /\ after \in Nat /\ sf \in Nat /\ sb \in Nat
    BY <1>1, <1>3, <1>6
  <2>2. Space(pages) = sf + (before + sb) /\ Space(t) = sf + (after + sb) /\ Space(u) = sf + sb
    BY <1>6, <1>9
  <2> HIDE DEF before, after
  <2>3. Space(t) = (Space(pages) - before) + after /\ Space(u) = Space(pages) - before
    BY ONLY <2>1, <2>2
  <2>4. QED
    BY <2>3 DEF before, after
<1>14. QED
  BY <1>8, <1>11, <1>12, <1>13 DEF u


--------------------------------------------------------------------------------
(* avDynamicArrayRemove.                                                   *)

LEMMA ClosedIs ==
  ASSUME NEW page \in Page, page.count <= Capacity(page), NEW i \in 1..(page.count)
  PROVE  /\ Closed(page, i) \in Page /\ Capacity(Closed(page, i)) = Capacity(page)
         /\ Closed(page, i).count = page.count
         /\ \A j \in 1..(page.count - 1) :
               Closed(page, i).slots[j] = IF j < i THEN page.slots[j] ELSE page.slots[j + 1]
<1> DEFINE s == page.slots
           n == page.count
           t == [k \in DOMAIN s |-> IF k \in i..(n - 1) THEN s[k + 1] ELSE s[k]]
<1>1. s \in Seq(Values) /\ Capacity(page) = Len(s) /\ Len(s) \in Nat /\ n \in Nat /\ n <= Len(s)
      /\ DOMAIN s = 1..Len(s) /\ page \in [slots : Seq(Values), count : Nat]
  BY PageChanges DEF Page
<1>2. Closed(page, i) = [slots |-> t, count |-> n]
  <2>1. page = [slots |-> s, count |-> n]
    BY <1>1
  <2>2. Closed(page, i) = [page EXCEPT !.slots = t]
    BY DEF Closed
  <2> HIDE DEF t, s, n
  <2>3. QED
    BY <2>1, <2>2
<1> HIDE DEF s, n
<1>3. \A k \in 1..Len(s) : t[k] \in Values
  <2>1. \A k \in 1..Len(s) : k \in i..(n - 1) => k + 1 \in 1..Len(s)
    BY <1>1
  <2>2. \A k \in 1..Len(s) : s[k] \in Values
    BY <1>1
  <2>3. QED
    BY <1>1, <2>1, <2>2
<1>4. t \in Seq(Values) /\ Len(t) = Len(s)
  BY <1>1, <1>3
<1>5. ASSUME NEW j \in 1..(n - 1) PROVE t[j] = IF j < i THEN s[j] ELSE s[j + 1]
  <2>1. j \in DOMAIN s /\ (j \in i..(n - 1) <=> ~(j < i))
    BY <1>1 DEF n
  <2>2. QED
    BY <2>1
<1> HIDE DEF t
<1>6. QED
  BY <1>1, <1>2, <1>4, <1>5 DEF Page, Capacity, s, n

(* The page that loses its only element goes, unless it is the last with   *)
(* elements.                                                               *)
IsTakenWith(s, r, k) ==
    /\ r.pages[k].count = 1 /\ s.pages = RemoveAt(r.pages, k) /\ Len(s.pages) = Len(r.pages) - 1
    /\ s.last = IF k <= r.last THEN r.last - 1 ELSE r.last
    /\ s.pageCount = Minus(r.pageCount, 1)
    /\ s.count = Minus(r.count, 1) /\ s.capacity = Minus(r.capacity, Capacity(r.pages[k]))
IsTakenFrom(s, r, k, i, page) ==
    /\ IsWithout(page, r.pages[k], i)
    /\ s.pages = Put(r.pages, k, page) /\ Len(s.pages) = Len(r.pages) /\ s.last = r.last
    /\ s.pageCount = r.pageCount /\ s.count = Minus(r.count, 1)
    /\ Capacity(page) <= Capacity(r.pages[k])
    /\ s.capacity = IF Capacity(page) = Capacity(r.pages[k]) THEN r.capacity
                    ELSE Minus(r.capacity, Capacity(r.pages[k]) - Capacity(page))
    /\ page.count = Capacity(page) \/ k = Len(r.pages) \/ r.pages[k + 1].count = 0

LEMMA RemovedIs ==
  ASSUME NEW r, WellMade(r), Fit(r.pages), NEW k \in 1..Len(r.pages), NEW i \in 1..(r.pages[k].count),
         NEW index, Locate(r, index) = <<k, i>>
  PROVE  /\ WellMade(Removed(r, index)) /\ SameFlags(Removed(r, index), r)
         /\ IsTakenWith(Removed(r, index), r, k) \/ \E page : IsTakenFrom(Removed(r, index), r, k, i, page)
<1> DEFINE s == Removed(r, index)
           x == r.pages
           p == x[k]
           q == Closed(p, i)
           moved == [r EXCEPT !.pages[k] = q]
           c == p.count - 1
<1>1. /\ r \in ArrayType /\ x \in Seq(Page) /\ DOMAIN x = 1..Len(x) /\ Len(x) \in Nat /\ r.count \in Nat
      /\ r.capacity \in Nat /\ p \in Page /\ p.count \in Nat /\ Capacity(p) \in Nat
  BY PagesOfWellMade
<1>2. p.count <= Capacity(p) /\ i \in 1..(p.count)
  BY <1>1 DEF Fit
<1>3. /\ q \in Page /\ Capacity(q) = Capacity(p) /\ q.count = p.count
      /\ \A j \in 1..c : q.slots[j] = IF j < i THEN p.slots[j] ELSE p.slots[j + 1]
  <2> HIDE DEF p
  <2> QED
    BY <1>1, <1>2, ClosedIs
<1>4. c \in Nat /\ c <= Capacity(p) /\ c < p.count
  BY <1>1, <1>2
<1>5. s = IF k < Len(x) /\ x[k + 1].count # 0 THEN PageResized(moved, k, c)
          ELSE [moved EXCEPT !.pages[k].count = @ - 1, !.count = Minus(@, 1)]
  <2>1. Locate(r, index)[1] = k /\ Locate(r, index)[2] = i
    OBVIOUS
  <2>2. moved = [r EXCEPT !.pages[k] = Closed(@, i)]
    BY <1>1 DEF ArrayType
  <2>3. QED
    BY <2>1, <2>2 DEF Removed
<1> HIDE DEF s, q
<1>6. moved = [r EXCEPT !.pages = [r.pages EXCEPT ![k] = q]]
  BY <1>1 DEF ArrayType
<1> HIDE DEF moved
<1>7. /\ WellMade(moved) /\ moved.pages = [x EXCEPT ![k] = q] /\ Len(moved.pages) = Len(x)
      /\ Extends(x, moved.pages)
      /\ moved.count = r.count /\ moved.last = r.last /\ moved.capacity = r.capacity
      /\ moved.pageCount = r.pageCount
      /\ moved.allowRelocation = r.allowRelocation /\ moved.deallocElement = r.deallocElement
  <2>1. IsPageSet(moved, r, k, q, r.count)
    <3> DEFINE y == [r.pages EXCEPT ![k] = q]
    <3>1. moved = [r EXCEPT !.pages = y]
      BY <1>6
    <3> HIDE DEF y
    <3>2. moved = [r EXCEPT !.pages = y, !.count = r.count]
      BY <1>1, <3>1 DEF ArrayType
    <3>3. QED
      BY <3>2 DEF IsPageSet, y
  <2> DEFINE n == r.count
  <2>2. n \in Nat /\ IsPageSet(moved, r, k, q, n)
    BY <1>1, <2>1
  <2> HIDE DEF n
  <2>3. /\ WellMade(moved) /\ moved.pages = [r.pages EXCEPT ![k] = q] /\ Len(moved.pages) = Len(r.pages)
        /\ Extends(r.pages, moved.pages)
        /\ moved.count = n /\ moved.last = r.last /\ moved.capacity = r.capacity
        /\ moved.pageCount = r.pageCount
        /\ moved.allowRelocation = r.allowRelocation /\ moved.deallocElement = r.deallocElement
    BY <1>1, <1>3, <2>2, PageSet
  <2>4. QED
    BY <2>3 DEF n
<1>8. moved.pages[k] = q /\ k \in 1..Len(moved.pages)
  BY <1>1, <1>7
<1> HIDE DEF x, p
<1>9. CASE k < Len(x) /\ x[k + 1].count # 0 /\ c = 0
  <2>1. s = PageRemoved(moved, k)
    BY <1>5, <1>9 DEF PageResized
  <2>2. IsPageRemoved(s, moved, k)
    BY <1>7, <1>8, <2>1, PageRemovedTyped
  <2>3. RemoveAt(moved.pages, k) = RemoveAt(x, k)
    <3> DEFINE y == moved.pages
               m == k - 1
               n == k + 1
               N == Len(x)
    <3>1. /\ y \in Seq(Page) /\ x \in Seq(Page) /\ Len(y) = N /\ N \in Nat /\ m \in 0..N /\ n \in 1..(N + 1)
          /\ \A j \in 1..N : j # k => y[j] = x[j]
      <4>1. x \in Seq(Page) /\ y \in Seq(Page)
        BY <1>1, <1>7, PagesOfWellMade DEF x
      <4>2. y = [x EXCEPT ![k] = q] /\ Len(y) = N /\ k \in 1..N
        BY <1>1, <1>7 DEF x
      <4>3. N \in Nat /\ DOMAIN x = 1..N
        BY ONLY <4>1
      <4>4. m \in 0..N /\ n \in 1..(N + 1)
        BY <4>2, <4>3
      <4>5. \A j \in 1..N : j # k => y[j] = x[j]
        BY ONLY <4>2, <4>3
      <4>6. QED
        BY <4>1, <4>2, <4>3, <4>4, <4>5
    <3>2. k \notin 1..m /\ k \notin n..N /\ 1..m \subseteq 1..N /\ n..N \subseteq 1..N
      BY <3>1
    <3> HIDE DEF y, m, n, N
    <3>3. SubSeq(y, 1, m) = SubSeq(x, 1, m)
      <4>1. \A j \in 1..m : y[j] = x[j]
        BY <3>1, <3>2
      <4>2. QED
        BY ONLY <3>1, <4>1
    <3>4. SubSeq(y, n, N) = SubSeq(x, n, N)
      <4>1. \A j \in n..N : y[j] = x[j]
        BY <3>1, <3>2
      <4>2. QED
        BY ONLY <3>1, <4>1
    <3>5. RemoveAt(y, k) = SubSeq(y, 1, m) \o SubSeq(y, n, N) /\ RemoveAt(x, k) = SubSeq(x, 1, m) \o SubSeq(x, n, N)
      BY <3>1 DEF RemoveAt, m, n, N
    <3>6. QED
      BY <3>3, <3>4, <3>5 DEF y
  <2>4. p.count = 1
    BY <1>1, <1>9
  <2>5. IsTakenWith(s, r, k)
    BY <1>3, <1>7, <1>8, <2>2, <2>3, <2>4 DEF IsTakenWith, IsPageRemoved, x, p
  <2>6. WellMade(s) /\ SameFlags(s, r)
    BY <1>7, <2>2 DEF IsPageRemoved, SameFlags
  <2>7. QED
    BY <2>5, <2>6 DEF s
<1>10. CASE k < Len(x) /\ x[k + 1].count # 0 /\ c # 0
  <2> DEFINE page == Cut(q, c)
  <2>1. IsResized(PageResized(moved, k, c), moved, k, c)
    <3>1. c \in Nat \ {0} /\ c <= Capacity(moved.pages[k])
      BY <1>3, <1>4, <1>8, <1>10
    <3> HIDE DEF c
    <3>2. QED
      BY <1>7, <1>8, <3>1, PageResizedTyped
  <2>2. /\ page \in Page /\ Capacity(page) = c
        /\ page.count = (IF q.count < c THEN q.count ELSE c)
        /\ \A j \in 1..c : page.slots[j] = q.slots[j]
    <3>1. q \in Page /\ c \in Nat /\ c <= Capacity(q)
      BY <1>3, <1>4
    <3> HIDE DEF c
    <3>2. QED
      BY <3>1, CutIs
  <2>3. page.count = c /\ q.count - page.count = 1
    BY <1>1, <1>3, <2>2
  <2> HIDE DEF page
  <2>4. s = PageResized(moved, k, c)
    BY <1>5, <1>10
  <2>5. /\ WellMade(s) /\ s.pages = Put(moved.pages, k, page) /\ Len(s.pages) = Len(moved.pages)
        /\ s.last = moved.last /\ s.pageCount = moved.pageCount
        /\ s.count = Minus(moved.count, 1)
        /\ s.capacity = Minus(moved.capacity, Capacity(q) - c)
        /\ SameFlags(s, moved)
    BY <1>8, <2>1, <2>3, <2>4 DEF IsResized, page
  <2>6. Put(moved.pages, k, page) = Put(x, k, page)
    BY <1>1, <1>7 DEF Put
  <2>7. IsWithout(page, p, i)
    BY <1>3, <1>4, <2>2, <2>3 DEF IsWithout
  <2>8. Capacity(page) # Capacity(p) /\ Capacity(page) <= Capacity(p)
    BY <1>2, <1>4, <2>2, <1>1
  <2>9. IsTakenFrom(s, r, k, i, page)
    BY <1>3, <1>7, <2>2, <2>3, <2>5, <2>6, <2>7, <2>8 DEF IsTakenFrom, x, p
  <2>10. SameFlags(s, r)
    BY <1>7, <2>5 DEF SameFlags
  <2>11. QED
    BY <2>5, <2>9, <2>10 DEF s
<1>11. CASE ~(k < Len(x) /\ x[k + 1].count # 0)
  <2> DEFINE page == [slots |-> q.slots, count |-> c]
             n == Minus(r.count, 1)
             y == [x EXCEPT ![k] = page]
  <2>1. q \in [slots : Seq(Values), count : Nat] /\ q = [slots |-> q.slots, count |-> p.count]
    BY <1>3 DEF Page
  <2>2. page \in Page /\ Capacity(page) = Capacity(q) /\ page.slots = q.slots /\ page.count = c
    BY <1>4, <2>1 DEF Page, Capacity
  <2>3. page = [q EXCEPT !.count = @ - 1]
    BY <1>3, <2>1
  <2>4. n \in Nat
    <3>1. n \in 0..(Word - 1)
      <4>1. r.count \in Nat /\ 1 \in Int
        BY <1>1
      <4>2. QED
        BY <4>1, MinusTyped
    <3>2. QED
      BY <3>1, WordIsTyped
  <2>5. s = [moved EXCEPT !.pages[k].count = @ - 1, !.count = Minus(@, 1)]
    BY <1>5, <1>11
  <2> HIDE DEF page, n
  <2>6. s = [r EXCEPT !.pages = y, !.count = n]
    <3>1. moved = [r EXCEPT !.pages = [x EXCEPT ![k] = q]]
      BY <1>6 DEF x
    <3>2. s = [moved EXCEPT !.pages = [moved.pages EXCEPT ![k] = [q EXCEPT !.count = @ - 1]], !.count = n]
      BY <1>7, <1>8, <2>5 DEF n
    <3>3. s = [moved EXCEPT !.pages = [moved.pages EXCEPT ![k] = page], !.count = n]
      BY <2>3, <3>2
    <3>4. [moved.pages EXCEPT ![k] = page] = y
      BY <1>7
    <3> HIDE DEF y
    <3>5. s = [moved EXCEPT !.pages = y, !.count = n]
      BY <3>3, <3>4
    <3>6. QED
      BY <1>1, <3>1, <3>5 DEF ArrayType
  <2>7. IsPageSet(s, r, k, page, n)
    BY <2>6 DEF IsPageSet, x
  <2>8. /\ WellMade(s) /\ s.pages = [r.pages EXCEPT ![k] = page] /\ Len(s.pages) = Len(r.pages)
        /\ Extends(r.pages, s.pages)
        /\ s.count = n /\ s.last = r.last /\ s.capacity = r.capacity /\ s.pageCount = r.pageCount
        /\ s.allowRelocation = r.allowRelocation /\ s.deallocElement = r.deallocElement
    <3>1. Capacity(page) = Capacity(r.pages[k]) /\ k \in 1..Len(r.pages)
      BY <1>3, <2>2 DEF x, p
    <3>2. QED
      BY <2>2, <2>4, <2>7, <3>1, PageSet
  <2>9. IsWithout(page, p, i)
    BY <1>3, <1>4, <2>2 DEF IsWithout
  <2>10. k = Len(x) \/ x[k + 1].count = 0
    BY <1>1, <1>11 DEF x
  <2>11. Capacity(page) = Capacity(p) /\ Capacity(page) <= Capacity(p)
    BY <1>1, <1>3, <2>2
  <2>12. IsTakenFrom(s, r, k, i, page)
    BY <2>8, <2>9, <2>10, <2>11 DEF IsTakenFrom, Put, n, x, p
  <2>13. QED
    BY <2>8, <2>12 DEF SameFlags, s
<1>12. QED
  BY <1>9, <1>10, <1>11

LEMMA RemovedTyped ==
  ASSUME NEW r, WellMade(r), Fit(r.pages), NEW index \in Nat, Found(r, index)
  PROVE  WellMade(Removed(r, index)) /\ SameFlags(Removed(r, index), r)
<1>1. r.pages \in Seq(Page)
  BY PagesOfWellMade
<1>2. PICK k \in 1..Len(r.pages) : \E i \in 1..Capacity(r.pages[k]) :
         Locate(r, index) = <<k, i>> /\ i <= r.pages[k].count
  BY <1>1, ReadsTyped
<1>3. PICK i \in 1..Capacity(r.pages[k]) : Locate(r, index) = <<k, i>> /\ i <= r.pages[k].count
  BY <1>2
<1>4. i \in 1..(r.pages[k].count)
  BY <1>3, PagesOfWellMade
<1>5. QED
  BY <1>3, <1>4, RemovedIs

(* The counters of an array in order, before something is taken from them. *)
Small(r) == r.count < Word /\ r.capacity < Word
KeepsNumber(s, r) == r.pageCount = Len(r.pages) => s.pageCount = Len(s.pages)

IsRemoved(s, r, index) ==
    /\ Orderly(s) /\ KeepsNumber(s, r) /\ SameFlags(s, r)
    /\ Elems(s.pages) = RemoveAt(Elems(r.pages), index + 1)

LEMMA RemovedOrderly ==
  ASSUME NEW r, Orderly(r), Small(r), NEW index \in Nat, index < Len(Elems(r.pages))
  PROVE  IsRemoved(Removed(r, index), r, index)
<1> DEFINE s == Removed(r, index)
           x == r.pages
           y == s.pages
<1>1. /\ WellMade(r) /\ r.last = Len(x) /\ Packed(x) /\ Fit(x) /\ r.count = Len(Elems(x))
      /\ r.capacity = Space(x)
  BY DEF Orderly, Packed
<1>2. /\ x \in Seq(Page) /\ Len(x) \in Nat /\ r.count \in Nat /\ r.capacity \in Nat
      /\ Elems(x) \in Seq(Values) /\ r.pageCount \in Nat /\ r.pageCount < Word
  BY <1>1, PagesOfWellMade, ElemsAre, WordIsTyped
<1>3. PICK k \in 1..Len(x) : \E i \in 1..(x[k].count) :
         index + 1 = Ahead(x, k) + i /\ Locate(r, index) = <<k, i>> /\ i <= Capacity(x[k])
  BY <1>1, <1>2, ReadsAre
<1>4. PICK i \in 1..(x[k].count) :
         index + 1 = Ahead(x, k) + i /\ Locate(r, index) = <<k, i>> /\ i <= Capacity(x[k])
  BY <1>3
<1> DEFINE old == x[k]
<1>5. old \in Page /\ old.count \in Nat /\ Capacity(old) \in Nat /\ old.count <= Capacity(old)
  BY <1>1, <1>2, PageFields DEF Fit
<1>6. /\ WellMade(s) /\ SameFlags(s, r)
      /\ IsTakenWith(s, r, k) \/ \E page : IsTakenFrom(s, r, k, i, page)
  BY <1>1, <1>4, RemovedIs
<1> HIDE DEF s
<1>7. y \in Seq(Page) /\ Elems(x) \in Seq(Values) /\ index + 1 \in 1..Len(Elems(x))
  BY <1>2, <1>6, PagesOfWellMade
<1>8. Len(RemoveAt(Elems(x), index + 1)) = Len(Elems(x)) - 1
  <2> DEFINE e == Elems(x)
             n == index + 1
  <2>1. e \in Seq(Values) /\ n \in 1..Len(e)
    BY <1>7
  <2> HIDE DEF e, n
  <2>2. Len(RemoveAt(e, n)) = Len(e) - 1
    BY <2>1, RemoveAtIs
  <2>3. QED
    BY <2>2 DEF e, n
<1>9. r.count >= 1 /\ Minus(r.count, 1) = r.count - 1 /\ Capacity(old) <= Space(x)
  <2>1. r.count >= 1
    BY <1>1, <1>2
  <2>2. r.count \in Nat /\ 1 \in Nat /\ 1 <= r.count /\ r.count < Word
    BY <1>2, <2>1 DEF Small
  <2>3. Minus(r.count, 1) = r.count - 1
    BY <2>2, MinusIs
  <2>4. /\ Space(x) = Space(FrontOf(x, k)) + (Capacity(old) + Space(BackOf(x, k)))
        /\ Space(FrontOf(x, k)) \in Nat /\ Space(BackOf(x, k)) \in Nat
    BY <1>1, <1>2, PagesSplit
  <2>5. Capacity(old) <= Space(x)
    BY <1>5, <2>4
  <2>6. QED
    BY <2>1, <2>3, <2>5
<1> HIDE DEF x, y
<1>10. CASE IsTakenWith(s, r, k)
  <2>1. /\ old.count = 1 /\ y = RemoveAt(x, k) /\ Len(y) = Len(x) - 1
        /\ s.last = (IF k <= r.last THEN r.last - 1 ELSE r.last)
        /\ s.pageCount = Minus(r.pageCount, 1)
        /\ s.count = Minus(r.count, 1) /\ s.capacity = Minus(r.capacity, Capacity(old))
    BY <1>10 DEF IsTakenWith, x, y
  <2>2. s.last = Len(y)
    BY <1>1, <1>2, <2>1
  <2>3. Packed(y)
    BY <1>1, <1>2, <2>1, PackedTaken
  <2>4. Elems(y) = RemoveAt(Elems(x), index + 1) /\ Space(y) = Space(x) - Capacity(old)
    <3>1. \E page : IsWithout(page, old, i)
      <4> DEFINE page == [slots |-> old.slots, count |-> 0]
      <4>1. old.slots \in Seq(Values) /\ Capacity(page) = Capacity(old) /\ page \in Page
        BY <1>5 DEF Page, Capacity
      <4>2. page.count = 0
        OBVIOUS
      <4> HIDE DEF page
      <4>3. IsWithout(page, old, i)
        BY <1>5, <2>1, <4>1, <4>2 DEF IsWithout
      <4>4. QED
        BY <4>3
    <3>2. PICK page : IsWithout(page, old, i)
      BY <3>1
    <3>3. /\ Elems(Put(x, k, page)) = RemoveAt(Elems(x), Ahead(x, k) + i)
          /\ Space(Put(x, k, page)) = (Space(x) - Capacity(x[k])) + Capacity(page)
          /\ x[k].count = 1 => Elems(RemoveAt(x, k)) = RemoveAt(Elems(x), Ahead(x, k) + i)
          /\ Space(RemoveAt(x, k)) = Space(x) - Capacity(x[k])
      BY <1>1, <1>2, <3>2, ElemIsTaken
    <3>4. QED
      BY <1>4, <2>1, <3>3
  <2>5. s.capacity = Space(y)
    <3> DEFINE c == Capacity(old)
    <3>1. r.capacity \in Nat /\ c \in Nat /\ c <= r.capacity /\ r.capacity < Word
      BY <1>1, <1>2, <1>5, <1>9 DEF Small
    <3> HIDE DEF c
    <3>2. Minus(r.capacity, c) = r.capacity - c
      BY <3>1, MinusIs
    <3>3. QED
      BY <1>1, <2>1, <2>4, <3>2 DEF c
  <2>6. s.count = Len(Elems(y))
    BY <1>1, <1>8, <1>9, <2>1, <2>4
  <2>7. KeepsNumber(s, r)
    <3>1. ASSUME r.pageCount = Len(x) PROVE s.pageCount = Len(y)
      <4>1. r.pageCount \in Nat /\ 1 \in Nat /\ 1 <= r.pageCount /\ r.pageCount < Word
        BY <1>2, <3>1
      <4>2. Minus(r.pageCount, 1) = r.pageCount - 1
        BY <4>1, MinusIs
      <4>3. QED
        BY <2>1, <3>1, <4>2
    <3>2. QED
      BY <3>1 DEF KeepsNumber, x, y
  <2>8. Orderly(s)
    BY <1>6, <2>2, <2>3, <2>5, <2>6 DEF Orderly, y
  <2>9. QED
    BY <1>6, <2>4, <2>7, <2>8 DEF IsRemoved, s, x, y
<1>11. ASSUME NEW page, IsTakenFrom(s, r, k, i, page) PROVE IsRemoved(s, r, index)
  <2>1. /\ IsWithout(page, old, i)
        /\ y = Put(x, k, page) /\ Len(y) = Len(x) /\ s.last = r.last
        /\ s.pageCount = r.pageCount /\ s.count = Minus(r.count, 1)
        /\ Capacity(page) <= Capacity(old)
        /\ s.capacity = (IF Capacity(page) = Capacity(old) THEN r.capacity
                        ELSE Minus(r.capacity, Capacity(old) - Capacity(page)))
        /\ page.count = Capacity(page) \/ k = Len(x) \/ x[k + 1].count = 0
    BY <1>11 DEF IsTakenFrom, x, y
  <2>2. /\ page \in Page /\ page.count <= Capacity(page) /\ page.count <= old.count
        /\ Capacity(page) \in Nat /\ page.count \in Nat
    BY <1>5, <2>1, PageChanges DEF IsWithout
  <2>3. page.count = Capacity(page) \/ \A j \in (k + 1)..Len(x) : x[j].count = 0
    <3>1. ASSUME page.count # Capacity(page), NEW j \in (k + 1)..Len(x) PROVE x[j].count = 0
      <4>1. k + 1 \in 1..Len(x) /\ k # Len(x) /\ x[k + 1].count = 0
        BY <1>2, <2>1, <3>1
      <4>2. Capacity(x[k + 1]) # 0
        <5>1. k + 1 \in 2..(r.last)
          BY <1>1, <1>2, <4>1
        <5>2. QED
          BY <1>1, <5>1 DEF WellMade, x
      <4>3. CASE j = k + 1
        BY <4>1, <4>3
      <4>4. CASE j # k + 1
        <5>1. j \in 1..Len(x) /\ k + 1 \in 1..(j - 1)
          BY <1>2, <4>1, <4>4
        <5>2. x[j].count # 0 => x[k + 1].count = Capacity(x[k + 1])
          BY <1>1, <5>1 DEF Packed
        <5>3. QED
          BY <4>1, <4>2, <5>2
      <4>5. QED
        BY <4>3, <4>4
    <3>2. QED
      BY <3>1
  <2>4. Packed(y)
    BY <1>1, <1>2, <2>1, <2>2, <2>3, PackedReplaced
  <2>5. Elems(y) = RemoveAt(Elems(x), index + 1) /\ Space(y) = (Space(x) - Capacity(old)) + Capacity(page)
    <3>3. /\ Elems(Put(x, k, page)) = RemoveAt(Elems(x), Ahead(x, k) + i)
          /\ Space(Put(x, k, page)) = (Space(x) - Capacity(x[k])) + Capacity(page)
          /\ x[k].count = 1 => Elems(RemoveAt(x, k)) = RemoveAt(Elems(x), Ahead(x, k) + i)
          /\ Space(RemoveAt(x, k)) = Space(x) - Capacity(x[k])
      BY <1>1, <1>2, <2>1, ElemIsTaken
    <3>4. QED
      BY <1>4, <2>1, <3>3
  <2>6. s.capacity = Space(y)
    <3> DEFINE c == Capacity(old) - Capacity(page)
    <3>1. r.capacity \in Nat /\ c \in Nat /\ c <= r.capacity /\ r.capacity < Word
      BY <1>1, <1>2, <1>5, <1>9, <2>1, <2>2 DEF Small
    <3> HIDE DEF c
    <3>2. Minus(r.capacity, c) = r.capacity - c
      BY <3>1, MinusIs
    <3>3. QED
      BY <1>1, <1>2, <1>5, <2>1, <2>2, <2>5, <3>2 DEF c
  <2>7. s.count = Len(Elems(y))
    BY <1>1, <1>8, <1>9, <2>1, <2>5
  <2>8. Orderly(s)
    BY <1>1, <1>6, <2>1, <2>4, <2>6, <2>7 DEF Orderly, y
  <2>9. KeepsNumber(s, r)
    BY <2>1 DEF KeepsNumber, x, y
  <2>10. QED
    BY <1>6, <2>5, <2>8, <2>9 DEF IsRemoved, s, x, y
<1>12. QED
  BY <1>6, <1>10, <1>11 DEF s


--------------------------------------------------------------------------------
(* avDynamicArrayClear and avDynamicArrayReserve.                          *)

IsCleared(s, r) ==
    /\ WellMade(s) /\ SameFlags(s, r) /\ Len(s.pages) = Len(r.pages)
    /\ \A k \in 1..Len(r.pages) : s.pages[k].count = 0 /\ Capacity(s.pages[k]) = Capacity(r.pages[k])
    /\ s.count = 0 /\ s.last = r.last /\ s.capacity = r.capacity /\ s.pageCount = r.pageCount

LEMMA ClearedIs ==
  ASSUME NEW r, WellMade(r), NEW v \in Values
  PROVE  IsCleared(Cleared(r, v), r)
<1> DEFINE x == r.pages
           Emptied(page) == [slots |-> [i \in DOMAIN page.slots |-> v], count |-> 0]
           y == [k \in DOMAIN x |-> Emptied(x[k])]
           s == Cleared(r, v)
<1>1. /\ r \in ArrayType /\ x \in Seq(Page) /\ DOMAIN x = 1..Len(x) /\ Len(x) \in Nat
      /\ \A k \in 1..Len(x) : x[k] \in Page
  BY PagesOfWellMade
<1>2. ASSUME NEW page \in Page PROVE Emptied(page) \in Page /\ Capacity(Emptied(page)) = Capacity(page) /\ Emptied(page).count = 0
  <2> DEFINE t == [i \in DOMAIN page.slots |-> v]
  <2>1. page.slots \in Seq(Values) /\ Capacity(page) = Len(page.slots)
    BY PageChanges
  <2>2. t \in Seq(Values) /\ Len(t) = Len(page.slots)
    BY <2>1
  <2> HIDE DEF t
  <2>3. QED
    BY <2>1, <2>2 DEF Page, Capacity, t
<1>3. s = [r EXCEPT !.pages = y, !.count = 0]
  BY <1>1 DEF Cleared, ArrayType
<1> HIDE DEF Emptied
<1>4. y \in Seq(Page) /\ Len(y) = Len(x) /\ \A k \in 1..Len(x) : y[k] = Emptied(x[k])
  <2>1. \A k \in 1..Len(x) : Emptied(x[k]) \in Page
    BY <1>1, <1>2
  <2> HIDE DEF x, Page
  <2>2. QED
    BY <1>1, <2>1
<1> HIDE DEF y, s
<1>5. /\ s \in ArrayType /\ s.pages = y /\ s.count = 0 /\ s.last = r.last /\ s.capacity = r.capacity
      /\ s.pageCount = r.pageCount /\ SameFlags(s, r)
  <2> HIDE DEF Page
  <2> QED
    BY <1>1, <1>3, <1>4 DEF ArrayType, SameFlags
<1>6. \A k \in 1..Len(x) : y[k].count = 0 /\ Capacity(y[k]) = Capacity(x[k])
  BY <1>1, <1>2, <1>4
<1>7. r.last \in Nat /\ r.last <= Len(x) /\ \A k \in 2..(r.last) : k \in 1..Len(x)
  BY PagesOfWellMade
<1>8. WellMade(s)
  BY <1>4, <1>5, <1>6, <1>7 DEF WellMade, x
<1>9. QED
  BY <1>4, <1>5, <1>6, <1>8 DEF IsCleared, s, x

LEMMA ClearedOrderly ==
  ASSUME NEW r, Orderly(r), NEW v \in Values
  PROVE  LET s == Cleared(r, v) IN Orderly(s) /\ KeepsNumber(s, r) /\ Elems(s.pages) = <<>>
<1> DEFINE s == Cleared(r, v)
           x == r.pages
           y == s.pages
<1>1. WellMade(r) /\ r.last = Len(x) /\ r.capacity = Space(x)
  BY DEF Orderly
<1>2. IsCleared(s, r)
  BY <1>1, ClearedIs
<1> HIDE DEF s
<1>3. /\ WellMade(s) /\ Len(y) = Len(x)
      /\ \A k \in 1..Len(x) : y[k].count = 0 /\ Capacity(y[k]) = Capacity(x[k])
      /\ s.count = 0 /\ s.last = r.last /\ s.capacity = r.capacity /\ s.pageCount = r.pageCount
  BY <1>2 DEF IsCleared
<1>4. x \in Seq(Page) /\ y \in Seq(Page) /\ DOMAIN y = 1..Len(y) /\ Len(y) \in Nat
      /\ \A k \in 1..Len(y) : Capacity(y[k]) \in Nat
  BY <1>1, <1>3, PagesOfWellMade
<1> HIDE DEF x, y
<1>5. Packed(y) /\ Fit(y)
  BY <1>3, <1>4 DEF Packed, Fit
<1>6. Elems(y) = <<>>
  BY <1>3, <1>4, <1>5, NoElems
<1>7. Space(y) = Space(x)
  <2> DEFINE a == Memory(x)
             b == Memory(y)
  <2>1. /\ a \in Seq(Seq(Values)) /\ b \in Seq(Seq(Values)) /\ Len(a) = Len(b) /\ Len(a) = Len(x)
        /\ \A k \in 1..Len(a) : Len(a[k]) = Len(b[k])
    <3>1. /\ a \in Seq(Seq(Values)) /\ Len(a) = Len(x) /\ \A k \in 1..Len(x) : Len(a[k]) = Capacity(x[k])
      BY <1>4, MemoryTyped
    <3>2. /\ b \in Seq(Seq(Values)) /\ Len(b) = Len(y) /\ \A k \in 1..Len(y) : Len(b[k]) = Capacity(y[k])
      BY <1>4, MemoryTyped
    <3> HIDE DEF a, b
    <3>3. QED
      BY <1>3, <3>1, <3>2
  <2> HIDE DEF a, b
  <2>2. Len(FlattenSeq(a)) = Len(FlattenSeq(b))
    BY <2>1, SameStarts
  <2>3. QED
    BY <2>2 DEF Space, a, b
<1>8. Orderly(s)
  BY <1>1, <1>3, <1>5, <1>6, <1>7 DEF Orderly, y
<1>9. KeepsNumber(s, r)
  BY <1>3 DEF KeepsNumber, x, y
<1>10. QED
  BY <1>6, <1>8, <1>9 DEF s, y

(* What is left in the page of the next element is what it says.           *)
LEMMA RemainingTyped ==
  ASSUME NEW r, WellMade(r), Fit(r.pages)
  PROVE  RemainingSpace(r) \in Nat
<1>1. CASE Located(r, r.count)
  <2>1. r.pages \in Seq(Page) /\ r.count \in Nat
    BY PagesOfWellMade
  <2>2. PICK k \in 1..Len(r.pages) : \E i \in 1..Capacity(r.pages[k]) : Locate(r, r.count) = <<k, i>>
    BY <1>1, <2>1, LocateIs
  <2>3. /\ r.pages[k].count \in Nat /\ Capacity(r.pages[k]) \in Nat
        /\ r.pages[k].count <= Capacity(r.pages[k])
    BY <2>1, PageFields DEF Fit
  <2>4. RemainingSpace(r) = Capacity(r.pages[k]) - r.pages[k].count
    BY <1>1, <2>2 DEF RemainingSpace
  <2>5. QED
    BY <2>3, <2>4
<1>2. CASE ~Located(r, r.count)
  BY <1>2 DEF RemainingSpace
<1>3. QED
  BY <1>1, <1>2

LEMMA ReservedTyped ==
  ASSUME NEW r, WellMade(r), Fit(r.pages), NEW count \in Nat
  PROVE  WellMade(Reserved(r, count))
<1> DEFINE c == count - RemainingSpace(r)
<1>1. RemainingSpace(r) \in Nat
  BY RemainingTyped
<1>2. CASE count <= RemainingSpace(r)
  BY <1>2 DEF Reserved
<1>3. CASE ~(count <= RemainingSpace(r))
  <2>1. c \in Nat \ {0}
    BY <1>1, <1>3
  <2> HIDE DEF c
  <2>2. WellMade(PageAdded(r, c))
    BY <2>1, PageAddedTyped
  <2>3. QED
    BY <1>3, <2>2 DEF Reserved, c
<1>4. QED
  BY <1>2, <1>3

LEMMA ReservedOrderly ==
  ASSUME NEW r, Orderly(r), NEW count \in Nat
  PROVE  LET s == Reserved(r, count) IN
         /\ Orderly(s) /\ Elems(s.pages) = Elems(r.pages) /\ Extends(r.pages, s.pages)
         /\ CountedOrMany(r) => CountedOrMany(s)
<1> DEFINE c == count - RemainingSpace(r)
<1>1. WellMade(r) /\ Fit(r.pages)
  BY DEF Orderly, Packed
<1>2. RemainingSpace(r) \in Nat /\ r.pages \in Seq(Page)
  BY <1>1, RemainingTyped, PagesOfWellMade
<1>3. CASE count <= RemainingSpace(r)
  <2>1. Extends(r.pages, r.pages)
    BY <1>2, PageFields DEF Extends
  <2>2. QED
    BY <1>3, <2>1 DEF Reserved
<1>4. CASE ~(count <= RemainingSpace(r))
  <2>1. c \in Nat \ {0}
    BY <1>2, <1>4
  <2>2. Reserved(r, count) = PageAdded(r, c)
    BY <1>4 DEF Reserved
  <2> HIDE DEF c
  <2>3. QED
    BY <2>1, <2>2, PageAddedOrderly
<1>5. QED
  BY <1>3, <1>4

(* The page of the next element has room for it.                           *)
LEMMA OrderlyHasRoom ==
  ASSUME NEW r, Orderly(r), Located(r, r.count)
  PROVE  RemainingSpace(r) # 0
<1>1. r.pages \in Seq(Page) /\ Packed(r.pages) /\ r.count = Len(Elems(r.pages))
  BY PagesOfWellMade DEF Orderly
<1>2. PICK k \in 1..Len(r.pages) :
         /\ Locate(r, r.count) = <<k, r.pages[k].count + 1>>
         /\ r.pages[k].count < Capacity(r.pages[k])
  BY <1>1, NextPlaceIs
<1>3. r.pages[k].count \in Nat /\ Capacity(r.pages[k]) \in Nat
  BY <1>1, PageFields
<1>4. RemainingSpace(r) = Capacity(r.pages[k]) - r.pages[k].count
  BY <1>2 DEF RemainingSpace
<1>5. QED
  BY <1>2, <1>3, <1>4


--------------------------------------------------------------------------------
(* avDynamicArrayTrim.                                                     *)

LEMMA TrimTurnTyped ==
  ASSUME NEW r, WellMade(r), Fit(r.pages)
  PROVE  WellMade(TrimTurn(r)) /\ Fit(TrimTurn(r).pages) /\ SameFlags(TrimTurn(r), r)
<1> DEFINE s == TrimTurn(r)
           x == r.pages
           k == r.last
           y == s.pages
<1>1. /\ x \in Seq(Page) /\ Len(x) \in Nat /\ k \in Nat /\ k <= Len(x) /\ DOMAIN x = 1..Len(x)
      /\ \A j \in 1..Len(x) : x[j] \in Page /\ x[j].count \in Nat /\ Capacity(x[j]) \in Nat
      /\ \A j \in 1..Len(x) : x[j].count <= Capacity(x[j])
  BY PagesOfWellMade DEF Fit
<1>2. CASE k = 0 \/ x[k].count = Capacity(x[k])
  <2>1. s = r
    BY <1>2 DEF TrimTurn
  <2>2. QED
    BY <2>1 DEF SameFlags
<1>3. CASE k # 0 /\ x[k].count # Capacity(x[k]) /\ x[k].count = 0
  <2>1. s = PageRemoved(r, k) /\ k \in 1..Len(x)
    BY <1>1, <1>3 DEF TrimTurn
  <2> HIDE DEF s, k
  <2>2. IsPageRemoved(s, r, k)
    BY <2>1, PageRemovedTyped
  <2>3. WellMade(s) /\ y = RemoveAt(x, k) /\ SameFlags(s, r)
    BY <2>2 DEF IsPageRemoved
  <2>4. Fit(y)
    <3> HIDE DEF x, y
    <3>1. Fit(x)
      BY DEF x
    <3>2. /\ RemoveAt(x, k) \in Seq(Page) /\ Len(RemoveAt(x, k)) = Len(x) - 1 /\ Fit(RemoveAt(x, k))
          /\ \A j \in 1..(Len(x) - 1) : RemoveAt(x, k)[j] = IF j < k THEN x[j] ELSE x[j + 1]
          /\ Elems(RemoveAt(x, k)) = Elems(FrontOf(x, k)) \o Elems(BackOf(x, k))
          /\ Space(RemoveAt(x, k)) = Space(FrontOf(x, k)) + Space(BackOf(x, k))
      BY <1>1, <2>1, <3>1, PageTaken
    <3>3. QED
      BY <2>3, <3>2
  <2>5. QED
    BY <2>3, <2>4 DEF s
<1>4. CASE k # 0 /\ x[k].count # Capacity(x[k]) /\ x[k].count # 0
  <2> DEFINE c == x[k].count
             page == Cut(x[k], c)
  <2>1. s = PageResized(r, k, c) /\ k \in 1..Len(x) /\ c \in Nat \ {0} /\ c <= Capacity(x[k])
    BY <1>1, <1>4 DEF TrimTurn
  <2>2. /\ page \in Page /\ Capacity(page) = c
        /\ page.count = (IF x[k].count < c THEN x[k].count ELSE c)
    <3>1. x[k] \in Page
      BY <1>1, <2>1
    <3> HIDE DEF c
    <3>2. QED
      BY <2>1, <3>1, CutIs
  <2> HIDE DEF s, k, c, page
  <2>3. IsResized(s, r, k, c)
    BY <2>1, PageResizedTyped
  <2>4. WellMade(s) /\ y = Put(x, k, page) /\ Len(y) = Len(x) /\ SameFlags(s, r)
    BY <2>3 DEF IsResized, page
  <2>5. page.count <= Capacity(page)
    BY <2>1, <2>2 DEF c
  <2> HIDE DEF x, y
  <2>6. Fit(y)
    <3>1. DOMAIN y = 1..Len(x) /\ \A j \in 1..Len(x) : y[j] = IF j = k THEN page ELSE x[j]
      BY <1>1, <2>4 DEF Put
    <3>2. QED
      BY <1>1, <2>5, <3>1 DEF Fit
  <2>7. QED
    BY <2>4, <2>6 DEF s, y
<1>5. QED
  BY <1>2, <1>3, <1>4

(* The pages before the last one.                                          *)
LEMMA BackOfLast ==
  ASSUME NEW pages \in Seq(Page), Fit(pages), NEW k \in 1..Len(pages), k = Len(pages)
  PROVE  /\ BackOf(pages, k) = <<>> /\ Elems(BackOf(pages, k)) = <<>> /\ Space(BackOf(pages, k)) = 0
         /\ Elems(pages) = Elems(FrontOf(pages, k)) \o Live(pages[k])
<1> DEFINE b == BackOf(pages, k)
           f == Elems(FrontOf(pages, k))
           m == Live(pages[k])
<1>1. b = <<>>
  BY DEF BackOf
<1>2. b \in Seq(Page) /\ Len(b) = 0
  BY <1>1
<1> HIDE DEF b
<1>3. Fit(b) /\ \A j \in 1..Len(b) : b[j].count = 0
  BY <1>1, <1>2 DEF Fit
<1>4. Elems(b) = <<>>
  BY <1>2, <1>3, NoElems
<1>5. Space(b) = 0
  <2>1. Memory(b) = <<>>
    BY <1>1 DEF Memory
  <2>2. QED
    BY <2>1, FlattenNone DEF Space
<1>6. /\ f \in Seq(Values) /\ m \in Seq(Values) /\ Elems(pages) = f \o (m \o Elems(b))
  BY PagesSplit DEF b
<1> HIDE DEF f, m
<1>7. m \o <<>> = m
  BY <1>6
<1>8. QED
  BY <1>1, <1>4, <1>5, <1>6, <1>7 DEF b, f, m

(* The turn is the last one to do anything.                                *)
Trim1(r) == r.last = 0 \/ r.pages[r.last].count = Capacity(r.pages[r.last])

IsTrimmedBy(s, r) ==
    /\ Orderly(s) /\ Small(s) /\ KeepsNumber(s, r) /\ SameFlags(s, r)
    /\ Elems(s.pages) = Elems(r.pages)

LEMMA TrimTurnOrderly ==
  ASSUME NEW r, Orderly(r), Small(r)
  PROVE  /\ IsTrimmedBy(TrimTurn(r), r)
         /\ Trim1(r) => TrimTurn(r) = r
         /\ Trim1(TrimTurn(r)) \/ Len(TrimTurn(r).pages) = Len(r.pages) - 1
<1> DEFINE s == TrimTurn(r)
           x == r.pages
           k == r.last
           y == s.pages
<1>1. /\ WellMade(r) /\ k = Len(x) /\ Packed(x) /\ Fit(x) /\ r.count = Len(Elems(x))
      /\ r.capacity = Space(x)
  BY DEF Orderly, Packed
<1>2. /\ x \in Seq(Page) /\ Len(x) \in Nat /\ k \in Nat /\ DOMAIN x = 1..Len(x)
      /\ r.count \in Nat /\ r.capacity \in Nat /\ r.pageCount \in Nat /\ r.pageCount < Word
      /\ \A j \in 1..Len(x) : x[j] \in Page /\ x[j].count \in Nat /\ Capacity(x[j]) \in Nat
      /\ \A j \in 1..Len(x) : x[j].count <= Capacity(x[j])
  BY <1>1, PagesOfWellMade, WordIsTyped DEF Fit
<1>3. CASE Trim1(r)
  <2>1. s = r
    BY <1>3 DEF TrimTurn, Trim1
  <2>2. IsTrimmedBy(r, r)
    BY DEF IsTrimmedBy, KeepsNumber, SameFlags
  <2>3. QED
    BY <1>3, <2>1, <2>2
<1>4. ASSUME ~Trim1(r)
      PROVE  /\ WellMade(s) /\ Fit(y) /\ SameFlags(s, r) /\ y \in Seq(Page)
             /\ k \in 1..Len(x) /\ x[k].count # Capacity(x[k])
             /\ Space(x) = Space(FrontOf(x, k)) + Capacity(x[k]) /\ Space(FrontOf(x, k)) \in Nat
             /\ Elems(x) = Elems(FrontOf(x, k)) \o Live(x[k])
  <2>1. WellMade(s) /\ Fit(y) /\ SameFlags(s, r)
    BY <1>1, TrimTurnTyped
  <2>2. k \in 1..Len(x) /\ x[k].count # Capacity(x[k])
    BY <1>1, <1>2, <1>4 DEF Trim1
  <2> HIDE DEF s, x
  <2>3. y \in Seq(Page)
    BY <2>1, PagesOfWellMade
  <2> DEFINE m == k
  <2>4. m \in 1..Len(x) /\ m = Len(x) /\ m = k
    BY <1>1, <2>2
  <2> HIDE DEF m, k
  <2>5. Space(BackOf(x, m)) = 0 /\ Elems(x) = Elems(FrontOf(x, m)) \o Live(x[m])
    BY <1>1, <1>2, <2>4, BackOfLast
  <2>6. /\ Space(x) = Space(FrontOf(x, m)) + (Capacity(x[m]) + Space(BackOf(x, m)))
        /\ Space(FrontOf(x, m)) \in Nat
    BY <1>1, <1>2, <2>4, PagesSplit
  <2>7. Capacity(x[m]) + Space(BackOf(x, m)) = Capacity(x[m])
    BY <1>2, <2>4, <2>5
  <2>8. QED
    BY <2>1, <2>2, <2>3, <2>4, <2>5, <2>6, <2>7
<1>5. CASE ~Trim1(r) /\ x[k].count = 0
  <2>1. k \in 1..Len(x)
    BY <1>4, <1>5
  <2>2. s = PageRemoved(r, k)
    BY <1>5 DEF TrimTurn, Trim1
  <2> DEFINE m == k
             c == Capacity(x[k])
  <2>3. m \in 1..Len(x) /\ m = k
    BY <2>1
  <2> HIDE DEF s, m
  <2>4. IsPageRemoved(s, r, m)
    BY <1>1, <2>2, <2>3, PageRemovedTyped DEF m
  <2>5. /\ WellMade(s) /\ y = RemoveAt(x, m) /\ Len(y) = Len(x) - 1
        /\ s.last = (IF m <= r.last THEN r.last - 1 ELSE r.last)
        /\ s.pageCount = Minus(r.pageCount, 1)
        /\ s.count = Minus(r.count, 0) /\ s.capacity = Minus(r.capacity, c)
    BY <1>5, <2>3, <2>4 DEF IsPageRemoved
  <2>6. s.last = Len(y)
    BY <1>1, <1>2, <2>3, <2>5
  <2> HIDE DEF x, y, k, c
  <2>7. Packed(y)
    BY <1>1, <1>2, <2>3, <2>5, PackedTaken
  <2>8. Elems(y) = Elems(x) /\ Space(y) = Space(x) - c
    <3>1. /\ RemoveAt(x, m) \in Seq(Page) /\ Len(RemoveAt(x, m)) = Len(x) - 1 /\ Fit(RemoveAt(x, m))
          /\ \A j \in 1..(Len(x) - 1) : RemoveAt(x, m)[j] = IF j < m THEN x[j] ELSE x[j + 1]
          /\ Elems(RemoveAt(x, m)) = Elems(FrontOf(x, m)) \o Elems(BackOf(x, m))
          /\ Space(RemoveAt(x, m)) = Space(FrontOf(x, m)) + Space(BackOf(x, m))
      BY <1>1, <1>2, <2>3, PageTaken
    <3>2. /\ Elems(BackOf(x, m)) = <<>> /\ Space(BackOf(x, m)) = 0
      BY <1>1, <1>2, <2>3, BackOfLast
    <3>3. Live(x[m]) = <<>>
      <4>1. x[m] \in Page /\ x[m].count <= Capacity(x[m]) /\ x[m].count = 0
        BY <1>2, <1>5, <2>3
      <4>2. Live(x[m]) \in Seq(Values) /\ Len(Live(x[m])) = 0
        BY <4>1, LiveTyped
      <4>3. QED
        BY <4>2
    <3>4. Elems(y) = Elems(x)
      BY <1>4, <1>5, <2>3, <2>5, <3>1, <3>2, <3>3
    <3>5. Space(y) = Space(x) - c
      BY <1>2, <1>4, <1>5, <2>3, <2>5, <3>1, <3>2 DEF c
    <3>6. QED
      BY <3>4, <3>5
  <2>9. s.capacity = Space(y) /\ s.capacity < Word
    <3>1. r.capacity \in Nat /\ c \in Nat /\ c <= r.capacity /\ r.capacity < Word
      BY <1>1, <1>2, <1>4, <1>5, <2>3 DEF Small, c
    <3>2. Minus(r.capacity, c) = r.capacity - c
      BY <3>1, MinusIs
    <3>3. QED
      BY <1>1, <2>5, <2>8, <3>1, <3>2, WordIsTyped
  <2>10. s.count = Len(Elems(y)) /\ s.count < Word
    <3>1. r.count \in Nat /\ 0 \in Nat /\ 0 <= r.count /\ r.count < Word
      BY <1>2 DEF Small
    <3>2. Minus(r.count, 0) = r.count - 0
      BY <3>1, MinusIs
    <3>3. QED
      BY <1>1, <2>5, <2>8, <3>1, <3>2
  <2>11. KeepsNumber(s, r)
    <3>1. ASSUME r.pageCount = Len(x) PROVE s.pageCount = Len(y)
      <4>1. r.pageCount \in Nat /\ 1 \in Nat /\ 1 <= r.pageCount /\ r.pageCount < Word
        BY <1>2, <2>3, <3>1
      <4>2. Minus(r.pageCount, 1) = r.pageCount - 1
        BY <4>1, MinusIs
      <4>3. QED
        BY <2>5, <3>1, <4>2
    <3>2. QED
      BY <3>1 DEF KeepsNumber, x, y
  <2>12. Orderly(s)
    BY <2>5, <2>6, <2>7, <2>9, <2>10 DEF Orderly, y
  <2>13. IsTrimmedBy(s, r)
    BY <1>4, <1>5, <2>8, <2>9, <2>10, <2>11, <2>12 DEF IsTrimmedBy, Small, x, y
  <2>14. QED
    BY <1>5, <2>5, <2>13 DEF s, x, y
<1>6. CASE ~Trim1(r) /\ x[k].count # 0
  <2> DEFINE c == x[k].count
             m == k
             page == Cut(x[k], c)
  <2>1. k \in 1..Len(x) /\ c \in Nat \ {0} /\ c <= Capacity(x[k]) /\ x[k] \in Page /\ Capacity(x[k]) \in Nat
    BY <1>2, <1>4, <1>6
  <2>2. s = PageResized(r, k, c)
    BY <1>6 DEF TrimTurn, Trim1
  <2>3. /\ page \in Page /\ Capacity(page) = c
        /\ page.count = (IF x[k].count < c THEN x[k].count ELSE c)
        /\ \A i \in 1..c : page.slots[i] = x[k].slots[i]
    <3> HIDE DEF c
    <3>1. QED
      BY <2>1, CutIs
  <2>4. page.count = c /\ m = k /\ x[m].count = c
    BY <2>1, <2>3
  <2> HIDE DEF s, c, page, m
  <2>5. IsResized(s, r, m, c)
    <3>1. m \in 1..Len(r.pages) /\ c \in Nat \ {0} /\ c <= Capacity(r.pages[m])
      BY <2>1, <2>4
    <3>2. QED
      BY <1>1, <2>2, <2>4, <3>1, PageResizedTyped
  <2>6. /\ WellMade(s) /\ y = Put(x, m, page) /\ Len(y) = Len(x)
        /\ s.last = r.last /\ s.pageCount = r.pageCount
        /\ s.count = Minus(r.count, c - page.count)
        /\ s.capacity = Minus(r.capacity, Capacity(x[m]) - c)
    BY <2>4, <2>5 DEF IsResized, page
  <2>7. c - page.count = 0
    BY <2>1, <2>4
  <2>8. s.last = Len(y)
    BY <1>1, <2>6
  <2> HIDE DEF x, y, k
  <2>9. Packed(y)
    <3>1. m \in 1..Len(x) /\ page.count <= Capacity(page) /\ page.count <= x[m].count /\ page.count = Capacity(page)
      BY <2>1, <2>3, <2>4
    <3>2. QED
      BY <1>1, <1>2, <2>3, <2>6, <3>1, PackedReplaced
  <2>10. Elems(y) = Elems(x) /\ Space(y) = Space(x) - (Capacity(x[m]) - c)
    <3>1. page.count <= Capacity(page) /\ m \in 1..Len(x) /\ m = Len(x)
      BY <1>1, <2>1, <2>3, <2>4
    <3> DEFINE t == [x EXCEPT ![m] = page]
    <3>2. /\ t \in Seq(Page) /\ Len(t) = Len(x) /\ Fit(t)
          /\ \A j \in 1..Len(x) : t[j] = IF j = m THEN page ELSE x[j]
          /\ Elems(t) = Elems(FrontOf(x, m)) \o (Live(page) \o Elems(BackOf(x, m)))
          /\ Space(t) = Space(FrontOf(x, m)) + (Capacity(page) + Space(BackOf(x, m)))
      BY <1>1, <1>2, <2>3, <3>1, PageReplaced
    <3>3. t = y
      BY <2>6 DEF Put
    <3> HIDE DEF t
    <3>4. /\ Elems(BackOf(x, m)) = <<>> /\ Space(BackOf(x, m)) = 0
      BY <1>1, <1>2, <3>1, BackOfLast
    <3>5. Live(page) = Live(x[m]) /\ Live(page) \in Seq(Values)
      <4> DEFINE u == Live(page)
                 v == Live(x[m])
      <4>1. u \in Seq(Values) /\ Len(u) = page.count /\ \A i \in 1..(page.count) : u[i] = page.slots[i]
        BY <2>3, <3>1, LiveTyped
      <4>2. v \in Seq(Values) /\ Len(v) = x[m].count /\ \A i \in 1..(x[m].count) : v[i] = x[m].slots[i]
        BY <2>1, <2>4, LiveTyped
      <4> HIDE DEF u, v
      <4>3. Len(u) = Len(v) /\ \A i \in 1..Len(u) : u[i] = v[i]
        BY <2>3, <2>4, <4>1, <4>2
      <4>4. u = v
        BY <4>1, <4>2, <4>3, SeqEqual
      <4>5. QED
        BY <4>1, <4>4 DEF u, v
    <3>6. Live(page) \o <<>> = Live(page)
      <4> DEFINE u == Live(page)
      <4>1. u \in Seq(Values)
        BY <3>5
      <4> HIDE DEF u
      <4>2. u \o <<>> = u
        BY <4>1
      <4>3. QED
        BY <4>2 DEF u
    <3>7. Elems(y) = Elems(x)
      BY <1>4, <1>6, <2>4, <3>2, <3>3, <3>4, <3>5, <3>6
    <3>8. Space(y) = Space(x) - (Capacity(x[m]) - c)
      BY <1>4, <1>6, <2>1, <2>3, <2>4, <3>2, <3>3, <3>4
    <3>9. QED
      BY <3>7, <3>8
  <2>11. s.capacity = Space(y) /\ s.capacity < Word
    <3> DEFINE d == Capacity(x[m]) - c
    <3>1. r.capacity \in Nat /\ d \in Nat /\ d <= r.capacity /\ r.capacity < Word
      BY <1>1, <1>2, <1>4, <1>6, <2>1, <2>4 DEF Small
    <3> HIDE DEF d
    <3>2. Minus(r.capacity, d) = r.capacity - d
      BY <3>1, MinusIs
    <3>3. s.capacity = r.capacity - d /\ Space(y) = Space(x) - d
      BY <2>6, <2>10, <3>2 DEF d
    <3>4. QED
      BY <1>1, <3>1, <3>3, WordIsTyped
  <2>12. s.count = Len(Elems(y)) /\ s.count < Word
    <3>1. r.count \in Nat /\ 0 \in Nat /\ 0 <= r.count /\ r.count < Word
      BY <1>2 DEF Small
    <3>2. Minus(r.count, 0) = r.count - 0
      BY <3>1, MinusIs
    <3>3. QED
      BY <1>1, <2>6, <2>7, <2>10, <3>1, <3>2
  <2>13. KeepsNumber(s, r)
    BY <2>6 DEF KeepsNumber, x, y
  <2>14. Orderly(s)
    BY <2>6, <2>8, <2>9, <2>11, <2>12 DEF Orderly, y
  <2>15. Trim1(s)
    <3>1. s.last = m /\ y[m] = page
      BY <1>2, <2>1, <2>4, <2>6 DEF Put, k
    <3>2. QED
      BY <2>3, <2>4, <3>1 DEF Trim1, y
  <2>16. IsTrimmedBy(s, r)
    BY <1>4, <1>6, <2>10, <2>11, <2>12, <2>13, <2>14 DEF IsTrimmedBy, Small, x, y
  <2>17. QED
    BY <1>6, <2>15, <2>16 DEF s
<1>7. QED
  BY <1>3, <1>5, <1>6

AreTrims(f, r, N) == f[0] = r /\ \A n \in 1..N : f[n] = TrimTurn(f[n - 1])

LEMMA TrimmedRuns ==
  ASSUME NEW S, NEW r \in S, Len(r.pages) \in Nat, \A s \in S : TrimTurn(s) \in S
  PROVE  \E f \in [0..Len(r.pages) -> S] : AreTrims(f, r, Len(r.pages)) /\ Trimmed(r) = f[Len(r.pages)]
<1> DEFINE N == Len(r.pages)
           step == [m \in (1..N) \X S |-> TrimTurn(m[2])]
           Steps(g) == [n \in 0..N |-> IF n = 0 THEN r ELSE TrimTurn(g[n - 1])]
           F == CHOOSE g : g = Steps(g)
<1>1. N \in Nat
  OBVIOUS
<1>2. step \in [(1..N) \X S -> S]
  <2> HIDE DEF N
  <2> QED
    OBVIOUS
<1>3. PICK f \in [0..N -> S] : AreRuns(f, r, step, N)
  <2> HIDE DEF N, step
  <2> QED
    BY <1>1, <1>2, RunsExist
<1> HIDE DEF N
<1>4. ASSUME NEW n \in 1..N PROVE n - 1 \in 0..N /\ n \in 0..N /\ n # 0 /\ f[n] = TrimTurn(f[n - 1])
  <2>1. n - 1 \in 0..N /\ n \in 0..N /\ n # 0
    BY <1>1
  <2>2. f[n - 1] \in S
    BY <2>1
  <2>3. f[n] = step[<<n, f[n - 1]>>]
    BY <1>3 DEF AreRuns
  <2>4. step[<<n, f[n - 1]>>] = TrimTurn(f[n - 1])
    BY <2>2
  <2>5. QED
    BY <2>1, <2>3, <2>4
<1>5. f[0] = r
  BY <1>3 DEF AreRuns
<1> HIDE DEF step
<1>6. f = Steps(f)
  <2>1. ASSUME NEW n \in 0..N PROVE f[n] = Steps(f)[n]
    <3>1. CASE n = 0
      BY <1>1, <1>5, <3>1
    <3>2. CASE n # 0
      <4>1. n \in 1..N
        BY <1>1, <3>2
      <4>2. QED
        BY <1>4, <3>2, <4>1
    <3>3. QED
      BY <3>1, <3>2
  <2>2. f = [n \in 0..N |-> f[n]]
    OBVIOUS
  <2>3. Steps(f) = [n \in 0..N |-> Steps(f)[n]]
    OBVIOUS
  <2> HIDE DEF Steps
  <2>4. QED
    BY <2>1, <2>2, <2>3
<1>7. F = Steps(F)
  <2> HIDE DEF Steps
  <2> QED
    BY <1>6
<1>8. Trimmed(r) = F[N]
  BY DEF Trimmed, N
<1>9. StepTogether(F, f, N)
  <2>1. F[0] = r
    <3>1. Steps(F)[0] = r
      BY <1>1
    <3> HIDE DEF Steps, F
    <3>2. QED
      BY <1>7, <3>1
  <2>2. ASSUME NEW n \in 1..N PROVE F[n] = TrimTurn(F[n - 1])
    <3> HIDE DEF F
    <3>1. Steps(F)[n] = TrimTurn(F[n - 1])
      BY <1>4
    <3> HIDE DEF Steps
    <3>2. QED
      BY <1>7, <3>1
  <2> HIDE DEF F
  <2>3. QED
    BY <1>4, <1>5, <2>1, <2>2 DEF StepTogether
<1> HIDE DEF F
<1>10. F[N] = f[N]
  <2>1. Agree(F, f, N)
    BY <1>1, <1>9, SameSteps
  <2>2. QED
    BY <1>1, <2>1 DEF Agree
<1>11. AreTrims(f, r, N)
  BY <1>4, <1>5 DEF AreTrims
<1>12. QED
  BY <1>8, <1>10, <1>11 DEF N

LEMMA TrimmedTyped ==
  ASSUME NEW r, WellMade(r), Fit(r.pages)
  PROVE  WellMade(Trimmed(r)) /\ Fit(Trimmed(r).pages) /\ SameFlags(Trimmed(r), r)
<1> DEFINE Good(s) == WellMade(s) /\ Fit(s.pages) /\ SameFlags(s, r)
           S == {s \in ArrayType : Good(s)}
           N == Len(r.pages)
<1>1. r \in S /\ N \in Nat
  BY PagesOfWellMade DEF SameFlags
<1>2. ASSUME NEW s \in S PROVE TrimTurn(s) \in S
  <2>1. WellMade(TrimTurn(s)) /\ Fit(TrimTurn(s).pages) /\ SameFlags(TrimTurn(s), s)
    BY TrimTurnTyped
  <2>2. QED
    BY <2>1 DEF SameFlags, WellMade
<1>3. \A s \in S : Good(s)
  OBVIOUS
<1> HIDE DEF S, Good
<1>4. PICK f \in [0..N -> S] : Trimmed(r) = f[N]
  BY <1>1, <1>2, TrimmedRuns
<1>5. f[N] \in S
  BY <1>1
<1>6. QED
  BY <1>3, <1>4, <1>5 DEF Good

LEMMA TrimmedOrderly ==
  ASSUME NEW r, Orderly(r), Small(r)
  PROVE  IsTrimmedBy(Trimmed(r), r) /\ Trim1(Trimmed(r))
<1> DEFINE S == {s \in ArrayType : IsTrimmedBy(s, r)}
           N == Len(r.pages)
<1>1. r \in S /\ N \in Nat
  <2>1. IsTrimmedBy(r, r)
    BY DEF IsTrimmedBy, KeepsNumber, SameFlags
  <2>2. r \in ArrayType /\ N \in Nat
    BY PagesOfWellMade DEF Orderly
  <2>3. QED
    BY <2>1, <2>2
<1>2. ASSUME NEW s \in S PROVE TrimTurn(s) \in S
  <2>1. Orderly(s) /\ Small(s) /\ IsTrimmedBy(s, r)
    BY DEF IsTrimmedBy
  <2>2. IsTrimmedBy(TrimTurn(s), s)
    BY <2>1, TrimTurnOrderly
  <2> DEFINE t == TrimTurn(s)
  <2> HIDE DEF t
  <2>3. IsTrimmedBy(t, r) /\ t \in ArrayType
    BY <2>1, <2>2 DEF IsTrimmedBy, SameFlags, KeepsNumber, Orderly, WellMade, t
  <2>4. QED
    BY <2>3 DEF t
<1>3. \A s \in S : IsTrimmedBy(s, r) /\ Orderly(s) /\ Small(s)
  BY DEF IsTrimmedBy
<1> HIDE DEF S, N
<1>4. PICK f \in [0..N -> S] : AreTrims(f, r, N) /\ Trimmed(r) = f[N]
  BY <1>1, <1>2, TrimmedRuns DEF N
<1> DEFINE Ends(s, n) == Trim1(s) \/ Len(s.pages) <= N - n
           Shorter == {n \in Nat : n <= N => Ends(f[n], n)}
<1>5. 0 \in Shorter
  <2>1. f[0] = r /\ Len(r.pages) <= N - 0
    BY <1>1, <1>4 DEF AreTrims, N
  <2>2. QED
    BY <2>1
<1>6. ASSUME NEW n \in Nat, n \in Shorter PROVE n + 1 \in Shorter
  <2>1. ASSUME n + 1 <= N PROVE Ends(f[n + 1], n + 1)
    <3> DEFINE m == n + 1
               s == f[n]
               t == f[m]
    <3>1. m \in 1..N /\ m - 1 = n /\ n \in 0..N /\ Ends(s, n)
      BY <1>1, <1>6, <2>1
    <3>2. t = TrimTurn(s) /\ s \in S
      BY <1>4, <3>1 DEF AreTrims
    <3>3. Orderly(s) /\ Small(s)
      BY <1>3, <3>2
    <3> HIDE DEF s, t
    <3>4. /\ Trim1(s) => t = s
          /\ Trim1(t) \/ Len(t.pages) = Len(s.pages) - 1
      BY <3>2, <3>3, TrimTurnOrderly
    <3>5. Len(s.pages) \in Nat
      BY <3>3, PagesOfWellMade DEF Orderly
    <3>6. Ends(t, m)
      BY <1>1, <3>1, <3>4, <3>5
    <3>7. QED
      BY <3>6 DEF t
  <2>2. QED
    BY <2>1
<1>7. Nat \subseteq Shorter
  <2> HIDE DEF Shorter
  <2> QED
    BY <1>5, <1>6, SetInduction
<1>8. Ends(f[N], N) /\ f[N] \in S
  BY <1>1, <1>7
<1>9. Trim1(f[N])
  <2> DEFINE s == f[N]
  <2>1. Orderly(s) /\ Ends(s, N)
    BY <1>3, <1>8
  <2> HIDE DEF s
  <2>2. s.last = Len(s.pages) /\ Len(s.pages) \in Nat
    BY <2>1, PagesOfWellMade DEF Orderly
  <2>3. Trim1(s)
    <3>1. CASE Len(s.pages) <= N - N
      BY <1>1, <2>2, <3>1 DEF Trim1
    <3>2. QED
      BY <2>1, <3>1
  <2>4. QED
    BY <2>3 DEF s
<1>10. QED
  BY <1>3, <1>4, <1>8, <1>9

(* A trimmed array has no room left.                                       *)
LEMMA TrimmedIsFull ==
  ASSUME NEW r, Orderly(r), Trim1(r)
  PROVE  IsFull(r.pages)
<1> DEFINE x == r.pages
<1>1. WellMade(r) /\ r.last = Len(x) /\ Packed(x) /\ x \in Seq(Page) /\ Len(x) \in Nat
  BY PagesOfWellMade DEF Orderly
<1>2. ASSUME NEW k \in 1..Len(x) PROVE x[k].count = Capacity(x[k])
  <2>1. x[Len(x)].count = Capacity(x[Len(x)])
    BY <1>1 DEF Trim1
  <2>2. CASE k # Len(x)
    <3>1. Len(x) \in 2..(r.last) /\ k \in 1..(Len(x) - 1) /\ Len(x) \in 1..Len(x)
      BY <1>1, <2>2
    <3>2. x[Len(x)].count # 0
      BY <1>1, <2>1, <3>1 DEF WellMade
    <3>3. QED
      BY <1>1, <3>1, <3>2 DEF Packed
  <2>3. QED
    BY <2>1, <2>2
<1>3. QED
  BY <1>2 DEF IsFull


--------------------------------------------------------------------------------
(* avDynamicArrayReadRange, avDynamicArrayMakeContiguous, and what Destroy *)
(* gives to the callback.                                                  *)

LEMMA BufferedIs ==
  ASSUME NEW r, WellMade(r), NEW c \in Nat
  PROVE  /\ Buffered(r, c) \in Seq(Values) /\ Len(Buffered(r, c)) = c
         /\ Orderly(r) => \A i \in 1..c : i <= Len(Elems(r.pages)) => Buffered(r, c)[i] = Elems(r.pages)[i]
<1> DEFINE reads == Reads(r)
           Kept(i) == i <= r.count /\ i <= Len(reads) /\ \A j \in 1..i : reads[j] # None
           b == [i \in 1..c |-> IF Kept(i) THEN reads[i] ELSE Zero]
<1>1. r.pages \in Seq(Page) /\ r.count \in Nat
  BY PagesOfWellMade
<1>2. reads \in Seq(Values \cup {None}) /\ Zero \in Values
  BY <1>1, ReadsTyped DEF Values
<1>3. Buffered(r, c) = b
  BY DEF Buffered
<1> HIDE DEF reads
<1>4. \A i \in 1..c : b[i] \in Values
  <2>1. ASSUME NEW i \in 1..c, Kept(i) PROVE reads[i] \in Values
    <3>1. i \in 1..i /\ i \in 1..Len(reads) /\ reads[i] # None
      BY <1>2, <2>1
    <3>2. QED
      BY <1>2, <3>1
  <2>2. QED
    BY <1>2, <2>1
<1>5. b \in Seq(Values) /\ Len(b) = c
  <2> DEFINE T == Values
  <2>1. b = [i \in 1..c |-> b[i]] /\ \A i \in 1..c : b[i] \in T
    BY <1>4
  <2> HIDE DEF b, T
  <2>2. b \in Seq(T) /\ Len(b) = c
    BY <2>1
  <2>3. QED
    BY <2>2 DEF T
<1>6. ASSUME Orderly(r), NEW i \in 1..c, i <= Len(Elems(r.pages)) PROVE b[i] = Elems(r.pages)[i]
  <2> DEFINE n == Len(Elems(r.pages))
  <2>1. Packed(r.pages) /\ r.count = n /\ n \in Nat /\ n <= Space(r.pages) /\ Len(reads) = Space(r.pages)
        /\ Space(r.pages) \in Nat
    BY <1>1, <1>6, ElemsAre, PagesLevel, ReadsTyped, TotalsAreLengths DEF Orderly, Packed, reads
  <2>2. /\ \A j \in 1..n : reads[j] = Elems(r.pages)[j]
        /\ Elems(r.pages) \in Seq(Values)
    BY <1>1, <2>1, ReadsAre, ElemsAre DEF Packed, reads
  <2>3. \A j \in 1..n : reads[j] # None
    <3>1. \A j \in 1..n : Elems(r.pages)[j] \in Values
      BY <2>2
    <3>2. None \notin Values
      BY NoneIsNoElement DEF Values
    <3>3. QED
      BY <2>2, <3>1, <3>2
  <2> HIDE DEF n
  <2>4. i \in 1..n /\ \A j \in 1..i : j \in 1..n
    BY <1>6, <2>1 DEF n
  <2>5. Kept(i)
    BY <2>1, <2>3, <2>4
  <2>6. QED
    BY <2>2, <2>4, <2>5
<1>7. QED
  BY <1>3, <1>5, <1>6

LEMMA BufferedAll ==
  ASSUME NEW r, Orderly(r)
  PROVE  Buffered(r, r.count) = Elems(r.pages)
<1> DEFINE b == Buffered(r, r.count)
           e == Elems(r.pages)
<1>1. WellMade(r) /\ r.count \in Nat /\ r.count = Len(e) /\ e \in Seq(Values)
  <2>1. WellMade(r) /\ r.count = Len(e) /\ Packed(r.pages)
    BY DEF Orderly
  <2>2. r.pages \in Seq(Page) /\ r.count \in Nat
    BY <2>1, PagesOfWellMade
  <2>3. QED
    BY <2>1, <2>2, ElemsAre DEF Packed
<1>2. b \in Seq(Values) /\ Len(b) = r.count /\ \A i \in 1..(r.count) : i <= Len(e) => b[i] = e[i]
  BY <1>1, BufferedIs
<1> HIDE DEF b, e
<1>3. Len(b) = Len(e) /\ \A i \in 1..Len(b) : b[i] = e[i]
  BY <1>1, <1>2
<1>4. b = e
  BY <1>1, <1>2, <1>3, SeqEqual
<1>5. QED
  BY <1>4 DEF b, e

OnePage(r) == [slots |-> Buffered(r, r.capacity), count |-> r.count]

LEMMA ContiguousTyped ==
  ASSUME NEW r, WellMade(r)
  PROVE  /\ WellMade(Contiguous(r)) /\ SameFlags(Contiguous(r), r)
         /\ Contiguous(r).pages = <<OnePage(r)>> /\ OnePage(r) \in Page
         /\ Capacity(OnePage(r)) = r.capacity /\ OnePage(r).count = r.count
         /\ Contiguous(r).last = 1 /\ Contiguous(r).pageCount = 1
         /\ Contiguous(r).count = r.count /\ Contiguous(r).capacity = r.capacity
<1> DEFINE b == Buffered(r, r.capacity)
           page == OnePage(r)
           x == <<page>>
           s == Contiguous(r)
<1>1. r \in ArrayType /\ r.capacity \in Nat /\ r.count \in Nat
  BY PagesOfWellMade
<1>2. b \in Seq(Values) /\ Len(b) = r.capacity
  BY <1>1, BufferedIs
<1> HIDE DEF b
<1>3. page \in Page /\ Capacity(page) = r.capacity /\ page.count = r.count
  BY <1>1, <1>2 DEF OnePage, Page, Capacity, b
<1>4. s = [r EXCEPT !.pages = x, !.last = 1, !.pageCount = 1]
  BY DEF Contiguous, OnePage
<1> HIDE DEF s, page
<1>5. x \in Seq(Page) /\ Len(x) = 1
  BY <1>3
<1> HIDE DEF x
<1>6. 1 \in 0..(Word - 1)
  BY WordIsTyped
<1>7. /\ s \in ArrayType /\ s.pages = x /\ s.last = 1 /\ s.pageCount = 1
      /\ s.count = r.count /\ s.capacity = r.capacity /\ SameFlags(s, r)
  <2> HIDE DEF Page
  <2> QED
    BY <1>1, <1>4, <1>5, <1>6 DEF ArrayType, SameFlags
<1>8. WellMade(s)
  <2> HIDE DEF Page
  <2>1. Len(s.pages) = 1 /\ s.last = 1 /\ \A k \in 2..1 : FALSE
    BY <1>5, <1>7
  <2>2. QED
    BY <1>7, <2>1 DEF WellMade
<1>9. QED
  BY <1>3, <1>7, <1>8 DEF s, x, page

LEMMA ContiguousOrderly ==
  ASSUME NEW r, Orderly(r)
  PROVE  /\ Orderly(Contiguous(r)) /\ KeepsNumber(Contiguous(r), r)
         /\ Elems(Contiguous(r).pages) = Elems(r.pages)
<1> DEFINE s == Contiguous(r)
           page == OnePage(r)
           e == Elems(r.pages)
<1>1. WellMade(r) /\ Packed(r.pages) /\ r.count = Len(e) /\ r.capacity = Space(r.pages)
  BY DEF Orderly
<1>2. r.pages \in Seq(Page) /\ r.count \in Nat /\ r.capacity \in Nat
  BY <1>1, PagesOfWellMade
<1>3. e \in Seq(Values) /\ Len(e) <= Space(r.pages)
  BY <1>1, <1>2, ElemsAre, PagesLevel DEF Packed
<1>4. /\ WellMade(s) /\ s.pages = <<page>> /\ page \in Page /\ Capacity(page) = r.capacity
      /\ page.count = r.count /\ s.last = 1 /\ s.pageCount = 1 /\ s.count = r.count
      /\ s.capacity = r.capacity
  BY <1>1, ContiguousTyped
<1>5. page.count <= Capacity(page)
  BY <1>1, <1>3, <1>4
<1>6. Live(page) = e
  <2> DEFINE l == Live(page)
             b == Buffered(r, r.capacity)
  <2>1. l \in Seq(Values) /\ Len(l) = page.count /\ \A i \in 1..(page.count) : l[i] = page.slots[i]
    BY <1>4, <1>5, LiveTyped
  <2>2. page.slots = b
    BY DEF OnePage
  <2>3. \A i \in 1..(r.capacity) : i <= Len(e) => b[i] = e[i]
    BY <1>1, <1>2, BufferedIs
  <2> HIDE DEF l, b, e, page
  <2>4. Len(l) = Len(e) /\ \A i \in 1..Len(l) : l[i] = e[i]
    <3>1. Len(l) = Len(e)
      BY <1>1, <1>4, <2>1
    <3>2. ASSUME NEW i \in 1..Len(l) PROVE l[i] = e[i]
      <4>1. i \in 1..(page.count) /\ i \in 1..(r.capacity) /\ i <= Len(e)
        BY <1>1, <1>2, <1>3, <1>4, <2>1
      <4>2. QED
        BY <2>1, <2>2, <2>3, <4>1
    <3>3. QED
      BY <3>1, <3>2
  <2>5. l = e
    BY <1>3, <2>1, <2>4, SeqEqual
  <2>6. QED
    BY <2>5 DEF l, e, page
<1> HIDE DEF s, page, e
<1>7. /\ <<page>> \in Seq(Page) /\ Space(<<page>>) = Capacity(page)
      /\ Fit(<<page>>) /\ Elems(<<page>>) = Live(page)
  BY <1>4, <1>5, ElemsOfOne
<1>8. Packed(<<page>>) /\ Len(<<page>>) = 1
  <2>1. Len(<<page>>) = 1 /\ \A k \in 1..1 : \A j \in 1..(k - 1) : FALSE
    OBVIOUS
  <2>2. QED
    BY <1>7, <2>1 DEF Packed
<1>9. Orderly(s)
  BY <1>1, <1>4, <1>6, <1>7, <1>8 DEF Orderly
<1>10. KeepsNumber(s, r)
  BY <1>4, <1>8 DEF KeepsNumber
<1>11. QED
  BY <1>4, <1>6, <1>7, <1>9, <1>10 DEF s, e

LEMMA DeallocatedIs ==
  ASSUME NEW r
  PROVE  Deallocated(r) = IF r.deallocElement THEN Elems(r.pages) ELSE <<>>
BY DEF Deallocated, Elems, Lives, Live

--------------------------------------------------------------------------------
(* Pages behind pages, the copies of a clone, and new arrays.              *)

(* Full pages, and behind them packed ones, are packed.                    *)
LEMMA FullThenPacked ==
  ASSUME NEW x \in Seq(Page), Fit(x), IsFull(x), NEW y \in Seq(Page), Packed(y)
  PROVE  Packed(x \o y)
<1> DEFINE z == x \o y
<1>1. /\ z \in Seq(Page) /\ Len(z) = Len(x) + Len(y) /\ Len(x) \in Nat /\ Len(y) \in Nat
      /\ \A k \in 1..Len(x) : z[k] = x[k]
      /\ \A k \in 1..Len(y) : z[Len(x) + k] = y[k]
      /\ Fit(z)
  BY JoinedPages DEF Packed
<1> HIDE DEF z, Page
<1>2. ASSUME NEW k \in 1..Len(z), NEW j \in 1..(k - 1), z[k].count # 0
      PROVE  z[j].count = Capacity(z[j])
  <2>1. CASE j <= Len(x)
    <3>1. j \in 1..Len(x)
      BY <2>1
    <3>2. QED
      BY <1>1, <3>1 DEF IsFull
  <2>2. CASE j > Len(x)
    <3>1. /\ k - Len(x) \in 1..Len(y) /\ j - Len(x) \in 1..((k - Len(x)) - 1)
          /\ Len(x) + (k - Len(x)) = k /\ Len(x) + (j - Len(x)) = j /\ j - Len(x) \in 1..Len(y)
      BY <1>1, <2>2
    <3>2. z[k] = y[k - Len(x)] /\ z[j] = y[j - Len(x)]
      BY <1>1, <3>1
    <3>3. QED
      BY <1>2, <3>1, <3>2 DEF Packed
  <2>3. j \in Nat
    OBVIOUS
  <2>4. QED
    BY <1>1, <2>1, <2>2, <2>3
<1>3. QED
  BY <1>1, <1>2 DEF Packed, z

(* The pages up to lastPage.                                               *)
LEMMA UpToLast ==
  ASSUME NEW r, WellMade(r)
  PROVE  LET x == SubSeq(r.pages, 1, r.last) IN
         /\ x \in Seq(Page) /\ Len(x) = r.last
         /\ \A k \in 1..(r.last) : x[k] = r.pages[k]
         /\ r.last = Len(r.pages) => x = r.pages
<1>1. /\ r.pages \in Seq(Page) /\ r.last \in Nat /\ r.last <= Len(r.pages) /\ Len(r.pages) \in Nat
      /\ 1 \in Nat \ {0} /\ 1 <= r.last + 1
  BY PagesOfWellMade
<1> HIDE DEF Page
<1> DEFINE x == SubSeq(r.pages, 1, r.last)
           N == r.last
           p == r.pages
<1>2. p \in Seq(Page) /\ N \in Nat /\ N <= Len(p) /\ 1 <= N + 1
  BY <1>1
<1> HIDE DEF N, p
<1>3. /\ SubSeq(p, 1, N) \in Seq(Page) /\ Len(SubSeq(p, 1, N)) = (N + 1) - 1
      /\ \A i \in 1..((N + 1) - 1) : SubSeq(p, 1, N)[i] = p[(1 - 1) + i]
  BY <1>1, <1>2, PartIs
<1>4. (N + 1) - 1 = N /\ \A i \in 1..N : (1 - 1) + i = i
  BY <1>2
<1>5. N = Len(p) => SubSeq(p, 1, N) = p
  BY <1>2, PrefixEnds
<1>6. QED
  BY <1>3, <1>4, <1>5 DEF N, p

IsHooked(s, r, source) ==
    /\ WellMade(s) /\ SameFlags(s, r)
    /\ s.pages = SubSeq(r.pages, 1, r.last) \o source.pages
    /\ s.count = r.count + source.count /\ s.capacity = r.capacity + source.capacity
    /\ s.last = r.last /\ s.pageCount = r.pageCount

LEMMA HookedTyped ==
  ASSUME NEW r, WellMade(r), NEW source, WellMade(source)
  PROVE  IsHooked(Hooked(r, source), r, source)
<1> DEFINE s == Hooked(r, source)
           x == SubSeq(r.pages, 1, r.last)
           y == source.pages
           z == x \o y
           hidden == r.lost \/ CutOff(r) # <<>> \/ source.lost
           m == r.count + source.count
           c == r.capacity + source.capacity
<1>1. /\ r \in ArrayType /\ r.count \in Nat /\ r.capacity \in Nat /\ r.last \in Nat
      /\ source.count \in Nat /\ source.capacity \in Nat /\ y \in Seq(Page)
  BY PagesOfWellMade
<1>2. x \in Seq(Page) /\ Len(x) = r.last /\ \A k \in 1..(r.last) : x[k] = r.pages[k]
  BY UpToLast
<1> HIDE DEF x, y, Page
<1>3. /\ z \in Seq(Page) /\ Len(z) = r.last + Len(y) /\ Len(y) \in Nat
      /\ \A k \in 1..(r.last) : z[k] = r.pages[k]
  <2>1. y \in Seq(Page)
    BY <1>1 DEF y
  <2>2. /\ z \in Seq(Page) /\ Len(z) = Len(x) + Len(y) /\ Len(y) \in Nat
        /\ \A k \in 1..Len(x) : z[k] = x[k]
    BY <1>2, <2>1, JoinedPages
  <2>3. QED
    BY <1>2, <2>2
<1>4. hidden \in BOOLEAN /\ m \in Nat /\ c \in Nat
  BY <1>1
<1>5. s = [r EXCEPT !.pages = z, !.lost = hidden, !.count = m, !.capacity = c]
  BY DEF Hooked, x, y
<1> HIDE DEF s, z, hidden, m, c
<1>6. /\ s \in ArrayType /\ s.pages = z /\ s.last = r.last /\ s.pageCount = r.pageCount
      /\ s.count = m /\ s.capacity = c /\ SameFlags(s, r)
  BY <1>1, <1>3, <1>4, <1>5 DEF ArrayType, SameFlags
<1>7. WellMade(s)
  <2>1. r.last <= Len(z)
    BY <1>1, <1>3
  <2>2. \A k \in 2..(r.last) : k \in 1..(r.last) /\ Capacity(r.pages[k]) # 0
    BY <1>1 DEF WellMade
  <2>3. \A k \in 2..(s.last) : Capacity(s.pages[k]) # 0
    BY <1>3, <1>6, <2>2
  <2>4. QED
    BY <1>6, <2>1, <2>3 DEF WellMade
<1>8. QED
  BY <1>6, <1>7 DEF IsHooked, s, z, m, c, x, y

(* An array whose elements are those of its pages, though lastPage may not *)
(* be the last of them.                                                    *)
Readable(r) == r.pages \in Seq(Page) /\ Packed(r.pages) /\ r.count = Len(Elems(r.pages))

LEMMA HookedReads ==
  ASSUME NEW r, Orderly(r), IsFull(r.pages), NEW source, Orderly(source)
  PROVE  /\ Readable(Hooked(r, source))
         /\ Elems(Hooked(r, source).pages) = Elems(r.pages) \o Elems(source.pages)
<1> DEFINE s == Hooked(r, source)
           x == r.pages
           y == source.pages
<1>1. /\ WellMade(r) /\ Packed(x) /\ Fit(x) /\ r.last = Len(x) /\ r.count = Len(Elems(x))
      /\ WellMade(source) /\ Packed(y) /\ Fit(y) /\ source.count = Len(Elems(y))
  BY DEF Orderly, Packed
<1>2. x \in Seq(Page) /\ y \in Seq(Page)
  BY <1>1, PagesOfWellMade
<1>3. IsHooked(s, r, source)
  BY <1>1, HookedTyped
<1>4. s.pages = x \o y /\ s.count = r.count + source.count
  <2>1. SubSeq(x, 1, r.last) = x
    BY <1>1, UpToLast
  <2>2. QED
    BY <1>3, <2>1 DEF IsHooked
<1> HIDE DEF s, x, y, Page
<1>5. x \o y \in Seq(Page)
  BY <1>2, JoinedPages
<1>6. Packed(x \o y)
  <2>1. IsFull(x)
    BY DEF x
  <2>2. QED
    BY <1>1, <1>2, <2>1, FullThenPacked
<1>7. Elems(x \o y) = Elems(x) \o Elems(y) /\ Len(Elems(x \o y)) = Len(Elems(x)) + Len(Elems(y))
  BY <1>1, <1>2, ElemsJoin
<1>8. QED
  BY <1>1, <1>4, <1>5, <1>6, <1>7 DEF Readable, s, x, y

LEMMA CopiedTyped ==
  ASSUME NEW r, WellMade(r), NEW source, WellMade(source)
  PROVE  WellMade(Copied(r, source))
<1>1. source.count \in Nat
  BY PagesOfWellMade
<1>2. Buffered(source, source.count) \in Seq(Values)
  BY <1>1, BufferedIs
<1>3. QED
  BY <1>2, AddedAllTyped DEF Copied

LEMMA CopiedOrderly ==
  ASSUME NEW r, Orderly(r), NEW source, Orderly(source)
  PROVE  IsAdded(Copied(r, source), r, Elems(source.pages))
<1>1. WellMade(source) /\ source.count \in Nat
  BY PagesOfWellMade DEF Orderly
<1>2. Buffered(source, source.count) \in Seq(Values)
  BY <1>1, BufferedIs
<1>3. Buffered(source, source.count) = Elems(source.pages)
  BY BufferedAll
<1>4. QED
  BY <1>2, <1>3, AddedAllOrderly DEF Copied

(* An array that has no pages.                                             *)
IsBare(s) == s \in ArrayType /\ s.pages = <<>> /\ s.last = 0 /\ s.count = 0 /\ s.capacity = 0

LEMMA BareIs ==
  ASSUME NEW s, IsBare(s)
  PROVE  Orderly(s) /\ Elems(s.pages) = <<>>
<1> DEFINE x == <<>>
<1>1. x \in Seq(Page) /\ Len(x) = 0
  OBVIOUS
<1>2. s \in ArrayType /\ s.pages = x /\ s.last = 0 /\ s.count = 0 /\ s.capacity = 0
  BY DEF IsBare
<1>3. Memory(x) = <<>>
  BY DEF Memory
<1> HIDE DEF x, Page
<1>4. Fit(x) /\ Packed(x)
  <2>1. DOMAIN x = {} /\ 1..Len(x) = {}
    BY <1>1
  <2>2. QED
    BY <2>1 DEF Fit, Packed
<1>5. Elems(x) = <<>>
  <2>1. \A k \in 1..Len(x) : x[k].count = 0
    BY <1>1
  <2>2. QED
    BY <1>1, <1>4, <2>1, NoElems
<1>6. Space(x) = 0
  BY <1>3, FlattenNone DEF Space
<1>7. WellMade(s)
  <2>1. 2..0 = {} /\ s.last <= Len(s.pages)
    BY <1>1, <1>2
  <2>2. QED
    BY <1>2, <2>1 DEF WellMade
<1>8. Orderly(s)
  <2>1. Len(Elems(x)) = 0
    BY <1>5
  <2>2. QED
    BY <1>1, <1>2, <1>4, <1>6, <1>7, <2>1 DEF Orderly
<1>9. QED
  BY <1>2, <1>5, <1>8

(* What avDynamicArrayClone starts from.                                   *)
Bared(r) == [Blank EXCEPT !.growSize = r.growSize, !.deallocElement = r.deallocElement]

LEMMA BlankIsBare ==
  /\ IsBare(Blank)
  /\ \A r \in ArrayType : IsBare(Bared(r))
<1>1. Blank \in ArrayType
  <2>1. <<>> \in Seq(Page) /\ 0 \in 0..(Word - 1) /\ DefaultGrowSize \in Nat \ {0}
    BY WordIsTyped
  <2> HIDE DEF Page
  <2>2. QED
    BY <2>1 DEF Blank, ArrayType
<1>2. Blank.pages = <<>> /\ Blank.last = 0 /\ Blank.count = 0 /\ Blank.capacity = 0
  BY DEF Blank
<1> DEFINE b == Blank
<1>3. b \in ArrayType /\ b.pages = <<>> /\ b.last = 0 /\ b.count = 0 /\ b.capacity = 0
  BY <1>1, <1>2
<1> HIDE DEF b, Page
<1>4. ASSUME NEW r \in ArrayType PROVE IsBare(Bared(r))
  <2>1. r.growSize \in Nat \ {0} /\ r.deallocElement \in BOOLEAN
    BY FieldsTyped
  <2>2. Bared(r) = [b EXCEPT !.growSize = r.growSize, !.deallocElement = r.deallocElement]
    BY DEF Bared, b
  <2>3. QED
    BY <1>3, <2>1, <2>2 DEF IsBare, ArrayType
<1>5. QED
  BY <1>1, <1>2, <1>4 DEF IsBare

(* avDynamicArrayCreate.                                                   *)
Created(n) == IF n = 0 THEN Blank ELSE PageAdded(Blank, n)

LEMMA CreatedOrderly ==
  ASSUME NEW n \in Nat
  PROVE  /\ Orderly(Created(n)) /\ Elems(Created(n).pages) = <<>>
         /\ Created(n).count = 0 /\ Created(n).capacity = n
<1>1. Orderly(Blank) /\ Elems(Blank.pages) = <<>>
  BY BareIs, BlankIsBare
<1>2. Blank.count = 0 /\ Blank.capacity = 0
  BY DEF Blank
<1>3. CASE n = 0
  BY <1>1, <1>2, <1>3 DEF Created
<1>4. CASE n # 0
  <2> DEFINE b == Blank
             s == PageAdded(b, n)
  <2>1. n \in Nat \ {0} /\ Orderly(b) /\ WellMade(b)
    BY <1>1, <1>4 DEF Orderly
  <2>2. b.count = 0 /\ b.capacity = 0
    BY <1>2
  <2> HIDE DEF b
  <2>3. Orderly(s) /\ Elems(s.pages) = Elems(b.pages)
    BY <2>1, PageAddedOrderly
  <2>4. s.count = b.count /\ s.capacity = b.capacity + n
    BY <2>1, PageAddedTyped
  <2>5. Created(n) = s
    BY <1>4 DEF Created, b
  <2> HIDE DEF s
  <2>6. s.count = 0 /\ s.capacity = n
    BY <2>2, <2>4
  <2>7. Elems(b.pages) = <<>>
    BY <1>1 DEF b
  <2>8. QED
    BY <2>3, <2>5, <2>6, <2>7
<1>5. QED
  BY <1>3, <1>4

LEMMA ClonedTyped ==
  ASSUME NEW r, WellMade(r), CutOff(r) = <<>>
  PROVE  /\ WellMade(Cloned(r)) /\ Cloned(r).count \in {0, r.count}
         /\ Cloned(r).capacity \in {0, r.capacity}
<1> DEFINE blank == Bared(r)
           n == IF r.last > 1 THEN r.last - 1 ELSE Len(r.pages)
           x == SubSeq(r.pages, 1, n)
           s == Cloned(r)
<1>1. /\ r.pages \in Seq(Page) /\ Len(r.pages) \in Nat /\ r.last \in Nat /\ r.last <= Len(r.pages)
      /\ r.count \in Nat /\ r.capacity \in Nat /\ r.growSize \in Nat \ {0} /\ r.deallocElement \in BOOLEAN
  <2>1. r.deallocElement \in BOOLEAN
    BY FieldsTyped DEF WellMade
  <2>2. QED
    BY <2>1, PagesOfWellMade
<1>2. IsBare(blank)
  BY BlankIsBare DEF WellMade
<1>3. WellMade(blank) /\ blank \in ArrayType
  BY <1>2, BareIs DEF Orderly, WellMade
<1>4. blank.count = 0 /\ blank.capacity = 0
  BY <1>2 DEF IsBare
<1>5. r.last = Len(r.pages)
  <2>1. Len(CutOff(r)) = 0
    OBVIOUS
  <2>2. r.last + 1 \in Nat \ {0} /\ r.last + 1 <= Len(r.pages) + 1
    BY <1>1
  <2> DEFINE p == r.pages
             m == r.last + 1
             k == Len(r.pages)
  <2>3. p \in Seq(Page) /\ m \in Nat \ {0} /\ k \in Nat /\ k <= Len(p) /\ m <= k + 1
    BY <1>1, <2>2
  <2>4. CutOff(r) = SubSeq(p, m, k)
    BY DEF CutOff
  <2> HIDE DEF p, m, k, Page
  <2>5. Len(SubSeq(p, m, k)) = (k + 1) - m
    BY <2>3, PartIs
  <2>6. (k + 1) - m = 0
    BY <2>1, <2>4, <2>5
  <2>7. QED
    BY <1>1, <2>3, <2>6 DEF m, k
<1>6. n \in Nat /\ n <= Len(r.pages) /\ 1 \in Nat \ {0} /\ 1 <= n + 1 /\ n <= r.last
  BY <1>1, <1>5
<1>7. x \in Seq(Page) /\ Len(x) = n /\ \A k \in 1..n : x[k] = r.pages[k]
  <2> DEFINE p == r.pages
  <2>1. p \in Seq(Page) /\ n <= Len(p)
    BY <1>1, <1>6
  <2> HIDE DEF p, n, Page
  <2>2. /\ SubSeq(p, 1, n) \in Seq(Page) /\ Len(SubSeq(p, 1, n)) = (n + 1) - 1
        /\ \A i \in 1..((n + 1) - 1) : SubSeq(p, 1, n)[i] = p[(1 - 1) + i]
    BY <1>6, <2>1, PartIs
  <2>3. (n + 1) - 1 = n /\ \A i \in 1..n : (1 - 1) + i = i
    BY <1>6
  <2>4. QED
    BY <2>2, <2>3 DEF p
<1>8. s = IF r.count = 0 THEN blank
          ELSE [blank EXCEPT !.pages = x, !.last = Len(x), !.count = r.count, !.capacity = r.capacity]
  BY DEF Cloned, Bared
<1> HIDE DEF s, x, blank, Page
<1>9. CASE r.count = 0
  BY <1>3, <1>4, <1>8, <1>9 DEF s
<1>10. CASE r.count # 0
  <2> DEFINE l == Len(x)
  <2>1. s = [blank EXCEPT !.pages = x, !.last = l, !.count = r.count, !.capacity = r.capacity]
    BY <1>8, <1>10
  <2>2. l \in Nat /\ l = n
    BY <1>6, <1>7
  <2> HIDE DEF l, n
  <2>3. /\ s \in ArrayType /\ s.pages = x /\ s.last = l /\ s.count = r.count /\ s.capacity = r.capacity
    BY <1>1, <1>3, <1>7, <2>1, <2>2 DEF ArrayType
  <2>4. \A k \in 2..l : k \in 1..n /\ k \in 2..(r.last)
    BY <1>1, <1>6, <2>2
  <2>5. \A k \in 2..(s.last) : Capacity(s.pages[k]) # 0
    BY <1>7, <2>3, <2>4 DEF WellMade
  <2>6. s.last <= Len(s.pages)
    BY <1>6, <1>7, <2>2, <2>3
  <2>7. QED
    BY <2>3, <2>5, <2>6 DEF WellMade, s
<1>11. QED
  BY <1>9, <1>10

(* A clone of one page has the elements of its source.                     *)
LEMMA ClonedOrderly ==
  ASSUME NEW r, Orderly(r), Len(r.pages) <= 1
  PROVE  Orderly(Cloned(r)) /\ Elems(Cloned(r).pages) = Elems(r.pages)
<1> DEFINE blank == Bared(r)
           s == Cloned(r)
           p == r.pages
<1>1. /\ WellMade(r) /\ p \in Seq(Page) /\ Len(p) \in Nat /\ r.last = Len(p)
      /\ r.count \in Nat /\ r.capacity \in Nat /\ r.growSize \in Nat \ {0} /\ r.deallocElement \in BOOLEAN
      /\ Packed(p) /\ r.count = Len(Elems(p)) /\ r.capacity = Space(p)
  <2>1. WellMade(r) /\ r.last = Len(p) /\ Packed(p) /\ r.count = Len(Elems(p)) /\ r.capacity = Space(p)
    BY DEF Orderly
  <2>2. r.deallocElement \in BOOLEAN
    BY <2>1, FieldsTyped DEF WellMade
  <2>3. QED
    BY <2>1, <2>2, PagesOfWellMade
<1>2. CutOff(r) = <<>>
  <2>1. CutOff(r) = SubSeq(p, Len(p) + 1, Len(p))
    BY <1>1 DEF CutOff
  <2>2. Len(p) + 1 > Len(p)
    BY <1>1
  <2> HIDE DEF p, Page
  <2>3. QED
    BY <1>1, <2>1, <2>2
<1>3. Orderly(blank) /\ Elems(blank.pages) = <<>> /\ blank \in ArrayType
  <2>1. r \in ArrayType
    BY <1>1 DEF WellMade
  <2>2. IsBare(blank)
    BY <2>1, BlankIsBare
  <2>3. QED
    BY <2>2, BareIs DEF Orderly, WellMade
<1>4. CASE r.count = 0
  <2>1. s = blank
    BY <1>4 DEF Cloned, Bared
  <2>2. Elems(p) \in Seq(Values) /\ Len(Elems(p)) = 0
    BY <1>1, <1>4, ElemsAre DEF Packed
  <2> HIDE DEF s, blank, p
  <2>3. Elems(p) = <<>>
    BY <2>2
  <2>4. QED
    BY <1>3, <2>1, <2>3 DEF s, p
<1>5. CASE r.count # 0
  <2> DEFINE l == Len(p)
  <2>1. ~(r.last > 1)
    BY <1>1
  <2>2. SubSeq(p, 1, Len(p)) = p
    <3> HIDE DEF p, Page
    <3> QED
      BY <1>1, PrefixEnds
  <2>3. s = [blank EXCEPT !.pages = p, !.last = l, !.count = r.count, !.capacity = r.capacity]
    BY <1>5, <2>1, <2>2 DEF Cloned, Bared
  <2>4. WellMade(s)
    BY <1>1, <1>2, ClonedTyped
  <2> HIDE DEF s, blank, p, l, Page
  <2>5. s.pages = p /\ s.last = l /\ s.count = r.count /\ s.capacity = r.capacity
    BY <1>3, <2>3 DEF ArrayType
  <2>6. Orderly(s)
    BY <1>1, <2>4, <2>5 DEF Orderly, l
  <2>7. QED
    BY <2>5, <2>6 DEF s, p
<1>6. QED
  BY <1>4, <1>5

--------------------------------------------------------------------------------
(* Every reachable array is well made.                                     *)

(* The counters fit their words.                                           *)
Held(r) == WellMade(r) /\ Small(r)
AllHeld(arrays) == DOMAIN arrays \subseteq Arrays /\ \A a \in DOMAIN arrays : Held(arrays[a])

(* The inductive invariant: what a call is given of an array, whether or   *)
(* not an append or a clone has put it out of order.                       *)
ArraysWellMade == AllHeld(array) /\ released \in Seq(Values)

LEMMA BoundedIsSmall ==
  ASSUME NEW r, WellMade(r), Bounded(r)
  PROVE  Held(r)
<1>1. r.count \in Nat /\ r.capacity \in Nat /\ r.count <= MaxCount /\ r.capacity <= MaxCapacity
  BY PagesOfWellMade DEF Bounded
<1>2. MaxCount \in Nat /\ MaxCapacity \in Nat /\ Word \in Nat /\ Word > MaxCount /\ Word > MaxCapacity
  BY Bounds, WordHoldsTheCounters
<1>3. QED
  BY <1>1, <1>2 DEF Held, Small

LEMMA ArrayReplaced ==
  ASSUME NEW f, AllHeld(f), NEW a \in DOMAIN f, NEW r, Held(r)
  PROVE  AllHeld([f EXCEPT ![a] = r])
BY DEF AllHeld

LEMMA ArrayAdded ==
  ASSUME NEW f, AllHeld(f), NEW a \in Arrays, NEW r, Held(r)
  PROVE  AllHeld([b \in DOMAIN f \cup {a} |-> IF b = a THEN r ELSE f[b]])
BY DEF AllHeld

LEMMA ReturnsKeeps ==
  ASSUME ArraysWellMade, NEW a \in DOMAIN array, NEW r, WellMade(r), Returns(a, r)
  PROVE  ArraysWellMade'
<1>1. Held(r)
  BY BoundedIsSmall DEF Returns
<1>2. AllHeld([array EXCEPT ![a] = r])
  BY <1>1, ArrayReplaced DEF ArraysWellMade
<1>3. <<>> \in Seq(Values)
  OBVIOUS
<1>4. QED
  BY <1>2, <1>3 DEF Returns, ArraysWellMade

LEMMA UsableIs ==
  ASSUME ArraysWellMade, NEW a, Usable(a)
  PROVE  a \in DOMAIN array /\ WellMade(array[a]) /\ Small(array[a]) /\ Fit(array[a].pages)
BY DEF ArraysWellMade, AllHeld, Held, Usable, Exists, Fit

LEMMA FlagSet ==
  ASSUME NEW r, WellMade(r)
  PROVE  /\ \A n \in Sizes : WellMade([r EXCEPT !.growSize = n])
         /\ \A b \in BOOLEAN : WellMade([r EXCEPT !.allowRelocation = b])
         /\ \A b \in BOOLEAN : WellMade([r EXCEPT !.deallocElement = b])
<1>1. Sizes \subseteq Nat \ {0}
  BY WordIsTyped
<1> HIDE DEF Page
<1>2. QED
  BY <1>1 DEF WellMade, ArrayType

LEMMA DeallocatedTyped ==
  ASSUME NEW r, WellMade(r), Fit(r.pages)
  PROVE  Deallocated(r) \in Seq(Values)
<1>1. r.pages \in Seq(Page)
  BY PagesOfWellMade
<1>2. Elems(r.pages) \in Seq(Values) /\ <<>> \in Seq(Values)
  BY <1>1, ElemsAre
<1>3. QED
  BY <1>2, DeallocatedIs

(* Next, action by action.                                                 *)
OneArrayStep(a) ==
    \/ \E n \in Sizes \cup {0} : Create(a, n) \/ Reserve(a, n)
    \/ Destroy(a) \/ Trim(a) \/ MakeContiguous(a) \/ AddEmpty(a)
    \/ \E e \in Elements : Add(a, e)
    \/ \E e \in Elements, f \in Elements : AddRange(a, <<e, f>>)
    \/ \E n \in Sizes : SetGrowSize(a, n)
    \/ \E b \in Relocation : SetAllowRelocation(a, b)
    \/ \E b \in Callbacks : SetDeallocateElementCallback(a, b)
    \/ \E v \in Values : Clear(a, v)

IndexStep(a, index) ==
    \/ RemoveIndex(a, index) \/ RemoveIndexFails(a, index)
    \/ \E es \in Seq(Values) : WriteRange(a, index, es)

TwoArraysStep(a, b) == AppendCopies(a, b) \/ AppendPages(a, b) \/ Clone(a, b)

LEMMA NextIs ==
  ASSUME ArraysWellMade, Next
  PROVE  \/ \E a \in Arrays : OneArrayStep(a)
         \/ \E a \in Arrays : \E index \in Nat : IndexStep(a, index)
         \/ \E a, b \in Arrays : TwoArraysStep(a, b)
<1>1. CASE \E a \in Arrays : OneArrayStep(a)
  BY <1>1
<1>2. CASE \E a \in DOMAIN array : \E index \in 0..(array[a].count) :
              \/ RemoveIndex(a, index) \/ RemoveIndexFails(a, index)
              \/ \E e \in Elements : WriteRange(a, index, <<e>>)
              \/ \E e \in Elements, f \in Elements : WriteRange(a, index, <<e, f>>)
  <2>1. PICK a \in DOMAIN array : \E index \in 0..(array[a].count) :
              \/ RemoveIndex(a, index) \/ RemoveIndexFails(a, index)
              \/ \E e \in Elements : WriteRange(a, index, <<e>>)
              \/ \E e \in Elements, f \in Elements : WriteRange(a, index, <<e, f>>)
    BY <1>2
  <2>2. a \in Arrays /\ array[a].count \in Nat
    BY PagesOfWellMade DEF ArraysWellMade, AllHeld, Held
  <2>3. PICK index \in 0..(array[a].count) :
              \/ RemoveIndex(a, index) \/ RemoveIndexFails(a, index)
              \/ \E e \in Elements : WriteRange(a, index, <<e>>)
              \/ \E e \in Elements, f \in Elements : WriteRange(a, index, <<e, f>>)
    BY <2>1
  <2>4. index \in Nat
    BY <2>2
  <2>5. \A e \in Elements : \A f \in Elements : <<e>> \in Seq(Values) /\ <<e, f>> \in Seq(Values)
    BY DEF Values
  <2>6. IndexStep(a, index)
    BY <2>3, <2>5 DEF IndexStep
  <2>7. QED
    BY <2>2, <2>4, <2>6
<1>3. CASE \E a, b \in Arrays : TwoArraysStep(a, b)
  BY <1>3
<1>4. QED
  BY <1>1, <1>2, <1>3 DEF Next, OneArrayStep, TwoArraysStep

LEMMA OneArrayStepKeeps ==
  ASSUME ArraysWellMade, NEW a \in Arrays, OneArrayStep(a)
  PROVE  ArraysWellMade'
<1> DEFINE r == array[a]
<1>1. /\ Usable(a) => a \in DOMAIN array /\ WellMade(r) /\ Small(r) /\ Fit(r.pages)
      /\ Exists(a) => a \in DOMAIN array /\ WellMade(r)
      /\ AllHeld(array)
  BY UsableIs DEF ArraysWellMade, AllHeld, Held, Exists
<1> HIDE DEF r, Page
<1>2. ASSUME NEW n \in Sizes \cup {0}, Create(a, n) PROVE ArraysWellMade'
  <2>1. n \in Nat /\ n < Word /\ 0 < Word /\ Word \in Nat
    BY SizesArePositive, WordHoldsTheCounters
  <2>2. Held(Created(n))
    BY <2>1, CreatedOrderly DEF Held, Small, Orderly
  <2> HIDE DEF Created
  <2>3. AllHeld([b \in DOMAIN array \cup {a} |-> IF b = a THEN Created(n) ELSE array[b]])
    BY <1>1, <2>2, ArrayAdded
  <2>4. array' = [b \in DOMAIN array \cup {a} |-> IF b = a THEN Created(n) ELSE array[b]]
    BY <1>2 DEF Create, Makes, Created
  <2>5. released' = <<>> /\ <<>> \in Seq(Values)
    BY <1>2 DEF Create
  <2>6. QED
    BY <2>3, <2>4, <2>5 DEF ArraysWellMade
<1>3. ASSUME NEW n \in Sizes \cup {0}, Reserve(a, n) PROVE ArraysWellMade'
  <2>1. n \in Nat /\ Usable(a) /\ Returns(a, Reserved(r, n))
    BY <1>3, WordIsTyped DEF Reserve, r
  <2>2. WellMade(Reserved(r, n))
    BY <1>1, <2>1, ReservedTyped
  <2>3. QED
    BY <1>1, <2>1, <2>2, ReturnsKeeps
<1>4. CASE Destroy(a)
  <2>1. Usable(a) /\ array' = Restrict(array, DOMAIN array \ {a}) /\ released' = Deallocated(r)
    BY <1>4 DEF Destroy, r
  <2>2. AllHeld(Restrict(array, DOMAIN array \ {a}))
    BY <1>1 DEF AllHeld, Restrict
  <2>3. Deallocated(r) \in Seq(Values)
    BY <1>1, <2>1, DeallocatedTyped
  <2>4. QED
    BY <2>1, <2>2, <2>3 DEF ArraysWellMade
<1>5. CASE Trim(a)
  <2>1. Usable(a) /\ Returns(a, Trimmed(r))
    BY <1>5 DEF Trim, r
  <2>2. WellMade(Trimmed(r))
    BY <1>1, <2>1, TrimmedTyped
  <2>3. QED
    BY <1>1, <2>1, <2>2, ReturnsKeeps
<1>6. CASE MakeContiguous(a)
  <2>1. Usable(a) /\ Returns(a, Contiguous(r))
    BY <1>6 DEF MakeContiguous, r
  <2>2. WellMade(Contiguous(r))
    BY <1>1, <2>1, ContiguousTyped
  <2>3. QED
    BY <1>1, <2>1, <2>2, ReturnsKeeps
<1>7. CASE AddEmpty(a)
  <2>1. Usable(a) /\ Returns(a, AddedEmpty(r))
    BY <1>7 DEF AddEmpty, r
  <2>2. WellMade(AddedEmpty(r))
    BY <1>1, <2>1, AddedEmptyTyped
  <2>3. QED
    BY <1>1, <2>1, <2>2, ReturnsKeeps
<1>8. ASSUME NEW e \in Elements, Add(a, e) PROVE ArraysWellMade'
  <2>1. Usable(a) /\ Returns(a, Added(r, e)) /\ e \in Values
    BY <1>8 DEF Add, r, Values
  <2>2. WellMade(Added(r, e))
    BY <1>1, <2>1, AddedTyped
  <2>3. QED
    BY <1>1, <2>1, <2>2, ReturnsKeeps
<1>9. ASSUME NEW e \in Elements, NEW f \in Elements, AddRange(a, <<e, f>>) PROVE ArraysWellMade'
  <2>1. Usable(a) /\ Returns(a, AddedAll(r, <<e, f>>)) /\ <<e, f>> \in Seq(Values)
    BY <1>9 DEF AddRange, r, Values
  <2>2. WellMade(AddedAll(r, <<e, f>>))
    BY <1>1, <2>1, AddedAllTyped
  <2>3. QED
    BY <1>1, <2>1, <2>2, ReturnsKeeps
<1>10. ASSUME NEW n \in Sizes, SetGrowSize(a, n) PROVE ArraysWellMade'
  <2> DEFINE s == [r EXCEPT !.growSize = n]
  <2>1. Exists(a) /\ Returns(a, s)
    BY <1>10 DEF SetGrowSize, r
  <2>2. WellMade(s)
    BY <1>1, <2>1, FlagSet
  <2> HIDE DEF s
  <2>3. QED
    BY <1>1, <2>1, <2>2, ReturnsKeeps
<1>11. ASSUME NEW b \in Relocation, SetAllowRelocation(a, b) PROVE ArraysWellMade'
  <2> DEFINE s == [r EXCEPT !.allowRelocation = b]
  <2>1. Exists(a) /\ Returns(a, s) /\ b \in BOOLEAN
    BY <1>11, FlagsAreBooleans DEF SetAllowRelocation, r
  <2>2. WellMade(s)
    BY <1>1, <2>1, FlagSet
  <2> HIDE DEF s
  <2>3. QED
    BY <1>1, <2>1, <2>2, ReturnsKeeps
<1>12. ASSUME NEW b \in Callbacks, SetDeallocateElementCallback(a, b) PROVE ArraysWellMade'
  <2> DEFINE s == [r EXCEPT !.deallocElement = b]
  <2>1. Exists(a) /\ Returns(a, s) /\ b \in BOOLEAN
    BY <1>12, FlagsAreBooleans DEF SetDeallocateElementCallback, r
  <2>2. WellMade(s)
    BY <1>1, <2>1, FlagSet
  <2> HIDE DEF s
  <2>3. QED
    BY <1>1, <2>1, <2>2, ReturnsKeeps
<1>13. ASSUME NEW v \in Values, Clear(a, v) PROVE ArraysWellMade'
  <2>1. Usable(a) /\ Returns(a, Cleared(r, v))
    BY <1>13 DEF Clear, r
  <2>2. WellMade(Cleared(r, v))
    BY <1>1, <2>1, ClearedIs DEF IsCleared
  <2>3. QED
    BY <1>1, <2>1, <2>2, ReturnsKeeps
<1>14. QED
  BY <1>2, <1>3, <1>4, <1>5, <1>6, <1>7, <1>8, <1>9, <1>10, <1>11, <1>12, <1>13 DEF OneArrayStep

LEMMA RemovedHeld ==
  ASSUME NEW r, Held(r), Fit(r.pages), NEW index \in Nat, Found(r, index)
  PROVE  Held(Removed(r, index))
<1> DEFINE s == Removed(r, index)
<1>1. /\ WellMade(r) /\ r.pages \in Seq(Page) /\ r.count \in Nat /\ r.capacity \in Nat
      /\ r.count < Word /\ r.capacity < Word
      /\ \A k \in 1..Len(r.pages) : r.pages[k].count \in Nat /\ Capacity(r.pages[k]) \in Nat
  BY PagesOfWellMade DEF Held, Small
<1>2. WellMade(s)
  BY <1>1, RemovedTyped
<1>3. PICK k \in 1..Len(r.pages) : \E i \in 1..Capacity(r.pages[k]) :
          Locate(r, index) = <<k, i>> /\ i <= r.pages[k].count
  BY <1>1, ReadsTyped
<1>4. PICK i \in 1..Capacity(r.pages[k]) : Locate(r, index) = <<k, i>> /\ i <= r.pages[k].count
  BY <1>3
<1>5. i \in 1..(r.pages[k].count)
  BY <1>1, <1>4
<1>6. IsTakenWith(s, r, k) \/ \E page : IsTakenFrom(s, r, k, i, page)
  BY <1>1, <1>4, <1>5, RemovedIs
<1> HIDE DEF s, Page
<1>7. CASE IsTakenWith(s, r, k)
  <2>1. /\ s.count = Minus(r.count, 1) /\ s.capacity = Minus(r.capacity, Capacity(r.pages[k]))
        /\ 1 \in Int /\ Capacity(r.pages[k]) \in Int
    BY <1>1, <1>7 DEF IsTakenWith
  <2>2. s.count \in 0..(Word - 1) /\ s.capacity \in 0..(Word - 1)
    BY <1>1, <2>1, MinusTyped
  <2>3. Small(s)
    BY <2>2, WordIsTyped DEF Small
  <2>4. QED
    BY <1>2, <2>3 DEF Held, s
<1>8. ASSUME NEW page, IsTakenFrom(s, r, k, i, page) PROVE Held(s)
  <2>1. /\ s.count = Minus(r.count, 1) /\ page \in Page
        /\ s.capacity = r.capacity \/ s.capacity = Minus(r.capacity, Capacity(r.pages[k]) - Capacity(page))
    BY <1>8 DEF IsTakenFrom, IsWithout
  <2>2. 1 \in Int /\ Capacity(r.pages[k]) - Capacity(page) \in Int
    <3>1. Capacity(page) \in Nat
      BY <2>1 DEF Page, Capacity
    <3>2. QED
      BY <1>1, <3>1
  <2>3. s.count \in 0..(Word - 1) /\ (s.capacity = r.capacity \/ s.capacity \in 0..(Word - 1))
    BY <1>1, <2>1, <2>2, MinusTyped
  <2>4. Small(s)
    BY <1>1, <2>3, WordIsTyped DEF Small
  <2>5. QED
    BY <1>2, <2>4 DEF Held
<1>9. Held(s)
  BY <1>6, <1>7, <1>8 DEF s
<1>10. QED
  BY <1>9 DEF s

LEMMA IndexStepKeeps ==
  ASSUME ArraysWellMade, NEW a \in Arrays, NEW index \in Nat, IndexStep(a, index)
  PROVE  ArraysWellMade'
<1> DEFINE r == array[a]
<1>1. Usable(a) => /\ a \in DOMAIN array /\ WellMade(r) /\ Held(r) /\ Fit(r.pages) /\ AllHeld(array)
                   /\ r.pages \in Seq(Page)
  BY UsableIs, PagesOfWellMade DEF Held, ArraysWellMade
<1> HIDE DEF r, Page
<1>2. CASE RemoveIndex(a, index)
  <2>1. /\ Usable(a) /\ Found(r, index) /\ array' = [array EXCEPT ![a] = Removed(r, index)]
        /\ released' = IF r.deallocElement THEN <<Reads(r)[index + 1]>> ELSE <<>>
    BY <1>2, <1>1 DEF RemoveIndex, r
  <2>2. Held(Removed(r, index))
    BY <1>1, <2>1, RemovedHeld
  <2>3. AllHeld(array')
    BY <1>1, <2>1, <2>2, ArrayReplaced
  <2>4. Reads(r)[index + 1] \in Values
    BY <1>1, <2>1, ReadsTyped
  <2>5. QED
    BY <2>1, <2>3, <2>4 DEF ArraysWellMade
<1>3. CASE RemoveIndexFails(a, index)
  <2>1. Usable(a) /\ Returns(a, r)
    BY <1>3 DEF RemoveIndexFails, r
  <2>2. QED
    BY <1>1, <2>1, ReturnsKeeps
<1>4. ASSUME NEW es \in Seq(Values), WriteRange(a, index, es) PROVE ArraysWellMade'
  <2>1. Usable(a) /\ Returns(a, WrittenAll(r, index, es))
    BY <1>4 DEF WriteRange, r
  <2>2. WellMade(WrittenAll(r, index, es))
    BY <1>1, <2>1, WrittenAllTyped
  <2>3. QED
    BY <1>1, <2>1, <2>2, ReturnsKeeps
<1>5. QED
  BY <1>2, <1>3, <1>4 DEF IndexStep

LEMMA BecomesKeeps ==
  ASSUME ArraysWellMade, NEW dst, NEW src, NEW r, WellMade(r), Becomes(dst, r, src)
  PROVE  AllHeld(array')
<1>1. Held(r) /\ AllHeld(array)
  BY BoundedIsSmall DEF Becomes, ArraysWellMade
<1>2. QED
  BY <1>1 DEF Becomes, AllHeld

LEMMA TwoArraysStepKeeps ==
  ASSUME ArraysWellMade, NEW a \in Arrays, NEW b \in Arrays, TwoArraysStep(a, b)
  PROVE  ArraysWellMade'
<1> DEFINE r == array[a]
           source == array[b]
           t == Trimmed(r)
<1>1. /\ Usable(a) => WellMade(r) /\ Small(r) /\ Fit(r.pages) /\ AllHeld(array)
      /\ Usable(b) => WellMade(source) /\ Fit(source.pages)
  BY UsableIs DEF ArraysWellMade
<1>2. Usable(a) => WellMade(t)
  BY <1>1, TrimmedTyped
<1> HIDE DEF r, source, t, Page
<1>3. CASE AppendCopies(a, b)
  <2>1. /\ Usable(a) /\ Usable(b) /\ Becomes(a, Copied(t, source), b)
        /\ released' = Deallocated(source)
    BY <1>3 DEF AppendCopies, Appending, r, source, t
  <2>2. WellMade(Copied(t, source))
    BY <1>1, <1>2, <2>1, CopiedTyped
  <2>3. AllHeld(array')
    BY <2>1, <2>2, BecomesKeeps
  <2>4. Deallocated(source) \in Seq(Values)
    BY <1>1, <2>1, DeallocatedTyped
  <2>5. QED
    BY <2>1, <2>3, <2>4 DEF ArraysWellMade
<1>4. CASE AppendPages(a, b)
  <2>1. /\ Usable(a) /\ Usable(b) /\ Becomes(a, Hooked(t, source), b) /\ released' = <<>>
    BY <1>4 DEF AppendPages, Appending, r, source, t
  <2>2. WellMade(Hooked(t, source))
    BY <1>1, <1>2, <2>1, HookedTyped DEF IsHooked
  <2>3. AllHeld(array')
    BY <2>1, <2>2, BecomesKeeps
  <2>4. <<>> \in Seq(Values)
    OBVIOUS
  <2>5. QED
    BY <2>1, <2>3, <2>4 DEF ArraysWellMade
<1>5. CASE Clone(a, b)
  <2> DEFINE s == Cloned(r)
  <2>1. /\ Usable(a) /\ CutOff(r) = <<>> /\ Makes(b, s) /\ released' = <<>>
    BY <1>5 DEF Clone, r
  <2>2. WellMade(s) /\ s.count \in {0, r.count} /\ s.capacity \in {0, r.capacity}
    BY <1>1, <2>1, ClonedTyped
  <2> HIDE DEF s
  <2>3. Held(s)
    <3>1. r.count < Word /\ r.capacity < Word /\ 0 < Word
      BY <1>1, <2>1, WordIsTyped DEF Small
    <3>2. Small(s)
      BY <2>2, <3>1 DEF Small
    <3>3. QED
      BY <2>2, <3>2 DEF Held
  <2>4. AllHeld([c \in DOMAIN array \cup {b} |-> IF c = b THEN s ELSE array[c]])
    BY <1>1, <2>1, <2>3, ArrayAdded
  <2>5. AllHeld(array')
    BY <2>1, <2>4 DEF Makes
  <2>6. <<>> \in Seq(Values)
    OBVIOUS
  <2>7. QED
    BY <2>1, <2>5, <2>6 DEF ArraysWellMade
<1>6. QED
  BY <1>3, <1>4, <1>5 DEF TwoArraysStep

LEMMA StepKeepsWellMade == ArraysWellMade /\ [Next]_arrayVars => ArraysWellMade'
<1> SUFFICES ASSUME ArraysWellMade, [Next]_arrayVars PROVE ArraysWellMade'
  OBVIOUS
<1>1. CASE Next
  BY <1>1, NextIs, OneArrayStepKeeps, IndexStepKeeps, TwoArraysStepKeeps
<1>2. CASE UNCHANGED arrayVars
  BY <1>2 DEF arrayVars, ArraysWellMade
<1>3. QED
  BY <1>1, <1>2

LEMMA WellMadeIsTyped == ArraysWellMade => TypeOK
<1> SUFFICES ASSUME ArraysWellMade PROVE TypeOK
  OBVIOUS
<1>1. ASSUME NEW a \in DOMAIN array
      PROVE  /\ \A k \in DOMAIN array[a].pages :
                 /\ array[a].pages[k].count \in Nat
                 /\ array[a].pages[k].slots \in Seq(Values)
             /\ array[a].last \in 0..Len(array[a].pages)
             /\ array[a].growSize \in Nat \ {0}
             /\ {array[a].count, array[a].capacity, array[a].pageCount} \subseteq 0..(Word - 1)
  <2> DEFINE r == array[a]
  <2>1. WellMade(r) /\ Small(r)
    BY DEF ArraysWellMade, AllHeld, Held
  <2> HIDE DEF r
  <2>2. /\ Len(r.pages) \in Nat /\ DOMAIN r.pages = 1..Len(r.pages)
        /\ r.count \in Nat /\ r.capacity \in Nat /\ r.last \in Nat /\ r.last <= Len(r.pages)
        /\ r.growSize \in Nat \ {0} /\ r.pageCount \in 0..(Word - 1)
        /\ \A k \in 1..Len(r.pages) : r.pages[k].slots \in Seq(Values) /\ r.pages[k].count \in Nat
    BY <2>1, PagesOfWellMade
  <2>3. r.count < Word /\ r.capacity < Word /\ Word \in Nat
    BY <2>1, WordIsTyped DEF Small
  <2>4. r.last \in 0..Len(r.pages) /\ {r.count, r.capacity, r.pageCount} \subseteq 0..(Word - 1)
    BY <2>2, <2>3
  <2>5. QED
    BY <2>2, <2>4 DEF r
<1>2. QED
  BY <1>1 DEF TypeOK, ArraysWellMade, AllHeld

LEMMA StartsWellMade == Init => ArraysWellMade
<1>1. DOMAIN <<>> = {} /\ <<>> \in Seq(Values)
  OBVIOUS
<1>2. QED
  BY <1>1 DEF Init, ArraysWellMade, AllHeld

(* Every array of every reachable state is well made, and its counters     *)
(* have not wrapped around.                                                *)
THEOREM ArraysStayWellMade == Spec => []ArraysWellMade
BY StartsWellMade, StepKeepsWellMade, PTL DEF Spec

(* The fields of the pages and of the handles are always in range          *)
(* (avDynamicArray.c, every call).                                         *)
THEOREM DynamicArraysTyped == Spec => []TypeOK
BY ArraysStayWellMade, WellMadeIsTyped, PTL

--------------------------------------------------------------------------------
(* What the calls do to the elements of an array in order.                 *)

LEMMA OrderlyContents ==
  ASSUME NEW r, Orderly(r)
  PROVE  Contents(r) = Elems(r.pages) /\ Contents(r) \in Seq(Values) /\ Len(Contents(r)) = r.count
<1>1. WellMade(r) /\ Packed(r.pages) /\ r.count = Len(Elems(r.pages)) /\ Fit(r.pages)
  BY DEF Orderly, Packed
<1>2. r.pages \in Seq(Page)
  BY <1>1, PagesOfWellMade
<1>3. Contents(r) = Elems(r.pages)
  BY <1>1, <1>2, ContentsAre
<1>4. Elems(r.pages) \in Seq(Values)
  BY <1>1, <1>2, ElemsAre
<1>5. QED
  BY <1>1, <1>3, <1>4

LEMMA FrontOfLonger ==
  ASSUME NEW S, NEW s \in Seq(S), NEW e \in S
  PROVE  Front(Append(s, e)) = s
<1> DEFINE t == Append(s, e)
<1>1. t \in Seq(S) /\ Len(t) = Len(s) + 1 /\ Len(s) \in Nat /\ \A i \in 1..Len(s) : t[i] = s[i]
  OBVIOUS
<1>2. 1 \in Nat \ {0} /\ Len(s) <= Len(t) /\ 1 <= Len(s) + 1 /\ Len(t) - 1 = Len(s)
  BY <1>1
<1>3. /\ SubSeq(t, 1, Len(s)) \in Seq(S) /\ Len(SubSeq(t, 1, Len(s))) = (Len(s) + 1) - 1
      /\ \A i \in 1..((Len(s) + 1) - 1) : SubSeq(t, 1, Len(s))[i] = t[(1 - 1) + i]
  <2> HIDE DEF t
  <2>1. QED
    BY <1>1, <1>2, PartIs
<1> DEFINE f == SubSeq(t, 1, Len(s))
<1>4. (Len(s) + 1) - 1 = Len(s) /\ \A i \in 1..Len(s) : (1 - 1) + i = i
  BY <1>1
<1>5. f \in Seq(S) /\ Len(f) = Len(s) /\ \A i \in 1..Len(f) : f[i] = s[i]
  BY <1>1, <1>3, <1>4
<1>6. f = s
  <2> HIDE DEF f, t
  <2> QED
    BY <1>5, SeqEqual
<1>7. QED
  BY <1>2, <1>6 DEF Front

(* The conjuncts of CallsAreSequenceOperations for one array.              *)
ItemsHeld(r, items) == \A i \in DOMAIN items : items[i] # None
AddsItem(r, items) == \A e \in Elements : Contents(Added(r, e)) = Append(items, e)
AddsSlot(r, items) == Front(Contents(AddedEmpty(r))) = items
RemovesItem(r, items) == \A i \in DOMAIN items : Contents(Removed(r, i - 1)) = RemoveAt(items, i)
WritesItem(r, items) ==
    \A i \in DOMAIN items : \A e \in Elements : Contents(Written(r, i - 1, e)) = [items EXCEPT ![i] = e]
KeepsItems(r, items) ==
    /\ \A n \in Sizes : Contents(Reserved(r, n)) = items
    /\ Contents(Trimmed(r)) = items
    /\ Contents(Contiguous(r)) = items
    /\ Contents(Cleared(r, Zero)) = <<>>
    /\ Deallocated([r EXCEPT !.deallocElement = TRUE]) = items

LEMMA OrderlyAdds ==
  ASSUME NEW r, Orderly(r)
  PROVE  ItemsHeld(r, Contents(r)) /\ AddsItem(r, Contents(r)) /\ AddsSlot(r, Contents(r))
<1> DEFINE items == Contents(r)
<1>1. items = Elems(r.pages) /\ items \in Seq(Values)
  BY OrderlyContents
<1>2. ItemsHeld(r, items)
  BY <1>1, NoneIsNoElement DEF ItemsHeld, Values
<1>3. AddsItem(r, items)
  <2>1. ASSUME NEW e \in Elements PROVE Contents(Added(r, e)) = Append(items, e)
    <3> DEFINE s == Added(r, e)
    <3>1. e \in Values
      BY DEF Values
    <3>2. Orderly(s) /\ Elems(s.pages) = Append(Elems(r.pages), e)
      BY <3>1, AddedOrderly
    <3> HIDE DEF s
    <3>3. Contents(s) = Elems(s.pages)
      BY <3>2, OrderlyContents
    <3>4. QED
      BY <1>1, <3>2, <3>3 DEF s
  <2>2. QED
    BY <2>1 DEF AddsItem
<1>4. AddsSlot(r, items)
  <2> DEFINE s == AddedEmpty(r)
  <2>1. Orderly(s) /\ \E v \in Values : Elems(s.pages) = Append(Elems(r.pages), v)
    BY AddedEmptyOrderly
  <2>2. PICK v \in Values : Elems(s.pages) = Append(Elems(r.pages), v)
    BY <2>1
  <2> HIDE DEF s
  <2>3. Contents(s) = Elems(s.pages)
    BY <2>1, OrderlyContents
  <2>4. Contents(s) = Append(items, v)
    BY <1>1, <2>2, <2>3
  <2> HIDE DEF items
  <2>5. Front(Append(items, v)) = items
    BY <1>1, FrontOfLonger
  <2>6. QED
    BY <2>4, <2>5 DEF AddsSlot, s
<1>5. QED
  BY <1>2, <1>3, <1>4

LEMMA OrderlyChanges ==
  ASSUME NEW r, Orderly(r), Small(r)
  PROVE  RemovesItem(r, Contents(r)) /\ WritesItem(r, Contents(r))
<1> DEFINE items == Contents(r)
<1>1. items = Elems(r.pages) /\ items \in Seq(Values)
  BY OrderlyContents
<1>2. ASSUME NEW i \in DOMAIN items
      PROVE  i - 1 \in Nat /\ i - 1 < Len(Elems(r.pages)) /\ (i - 1) + 1 = i
  <2>1. DOMAIN items = 1..Len(items) /\ Len(items) \in Nat
    BY <1>1
  <2>2. i \in 1..Len(items)
    BY <2>1
  <2> HIDE DEF items
  <2>3. QED
    BY <1>1, <2>1, <2>2
<1>3. ASSUME NEW i \in DOMAIN items PROVE Contents(Removed(r, i - 1)) = RemoveAt(items, i)
  <2> DEFINE index == i - 1
             s == Removed(r, index)
  <2>1. index \in Nat /\ index < Len(Elems(r.pages)) /\ index + 1 = i
    BY <1>2
  <2> HIDE DEF index
  <2>2. IsRemoved(s, r, index)
    BY <2>1, RemovedOrderly
  <2>3. Orderly(s) /\ Elems(s.pages) = RemoveAt(Elems(r.pages), index + 1)
    BY <2>2 DEF IsRemoved
  <2> HIDE DEF s
  <2>4. Contents(s) = Elems(s.pages)
    BY <2>3, OrderlyContents
  <2>5. QED
    BY <1>1, <2>1, <2>3, <2>4 DEF s, index
<1>4. ASSUME NEW i \in DOMAIN items, NEW e \in Elements
      PROVE  Contents(Written(r, i - 1, e)) = [items EXCEPT ![i] = e]
  <2> DEFINE index == i - 1
             s == Written(r, index, e)
  <2>1. index \in Nat /\ index < Len(Elems(r.pages)) /\ index + 1 = i /\ e \in Values
    BY <1>2 DEF Values
  <2> HIDE DEF index
  <2>2. IsWritten(s, r, index, e)
    BY <2>1, WrittenOrderly
  <2>3. Orderly(s) /\ Elems(s.pages) = Put(Elems(r.pages), index + 1, e)
    BY <2>2 DEF IsWritten
  <2> HIDE DEF s
  <2>4. Contents(s) = Elems(s.pages)
    BY <2>3, OrderlyContents
  <2>5. Contents(s) = Put(items, i, e)
    BY <1>1, <2>1, <2>3, <2>4
  <2>6. QED
    BY <2>5 DEF s, index, Put
<1>5. QED
  BY <1>3, <1>4 DEF RemovesItem, WritesItem

LEMMA OrderlyKeeps ==
  ASSUME NEW r, Orderly(r), Small(r)
  PROVE  KeepsItems(r, Contents(r))
<1> DEFINE items == Contents(r)
<1>1. items = Elems(r.pages)
  BY OrderlyContents
<1>2. ASSUME NEW s, Orderly(s), Elems(s.pages) = Elems(r.pages) PROVE Contents(s) = items
  BY <1>1, <1>2, OrderlyContents
<1>3. ASSUME NEW n \in Sizes PROVE Contents(Reserved(r, n)) = items
  <2>1. n \in Nat
    BY WordIsTyped
  <2>2. QED
    BY <1>2, <2>1, ReservedOrderly
<1>4. Contents(Trimmed(r)) = items
  BY <1>2, TrimmedOrderly DEF IsTrimmedBy
<1>5. Contents(Contiguous(r)) = items
  BY <1>2, ContiguousOrderly
<1>6. Contents(Cleared(r, Zero)) = <<>>
  <2>1. Zero \in Values
    BY DEF Values
  <2>2. Orderly(Cleared(r, Zero)) /\ Elems(Cleared(r, Zero).pages) = <<>>
    BY <2>1, ClearedOrderly
  <2>3. QED
    BY <2>2, OrderlyContents
<1>7. Deallocated([r EXCEPT !.deallocElement = TRUE]) = items
  <2> DEFINE s == [r EXCEPT !.deallocElement = TRUE]
  <2>1. r \in ArrayType
    BY DEF Orderly, WellMade
  <2>2. s.deallocElement = TRUE /\ s.pages = r.pages
    <3> HIDE DEF Page
    <3> QED
      BY <2>1 DEF ArrayType
  <2> HIDE DEF s
  <2>3. Deallocated(s) = Elems(s.pages)
    BY <2>2, DeallocatedIs
  <2>4. QED
    BY <1>1, <2>2, <2>3 DEF s
<1>8. QED
  BY <1>3, <1>4, <1>5, <1>6, <1>7 DEF KeepsItems

LEMMA WellMadeCalls == ArraysWellMade => CallsAreSequenceOperations
<1> SUFFICES ASSUME ArraysWellMade PROVE CallsAreSequenceOperations
  OBVIOUS
<1>1. ASSUME NEW a \in DOMAIN array, Sound(a)
      PROVE  LET r == array[a]
                 items == Contents(r)
             IN  /\ ItemsHeld(r, items) /\ AddsItem(r, items) /\ AddsSlot(r, items)
                 /\ RemovesItem(r, items) /\ WritesItem(r, items) /\ KeepsItems(r, items)
  <2>1. WellMade(array[a]) /\ Small(array[a])
    BY DEF ArraysWellMade, AllHeld, Held
  <2>2. Orderly(array[a])
    BY <1>1, <2>1, SoundIsOrderly
  <2>3. QED
    BY <2>1, <2>2, OrderlyAdds, OrderlyChanges, OrderlyKeeps
<1>2. QED
  BY <1>1 DEF CallsAreSequenceOperations, ItemsHeld, AddsItem, AddsSlot, RemovesItem, WritesItem, KeepsItems

(* On an array in order each call of avDynamicArray.c does to the sequence *)
(* of its elements what its name says, whatever it does to the pages.      *)
THEOREM DynamicArrayCallsAreSequenceOperations == Spec => []CallsAreSequenceOperations
BY ArraysStayWellMade, WellMadeCalls, PTL

--------------------------------------------------------------------------------
(* What the calls do to the order of an array and to the places of its     *)
(* elements.                                                               *)

(* s, which a call makes of r, is in order, with the elements of r or more.*)
Onward(s, r) == Orderly(s) /\ KeepsNumber(s, r) /\ r.count <= s.count

LEMMA ElemsOnward ==
  ASSUME NEW s, Orderly(s), NEW r, Orderly(r), KeepsNumber(s, r), Len(Elems(r.pages)) <= Len(Elems(s.pages))
  PROVE  Onward(s, r)
BY DEF Onward, Orderly

LEMMA BoundedIsCounted ==
  ASSUME NEW s, Bounded(s), Orderly(s), NEW r, CountedOrMany(r) => CountedOrMany(s)
  PROVE  KeepsNumber(s, r)
<1>1. Len(s.pages) \in Nat /\ Len(s.pages) <= MaxPages
  BY PagesOfWellMade DEF Orderly, Bounded
<1>2. MaxPages \in Nat /\ Word \in Nat /\ Word > MaxPages
  BY Bounds, WordHoldsTheCounters
<1>3. ~(Len(s.pages) >= Word)
  BY <1>1, <1>2
<1>4. QED
  BY <1>3 DEF KeepsNumber, CountedOrMany

LEMMA OrderlyElems ==
  ASSUME NEW r, Orderly(r)
  PROVE  /\ Elems(r.pages) \in Seq(Values) /\ Len(Elems(r.pages)) = r.count /\ r.count \in Nat
         /\ r.pages \in Seq(Page) /\ Len(r.pages) \in Nat /\ r.last = Len(r.pages)
         /\ WellMade(r) /\ Packed(r.pages) /\ Fit(r.pages)
<1>1. WellMade(r) /\ Packed(r.pages) /\ Fit(r.pages) /\ r.count = Len(Elems(r.pages)) /\ r.last = Len(r.pages)
  BY DEF Orderly, Packed
<1>2. r.pages \in Seq(Page) /\ r.count \in Nat /\ Len(r.pages) \in Nat
  BY <1>1, PagesOfWellMade
<1>3. QED
  BY <1>1, <1>2, ElemsAre

(* The calls that add, grow or write leave each element in its place.      *)
LEMMA GrowingOnward ==
  ASSUME NEW r, Orderly(r)
  PROVE  /\ \A n \in Nat : LET s == Reserved(r, n) IN
              Bounded(s) => Onward(s, r) /\ Extends(r.pages, s.pages)
         /\ LET s == AddedEmpty(r) IN Bounded(s) => Onward(s, r) /\ Extends(r.pages, s.pages)
         /\ \A e \in Values : LET s == Added(r, e) IN
              Bounded(s) => Onward(s, r) /\ Extends(r.pages, s.pages)
         /\ \A es \in Seq(Values) : LET s == AddedAll(r, es) IN
              Bounded(s) => Onward(s, r) /\ Extends(r.pages, s.pages)
         /\ \A start \in Nat : \A es \in Seq(Values) : LET s == WrittenAll(r, start, es) IN
              Onward(s, r) /\ Extends(r.pages, s.pages)
<1> DEFINE x == Elems(r.pages)
<1>1. x \in Seq(Values) /\ Len(x) = r.count /\ r.count \in Nat
  BY OrderlyElems
<1> HIDE DEF x
<1>2. ASSUME NEW s, Bounded(s), Orderly(s), CountedOrMany(r) => CountedOrMany(s),
             Len(x) <= Len(Elems(s.pages))
      PROVE  Onward(s, r)
  <2>1. KeepsNumber(s, r)
    BY <1>2, BoundedIsCounted
  <2>2. QED
    BY <1>2, <2>1, ElemsOnward DEF x
<1>3. ASSUME NEW n \in Nat, Bounded(Reserved(r, n))
      PROVE  Onward(Reserved(r, n), r) /\ Extends(r.pages, Reserved(r, n).pages)
  <2> DEFINE s == Reserved(r, n)
  <2>1. Orderly(s) /\ Elems(s.pages) = x /\ Extends(r.pages, s.pages) /\ (CountedOrMany(r) => CountedOrMany(s))
    BY ReservedOrderly DEF x
  <2>2. Bounded(s)
    BY <1>3
  <2> HIDE DEF s
  <2>3. Len(x) <= Len(Elems(s.pages))
    BY <1>1, <2>1
  <2>4. QED
    BY <1>2, <2>1, <2>2, <2>3 DEF s
<1>4. ASSUME Bounded(AddedEmpty(r))
      PROVE  Onward(AddedEmpty(r), r) /\ Extends(r.pages, AddedEmpty(r).pages)
  <2> DEFINE s == AddedEmpty(r)
  <2>1. /\ Orderly(s) /\ \E v \in Values : Elems(s.pages) = Append(x, v)
        /\ Extends(r.pages, s.pages) /\ (CountedOrMany(r) => CountedOrMany(s))
    BY AddedEmptyOrderly DEF x
  <2>2. PICK v \in Values : Elems(s.pages) = Append(x, v)
    BY <2>1
  <2>3. Bounded(s)
    BY <1>4
  <2> HIDE DEF s
  <2>4. Len(x) <= Len(Elems(s.pages))
    BY <1>1, <2>2
  <2>5. QED
    BY <1>2, <2>1, <2>3, <2>4 DEF s
<1>5. ASSUME NEW e \in Values, Bounded(Added(r, e))
      PROVE  Onward(Added(r, e), r) /\ Extends(r.pages, Added(r, e).pages)
  <2> DEFINE s == Added(r, e)
  <2>1. /\ Orderly(s) /\ Elems(s.pages) = Append(x, e)
        /\ Extends(r.pages, s.pages) /\ (CountedOrMany(r) => CountedOrMany(s))
    BY AddedOrderly DEF x
  <2>2. Bounded(s)
    BY <1>5
  <2> HIDE DEF s
  <2>3. Len(x) <= Len(Elems(s.pages))
    BY <1>1, <2>1
  <2>4. QED
    BY <1>2, <2>1, <2>2, <2>3 DEF s
<1>6. ASSUME NEW es \in Seq(Values), Bounded(AddedAll(r, es))
      PROVE  Onward(AddedAll(r, es), r) /\ Extends(r.pages, AddedAll(r, es).pages)
  <2> DEFINE s == AddedAll(r, es)
  <2>1. /\ Orderly(s) /\ Elems(s.pages) = x \o es
        /\ Extends(r.pages, s.pages) /\ (CountedOrMany(r) => CountedOrMany(s))
    BY AddedAllOrderly DEF x, IsAdded
  <2>2. Bounded(s)
    BY <1>6
  <2> HIDE DEF s
  <2>3. Len(x) <= Len(Elems(s.pages))
    <3>1. Len(x \o es) = Len(x) + Len(es) /\ Len(es) \in Nat
      BY <1>1, JoinTyped
    <3>2. QED
      BY <1>1, <2>1, <3>1
  <2>4. QED
    BY <1>2, <2>1, <2>2, <2>3 DEF s
<1>7. ASSUME NEW start \in Nat, NEW es \in Seq(Values)
      PROVE  Onward(WrittenAll(r, start, es), r) /\ Extends(r.pages, WrittenAll(r, start, es).pages)
  <2> DEFINE s == WrittenAll(r, start, es)
  <2>1. IsRewritten(s, r)
    BY WrittenAllOrderly
  <2> HIDE DEF s
  <2>2. Onward(s, r) /\ Extends(r.pages, s.pages)
    BY <1>1, <2>1 DEF IsRewritten, Onward, KeepsNumber
  <2>3. QED
    BY <2>2 DEF s
<1>8. QED
  BY <1>3, <1>4, <1>5, <1>6, <1>7

LEMMA FlagSetOnward ==
  ASSUME NEW r, Orderly(r), NEW s, WellMade(s), s.pages = r.pages, s.last = r.last,
         s.count = r.count, s.capacity = r.capacity, s.pageCount = r.pageCount
  PROVE  Onward(s, r) /\ Extends(r.pages, s.pages)
<1>1. r.count \in Nat /\ Len(r.pages) \in Nat
  BY OrderlyElems
<1>2. Orderly(s) /\ KeepsNumber(s, r) /\ r.count <= s.count
  BY <1>1 DEF Orderly, KeepsNumber
<1>3. Extends(r.pages, s.pages)
  BY <1>1 DEF Extends
<1>4. QED
  BY <1>2, <1>3 DEF Onward

LEMMA FlagSetIs ==
  ASSUME NEW r, WellMade(r), NEW s, NEW n, NEW b \in BOOLEAN,
         (n \in Sizes /\ s = [r EXCEPT !.growSize = n]) \/ s = [r EXCEPT !.allowRelocation = b]
                                              \/ s = [r EXCEPT !.deallocElement = b]
  PROVE  /\ WellMade(s) /\ s.pages = r.pages /\ s.last = r.last
         /\ s.count = r.count /\ s.capacity = r.capacity /\ s.pageCount = r.pageCount
<1>1. WellMade(s)
  BY FlagSet
<1>2. r \in ArrayType
  BY DEF WellMade
<1> HIDE DEF Page
<1>3. QED
  BY <1>1, <1>2 DEF ArrayType

(* A call that changes one array and takes none of its elements.           *)
QuietStep(a) ==
    \E s : /\ Returns(a, s)
           /\ Orderly(array[a]) =>
                 /\ Onward(s, array[a])
                 /\ Extends(array[a].pages, s.pages) \/ array[a].allowRelocation \/ MakeContiguous(a)

MakingStep(a) == ~Exists(a) /\ \E n \in Nat : Makes(a, Created(n))

LEMMA OneArrayStepIs ==
  ASSUME ArraysWellMade, NEW a \in Arrays, OneArrayStep(a)
  PROVE  \/ MakingStep(a) \/ Destroy(a)
         \/ \E v \in Values : Clear(a, v)
         \/ a \in DOMAIN array /\ QuietStep(a)
<1> DEFINE r == array[a]
<1>1. /\ Usable(a) => a \in DOMAIN array /\ Small(r)
      /\ Exists(a) => a \in DOMAIN array /\ WellMade(r)
  BY UsableIs DEF ArraysWellMade, AllHeld, Held, Exists
<1> HIDE DEF r, Page
<1>2. ASSUME NEW n \in Sizes \cup {0}, Create(a, n) PROVE MakingStep(a)
  <2>1. n \in Nat /\ ~Exists(a) /\ Makes(a, Created(n))
    BY <1>2, WordIsTyped DEF Create, Created
  <2>2. QED
    BY <2>1 DEF MakingStep
<1>3. ASSUME NEW s, a \in DOMAIN array, Returns(a, s),
             Orderly(r) => Onward(s, r) /\ (Extends(r.pages, s.pages) \/ r.allowRelocation \/ MakeContiguous(a))
      PROVE  a \in DOMAIN array /\ QuietStep(a)
  BY <1>3 DEF QuietStep, r
<1>4. ASSUME NEW n \in Sizes \cup {0}, Reserve(a, n) PROVE a \in DOMAIN array /\ QuietStep(a)
  <2> DEFINE s == Reserved(r, n)
  <2>1. n \in Nat /\ a \in DOMAIN array /\ Returns(a, s)
    BY <1>1, <1>4, WordIsTyped DEF Reserve, r
  <2>2. Orderly(r) => Onward(s, r) /\ Extends(r.pages, s.pages)
    BY <2>1, GrowingOnward DEF Returns
  <2> HIDE DEF s
  <2>3. QED
    BY <1>3, <2>1, <2>2
<1>5. ASSUME Trim(a) PROVE a \in DOMAIN array /\ QuietStep(a)
  <2> DEFINE s == Trimmed(r)
  <2>1. a \in DOMAIN array /\ Small(r) /\ Returns(a, s) /\ r.allowRelocation
    BY <1>1, <1>5 DEF Trim, r
  <2>2. Orderly(r) => IsTrimmedBy(s, r)
    BY <2>1, TrimmedOrderly
  <2> HIDE DEF s
  <2>3. Orderly(r) => Onward(s, r)
    <3>1. Orderly(r) => Len(Elems(r.pages)) \in Nat
      BY OrderlyElems
    <3>2. QED
      BY <2>2, <3>1, ElemsOnward DEF IsTrimmedBy
  <2>4. QED
    BY <1>3, <2>1, <2>3
<1>6. ASSUME MakeContiguous(a) PROVE a \in DOMAIN array /\ QuietStep(a)
  <2> DEFINE s == Contiguous(r)
  <2>1. a \in DOMAIN array /\ Returns(a, s)
    BY <1>1, <1>6 DEF MakeContiguous, r
  <2>2. Orderly(r) => Orderly(s) /\ KeepsNumber(s, r) /\ Elems(s.pages) = Elems(r.pages)
    BY ContiguousOrderly
  <2> HIDE DEF s
  <2>3. Orderly(r) => Onward(s, r)
    <3>1. Orderly(r) => Len(Elems(r.pages)) \in Nat
      BY OrderlyElems
    <3>2. QED
      BY <2>2, <3>1, ElemsOnward
  <2>4. QED
    BY <1>3, <1>6, <2>1, <2>3
<1>7. ASSUME AddEmpty(a) PROVE a \in DOMAIN array /\ QuietStep(a)
  <2> DEFINE s == AddedEmpty(r)
  <2>1. a \in DOMAIN array /\ Returns(a, s)
    BY <1>1, <1>7 DEF AddEmpty, r
  <2>2. Orderly(r) => Onward(s, r) /\ Extends(r.pages, s.pages)
    BY <2>1, GrowingOnward DEF Returns
  <2> HIDE DEF s
  <2>3. QED
    BY <1>3, <2>1, <2>2
<1>8. ASSUME NEW e \in Elements, Add(a, e) PROVE a \in DOMAIN array /\ QuietStep(a)
  <2> DEFINE s == Added(r, e)
  <2>1. e \in Values /\ a \in DOMAIN array /\ Returns(a, s)
    BY <1>1, <1>8 DEF Add, r, Values
  <2>2. Orderly(r) => Onward(s, r) /\ Extends(r.pages, s.pages)
    BY <2>1, GrowingOnward DEF Returns
  <2> HIDE DEF s
  <2>3. QED
    BY <1>3, <2>1, <2>2
<1>9. ASSUME NEW e \in Elements, NEW f \in Elements, AddRange(a, <<e, f>>)
      PROVE  a \in DOMAIN array /\ QuietStep(a)
  <2> DEFINE es == <<e, f>>
             s == AddedAll(r, es)
  <2>1. es \in Seq(Values) /\ a \in DOMAIN array /\ Returns(a, s)
    BY <1>1, <1>9 DEF AddRange, r, Values
  <2> HIDE DEF es
  <2>2. Orderly(r) => Onward(s, r) /\ Extends(r.pages, s.pages)
    BY <2>1, GrowingOnward DEF Returns
  <2> HIDE DEF s
  <2>3. QED
    BY <1>3, <2>1, <2>2
<1>10. ASSUME NEW n \in Sizes, SetGrowSize(a, n) PROVE a \in DOMAIN array /\ QuietStep(a)
  <2> DEFINE s == [r EXCEPT !.growSize = n]
  <2>1. a \in DOMAIN array /\ Returns(a, s) /\ WellMade(r) /\ TRUE \in BOOLEAN
    BY <1>1, <1>10 DEF SetGrowSize, r
  <2>2. /\ WellMade(s) /\ s.pages = r.pages /\ s.last = r.last
        /\ s.count = r.count /\ s.capacity = r.capacity /\ s.pageCount = r.pageCount
    BY <1>10, <2>1, FlagSetIs
  <2> HIDE DEF s
  <2>3. Orderly(r) => Onward(s, r) /\ Extends(r.pages, s.pages)
    BY ONLY <2>2, FlagSetOnward
  <2>4. QED
    BY <1>3, <2>1, <2>3
<1>11. ASSUME NEW b \in Relocation, SetAllowRelocation(a, b) PROVE a \in DOMAIN array /\ QuietStep(a)
  <2> DEFINE s == [r EXCEPT !.allowRelocation = b]
  <2>1. a \in DOMAIN array /\ Returns(a, s) /\ WellMade(r) /\ b \in BOOLEAN
    BY <1>1, <1>11, FlagsAreBooleans DEF SetAllowRelocation, r
  <2>2. /\ WellMade(s) /\ s.pages = r.pages /\ s.last = r.last
        /\ s.count = r.count /\ s.capacity = r.capacity /\ s.pageCount = r.pageCount
    BY <1>11, <2>1, FlagSetIs
  <2> HIDE DEF s
  <2>3. Orderly(r) => Onward(s, r) /\ Extends(r.pages, s.pages)
    BY ONLY <2>2, FlagSetOnward
  <2>4. QED
    BY <1>3, <2>1, <2>3
<1>12. ASSUME NEW b \in Callbacks, SetDeallocateElementCallback(a, b) PROVE a \in DOMAIN array /\ QuietStep(a)
  <2> DEFINE s == [r EXCEPT !.deallocElement = b]
  <2>1. a \in DOMAIN array /\ Returns(a, s) /\ WellMade(r) /\ b \in BOOLEAN
    BY <1>1, <1>12, FlagsAreBooleans DEF SetDeallocateElementCallback, r
  <2>2. /\ WellMade(s) /\ s.pages = r.pages /\ s.last = r.last
        /\ s.count = r.count /\ s.capacity = r.capacity /\ s.pageCount = r.pageCount
    BY <1>12, <2>1, FlagSetIs
  <2> HIDE DEF s
  <2>3. Orderly(r) => Onward(s, r) /\ Extends(r.pages, s.pages)
    BY ONLY <2>2, FlagSetOnward
  <2>4. QED
    BY <1>3, <2>1, <2>3
<1>13. QED
  BY <1>2, <1>4, <1>5, <1>6, <1>7, <1>8, <1>9, <1>10, <1>11, <1>12 DEF OneArrayStep

LEMMA IndexStepIs ==
  ASSUME ArraysWellMade, NEW a \in Arrays, NEW index \in Nat, IndexStep(a, index)
  PROVE  RemoveIndex(a, index) \/ (a \in DOMAIN array /\ QuietStep(a))
<1> DEFINE r == array[a]
<1>1. Usable(a) => a \in DOMAIN array
  BY UsableIs
<1> HIDE DEF r, Page
<1>2. ASSUME RemoveIndexFails(a, index) PROVE a \in DOMAIN array /\ QuietStep(a)
  <2>1. a \in DOMAIN array /\ Returns(a, r)
    BY <1>1, <1>2 DEF RemoveIndexFails, r
  <2>2. WellMade(r)
    BY <2>1 DEF ArraysWellMade, AllHeld, Held, r
  <2>3. Orderly(r) => Onward(r, r) /\ Extends(r.pages, r.pages)
    BY <2>2, FlagSetOnward
  <2>4. QED
    BY <2>1, <2>3 DEF QuietStep, r
<1>3. ASSUME NEW es \in Seq(Values), WriteRange(a, index, es) PROVE a \in DOMAIN array /\ QuietStep(a)
  <2> DEFINE s == WrittenAll(r, index, es)
  <2>1. a \in DOMAIN array /\ Returns(a, s)
    BY <1>1, <1>3 DEF WriteRange, r
  <2>2. Orderly(r) => Onward(s, r) /\ Extends(r.pages, s.pages)
    BY GrowingOnward
  <2> HIDE DEF s
  <2>3. QED
    BY <2>1, <2>2 DEF QuietStep, r
<1>4. QED
  BY <1>2, <1>3 DEF IndexStep

LEMMA StepIs ==
  ASSUME ArraysWellMade, Next
  PROVE  \/ \E a \in Arrays : MakingStep(a) \/ Destroy(a)
         \/ \E a \in Arrays : \E v \in Values : Clear(a, v)
         \/ \E a \in DOMAIN array : QuietStep(a)
         \/ \E a \in Arrays : \E index \in Nat : RemoveIndex(a, index)
         \/ \E a, b \in Arrays : TwoArraysStep(a, b)
BY NextIs, OneArrayStepIs, IndexStepIs

(* What a step leaves of the other arrays.                                 *)
OthersStay(a) == \A c \in DOMAIN array \cap DOMAIN array' : c # a => array'[c] = array[c]

LEMMA StepChanges ==
  ASSUME NEW a
  PROVE  /\ \A s : Returns(a, s) =>
              OthersStay(a) /\ DOMAIN array' = DOMAIN array /\ (a \in DOMAIN array => array'[a] = s)
         /\ MakingStep(a) =>
              /\ OthersStay(a) /\ DOMAIN array' = DOMAIN array \cup {a} /\ a \notin DOMAIN array
              /\ \E n \in Nat : array'[a] = Created(n)
         /\ Destroy(a) =>
              /\ OthersStay(a) /\ DOMAIN array' = DOMAIN array \ {a}
              /\ Usable(a) /\ released' = Deallocated(array[a])
         /\ \A v : Clear(a, v) =>
              /\ OthersStay(a) /\ DOMAIN array' = DOMAIN array
              /\ a \in DOMAIN array /\ array'[a] = Cleared(array[a], v)
         /\ \A index : RemoveIndex(a, index) =>
              /\ OthersStay(a) /\ DOMAIN array' = DOMAIN array /\ Usable(a) /\ array[a].allowRelocation
              /\ a \in DOMAIN array /\ array'[a] = Removed(array[a], index)
<1>1. ASSUME NEW s, Returns(a, s)
      PROVE  OthersStay(a) /\ DOMAIN array' = DOMAIN array /\ (a \in DOMAIN array => array'[a] = s)
  BY <1>1 DEF Returns, OthersStay
<1>2. ASSUME MakingStep(a)
      PROVE  /\ OthersStay(a) /\ DOMAIN array' = DOMAIN array \cup {a} /\ a \notin DOMAIN array
             /\ \E n \in Nat : array'[a] = Created(n)
  <2> HIDE DEF Created
  <2> QED
    BY <1>2 DEF MakingStep, Makes, OthersStay, Exists
<1>3. ASSUME Destroy(a)
      PROVE  /\ OthersStay(a) /\ DOMAIN array' = DOMAIN array \ {a}
             /\ Usable(a) /\ released' = Deallocated(array[a])
  BY <1>3 DEF Destroy, Restrict, OthersStay
<1>4. ASSUME NEW v, Clear(a, v)
      PROVE  /\ OthersStay(a) /\ DOMAIN array' = DOMAIN array
             /\ a \in DOMAIN array /\ array'[a] = Cleared(array[a], v)
  BY <1>1, <1>4 DEF Clear, Usable, Exists
<1>5. ASSUME NEW index, RemoveIndex(a, index)
      PROVE  /\ OthersStay(a) /\ DOMAIN array' = DOMAIN array /\ Usable(a) /\ array[a].allowRelocation
             /\ a \in DOMAIN array /\ array'[a] = Removed(array[a], index)
  BY <1>5 DEF RemoveIndex, Usable, Exists, OthersStay
<1>6. QED
  BY <1>1, <1>2, <1>3, <1>4, <1>5

LEMMA TwoStepChanges ==
  ASSUME NEW a, NEW b
  PROVE  /\ AppendCopies(a, b) =>
              /\ OthersStay(a) /\ DOMAIN array' = DOMAIN array \ {b} /\ a # b /\ Usable(a) /\ Usable(b)
              /\ array[a].allowRelocation /\ Trimmed(array[a]).count = 0
              /\ a \in DOMAIN array /\ array'[a] = Copied(Trimmed(array[a]), array[b])
              /\ released' = Deallocated(array[b])
         /\ AppendPages(a, b) =>
              /\ OthersStay(a) /\ DOMAIN array' = DOMAIN array \ {b} /\ a # b /\ Usable(a) /\ Usable(b)
              /\ array[a].allowRelocation
              /\ a \in DOMAIN array /\ array'[a] = Hooked(Trimmed(array[a]), array[b])
         /\ Clone(a, b) =>
              /\ OthersStay(b) /\ DOMAIN array' = DOMAIN array \cup {b} /\ b \notin DOMAIN array
              /\ a \in DOMAIN array /\ array'[b] = Cloned(array[a])
<1>1. ASSUME NEW r, Becomes(a, r, b), a \in DOMAIN array, a # b
      PROVE  /\ OthersStay(a) /\ DOMAIN array' = DOMAIN array \ {b} /\ array'[a] = r
  BY <1>1 DEF Becomes, OthersStay
<1>2. ASSUME AppendCopies(a, b)
      PROVE  /\ OthersStay(a) /\ DOMAIN array' = DOMAIN array \ {b} /\ a # b /\ Usable(a) /\ Usable(b)
             /\ array[a].allowRelocation /\ Trimmed(array[a]).count = 0
             /\ a \in DOMAIN array /\ array'[a] = Copied(Trimmed(array[a]), array[b])
             /\ released' = Deallocated(array[b])
  <2> DEFINE r == Copied(Trimmed(array[a]), array[b])
  <2>1. /\ Becomes(a, r, b) /\ a \in DOMAIN array /\ a # b /\ Usable(a) /\ Usable(b)
        /\ array[a].allowRelocation /\ Trimmed(array[a]).count = 0 /\ released' = Deallocated(array[b])
    BY <1>2 DEF AppendCopies, Appending, Usable, Exists
  <2> HIDE DEF r
  <2>2. OthersStay(a) /\ DOMAIN array' = DOMAIN array \ {b} /\ array'[a] = r
    BY <1>1, <2>1
  <2>3. QED
    BY <2>1, <2>2 DEF r
<1>3. ASSUME AppendPages(a, b)
      PROVE  /\ OthersStay(a) /\ DOMAIN array' = DOMAIN array \ {b} /\ a # b /\ Usable(a) /\ Usable(b)
             /\ array[a].allowRelocation
             /\ a \in DOMAIN array /\ array'[a] = Hooked(Trimmed(array[a]), array[b])
  <2> DEFINE r == Hooked(Trimmed(array[a]), array[b])
  <2>1. /\ Becomes(a, r, b) /\ a \in DOMAIN array /\ a # b /\ Usable(a) /\ Usable(b)
        /\ array[a].allowRelocation
    BY <1>3 DEF AppendPages, Appending, Usable, Exists
  <2> HIDE DEF r
  <2>2. OthersStay(a) /\ DOMAIN array' = DOMAIN array \ {b} /\ array'[a] = r
    BY <1>1, <2>1
  <2>3. QED
    BY <2>1, <2>2 DEF r
<1>4. ASSUME Clone(a, b)
      PROVE  /\ OthersStay(b) /\ DOMAIN array' = DOMAIN array \cup {b} /\ b \notin DOMAIN array
             /\ a \in DOMAIN array /\ array'[b] = Cloned(array[a])
  BY <1>4 DEF Clone, Makes, Usable, Exists, OthersStay
<1>5. QED
  BY <1>2, <1>3, <1>4

(* SoundnessKept, of the arrays and not of their handles.                  *)
StaysInOrder(c) == Orderly(array[c]) => Orderly(array'[c]) /\ KeepsNumber(array'[c], array[c])
OrderKept ==
    \A c \in DOMAIN array \cap DOMAIN array' : StaysInOrder(c) \/ \E b \in Arrays : AppendPages(c, b)
MadeInOrder ==
    \A c \in DOMAIN array' \ DOMAIN array :
        \/ Orderly(array'[c])
        \/ \E b \in Arrays : Clone(b, c) /\ b \in DOMAIN array
                                         /\ (Orderly(array[b]) => Len(array[b].pages) > 1)

LEMMA UntouchedStays ==
  ASSUME NEW c, array'[c] = array[c]
  PROVE  StaysInOrder(c)
BY DEF StaysInOrder, KeepsNumber

LEMMA OneChangeKeepsOrder ==
  ASSUME NEW a, OthersStay(a), a \in DOMAIN array \cap DOMAIN array' => StaysInOrder(a)
  PROVE  OrderKept
BY UntouchedStays DEF OthersStay, OrderKept

LEMMA OneArrayKeepsOrder ==
  ASSUME ArraysWellMade,
         \/ \E a \in Arrays : MakingStep(a) \/ Destroy(a)
         \/ \E a \in Arrays : \E v \in Values : Clear(a, v)
         \/ \E a \in DOMAIN array : QuietStep(a)
         \/ \E a \in Arrays : \E index \in Nat : RemoveIndex(a, index)
  PROVE  OrderKept /\ MadeInOrder
<1>1. ASSUME NEW a \in Arrays, MakingStep(a) PROVE OrderKept /\ MadeInOrder
  <2>1. /\ OthersStay(a) /\ DOMAIN array' = DOMAIN array \cup {a} /\ a \notin DOMAIN array
        /\ \E n \in Nat : array'[a] = Created(n)
    BY <1>1, StepChanges
  <2>2. Orderly(array'[a])
    BY <2>1, CreatedOrderly
  <2>3. QED
    BY <2>1, <2>2, OneChangeKeepsOrder DEF MadeInOrder
<1>2. ASSUME NEW a \in Arrays, Destroy(a) PROVE OrderKept /\ MadeInOrder
  <2>1. OthersStay(a) /\ DOMAIN array' = DOMAIN array \ {a}
    BY <1>2, StepChanges
  <2>2. QED
    BY <2>1, OneChangeKeepsOrder DEF MadeInOrder
<1>3. ASSUME NEW a \in Arrays, NEW v \in Values, Clear(a, v) PROVE OrderKept /\ MadeInOrder
  <2>1. OthersStay(a) /\ DOMAIN array' = DOMAIN array /\ array'[a] = Cleared(array[a], v)
    BY <1>3, StepChanges
  <2>2. StaysInOrder(a)
    BY <2>1, ClearedOrderly DEF StaysInOrder
  <2>3. QED
    BY <2>1, <2>2, OneChangeKeepsOrder DEF MadeInOrder
<1>4. ASSUME NEW a \in DOMAIN array, QuietStep(a) PROVE OrderKept /\ MadeInOrder
  <2>1. PICK s : Returns(a, s) /\ (Orderly(array[a]) => Onward(s, array[a]))
    BY <1>4 DEF QuietStep
  <2>2. OthersStay(a) /\ DOMAIN array' = DOMAIN array /\ array'[a] = s
    BY <2>1, StepChanges
  <2>3. StaysInOrder(a)
    BY <2>1, <2>2 DEF StaysInOrder, Onward
  <2>4. QED
    BY <2>2, <2>3, OneChangeKeepsOrder DEF MadeInOrder
<1>5. ASSUME NEW a \in Arrays, NEW index \in Nat, RemoveIndex(a, index) PROVE OrderKept /\ MadeInOrder
  <2>1. /\ OthersStay(a) /\ DOMAIN array' = DOMAIN array /\ Usable(a)
        /\ array'[a] = Removed(array[a], index)
    BY <1>5, StepChanges
  <2>2. Small(array[a]) /\ index < array[a].count
    BY <1>5, <2>1, UsableIs DEF RemoveIndex
  <2>3. Orderly(array[a]) => IsRemoved(Removed(array[a], index), array[a], index)
    BY <2>2, RemovedOrderly, OrderlyElems
  <2>4. StaysInOrder(a)
    BY <2>1, <2>3 DEF StaysInOrder, IsRemoved
  <2>5. QED
    BY <2>1, <2>4, OneChangeKeepsOrder DEF MadeInOrder
<1>6. QED
  BY <1>1, <1>2, <1>3, <1>4, <1>5

LEMMA TwoArraysKeepOrder ==
  ASSUME ArraysWellMade, NEW a \in Arrays, NEW b \in Arrays, TwoArraysStep(a, b)
  PROVE  OrderKept /\ MadeInOrder
<1> DEFINE r == array[a]
           source == array[b]
<1>1. /\ Usable(a) => WellMade(r) /\ Small(r)
      /\ Usable(b) => WellMade(source)
  BY UsableIs
<1> HIDE DEF r, source, Page
<1>2. CASE AppendCopies(a, b)
  <2> DEFINE t == Trimmed(r)
             es == Buffered(source, source.count)
  <2>1. /\ OthersStay(a) /\ DOMAIN array' = DOMAIN array \ {b} /\ Usable(a) /\ Usable(b)
        /\ array'[a] = Copied(t, source)
    BY <1>2, TwoStepChanges DEF r, source
  <2>2. es \in Seq(Values)
    <3>1. source.count \in Nat
      BY <1>1, <2>1, PagesOfWellMade
    <3>2. QED
      BY <1>1, <2>1, <3>1, BufferedIs
  <2>3. Orderly(r) => IsTrimmedBy(t, r)
    BY <1>1, <2>1, TrimmedOrderly
  <2> HIDE DEF t, es
  <2>4. array'[a] = AddedAll(t, es)
    BY <2>1 DEF Copied, es
  <2>5. Orderly(r) => IsAdded(AddedAll(t, es), t, es)
    BY <2>2, <2>3, AddedAllOrderly DEF IsTrimmedBy
  <2> DEFINE s == AddedAll(t, es)
  <2>6. Bounded(s)
    BY <1>2, <2>1, <2>4 DEF AppendCopies, Becomes, r, source, t
  <2> HIDE DEF s
  <2>7. Orderly(r) => KeepsNumber(s, t)
    BY <2>5, <2>6, BoundedIsCounted DEF s, IsAdded
  <2>8. StaysInOrder(a)
    BY <2>3, <2>4, <2>5, <2>7 DEF StaysInOrder, IsTrimmedBy, IsAdded, KeepsNumber, s, r
  <2>9. QED
    BY <2>1, <2>8, OneChangeKeepsOrder DEF MadeInOrder
<1>3. CASE AppendPages(a, b)
  <2>1. OthersStay(a) /\ DOMAIN array' = DOMAIN array \ {b}
    BY <1>3, TwoStepChanges
  <2>2. \A c \in DOMAIN array \cap DOMAIN array' : StaysInOrder(c) \/ AppendPages(c, b)
    BY <1>3, <2>1, UntouchedStays DEF OthersStay
  <2>3. QED
    BY <2>1, <2>2 DEF OrderKept, MadeInOrder
<1>4. CASE Clone(a, b)
  <2>1. /\ OthersStay(b) /\ DOMAIN array' = DOMAIN array \cup {b} /\ b \notin DOMAIN array
        /\ a \in DOMAIN array /\ array'[b] = Cloned(r)
    BY <1>4, TwoStepChanges DEF r
  <2>2. OrderKept
    BY <2>1, OneChangeKeepsOrder
  <2>3. Orderly(r) => Len(r.pages) \in Nat
    BY OrderlyElems
  <2>4. Orderly(array'[b]) \/ (Orderly(r) => Len(r.pages) > 1)
    BY <2>1, <2>3, ClonedOrderly
  <2>5. QED
    BY <1>4, <2>1, <2>2, <2>4 DEF MadeInOrder, r
<1>5. QED
  BY <1>2, <1>3, <1>4 DEF TwoArraysStep

LEMMA StepKeepsOrder ==
  ASSUME ArraysWellMade, Next
  PROVE  OrderKept /\ MadeInOrder
BY StepIs, OneArrayKeepsOrder, TwoArraysKeepOrder

(* The body of SoundnessKept.                                              *)
SoundnessStep ==
    /\ \A a \in DOMAIN array \cap DOMAIN array' :
         \/ /\ Sound(a) => Sound(a)'
            /\ Sound(a) /\ Counted(a) => Counted(a)'
         \/ \E b \in Arrays : AppendPages(a, b)
    /\ \A a \in DOMAIN array' \ DOMAIN array :
         \/ Sound(a)'
         \/ \E b \in Arrays : Clone(b, a) /\ (Sound(b) => Len(array[b].pages) > 1)

LEMMA StepKeepsSound ==
  ASSUME ArraysWellMade, ArraysWellMade', [Next]_arrayVars
  PROVE  SoundnessStep
<1>1. \A a \in DOMAIN array : Sound(a) <=> Orderly(array[a])
  BY SoundIsOrderly DEF ArraysWellMade, AllHeld, Held
<1>2. \A a \in DOMAIN array' : Sound(a)' <=> Orderly(array'[a])
  <2>1. \A a \in DOMAIN array' : WellMade(array'[a])
    BY DEF ArraysWellMade, AllHeld, Held
  <2>2. QED
    BY <2>1, SoundNext
<1>3. CASE Next
  <2>1. OrderKept /\ MadeInOrder
    BY <1>3, StepKeepsOrder
  <2>2. ASSUME NEW a \in DOMAIN array \cap DOMAIN array', ~\E b \in Arrays : AppendPages(a, b)
        PROVE  (Sound(a) => Sound(a)') /\ (Sound(a) /\ Counted(a) => Counted(a)')
    <3>1. StaysInOrder(a)
      BY <2>1, <2>2 DEF OrderKept
    <3>2. Sound(a) => Sound(a)'
      BY <1>1, <1>2, <3>1 DEF StaysInOrder
    <3>3. Sound(a) /\ Counted(a) => Counted(a)'
      BY <1>1, <3>1 DEF StaysInOrder, KeepsNumber, Counted
    <3>4. QED
      BY <3>2, <3>3
  <2>3. ASSUME NEW a \in DOMAIN array' \ DOMAIN array, ~(Sound(a)')
        PROVE  \E b \in Arrays : Clone(b, a) /\ (Sound(b) => Len(array[b].pages) > 1)
    BY <1>1, <1>2, <2>1, <2>3 DEF MadeInOrder
  <2>4. QED
    BY <2>2, <2>3 DEF SoundnessStep
<1>4. CASE UNCHANGED arrayVars
  <2>1. array' = array
    BY <1>4 DEF arrayVars
  <2>2. \A a \in DOMAIN array : (Sound(a) => Sound(a)') /\ (Counted(a) => Counted(a)')
    BY <1>1, <1>2, <2>1 DEF Counted
  <2>3. QED
    BY <2>1, <2>2 DEF SoundnessStep
<1>5. QED
  BY <1>3, <1>4

(* No call puts an array out of order, except an append of pages on to it, *)
(* and none is made out of order, except as a clone of several pages or of *)
(* one out of order (avDynamicArray.c, every call).                        *)
THEOREM DynamicArraysStaySound == Spec => SoundnessKept
<1>1. ArraysWellMade /\ ArraysWellMade' /\ [Next]_arrayVars => [SoundnessStep]_arrayVars
  BY StepKeepsSound
<1>2. Spec => [][SoundnessStep]_arrayVars
  BY <1>1, ArraysStayWellMade, PTL DEF Spec
<1>3. QED
  BY <1>2 DEF SoundnessKept, SoundnessStep

(* "this should only occur when I programmed it wrong": whatever was added,*)
(* removed, trimmed or resized, the page of the next element of an array   *)
(* in order is not full (the assertion of avDynamicArrayReserve).          *)
SoundHasRoom ==
    \A a \in DOMAIN array :
        Sound(a) /\ Located(array[a], array[a].count) => RemainingSpace(array[a]) # 0

THEOREM SoundArraysHaveRoom == Spec => []SoundHasRoom
<1>1. ArraysWellMade => SoundHasRoom
  BY SoundIsOrderly, OrderlyHasRoom DEF ArraysWellMade, AllHeld, Held, SoundHasRoom
<1>2. QED
  BY <1>1, ArraysStayWellMade, PTL

AllOrderly == \A a \in DOMAIN array : Orderly(array[a])

LEMMA OneHandleKeepsOrder ==
  ASSUME \A a, b \in Arrays : a = b, ArraysWellMade, AllOrderly, [Next]_arrayVars
  PROVE  AllOrderly'
<1>1. CASE Next
  <2>1. OrderKept /\ MadeInOrder
    BY <1>1, StepKeepsOrder
  <2>2. \A a, b \in Arrays : ~AppendPages(a, b) /\ (a \in DOMAIN array => ~Clone(a, b))
    BY TwoStepChanges
  <2>3. DOMAIN array \subseteq Arrays
    BY DEF ArraysWellMade, AllHeld
  <2>4. DOMAIN array' \subseteq Arrays
    BY <1>1, StepKeepsWellMade DEF ArraysWellMade, AllHeld
  <2>5. QED
    BY <2>1, <2>2, <2>3, <2>4 DEF AllOrderly, OrderKept, MadeInOrder, StaysInOrder
<1>2. CASE UNCHANGED arrayVars
  BY <1>2 DEF arrayVars, AllOrderly
<1>3. QED
  BY <1>1, <1>2

(* The same of every array while the program has one of them: it takes an  *)
(* append or a clone to put an array out of order.                         *)
THEOREM OneArrayHasRoom == (\A a, b \in Arrays : a = b) => (Spec => []ReserveHasRoom)
<1> SUFFICES ASSUME \A a, b \in Arrays : a = b PROVE Spec => []ReserveHasRoom
  OBVIOUS
<1>1. Init => AllOrderly
  <2>1. DOMAIN <<>> = {}
    OBVIOUS
  <2>2. QED
    BY <2>1 DEF Init, AllOrderly
<1>2. ArraysWellMade /\ AllOrderly /\ [Next]_arrayVars => AllOrderly'
  BY OneHandleKeepsOrder
<1>3. AllOrderly => ReserveHasRoom
  BY OrderlyHasRoom DEF AllOrderly, ReserveHasRoom
<1>4. QED
  BY <1>1, <1>2, <1>3, ArraysStayWellMade, PTL DEF Spec

--------------------------------------------------------------------------------
(* Where the elements are, and where they go.                              *)

LEMMA ExtendsKeepsRoom ==
  ASSUME NEW pages \in Seq(Page), NEW more \in Seq(Page), Extends(pages, more)
  PROVE  \A k \in 1..Len(pages) : Room(more, k) = Room(pages, k)
<1> DEFINE N == Len(pages)
           s == Memory(pages)
           t == Memory(more)
           L == Lengths(s)
           p == StartsOf(s)
           q == StartsOf(t)
<1>1. /\ N \in Nat /\ N <= Len(more) /\ Len(more) \in Nat
      /\ \A k \in 1..N : Capacity(more[k]) = Capacity(pages[k])
  BY PageFields DEF Extends
<1>2. /\ s \in Seq(Seq(Values)) /\ Len(s) = N /\ \A k \in 1..N : Len(s[k]) = Capacity(pages[k])
      /\ t \in Seq(Seq(Values)) /\ Len(t) = Len(more)
      /\ \A k \in 1..Len(more) : Len(t[k]) = Capacity(more[k])
  BY MemoryTyped
<1> HIDE DEF s, t, Page
<1>3. /\ AreStarts(p, L, Len(s)) /\ \A k \in 1..(Len(s) + 1) : p[k] = Before(s, k)
      /\ AreStarts(q, Lengths(t), Len(t)) /\ \A k \in 1..(Len(t) + 1) : q[k] = Before(t, k)
  BY <1>2, StartsFollow
<1>4. \A k \in 1..N : L[k] = Lengths(t)[k]
  BY <1>1, <1>2 DEF Lengths
<1> HIDE DEF p, q, L, N
<1>5. AreStarts(q, L, N)
  <2>1. \A k \in 1..N : k \in 1..Len(more)
    BY <1>1
  <2>2. \A k \in 1..N : Lengths(t)[k] \in Nat /\ q[k] \in Nat /\ q[k + 1] = q[k] + Lengths(t)[k]
    BY <1>2, <1>3, <2>1 DEF AreStarts
  <2>3. QED
    BY <1>3, <1>4, <2>2 DEF AreStarts
<1>6. SameUpTo(p, q, N + 1)
  BY <1>1, <1>2, <1>3, <1>5, StartsAgree
<1>7. ASSUME NEW k \in 1..N PROVE Room(more, k) = Room(pages, k)
  <2>1. k \in 1..(N + 1) /\ k \in 1..(Len(s) + 1) /\ k \in 1..(Len(t) + 1)
    BY <1>1, <1>2
  <2>2. p[k] = q[k]
    BY <1>6, <2>1 DEF SameUpTo
  <2>3. QED
    BY <1>3, <2>1, <2>2 DEF Room, s, t
<1>8. QED
  BY <1>7 DEF N

(* An element whose index is in both arrays is in the same place.          *)
SamePlaces(s, r) ==
    \A i \in 0..(r.count - 1) : Found(r, i) /\ Found(s, i) /\ Locate(r, i) = Locate(s, i)

LEMMA ExtendsKeepsPlaces ==
  ASSUME NEW r, Orderly(r), NEW s, Onward(s, r), Extends(r.pages, s.pages)
  PROVE  SamePlaces(s, r)
<1> DEFINE x == r.pages
           y == s.pages
<1>1. /\ x \in Seq(Page) /\ Packed(x) /\ Len(x) \in Nat /\ r.count = Len(Elems(x)) /\ r.count \in Nat
      /\ y \in Seq(Page) /\ Packed(y) /\ Len(y) \in Nat /\ s.count = Len(Elems(y)) /\ s.count \in Nat
      /\ r.count <= s.count
  BY OrderlyElems DEF Onward
<1>2. /\ \A k \in 1..Len(x) : Room(y, k) = Room(x, k) /\ Capacity(y[k]) = Capacity(x[k])
      /\ Len(x) <= Len(y)
  BY <1>1, ExtendsKeepsRoom DEF Extends
<1>3. ASSUME NEW i \in 0..(r.count - 1)
      PROVE  Found(r, i) /\ Found(s, i) /\ Locate(r, i) = Locate(s, i)
  <2>1. i \in Nat /\ i < Len(Elems(x)) /\ i < Len(Elems(y))
    BY <1>1
  <2>2. Found(r, i) /\ Found(s, i)
    BY <1>1, <2>1, ReadsAre
  <2>3. Found(r, i) =>
              \E k \in 1..Len(x) : \E j \in 1..Capacity(x[k]) :
                 i + 1 = Room(x, k) + j /\ Locate(r, i) = <<k, j>>
    BY <1>1, <2>1, ReadsTyped
  <2>4. PICK k \in 1..Len(x) : \E j \in 1..Capacity(x[k]) :
                 i + 1 = Room(x, k) + j /\ Locate(r, i) = <<k, j>>
    BY <2>2, <2>3
  <2>5. PICK j \in 1..Capacity(x[k]) : i + 1 = Room(x, k) + j /\ Locate(r, i) = <<k, j>>
    BY <2>4
  <2> HIDE DEF x, y, Page
  <2>6. k \in 1..Len(y) /\ j \in 1..Capacity(y[k]) /\ i + 1 = Room(y, k) + j
    BY <1>1, <1>2, <2>5
  <2>7. Locate(s, i) = <<k, j>>
    BY <1>1, <2>1, <2>6, LocateIs DEF y
  <2>8. QED
    BY <2>2, <2>5, <2>7
<1>4. QED
  BY <1>3 DEF SamePlaces

(* The steps that may move an element of array c.                          *)
Settles(c) ==
    Orderly(array[c]) =>
        \/ SamePlaces(array'[c], array[c])
        \/ array[c].allowRelocation
        \/ MakeContiguous(c) \/ \E v \in Values : Clear(c, v)

LEMMA UntouchedSettles ==
  ASSUME NEW c, array'[c] = array[c]
  PROVE  Settles(c)
<1>1. ASSUME Orderly(array[c]) PROVE SamePlaces(array[c], array[c])
  <2> DEFINE r == array[c]
  <2>1. Orderly(r) /\ WellMade(r)
    BY <1>1 DEF Orderly
  <2> HIDE DEF r
  <2>2. Onward(r, r) /\ Extends(r.pages, r.pages)
    BY <2>1, FlagSetOnward
  <2>3. SamePlaces(r, r)
    BY <2>1, <2>2, ExtendsKeepsPlaces
  <2>4. QED
    BY <2>3 DEF r
<1>2. QED
  BY <1>1 DEF Settles

LEMMA StepSettles ==
  ASSUME ArraysWellMade, Next, NEW c \in DOMAIN array \cap DOMAIN array'
  PROVE  Settles(c)
<1>1. ASSUME NEW a, OthersStay(a), a # c \/ a \notin DOMAIN array \/ a \notin DOMAIN array' \/ Settles(a)
      PROVE  Settles(c)
  BY <1>1, UntouchedSettles DEF OthersStay
<1>2. ASSUME NEW a \in Arrays, MakingStep(a) \/ Destroy(a) PROVE Settles(c)
  BY <1>1, <1>2, StepChanges
<1>3. ASSUME NEW a \in Arrays, NEW v \in Values, Clear(a, v) PROVE Settles(c)
  <2>1. OthersStay(a) /\ Settles(a)
    BY <1>3, StepChanges DEF Settles
  <2>2. QED
    BY <1>1, <2>1
<1>4. ASSUME NEW a \in DOMAIN array, QuietStep(a) PROVE Settles(c)
  <2>1. PICK s : /\ Returns(a, s)
                 /\ Orderly(array[a]) =>
                      /\ Onward(s, array[a])
                      /\ Extends(array[a].pages, s.pages) \/ array[a].allowRelocation \/ MakeContiguous(a)
    BY <1>4 DEF QuietStep
  <2>2. OthersStay(a) /\ array'[a] = s
    BY <2>1, StepChanges
  <2>3. Orderly(array[a]) /\ Extends(array[a].pages, s.pages) => SamePlaces(s, array[a])
    BY <2>1, ExtendsKeepsPlaces
  <2>4. Settles(a)
    BY <2>1, <2>2, <2>3 DEF Settles
  <2>5. QED
    BY <1>1, <2>2, <2>4
<1>5. ASSUME NEW a \in Arrays, NEW index \in Nat, RemoveIndex(a, index) PROVE Settles(c)
  <2>1. OthersStay(a) /\ Settles(a)
    BY <1>5, StepChanges DEF Settles
  <2>2. QED
    BY <1>1, <2>1
<1>6. ASSUME NEW a \in Arrays, NEW b \in Arrays, TwoArraysStep(a, b) PROVE Settles(c)
  <2>1. CASE AppendCopies(a, b) \/ AppendPages(a, b)
    <3>1. OthersStay(a) /\ Settles(a)
      BY <2>1, TwoStepChanges DEF Settles
    <3>2. QED
      BY <1>1, <3>1
  <2>2. CASE Clone(a, b)
    BY <1>1, <2>2, TwoStepChanges
  <2>3. QED
    BY <1>6, <2>1, <2>2 DEF TwoArraysStep
<1>7. QED
  BY <1>2, <1>3, <1>4, <1>5, <1>6, StepIs

(* The body of PinnedElementsStay.                                         *)
PinnedStep ==
    \A a \in DOMAIN array \cap DOMAIN array' :
          Sound(a) /\ ~array[a].allowRelocation /\ Moves(a)
              => MakeContiguous(a) \/ \E v \in Values : Clear(a, v)

LEMMA MovesIs ==
  ASSUME NEW a, SamePlaces(array'[a], array[a])
  PROVE  ~Moves(a)
BY DEF Moves, SamePlaces

LEMMA StepPins ==
  ASSUME ArraysWellMade, [Next]_arrayVars
  PROVE  PinnedStep
<1>1. ASSUME NEW a \in DOMAIN array \cap DOMAIN array', Sound(a), ~array[a].allowRelocation, Moves(a)
      PROVE  MakeContiguous(a) \/ \E v \in Values : Clear(a, v)
  <2>1. Orderly(array[a])
    BY <1>1, SoundIsOrderly DEF ArraysWellMade, AllHeld, Held
  <2>2. CASE Next
    <3>1. Settles(a)
      BY <2>2, StepSettles
    <3>2. QED
      BY <1>1, <2>1, <3>1, MovesIs DEF Settles
  <2>3. CASE UNCHANGED arrayVars
    <3>1. Settles(a)
      BY <2>3, UntouchedSettles DEF arrayVars
    <3>2. QED
      BY <1>1, <2>1, <3>1, MovesIs DEF Settles
  <2>4. QED
    BY <2>2, <2>3
<1>2. QED
  BY <1>1 DEF PinnedStep

(* While relocation is not allowed, each element stays in the same place of*)
(* the same page until its array is cleared or made contiguous             *)
(* (avDynamicArraySetAllowRelocation, and the calls that assert it).       *)
THEOREM PinnedElementsStayPut == Spec => PinnedElementsStay
<1>1. ArraysWellMade /\ [Next]_arrayVars => [PinnedStep]_arrayVars
  BY StepPins
<1>2. Spec => [][PinnedStep]_arrayVars
  BY <1>1, ArraysStayWellMade, PTL DEF Spec
<1>3. QED
  BY <1>2 DEF PinnedElementsStay, PinnedStep

(* Where the elements of array c go in a step.                             *)
Leaves(c) ==
    Orderly(array[c]) /\ array[c].deallocElement =>
       /\ c \notin DOMAIN array' =>
              released' = Contents(array[c]) \/ \E b \in DOMAIN array : AppendPages(b, c)
       /\ c \in DOMAIN array' /\ array'[c].count < array[c].count =>
              \/ \E v \in Values : Clear(c, v)
              \/ \E i \in 1..array[c].count :
                    /\ released' = <<Contents(array[c])[i]>>
                    /\ Contents(array'[c]) = RemoveAt(Contents(array[c]), i)

LEMMA MoreLeavesNone ==
  ASSUME NEW c, c \in DOMAIN array', Orderly(array[c]) => array[c].count <= array'[c].count /\ array'[c].count \in Nat
  PROVE  Leaves(c)
<1>1. Orderly(array[c]) => array[c].count \in Nat
  BY OrderlyElems
<1>2. Orderly(array[c]) => ~(array'[c].count < array[c].count)
  BY <1>1
<1>3. QED
  BY <1>2 DEF Leaves

LEMMA UntouchedLeavesNone ==
  ASSUME NEW c, c \in DOMAIN array', array'[c] = array[c]
  PROVE  Leaves(c)
BY MoreLeavesNone, OrderlyElems

LEMMA DestroyedLeaves ==
  ASSUME NEW c, c \notin DOMAIN array', released' = Deallocated(array[c])
  PROVE  Leaves(c)
BY DeallocatedIs, OrderlyContents DEF Leaves

LEMMA RemovedLeaves ==
  ASSUME ArraysWellMade, NEW a \in Arrays, NEW index \in Nat, RemoveIndex(a, index)
  PROVE  Leaves(a)
<1> DEFINE r == array[a]
           s == Removed(r, index)
<1>1. /\ a \in DOMAIN array' /\ array'[a] = s /\ Small(r) /\ index < r.count
      /\ released' = IF r.deallocElement THEN <<Reads(r)[index + 1]>> ELSE <<>>
  BY StepChanges, UsableIs DEF RemoveIndex
<1> HIDE DEF r, s
<1>2. ASSUME Orderly(r), r.deallocElement
      PROVE  \E i \in 1..r.count :
                /\ released' = <<Contents(r)[i]>>
                /\ Contents(s) = RemoveAt(Contents(r), i)
  <2>1. r.pages \in Seq(Page) /\ Packed(r.pages) /\ r.count = Len(Elems(r.pages)) /\ r.count \in Nat
    BY <1>2, OrderlyElems
  <2>2. index + 1 \in 1..(r.count) /\ index < Len(Elems(r.pages))
    BY <1>1, <2>1
  <2>3. Contents(r) = Elems(r.pages)
    BY <1>2, OrderlyContents
  <2>4. Reads(r)[index + 1] = Elems(r.pages)[index + 1]
    BY <2>1, <2>2, ReadsAre
  <2>5. IsRemoved(s, r, index)
    BY <1>1, <1>2, <2>2, RemovedOrderly DEF s
  <2>6. Contents(s) = RemoveAt(Elems(r.pages), index + 1)
    BY <2>5, OrderlyContents DEF IsRemoved
  <2>7. released' = <<Contents(r)[index + 1]>> /\ Contents(s) = RemoveAt(Contents(r), index + 1)
    BY <1>1, <1>2, <2>3, <2>4, <2>6
  <2>8. QED
    BY <2>2, <2>7
<1>3. QED
  BY <1>1, <1>2 DEF Leaves, r

LEMMA AppendedLeaves ==
  ASSUME ArraysWellMade, NEW a \in Arrays, NEW b \in Arrays, AppendCopies(a, b) \/ AppendPages(a, b)
  PROVE  Leaves(a) /\ Leaves(b)
<1> DEFINE r == array[a]
           source == array[b]
           t == Trimmed(r)
           es == Buffered(source, source.count)
           s == array'[a]
<1>1. /\ a \in DOMAIN array /\ a \in DOMAIN array' /\ b \notin DOMAIN array' /\ Usable(a) /\ Usable(b)
      /\ AppendCopies(a, b) => s = Copied(t, source) /\ released' = Deallocated(source)
      /\ AppendPages(a, b) => s = Hooked(t, source)
  BY TwoStepChanges
<1>2. Small(r) /\ WellMade(r) /\ Fit(r.pages) /\ WellMade(source)
  BY <1>1, UsableIs
<1>3. source.count \in Nat
  BY <1>2, PagesOfWellMade
<1>4. es \in Seq(Values)
  BY <1>2, <1>3, BufferedIs
<1>5. WellMade(t)
  BY <1>2, TrimmedTyped
<1>6. Orderly(r) => Orderly(t) /\ Elems(t.pages) = Elems(r.pages)
  BY <1>2, TrimmedOrderly DEF IsTrimmedBy
<1>7. Orderly(r) => t.count = r.count /\ r.count \in Nat
  BY <1>6, OrderlyElems
<1> HIDE DEF r, t, s
<1>8. Leaves(a)
  <2>1. CASE AppendCopies(a, b)
    <3>1. s = AddedAll(t, es)
      BY <1>1, <2>1 DEF Copied
    <3> HIDE DEF es, source
    <3>2. Orderly(r) => IsAdded(s, t, es)
      BY <1>4, <1>6, <3>1, AddedAllOrderly
    <3>3. Orderly(r) => s.count = Len(Elems(t.pages) \o es) /\ s.count \in Nat
      BY <3>2, OrderlyElems DEF IsAdded
    <3>4. Orderly(r) => Len(Elems(t.pages) \o es) = t.count + Len(es) /\ Len(es) \in Nat
      BY <1>4, <1>6, OrderlyElems, JoinTyped
    <3>5. Orderly(r) => r.count <= s.count /\ s.count \in Nat
      BY <1>7, <3>3, <3>4
    <3>6. QED
      BY <1>1, <3>5, MoreLeavesNone DEF r, s
  <2>2. CASE AppendPages(a, b)
    <3>1. s.count = t.count + source.count
      BY <1>1, <1>2, <1>5, <2>2, HookedTyped DEF IsHooked
    <3> HIDE DEF source
    <3>2. Orderly(r) => r.count <= s.count /\ s.count \in Nat
      BY <1>3, <1>7, <3>1
    <3>3. QED
      BY <1>1, <3>2, MoreLeavesNone DEF r, s
  <2>3. QED
    BY <2>1, <2>2
<1>9. Leaves(b)
  <2>1. CASE AppendCopies(a, b)
    BY <1>1, <2>1, DestroyedLeaves
  <2>2. CASE AppendPages(a, b)
    BY <1>1, <2>2 DEF Leaves
  <2>3. QED
    BY <2>1, <2>2
<1>10. QED
  BY <1>8, <1>9

LEMMA StepLeaves ==
  ASSUME ArraysWellMade, Next, NEW c \in DOMAIN array
  PROVE  Leaves(c)
<1>1. ASSUME NEW a, OthersStay(a), a # c, c \in DOMAIN array' PROVE Leaves(c)
  BY <1>1, UntouchedLeavesNone DEF OthersStay
<1>2. ASSUME NEW a \in Arrays, MakingStep(a) PROVE Leaves(c)
  BY <1>1, <1>2, StepChanges
<1>3. ASSUME NEW a \in Arrays, Destroy(a) PROVE Leaves(c)
  BY <1>1, <1>3, StepChanges, DestroyedLeaves
<1>4. ASSUME NEW a \in Arrays, NEW v \in Values, Clear(a, v) PROVE Leaves(c)
  <2>1. OthersStay(a) /\ c \in DOMAIN array'
    BY <1>4, StepChanges
  <2>2. CASE a = c
    BY <1>4, <2>1, <2>2 DEF Leaves
  <2>3. QED
    BY <1>1, <2>1, <2>2
<1>5. ASSUME NEW a \in DOMAIN array, QuietStep(a) PROVE Leaves(c)
  <2>1. PICK s : Returns(a, s) /\ (Orderly(array[a]) => Onward(s, array[a]))
    BY <1>5 DEF QuietStep
  <2>2. OthersStay(a) /\ array'[a] = s /\ c \in DOMAIN array'
    BY <2>1, StepChanges
  <2>3. CASE a = c
    <3>1. Orderly(array[c]) => array[c].count <= array'[c].count /\ array'[c].count \in Nat
      BY <2>1, <2>2, <2>3, OrderlyElems DEF Onward
    <3>2. QED
      BY <2>2, <3>1, MoreLeavesNone
  <2>4. QED
    BY <1>1, <2>2, <2>3
<1>6. ASSUME NEW a \in Arrays, NEW index \in Nat, RemoveIndex(a, index) PROVE Leaves(c)
  <2>1. OthersStay(a) /\ c \in DOMAIN array' /\ Leaves(a)
    BY <1>6, StepChanges, RemovedLeaves
  <2>2. QED
    BY <1>1, <2>1
<1>7. ASSUME NEW a \in Arrays, NEW b \in Arrays, TwoArraysStep(a, b) PROVE Leaves(c)
  <2>1. CASE AppendCopies(a, b) \/ AppendPages(a, b)
    <3>1. OthersStay(a) /\ DOMAIN array' = DOMAIN array \ {b} /\ Leaves(a) /\ Leaves(b)
      BY <2>1, TwoStepChanges, AppendedLeaves
    <3>2. QED
      BY <1>1, <3>1
  <2>2. CASE Clone(a, b)
    BY <1>1, <2>2, TwoStepChanges
  <2>3. QED
    BY <1>7, <2>1, <2>2 DEF TwoArraysStep
<1>8. QED
  BY <1>2, <1>3, <1>4, <1>5, <1>6, <1>7, StepIs

(* The body of LeavesToCallback.                                           *)
LeavesStep ==
    \A a \in DOMAIN array :
          Sound(a) /\ array[a].deallocElement =>
             /\ a \notin DOMAIN array' =>
                    released' = Contents(array[a]) \/ \E b \in DOMAIN array : AppendPages(b, a)
             /\ a \in DOMAIN array' /\ array'[a].count < array[a].count =>
                    \/ \E v \in Values : Clear(a, v)
                    \/ \E i \in 1..array[a].count :
                          /\ released' = <<Contents(array[a])[i]>>
                          /\ Contents(array'[a]) = RemoveAt(Contents(array[a]), i)

LEMMA StepLeavesToCallback ==
  ASSUME ArraysWellMade, [Next]_arrayVars
  PROVE  LeavesStep
<1>1. ASSUME NEW a \in DOMAIN array PROVE Leaves(a)
  <2>1. CASE Next
    BY <2>1, StepLeaves
  <2>2. CASE UNCHANGED arrayVars
    BY <2>2, UntouchedLeavesNone DEF arrayVars
  <2>3. QED
    BY <2>1, <2>2
<1>2. \A a \in DOMAIN array : Sound(a) <=> Orderly(array[a])
  BY SoundIsOrderly DEF ArraysWellMade, AllHeld, Held
<1>3. QED
  BY <1>1, <1>2 DEF LeavesStep, Leaves

(* An element that is removed goes to the callback and the others close    *)
(* ranks; an array that is destroyed gives the callback all it has         *)
(* (avDynamicArrayRemove, avDynamicArrayDestroy).                          *)
THEOREM ElementsLeaveToCallback == Spec => LeavesToCallback
<1>1. ArraysWellMade /\ [Next]_arrayVars => [LeavesStep]_arrayVars
  BY StepLeavesToCallback
<1>2. Spec => [][LeavesStep]_arrayVars
  BY <1>1, ArraysStayWellMade, PTL DEF Spec
<1>3. QED
  BY <1>2 DEF LeavesToCallback, LeavesStep

(* Both of the elements of every array: they stay in place or go to the    *)
(* callback.                                                               *)
THEOREM DynamicElementsStayOrLeave == Spec => ElementsStayOrLeave
BY PinnedElementsStayPut, ElementsLeaveToCallback DEF ElementsStayOrLeave

--------------------------------------------------------------------------------
(* The calls on two arrays.                                                *)

LEMMA AppendKeepsElements ==
  ASSUME NEW r, Orderly(r), Small(r), NEW source, Orderly(source)
  PROVE  LET t == Trimmed(r) IN
         /\ Contents(Copied(t, source)) = Contents(r) \o Contents(source)
         /\ Contents(Hooked(t, source)) = Contents(r) \o Contents(source)
<1> DEFINE t == Trimmed(r)
<1>1. Orderly(t) /\ Elems(t.pages) = Elems(r.pages) /\ Trim1(t)
  BY TrimmedOrderly DEF IsTrimmedBy
<1>2. Contents(r) = Elems(r.pages) /\ Contents(source) = Elems(source.pages)
  BY OrderlyContents
<1> HIDE DEF t
<1>3. Contents(Copied(t, source)) = Elems(t.pages) \o Elems(source.pages)
  <2> DEFINE s == Copied(t, source)
  <2>1. IsAdded(s, t, Elems(source.pages))
    BY <1>1, CopiedOrderly
  <2> HIDE DEF s
  <2>2. QED
    BY <2>1, OrderlyContents DEF IsAdded, s
<1>4. Contents(Hooked(t, source)) = Elems(t.pages) \o Elems(source.pages)
  <2> DEFINE s == Hooked(t, source)
  <2>1. Readable(s) /\ Elems(s.pages) = Elems(t.pages) \o Elems(source.pages)
    BY <1>1, TrimmedIsFull, HookedReads
  <2> HIDE DEF s
  <2>2. Contents(s) = Elems(s.pages)
    BY <2>1, ContentsAre DEF Readable
  <2>3. QED
    BY <2>1, <2>2 DEF s
<1>5. QED
  BY <1>1, <1>2, <1>3, <1>4 DEF t

LEMMA CloneKeepsElements ==
  ASSUME NEW r, Orderly(r), Len(r.pages) = 1
  PROVE  Contents(Cloned(r)) = Contents(r)
<1>1. Len(r.pages) <= 1
  OBVIOUS
<1>2. Orderly(Cloned(r)) /\ Elems(Cloned(r).pages) = Elems(r.pages)
  BY <1>1, ClonedOrderly
<1>3. QED
  BY <1>2, OrderlyContents

LEMMA WellMadePairs == ArraysWellMade => AppendsAndClonesKeepElements
<1> SUFFICES ASSUME ArraysWellMade,
                    NEW a \in DOMAIN array, NEW b \in DOMAIN array,
                    a # b, Sound(a), Sound(b), array[b].count # 0
             PROVE  LET r == Trimmed(array[a]) IN
                    /\ Contents(IF r.count = 0 THEN Copied(r, array[b]) ELSE Hooked(r, array[b]))
                          = Contents(array[a]) \o Contents(array[b])
                    /\ Len(array[b].pages) = 1 => Contents(Cloned(array[b])) = Contents(array[b])
  BY DEF AppendsAndClonesKeepElements
<1>1. Orderly(array[a]) /\ Small(array[a]) /\ Orderly(array[b])
  BY SoundIsOrderly DEF ArraysWellMade, AllHeld, Held
<1>2. QED
  BY <1>1, AppendKeepsElements, CloneKeepsElements

(* An append leaves the elements of both arrays, in that order, and a clone*)
(* of one page has the elements of its source (avDynamicArrayAppend,       *)
(* avDynamicArrayClone).                                                   *)
THEOREM AppendsAndClonesKeep == Spec => []AppendsAndClonesKeepElements
BY ArraysStayWellMade, WellMadePairs, PTL

(* Two arrays keep their elements, and only an append of pages or a clone  *)
(* of several pages puts one out of order.                                 *)
THEOREM PairsKept == Spec => PairKept
BY AppendsAndClonesKeep, DynamicArraysStaySound DEF PairKept

================================================================================
