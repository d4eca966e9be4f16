-------------------------- MODULE GaloisFieldProofs --------------------------
(***************************************************************************)
(* The tables of GaloisField are a field, for every GF_BITS and primitive  *)
(* polynomial; then sums and polynomials over it.                          *)
(***************************************************************************)
EXTENDS GaloisField, TLAPS, FiniteSetTheorems

-------------------------------------------------------------------------------
(***************************************************************************)
(* Induction and recursion on the naturals                                 *)
(***************************************************************************)
\* Induction over a set of naturals.
LEMMA Induct ==
    ASSUME NEW S \in SUBSET Nat, 0 \in S, \A n \in S : n + 1 \in S
    PROVE  \A n \in Nat : n \in S
<1> DEFINE T == Nat \ S
           R == OpToRel(<, Nat)
<1> SUFFICES ASSUME T # {} PROVE FALSE
  BY DEF T
<1>1. IsWellFoundedOn(R, Nat)
  BY NatLessThanWellFounded, Zenon
<1>2. R = {ss \in Nat \X Nat : ss[1] < ss[2]}
  BY Zenon DEF OpToRel
<1>3. T \subseteq Nat
  OBVIOUS
<1> HIDE DEF T, R
<1>4. PICK x \in T : \A y \in T : ~ (<<y, x>> \in R)
  BY <1>1, <1>3, WFMin, Zenon
<1>5. x # 0 /\ x \in Nat /\ x - 1 \in Nat /\ x - 1 < x /\ x = (x - 1) + 1
  BY <1>3, SMT DEF T
<1>6. <<x - 1, x>> \in R
  BY <1>2, <1>5
<1>7. x - 1 \notin T
  BY <1>4, <1>6
<1> QED BY <1>5, <1>7 DEF T

\* h is what a and F define by recursion, as far as n.
Follows(h, S, a, F, n) ==
    /\ h \in [0..n -> S]
    /\ h[0] = a
    /\ \A i \in 0..(n - 1) : h[i + 1] = F[<<i, h[i]>>]

\* What is defined by recursion exists.
LEMMA Recursion ==
    ASSUME NEW S, NEW a \in S, NEW F \in [Nat \X S -> S]
    PROVE  \A n \in Nat : \E h : Follows(h, S, a, F, n)
<1> DEFINE T == {n \in Nat : \E h : Follows(h, S, a, F, n)}
<1>1. 0 \in T
  <2>1. Follows([i \in 0..0 |-> a], S, a, F, 0)
    BY DEF Follows
  <2> QED BY <2>1
<1>2. ASSUME NEW n \in T PROVE n + 1 \in T
  <2>1. PICK h : Follows(h, S, a, F, n)
    OBVIOUS
  <2> DEFINE g == [i \in 0..(n + 1) |-> IF i = n + 1 THEN F[<<n, h[n]>>] ELSE h[i]]
  <2>2. n \in Nat /\ n + 1 \in Nat
    OBVIOUS
  <2>3. \A i \in 0..(n + 1) : i \in 0..n \/ i = n + 1
    BY <2>2
  <2>4. h[n] \in S /\ F[<<n, h[n]>>] \in S
    BY <2>1, <2>2 DEF Follows
  <2>5. g \in [0..(n + 1) -> S]
    BY <2>1, <2>3, <2>4 DEF Follows
  <2>6. g[0] = a
    BY <2>1, <2>2 DEF Follows
  <2>7. ASSUME NEW i \in 0..(n + 1 - 1) PROVE g[i + 1] = F[<<i, g[i]>>]
    <3>1. /\ i \in 0..n /\ i # n + 1 /\ i \in 0..(n + 1) /\ i + 1 \in 0..(n + 1)
          /\ (i + 1 = n + 1 => i = n) /\ (i + 1 # n + 1 => i \in 0..(n - 1))
      BY <2>2, SMT
    <3>2. g[i] = h[i]
      BY <3>1
    <3>3. CASE i + 1 = n + 1
      BY <3>1, <3>2, <3>3
    <3>4. CASE i + 1 # n + 1
      <4>1. h[i + 1] = F[<<i, h[i]>>]
        BY <2>1, <3>1, <3>4 DEF Follows
      <4> QED BY <3>1, <3>2, <3>4, <4>1
    <3> QED BY <3>3, <3>4
  <2> HIDE DEF g
  <2>8. \A i \in 0..(n + 1 - 1) : g[i + 1] = F[<<i, g[i]>>]
    BY <2>7
  <2>9. Follows(g, S, a, F, n + 1)
    BY <2>5, <2>6, <2>8 DEF Follows
  <2> QED BY <2>2, <2>9
<1> HIDE DEF T
<1>3. T \in SUBSET Nat
  BY DEF T
<1>4. \A n \in Nat : n \in T
  BY <1>1, <1>2, <1>3, Induct, Zenon
<1> QED BY <1>4 DEF T

\* h and g follow the same recursion: they are equal.
LEMMA FollowsUnique ==
    ASSUME NEW S, NEW a, NEW F, NEW n \in Nat, NEW g, NEW h,
           Follows(g, S, a, F, n), Follows(h, S, a, F, n)
    PROVE  \A i \in 0..n : g[i] = h[i]
<1> DEFINE T == {i \in Nat : i <= n => g[i] = h[i]}
<1>1. 0 \in T
  BY DEF Follows
<1>2. ASSUME NEW i \in T PROVE i + 1 \in T
  <2>1. i \in Nat /\ i + 1 \in Nat /\ (i + 1 <= n => i \in 0..(n - 1) /\ i <= n)
    BY SMT
  <2>2. i + 1 <= n => g[i + 1] = F[<<i, g[i]>>] /\ h[i + 1] = F[<<i, h[i]>>]
    BY <2>1 DEF Follows
  <2> QED BY <2>1, <2>2
<1> HIDE DEF T
<1>3. T \in SUBSET Nat
  BY DEF T
<1>4. \A i \in Nat : i \in T
  BY <1>1, <1>2, <1>3, Induct, Zenon
<1> QED BY <1>4, SMT DEF T

\* On all the naturals.
IsStep(F, S) == F \in [Nat \X S -> S]

FollowsAll(h, S, a, F) ==
    /\ h \in [Nat -> S]
    /\ h[0] = a
    /\ \A i \in Nat : h[i + 1] = F[<<i, h[i]>>]

LEMMA RecursionNat ==
    ASSUME NEW S, NEW a \in S, NEW F, IsStep(F, S)
    PROVE  \E h : FollowsAll(h, S, a, F)
<1> DEFINE upto == [n \in Nat |-> CHOOSE h : Follows(h, S, a, F, n)]
           h == [n \in Nat |-> upto[n][n]]
<1>1. \A n \in Nat : Follows(upto[n], S, a, F, n)
  <2>1. F \in [Nat \X S -> S]
    BY DEF IsStep
  <2> QED BY <2>1, Recursion, Zenon
<1> HIDE DEF upto
<1>2. h \in [Nat -> S]
  <2>1. ASSUME NEW n \in Nat PROVE upto[n][n] \in S
    <3>1. n \in 0..n
      OBVIOUS
    <3> QED BY <1>1, <3>1 DEF Follows
  <2> QED BY <2>1
<1>3. h[0] = a
  BY <1>1 DEF Follows
<1>4. ASSUME NEW i \in Nat PROVE h[i + 1] = F[<<i, h[i]>>]
  <2>1. Follows(upto[i], S, a, F, i) /\ Follows(upto[i + 1], S, a, F, i + 1)
    BY <1>1
  <2> DEFINE g == [j \in 0..i |-> upto[i + 1][j]]
  <2>2. \A j \in 0..i : j \in 0..(i + 1)
    BY SMT
  <2>3. g \in [0..i -> S]
    BY <2>1, <2>2 DEF Follows
  <2>4. g[0] = a
    BY <2>1 DEF Follows
  <2>5. \A j \in 0..(i - 1) : g[j + 1] = F[<<j, g[j]>>]
    <3> TAKE j \in 0..(i - 1)
    <3>1. j \in 0..i /\ j + 1 \in 0..i /\ j \in 0..(i + 1 - 1)
      BY SMT
    <3> QED BY <2>1, <3>1 DEF Follows
  <2>6. g[i] = upto[i + 1][i]
    OBVIOUS
  <2> HIDE DEF g
  <2>7. Follows(g, S, a, F, i)
    BY <2>3, <2>4, <2>5 DEF Follows
  <2>8. i \in 0..i
    OBVIOUS
  <2>9. upto[i + 1][i] = upto[i][i]
    BY <2>1, <2>6, <2>7, <2>8, FollowsUnique
  <2>10. i \in 0..(i + 1 - 1)
    BY SMT
  <2>11. upto[i + 1][i + 1] = F[<<i, upto[i + 1][i]>>]
    BY <2>1, <2>10 DEF Follows
  <2> QED BY <2>9, <2>11
<1> HIDE DEF h
<1>5. FollowsAll(h, S, a, F)
  BY <1>2, <1>3, <1>4 DEF FollowsAll
<1> QED BY <1>5

-------------------------------------------------------------------------------
(***************************************************************************)
(* Addition: symmetric difference                                          *)
(***************************************************************************)
LEMMA PlusLaws ==
    /\ Zero \in Gf /\ One \in Gf /\ Zero # One
    /\ \A x, y \in Gf : Plus(x, y) \in Gf
    /\ \A x, y : Plus(x, y) = Plus(y, x)
    /\ \A x, y, z : Plus(Plus(x, y), z) = Plus(x, Plus(y, z))
    /\ \A x : Plus(x, x) = Zero /\ Plus(x, Zero) = x /\ Plus(Zero, x) = x
    /\ \A x, y : Plus(x, y) = Zero => x = y
<1>1. Zero \in Gf /\ One \in Gf /\ Zero # One
  BY FieldAssumption, SMT DEF Zero, One, Gf
<1>2. \A x, y \in Gf : Plus(x, y) \in Gf
  BY Zenon DEF Plus, Gf
<1>3. \A x, y : Plus(x, y) = Plus(y, x)
  BY Zenon DEF Plus
<1>4. \A x, y, z : Plus(Plus(x, y), z) = Plus(x, Plus(y, z))
  BY DEF Plus
<1>5. \A x : Plus(x, x) = Zero /\ Plus(x, Zero) = x /\ Plus(Zero, x) = x
  BY DEF Plus, Zero
<1>6. \A x, y : Plus(x, y) = Zero => x = y
  BY DEF Plus, Zero
<1> QED BY <1>1, <1>2, <1>3, <1>4, <1>5, <1>6

\* Multiplication by alpha respects sums.
LEMMA TimesAlphaLaws ==
    /\ Times_alpha(Zero) = Zero
    /\ \A x \in Gf : Times_alpha(x) \in Gf
    /\ \A x, y \in Gf : Times_alpha(Plus(x, y)) = Plus(Times_alpha(x), Times_alpha(y))
<1> DEFINE top == GF_BITS - 1
           Low(x) == x \ {top}
           High(x) == IF top \in x THEN Pp ELSE Zero
<1>1. top \in Nat /\ Pp \subseteq 0..top
  BY FieldAssumption, SMT
<1>2. Gf = SUBSET (0..top)
  BY DEF Gf
<1>3. ASSUME NEW x PROVE Times_alpha(x) = Plus(High(x), Shifted(Low(x)))
  <2>1. CASE top \in x
    BY <2>1 DEF Times_alpha
  <2>2. CASE top \notin x
    <3>1. Low(x) = x
      BY <2>2, Zenon
    <3> QED BY <2>2, <3>1, PlusLaws DEF Times_alpha
  <2> QED BY <2>1, <2>2
<1>4. ASSUME NEW x \in Gf PROVE Shifted(Low(x)) \in Gf
  <2>1. \A e \in x : e \in 0..top /\ (e # top => e + 1 \in 0..top)
    BY <1>1, <1>2
  <2>2. \A e \in Low(x) : e + 1 \in 0..top
    BY <2>1, Zenon
  <2> HIDE DEF Low
  <2> QED BY <1>2, <2>2, Zenon DEF Shifted
<1>6. ASSUME NEW x \in SUBSET Int, NEW y \in SUBSET Int
      PROVE  Shifted(Plus(x, y)) = Plus(Shifted(x), Shifted(y))
  <2>1. \A a, b \in Int : a + 1 = b + 1 => a = b
    BY SMT
  <2>2. \A z \in SUBSET Int : \A a \in Int : a + 1 \in Shifted(z) <=> a \in z
    BY <2>1, Zenon DEF Shifted
  <2>3. Plus(x, y) \in SUBSET Int
    BY Zenon DEF Plus
  <2>4. \A z \in SUBSET Int : \A b \in Shifted(z) : \E a \in Int : b = a + 1
    BY Zenon DEF Shifted
  <2>5. \A v, w, b : b \in Plus(v, w) <=> ((b \in v /\ b \notin w) \/ (b \in w /\ b \notin v))
    BY Zenon DEF Plus
  <2>6. \A a \in Int : a + 1 \in Shifted(Plus(x, y)) <=> a + 1 \in Plus(Shifted(x), Shifted(y))
    <3> TAKE a \in Int
    <3>1. a + 1 \in Shifted(Plus(x, y)) <=> a \in Plus(x, y)
      BY <2>2, <2>3
    <3>2. (a + 1 \in Shifted(x) <=> a \in x) /\ (a + 1 \in Shifted(y) <=> a \in y)
      BY <2>2
    <3>3. a \in Plus(x, y) <=> ((a \in x /\ a \notin y) \/ (a \in y /\ a \notin x))
      BY <2>5
    <3>4. a + 1 \in Plus(Shifted(x), Shifted(y))
            <=> \/ a + 1 \in Shifted(x) /\ a + 1 \notin Shifted(y)
                \/ a + 1 \in Shifted(y) /\ a + 1 \notin Shifted(x)
      BY <2>5
    <3> QED BY <3>1, <3>2, <3>3, <3>4, Zenon
  <2>7. \A b \in Shifted(Plus(x, y)) : \E a \in Int : b = a + 1
    BY <2>3, <2>4
  <2>8. \A b \in Plus(Shifted(x), Shifted(y)) : \E a \in Int : b = a + 1
    BY <2>4, <2>5
  <2>9. \A b : b \in Shifted(Plus(x, y)) <=> b \in Plus(Shifted(x), Shifted(y))
    BY <2>6, <2>7, <2>8
  <2> QED BY <2>9, Zenon
<1>7. ASSUME NEW x \in Gf, NEW y \in Gf
      PROVE  Times_alpha(Plus(x, y)) = Plus(Times_alpha(x), Times_alpha(y))
  <2>1. Low(Plus(x, y)) = Plus(Low(x), Low(y))
    BY Zenon DEF Plus
  <2>2. High(Plus(x, y)) = Plus(High(x), High(y))
    BY DEF Plus, Zero
  <2>3. \A e \in 0..top : e \in Int
    BY <1>1, SMT
  <2>4. Low(x) \in SUBSET Int /\ Low(y) \in SUBSET Int
    BY <1>2, <2>3, Zenon
  <2> HIDE DEF Low, High
  <2>5. Shifted(Low(Plus(x, y))) = Plus(Shifted(Low(x)), Shifted(Low(y)))
    BY <1>6, <2>1, <2>4
  <2>6. \A a, b, c, d : Plus(Plus(a, b), Plus(c, d)) = Plus(Plus(a, c), Plus(b, d))
    BY DEF Plus
  <2> QED BY <1>3, <2>2, <2>5, <2>6
<1>8. \A x \in Gf : High(x) \in Gf
  BY <1>1, <1>2, PlusLaws
<1>9. Low(Zero) = Zero /\ High(Zero) = Zero /\ Shifted(Zero) = Zero
  BY DEF Zero, Shifted
<1> HIDE DEF Low, High
<1>10. \A x \in Gf : Times_alpha(x) \in Gf
  BY <1>3, <1>4, <1>8, PlusLaws
<1>11. Times_alpha(Zero) = Zero
  BY <1>3, <1>9, PlusLaws
<1> QED BY <1>7, <1>10, <1>11

-------------------------------------------------------------------------------
(***************************************************************************)
(* Division with a remainder                                               *)
(***************************************************************************)
LEMMA ModUnique ==
    ASSUME NEW d \in Nat \ {0}, NEW q \in Nat, NEW r \in 0..(d - 1), NEW e \in Nat,
           e = d * q + r
    PROVE  e % d = r /\ e \div d = q
OBVIOUS

LEMMA ModFacts ==
    ASSUME NEW d \in Nat \ {0}, NEW e \in Nat
    PROVE  /\ e % d \in 0..(d - 1) /\ e \div d \in Nat /\ e = d * (e \div d) + (e % d)
           /\ e < d => e % d = e
           /\ (e + 1) % d = IF e % d = d - 1 THEN 0 ELSE (e % d) + 1
           /\ (e + d) % d = e % d
<1>1. e % d \in 0..(d - 1) /\ e \div d \in Nat /\ e = d * (e \div d) + (e % d)
  OBVIOUS
<1> DEFINE q == e \div d
           r == e % d
<1>2. q \in Nat /\ r \in 0..(d - 1) /\ e = d * q + r /\ r \in Nat
  BY <1>1
<1>3. e < d => e % d = e
  <2>1. ASSUME e < d PROVE e = d * 0 + e /\ e \in 0..(d - 1) /\ 0 \in Nat
    BY <2>1, SMT
  <2> QED BY <2>1, ModUnique
<1> HIDE DEF q, r
<1>4. d * (q + 1) = d * q + d
  BY <1>2, SMT
<1>5. (e + d) % d = r
  <2>1. e + d = d * (q + 1) + r /\ q + 1 \in Nat /\ e + d \in Nat
    BY <1>2, <1>4, SMT
  <2> QED BY <1>2, <2>1, ModUnique
<1>6. CASE r = d - 1
  <2>1. e + 1 = d * (q + 1) + 0 /\ q + 1 \in Nat /\ e + 1 \in Nat /\ 0 \in 0..(d - 1)
    BY <1>2, <1>4, <1>6, SMT
  <2>2. (e + 1) % d = 0
    BY <2>1, ModUnique
  <2> QED BY <1>1, <1>3, <1>5, <1>6, <2>2 DEF r
<1>7. CASE r # d - 1
  <2> DEFINE s == r + 1
  <2>1. e + 1 = d * q + s /\ e + 1 \in Nat /\ s \in 0..(d - 1)
    BY <1>2, <1>7, SMT
  <2> HIDE DEF s
  <2>2. (e + 1) % d = s
    BY <1>2, <2>1, ModUnique
  <2> USE DEF s
  <2> QED BY <1>1, <1>3, <1>5, <1>7, <2>2 DEF r
<1> QED BY <1>6, <1>7

\* A multiple of d does not count.
LEMMA ModMultiple ==
    ASSUME NEW d \in Nat \ {0}, NEW e \in Nat, NEW q \in Nat
    PROVE  (e + d * q) % d = e % d
<1> DEFINE b == e \div d
           r == e % d
<1>1. b \in Nat /\ r \in 0..(d - 1) /\ e = d * b + r
  BY ModFacts
<1>2. d * (b + q) = d * b + d * q /\ d * q \in Nat
  BY <1>1, SMT
<1>3. e + d * q = d * (b + q) + r /\ b + q \in Nat /\ e + d * q \in Nat
  BY <1>1, <1>2, SMT
<1> HIDE DEF b, r
<1>4. (e + d * q) % d = r
  BY <1>1, <1>3, ModUnique
<1> QED BY <1>4 DEF r

-------------------------------------------------------------------------------
(***************************************************************************)
(* The powers of alpha                                                     *)
(***************************************************************************)
LEMMA SizeFacts ==
    /\ GF_SIZE \in Nat \ {0} /\ 2^GF_BITS = GF_SIZE + 1
    /\ IsFiniteSet(Gf) /\ Cardinality(Gf) = GF_SIZE + 1
    /\ Cardinality(Gf \ {Zero}) = GF_SIZE /\ IsFiniteSet(Gf \ {Zero})
<1> DEFINE bits == 0..(GF_BITS - 1)
<1>1. GF_BITS \in Nat /\ 0 \in Int /\ GF_BITS - 1 \in Int /\ ~(0 > GF_BITS - 1)
      /\ (GF_BITS - 1) - 0 + 1 = GF_BITS
  BY FieldAssumption, SMT
<1>2. IsFiniteSet(bits) /\ Cardinality(bits) = GF_BITS
  BY <1>1, FS_Interval
<1>3. IsFiniteSet(Gf) /\ Cardinality(Gf) = 2^GF_BITS
  BY <1>2, FS_SUBSET DEF Gf
<1>4. Cardinality(Gf) \in Nat
  BY <1>3, FS_CardinalityType
<1>5. IsFiniteSet(Gf \ {Zero}) /\ Cardinality(Gf \ {Zero}) = Cardinality(Gf) - 1
  BY <1>3, PlusLaws, FS_RemoveElement
<1>6. Cardinality(Gf \ {Zero}) \in Nat /\ Cardinality(Gf \ {Zero}) # 0
  <2>1. Gf \ {Zero} # {}
    BY PlusLaws
  <2> QED BY <1>5, <2>1, FS_EmptySet, FS_CardinalityType
<1> QED BY <1>3, <1>4, <1>5, <1>6, SMT DEF GF_SIZE

\* Recursion on the field
LEMMA RecursionGf ==
    ASSUME NEW a \in Gf, NEW F \in [Nat \X Gf -> Gf]
    PROVE  \E h \in [Nat -> Gf] : h[0] = a /\ \A i \in Nat : h[i + 1] = F[<<i, h[i]>>]
<1>1. IsStep(F, Gf)
  BY DEF IsStep
<1>2. \E h : FollowsAll(h, Gf, a, F)
  BY <1>1, RecursionNat
<1> QED BY <1>2 DEF FollowsAll

\* alpha^e, for every e
IsPowers(A) ==
    /\ A \in [Nat -> Gf]
    /\ A[0] = One
    /\ \A e \in Nat : A[e + 1] = Times_alpha(A[e])

Alpha == CHOOSE A : IsPowers(A)

LEMMA AlphaType == IsPowers(Alpha)
<1> DEFINE F == [p \in Nat \X Gf |-> Times_alpha(p[2])]
<1>1. F \in [Nat \X Gf -> Gf]
  BY TimesAlphaLaws
<1>2. \A e \in Nat, x \in Gf : F[<<e, x>>] = Times_alpha(x)
  OBVIOUS
<1> HIDE DEF F
<1>3. PICK A \in [Nat -> Gf] : A[0] = One /\ \A e \in Nat : A[e + 1] = F[<<e, A[e]>>]
  <2>1. One \in Gf
    BY PlusLaws
  <2> QED BY <1>1, <2>1, RecursionGf
<1>4. IsPowers(A)
  BY <1>2, <1>3 DEF IsPowers
<1> QED BY <1>4, Zenon DEF Alpha

\* gf_exp holds these powers, twice.
LEMMA ExpIsAlpha == \A e \in 0..(2 * GF_SIZE - 1) : gf_exp[e] = Alpha[e % GF_SIZE]
<1> DEFINE N == GF_SIZE
           Law(p) == p = [e \in 0..(N - 1) |-> IF e = 0 THEN One ELSE Times_alpha(p[e - 1])]
           power == CHOOSE p : Law(p)
           here == [e \in 0..(N - 1) |-> Alpha[e]]
<1>1. N \in Nat \ {0}
  BY SizeFacts
<1>2. Law(here)
  <2>1. ASSUME NEW e \in 0..(N - 1), e # 0 PROVE Alpha[e] = Times_alpha(here[e - 1])
    <3>1. e - 1 \in Nat /\ e - 1 \in 0..(N - 1) /\ (e - 1) + 1 = e
      BY <1>1, <2>1, SMT
    <3>2. Alpha[(e - 1) + 1] = Times_alpha(Alpha[e - 1])
      BY <3>1, AlphaType DEF IsPowers
    <3> QED BY <3>1, <3>2
  <2>2. Alpha[0] = One
    BY AlphaType DEF IsPowers
  <2> QED BY <2>1, <2>2
<1> HIDE DEF here
<1>3. Law(power)
  BY <1>2, Zenon
<1>4. gf_exp = [e \in 0..(2 * N - 1) |-> power[e % N]]
  BY Zenon DEF gf_exp
<1> HIDE DEF power
<1> DEFINE T == {e \in Nat : e < N => power[e] = Alpha[e]}
<1>5. 0 \in T
  <2>1. power[0] = One
    BY <1>1, <1>3, SMT
  <2> QED BY <2>1, AlphaType DEF IsPowers
<1>6. ASSUME NEW e \in T PROVE e + 1 \in T
  <2>1. e \in Nat /\ e + 1 \in Nat /\ (e + 1 < N => e < N /\ e + 1 \in 0..(N - 1))
    BY <1>1, SMT
  <2>2. e + 1 # 0 /\ (e + 1) - 1 = e
    BY <2>1, SMT
  <2>3. e + 1 < N => power[e + 1] = Times_alpha(power[e])
    BY <1>3, <2>1, <2>2
  <2> QED BY <2>1, <2>3, AlphaType DEF IsPowers
<1> HIDE DEF T
<1>7. T \in SUBSET Nat
  BY DEF T
<1>8. \A e \in Nat : e \in T
  BY <1>5, <1>6, <1>7, Induct, Zenon
<1>9. \A e \in 0..(N - 1) : power[e] = Alpha[e]
  BY <1>1, <1>8 DEF T
<1> TAKE e \in 0..(2 * GF_SIZE - 1)
<1>10. e % N \in 0..(N - 1)
  BY <1>1, ModFacts, SMT
<1> QED BY <1>4, <1>9, <1>10

\* alpha^(GF_BITS) has the term 1: {0, 1} is a power of alpha and not the first.
LEMMA PpHasOne == 0 \in Pp
<1> DEFINE two == {0, 1}
           top == GF_BITS - 1
<1>1. two \in Gf \ {Zero} /\ two # One
  BY FieldAssumption, SMT DEF Gf, Zero, One
<1> HIDE DEF two
<1>2. PICK e \in 0..(GF_SIZE - 1) : gf_exp[e] = two
  BY <1>1, PrimitiveAssumption
<1>3. GF_SIZE \in Nat \ {0}
  BY SizeFacts
<1>4. e \in Nat /\ e < GF_SIZE /\ e \in 0..(2 * GF_SIZE - 1)
  BY <1>3, SMT
<1>5. e % GF_SIZE = e
  BY <1>3, <1>4, ModFacts
<1>6. Alpha[e] = two
  BY <1>2, <1>4, <1>5, ExpIsAlpha
<1>7. e # 0
  BY <1>1, <1>6, AlphaType DEF IsPowers
<1>8. e - 1 \in Nat /\ (e - 1) + 1 = e
  BY <1>4, <1>7, SMT
<1>9. two = Times_alpha(Alpha[e - 1]) /\ Alpha[e - 1] \in Gf
  BY <1>6, <1>8, AlphaType DEF IsPowers
<1>10. \A x \in Gf : 0 \notin Shifted(x) /\ 0 \notin Shifted(x \ {top})
  <2>1. \A x \in Gf : \A a \in x : a \in Nat /\ a + 1 # 0
    BY FieldAssumption, SMT DEF Gf
  <2> QED BY <2>1, Zenon DEF Shifted
<1>11. 0 \in two
  BY DEF two
<1> QED BY <1>9, <1>10, <1>11, Zenon DEF Times_alpha, Plus

\* So no element but 0 becomes 0, and no two elements become the same.
LEMMA TimesAlphaInjective ==
    /\ \A x \in Gf : Times_alpha(x) = Zero => x = Zero
    /\ \A x, y \in Gf : Times_alpha(x) = Times_alpha(y) => x = y
<1> DEFINE top == GF_BITS - 1
<1>1. ASSUME NEW x \in Gf, Times_alpha(x) = Zero PROVE x = Zero
  <2>1. \A a \in x : a \in Nat /\ a + 1 # 0
    BY FieldAssumption, SMT DEF Gf
  <2>2. 0 \notin Shifted(x \ {top})
    BY <2>1, Zenon DEF Shifted
  <2>3. top \notin x
    <3>1. SUFFICES ASSUME top \in x PROVE FALSE
      OBVIOUS
    <3>2. 0 \in Plus(Pp, Shifted(x \ {top}))
      BY <2>2, PpHasOne, Zenon DEF Plus
    <3>3. Plus(Pp, Shifted(x \ {top})) = Zero
      BY <1>1, <3>1 DEF Times_alpha
    <3> QED BY <3>2, <3>3 DEF Zero
  <2>4. Shifted(x) = Zero
    BY <1>1, <2>3 DEF Times_alpha
  <2>5. \A a \in x : a + 1 \in Shifted(x)
    BY Zenon DEF Shifted
  <2> QED BY <2>4, <2>5, Zenon DEF Zero
<1>2. ASSUME NEW x \in Gf, NEW y \in Gf, Times_alpha(x) = Times_alpha(y) PROVE x = y
  <2>1. Plus(x, y) \in Gf /\ Times_alpha(Plus(x, y)) = Zero
    BY <1>2, PlusLaws, TimesAlphaLaws
  <2>2. Plus(x, y) = Zero
    BY <1>1, <2>1
  <2> QED BY <2>2, PlusLaws
<1> QED BY <1>1, <1>2

\* The powers below GF_SIZE are the elements but 0, each once.
LEMMA AlphaBijective ==
    /\ \A e \in 0..(GF_SIZE - 1) : Alpha[e] # Zero
    /\ \A e, f \in 0..(GF_SIZE - 1) : Alpha[e] = Alpha[f] => e = f
    /\ \A x \in Gf \ {Zero} : \E e \in 0..(GF_SIZE - 1) : Alpha[e] = x
<1> DEFINE N == GF_SIZE
           places == 0..(N - 1)
           f == [e \in places |-> IF Alpha[e] = Zero THEN One ELSE Alpha[e]]
<1>1. N \in Nat \ {0}
  BY SizeFacts
<1>2. \A e \in places : e \in Nat /\ e \in 0..(2 * N - 1) /\ e % N = e
  BY <1>1, ModFacts, SMT
<1>3. \A e \in places : gf_exp[e] = Alpha[e]
  BY <1>2, ExpIsAlpha
<1>4. \A x \in Gf \ {Zero} : \E e \in places : Alpha[e] = x
  BY <1>3, PrimitiveAssumption, Zenon
<1>5. f \in [places -> Gf \ {Zero}]
  BY <1>2, AlphaType, PlusLaws DEF IsPowers
<1>6. \A x \in Gf \ {Zero} : \E e \in places : f[e] = x
  BY <1>4
<1>7. f \in Surjection(places, Gf \ {Zero})
  BY <1>5, <1>6 DEF Surjection
<1>8. IsFiniteSet(places) /\ Cardinality(places) = N
  BY <1>1, FS_Interval, SMT
<1> HIDE DEF f, places
<1>9. f \in Injection(places, Gf \ {Zero})
  BY <1>7, <1>8, SizeFacts, FS_Surjection
<1>10. \A a, b \in places : f[a] = f[b] => a = b
  BY <1>9 DEF Injection, IsInjective
<1> USE DEF f
<1>11. 0 \in places /\ f[0] = One
  BY <1>1, AlphaType, PlusLaws DEF IsPowers, places
<1>12. ASSUME NEW e \in places PROVE Alpha[e] # Zero
  <2>1. SUFFICES ASSUME Alpha[e] = Zero PROVE FALSE
    OBVIOUS
  <2>2. f[e] = One
    BY <2>1
  <2>3. e = 0
    BY <1>10, <1>11, <2>2
  <2> QED BY <2>1, <2>3, AlphaType, PlusLaws DEF IsPowers
<1>13. \A a, b \in places : Alpha[a] = Alpha[b] => a = b
  BY <1>10, <1>12
<1> QED BY <1>4, <1>12, <1>13 DEF places

\* alpha^GF_SIZE = 1
LEMMA AlphaPeriod ==
    /\ \A e \in Nat : Alpha[e] \in Gf \ {Zero}
    /\ \A e \in Nat : Alpha[e] = Alpha[e % GF_SIZE]
<1> DEFINE N == GF_SIZE
<1>1. N \in Nat \ {0} /\ N - 1 \in Nat /\ N - 1 \in 0..(N - 1) /\ (N - 1) + 1 = N
  BY SizeFacts, SMT
<1>2. Alpha[N] = Times_alpha(Alpha[N - 1]) /\ Alpha[N] \in Gf
  BY <1>1, AlphaType DEF IsPowers
<1>3. Alpha[N] # Zero
  BY <1>1, <1>2, AlphaBijective, AlphaType, TimesAlphaInjective DEF IsPowers
<1>4. PICK e \in 0..(N - 1) : Alpha[e] = Alpha[N]
  BY <1>2, <1>3, AlphaBijective
<1>5. e = 0
  <2>1. SUFFICES ASSUME e # 0 PROVE FALSE
    OBVIOUS
  <2>2. e - 1 \in Nat /\ e - 1 \in 0..(N - 1) /\ (e - 1) + 1 = e /\ e - 1 # N - 1
    BY <1>1, <2>1, SMT
  <2>3. Alpha[e] = Times_alpha(Alpha[e - 1]) /\ Alpha[e - 1] \in Gf /\ Alpha[N - 1] \in Gf
    BY <1>1, <2>2, AlphaType DEF IsPowers
  <2>4. Alpha[e - 1] = Alpha[N - 1]
    BY <1>2, <1>4, <2>3, TimesAlphaInjective
  <2> QED BY <1>1, <2>2, <2>4, AlphaBijective
<1>6. Alpha[N] = Alpha[0]
  BY <1>4, <1>5
<1> DEFINE T == {a \in Nat : Alpha[a] = Alpha[a % N]}
<1>7. 0 \in T
  BY <1>1, ModFacts, SMT
<1>8. ASSUME NEW a \in T PROVE a + 1 \in T
  <2>1. a \in Nat /\ a + 1 \in Nat /\ Alpha[a] = Alpha[a % N] /\ (a % N) \in 0..(N - 1)
    BY <1>1, ModFacts
  <2>2. Alpha[a + 1] = Times_alpha(Alpha[a % N])
    BY <2>1, AlphaType DEF IsPowers
  <2>3. Alpha[(a % N) + 1] = Times_alpha(Alpha[a % N])
    <3>1. (a % N) \in Nat
      BY <1>1, <2>1
    <3> QED BY <3>1, AlphaType DEF IsPowers
  <2>4. (a + 1) % N = IF a % N = N - 1 THEN 0 ELSE (a % N) + 1
    BY <1>1, <2>1, ModFacts
  <2>5. Alpha[(a + 1) % N] = Alpha[(a % N) + 1]
    <3>1. CASE a % N = N - 1
      BY <1>1, <1>6, <2>4, <3>1
    <3>2. CASE a % N # N - 1
      BY <2>4, <3>2
    <3> QED BY <3>1, <3>2
  <2> QED BY <2>1, <2>2, <2>3, <2>5
<1> HIDE DEF T
<1>9. T \in SUBSET Nat
  BY DEF T
<1>10. \A a \in Nat : a \in T
  BY <1>7, <1>8, <1>9, Induct, Zenon
<1>11. \A a \in Nat : Alpha[a] = Alpha[a % N]
  BY <1>10 DEF T
<1>12. \A a \in Nat : (a % N) \in 0..(N - 1)
  BY <1>1, ModFacts
<1>13. \A a \in Nat : Alpha[a] \in Gf
  BY AlphaType DEF IsPowers
<1>14. \A a \in Nat : Alpha[a] # Zero
  BY <1>11, <1>12, AlphaBijective
<1> QED BY <1>11, <1>13, <1>14

-------------------------------------------------------------------------------
(***************************************************************************)
(* Multiplication: the laws of a field                                     *)
(***************************************************************************)
\* modnn is what its comment says (fec.c:190-203).
LEMMA ModnnIsMod == \A x \in Nat : modnn[x] = x % GF_SIZE
<1> DEFINE N == GF_SIZE
           fold(x) == ((x - N) \div 2^GF_BITS) + ((x - N) % 2^GF_BITS)
           Law(f) == f = [x \in Nat |-> IF x < N THEN x ELSE f[fold(x)]]
           mod == [x \in Nat |-> x % N]
<1>1. N \in Nat \ {0} /\ 2^GF_BITS = N + 1
  BY SizeFacts
<1>2. ASSUME NEW x \in Nat, ~(x < N)
      PROVE  fold(x) \in Nat /\ fold(x) < x /\ fold(x) % N = x % N
  <2> DEFINE y == x - N
             M == N + 1
             d == y \div M
             r == y % M
  <2>1. y \in Nat /\ x = y + N /\ M \in Nat \ {0}
    BY <1>1, <1>2, SMT
  <2>2. fold(x) = d + r
    BY <1>1
  <2> HIDE DEF y, M, fold
  <2>3. d \in Nat /\ r \in 0..(M - 1) /\ y = M * d + r
    BY <2>1, ModFacts
  <2> HIDE DEF d, r
  <2>4. r \in Nat /\ M * d = N * d + d /\ N * (d + 1) = N * d + N /\ N * d \in Nat
    BY <1>1, <2>3, SMT DEF M
  <2> DEFINE p == N * d
             u == N * (d + 1)
  <2>5. y = p + d + r /\ u = p + N /\ p \in Nat
    BY <2>3, <2>4
  <2> HIDE DEF p, u
  <2>6. d + r \in Nat /\ d + r < x /\ x = (d + r) + u /\ d + 1 \in Nat
    BY <1>1, <2>1, <2>3, <2>4, <2>5, SMT
  <2> DEFINE s == d + r
             t == d + 1
  <2>7. s \in Nat /\ t \in Nat /\ x = s + N * t
    BY <2>6 DEF u
  <2> HIDE DEF s, t
  <2>8. x % N = s % N
    BY <1>1, <2>7, ModMultiple
  <2> QED BY <2>2, <2>6, <2>8 DEF s
<1>3. Law(mod)
  <2>1. ASSUME NEW x \in Nat PROVE mod[x] = IF x < N THEN x ELSE mod[fold(x)]
    BY <1>1, <1>2, <2>1, ModFacts
  <2> QED BY <2>1
<1> HIDE DEF mod
<1>4. Law(modnn)
  <2>1. modnn = CHOOSE f : Law(f)
    BY DEF modnn
  <2> QED BY <1>3, <2>1, Zenon
<1> DEFINE T == {m \in Nat : \A x \in Nat : x < m => modnn[x] = x % N}
<1>5. 0 \in T
  BY SMT
<1>6. ASSUME NEW m \in T PROVE m + 1 \in T
  <2>1. m \in Nat
    OBVIOUS
  <2>2. modnn[m] = IF m < N THEN m ELSE modnn[fold(m)]
    BY <1>4, <2>1, Zenon
  <2>3. m < N => m % N = m
    BY <1>1, <2>1, ModFacts
  <2>4. ~(m < N) => modnn[fold(m)] = m % N
    BY <1>2, <2>1
  <2>5. modnn[m] = m % N
    BY <2>2, <2>3, <2>4, Zenon
  <2>6. \A x \in Nat : x < m + 1 => x < m \/ x = m
    BY <2>1, SMT
  <2> QED BY <2>1, <2>5, <2>6
<1> HIDE DEF T
<1>7. T \in SUBSET Nat
  BY DEF T
<1>8. \A m \in Nat : m \in T
  BY <1>5, <1>6, <1>7, Induct, Zenon
<1> TAKE x \in Nat
<1>9. x + 1 \in T
  BY <1>8
<1> QED BY <1>9, SMT DEF T

\* gf_log finds the exponent.
LEMMA LogOfPower ==
    \A x \in Gf \ {Zero} : gf_log[x] \in 0..(GF_SIZE - 1) /\ Alpha[gf_log[x]] = x
<1> DEFINE N == GF_SIZE
<1> TAKE x \in Gf \ {Zero}
<1>1. N \in Nat \ {0}
  BY SizeFacts
<1>2. PICK e \in 0..(N - 1) : gf_exp[e] = x
  BY PrimitiveAssumption
<1>3. gf_log[x] = CHOOSE f \in 0..(N - 1) : gf_exp[f] = x
  BY DEF gf_log
<1>4. gf_log[x] \in 0..(N - 1) /\ gf_exp[gf_log[x]] = x
  BY <1>2, <1>3, Zenon
<1>5. \A f \in 0..(N - 1) : f \in Nat /\ f \in 0..(2 * N - 1) /\ f % N = f
  BY <1>1, ModFacts, SMT
<1> QED BY <1>4, <1>5, ExpIsAlpha

\* Every element but 0 is a power; powers multiply by adding exponents.
LEMMA MulPowers ==
    /\ \A x \in Gf \ {Zero} : \E e \in Nat : x = Alpha[e]
    /\ \A e, f \in Nat : gf_mul(Alpha[e], Alpha[f]) = Alpha[e + f]
    /\ \A x : gf_mul(Zero, x) = Zero /\ gf_mul(x, Zero) = Zero
<1> DEFINE N == GF_SIZE
<1>1. N \in Nat \ {0}
  BY SizeFacts
<1>2. \A x \in Gf \ {Zero} : \E e \in Nat : x = Alpha[e]
  BY <1>1, LogOfPower, SMT
<1>3. ASSUME NEW e \in Nat, NEW f \in Nat
      PROVE  gf_mul(Alpha[e], Alpha[f]) = Alpha[e + f]
  <2> DEFINE a == gf_log[Alpha[e]]
             b == gf_log[Alpha[f]]
  <2>1. Alpha[e] \in Gf \ {Zero} /\ Alpha[f] \in Gf \ {Zero}
    BY AlphaPeriod
  <2>2. a \in 0..(N - 1) /\ Alpha[a] = Alpha[e] /\ b \in 0..(N - 1) /\ Alpha[b] = Alpha[f]
    BY <2>1, LogOfPower
  <2>3. e % N \in 0..(N - 1) /\ Alpha[e % N] = Alpha[e]
        /\ f % N \in 0..(N - 1) /\ Alpha[f % N] = Alpha[f]
    BY <1>1, ModFacts, AlphaPeriod
  <2>4. a = e % N /\ b = f % N
    BY <2>2, <2>3, AlphaBijective
  <2> HIDE DEF a, b
  <2>5. a + b \in Nat /\ a \in Nat /\ b \in Nat
    BY <1>1, <2>2, SMT
  <2>6. (a + b) % N \in 0..(N - 1)
    BY <1>1, <2>5, ModFacts
  <2>7. gf_mul(Alpha[e], Alpha[f]) = gf_exp[(a + b) % N]
    BY <2>1, <2>5, ModnnIsMod DEF gf_mul, a, b
  <2> DEFINE m == (a + b) % N
  <2> HIDE DEF m
  <2>8. m \in Nat /\ m \in 0..(2 * N - 1) /\ m % N = m
    <3>1. m \in 0..(N - 1)
      BY <2>6 DEF m
    <3>2. m \in Nat /\ m \in 0..(2 * N - 1) /\ m < N
      BY <1>1, <3>1, SMT
    <3> QED BY <1>1, <3>2, ModFacts
  <2>9. gf_exp[m] = Alpha[m]
    BY <2>8, ExpIsAlpha
  <2>10. Alpha[m] = Alpha[a + b]
    BY <2>5, AlphaPeriod DEF m
  <2>11. Alpha[a + b] = Alpha[e + f]
    <3> DEFINE q == e \div N
               s == f \div N
    <3>1. q \in Nat /\ e = N * q + a /\ s \in Nat /\ f = N * s + b
      BY <1>1, <2>4, ModFacts
    <3> HIDE DEF q, s
    <3> DEFINE t == q + s
               c == a + b
               g == e + f
               v == N * q
               w == N * s
               u == N * t
    <3>2. u = v + w /\ e = v + a /\ f = w + b /\ v \in Nat /\ w \in Nat
          /\ q \in Nat /\ s \in Nat
      BY <1>1, <3>1, SMT
    <3> HIDE DEF u, v, w
    <3>3. g = c + u /\ t \in Nat /\ c \in Nat /\ g \in Nat
      BY <2>5, <3>2, SMT
    <3> HIDE DEF t, c, g
    <3> USE DEF u
    <3>4. g % N = c % N
      BY <1>1, <3>3, ModMultiple
    <3>5. Alpha[g] = Alpha[c]
      BY <3>3, <3>4, AlphaPeriod
    <3> QED BY <3>5 DEF c, g
  <2> QED BY <2>7, <2>9, <2>10, <2>11 DEF m
<1> QED BY <1>2, <1>3 DEF gf_mul

\* gf_mul, One and Plus make a field of Gf.
LEMMA MulLaws ==
    /\ \A x, y \in Gf : gf_mul(x, y) \in Gf
    /\ \A x, y \in Gf : gf_mul(x, y) = gf_mul(y, x)
    /\ \A x, y, z \in Gf : gf_mul(gf_mul(x, y), z) = gf_mul(x, gf_mul(y, z))
    /\ \A x \in Gf : gf_mul(One, x) = x /\ gf_mul(x, One) = x
    /\ \A x : gf_mul(Zero, x) = Zero /\ gf_mul(x, Zero) = Zero
    /\ \A x, y \in Gf : gf_mul(x, y) = Zero => x = Zero \/ y = Zero
<1>1. \A e \in Nat : Alpha[e] \in Gf /\ Alpha[e] # Zero
  BY AlphaPeriod
<1>2. \A e, f \in Nat : e + f \in Nat /\ e + f = f + e
  BY SMT
<1>3. \A e, f, g \in Nat : (e + f) + g = e + (f + g)
  BY SMT
<1>4. Alpha[0] = One /\ \A e \in Nat : 0 + e = e /\ e + 0 = e
  BY AlphaType, SMT DEF IsPowers
<1>5. \A x : gf_mul(Zero, x) = Zero /\ gf_mul(x, Zero) = Zero
  BY MulPowers, Zenon
<1>6. ASSUME NEW x \in Gf, NEW y \in Gf
      PROVE  gf_mul(x, y) \in Gf /\ gf_mul(x, y) = gf_mul(y, x)
  <2>1. CASE x = Zero \/ y = Zero
    BY <1>5, <2>1, PlusLaws
  <2>2. CASE x # Zero /\ y # Zero
    <3>1. PICK e \in Nat, f \in Nat : x = Alpha[e] /\ y = Alpha[f]
      BY <2>2, MulPowers
    <3>2. gf_mul(x, y) = Alpha[e + f] /\ gf_mul(y, x) = Alpha[f + e]
      BY <3>1, MulPowers
    <3> QED BY <1>1, <1>2, <3>2
  <2> QED BY <2>1, <2>2
<1>7. ASSUME NEW x \in Gf, NEW y \in Gf, NEW z \in Gf
      PROVE  gf_mul(gf_mul(x, y), z) = gf_mul(x, gf_mul(y, z))
  <2>1. CASE x = Zero \/ y = Zero \/ z = Zero
    BY <1>5, <1>6, <2>1
  <2>2. CASE x # Zero /\ y # Zero /\ z # Zero
    <3>1. PICK e \in Nat, f \in Nat, g \in Nat : x = Alpha[e] /\ y = Alpha[f] /\ z = Alpha[g]
      BY <2>2, MulPowers
    <3>2. gf_mul(x, y) = Alpha[e + f] /\ gf_mul(y, z) = Alpha[f + g]
          /\ e + f \in Nat /\ f + g \in Nat
      BY <1>2, <3>1, MulPowers
    <3>3. gf_mul(gf_mul(x, y), z) = Alpha[(e + f) + g]
      BY <3>1, <3>2, MulPowers
    <3>4. gf_mul(x, gf_mul(y, z)) = Alpha[e + (f + g)]
      BY <3>1, <3>2, MulPowers
    <3> QED BY <1>3, <3>3, <3>4
  <2> QED BY <2>1, <2>2
<1>8. ASSUME NEW x \in Gf PROVE gf_mul(One, x) = x /\ gf_mul(x, One) = x
  <2>1. CASE x = Zero
    BY <1>5, <2>1
  <2>2. CASE x # Zero
    <3>1. PICK e \in Nat : x = Alpha[e]
      BY <2>2, MulPowers
    <3>2. gf_mul(Alpha[0], Alpha[e]) = Alpha[0 + e] /\ gf_mul(Alpha[e], Alpha[0]) = Alpha[e + 0]
      BY MulPowers
    <3> QED BY <1>4, <3>1, <3>2
  <2> QED BY <2>1, <2>2
<1>9. ASSUME NEW x \in Gf, NEW y \in Gf, gf_mul(x, y) = Zero
      PROVE  x = Zero \/ y = Zero
  <2>1. SUFFICES ASSUME x # Zero, y # Zero PROVE FALSE
    OBVIOUS
  <2>2. PICK e \in Nat, f \in Nat : x = Alpha[e] /\ y = Alpha[f]
    BY <2>1, MulPowers
  <2>3. gf_mul(x, y) = Alpha[e + f]
    BY <2>2, MulPowers
  <2> QED BY <1>1, <1>2, <1>9, <2>3
<1> QED BY <1>5, <1>6, <1>7, <1>8, <1>9

\* Multiplying by alpha once more
LEMMA MulNext ==
    \A e \in Nat, y \in Gf : gf_mul(Alpha[e + 1], y) = Times_alpha(gf_mul(Alpha[e], y))
<1> TAKE e \in Nat, y \in Gf
<1>1. CASE y = Zero
  BY <1>1, MulLaws, TimesAlphaLaws
<1>2. CASE y # Zero
  <2>1. PICK f \in Nat : y = Alpha[f]
    BY <1>2, MulPowers
  <2>2. e + 1 \in Nat /\ e + f \in Nat /\ (e + 1) + f = (e + f) + 1
    BY SMT
  <2>3. gf_mul(Alpha[e + 1], y) = Alpha[(e + 1) + f] /\ gf_mul(Alpha[e], y) = Alpha[e + f]
    BY <2>1, <2>2, MulPowers
  <2>4. Alpha[(e + f) + 1] = Times_alpha(Alpha[e + f])
    BY <2>2, AlphaType DEF IsPowers
  <2> QED BY <2>2, <2>3, <2>4
<1> QED BY <1>1, <1>2

\* Products respect sums.
LEMMA Distributive ==
    /\ \A x, y, z \in Gf : gf_mul(x, Plus(y, z)) = Plus(gf_mul(x, y), gf_mul(x, z))
    /\ \A x, y, z \in Gf : gf_mul(Plus(y, z), x) = Plus(gf_mul(y, x), gf_mul(z, x))
<1>1. \A e \in Nat, x \in Gf : gf_mul(Alpha[e], x) \in Gf
  BY AlphaPeriod, MulLaws
<1>2. \A e \in Nat, x \in Gf : gf_mul(Alpha[e + 1], x) = Times_alpha(gf_mul(Alpha[e], x))
  BY MulNext
<1> DEFINE Law(e) == \A y, z \in Gf :
              gf_mul(Alpha[e], Plus(y, z)) = Plus(gf_mul(Alpha[e], y), gf_mul(Alpha[e], z))
           T == {e \in Nat : Law(e)}
<1>3. 0 \in T
  BY AlphaType, MulLaws, PlusLaws DEF IsPowers
<1>4. ASSUME NEW e \in T PROVE e + 1 \in T
  <2>1. e \in Nat /\ e + 1 \in Nat /\ Law(e)
    OBVIOUS
  <2>2. ASSUME NEW y \in Gf, NEW z \in Gf
        PROVE  gf_mul(Alpha[e + 1], Plus(y, z))
                 = Plus(gf_mul(Alpha[e + 1], y), gf_mul(Alpha[e + 1], z))
    <3>1. gf_mul(Alpha[e + 1], Plus(y, z)) = Times_alpha(gf_mul(Alpha[e], Plus(y, z)))
      BY <1>2, <2>1, PlusLaws
    <3>2. gf_mul(Alpha[e], Plus(y, z)) = Plus(gf_mul(Alpha[e], y), gf_mul(Alpha[e], z))
      BY <2>1
    <3>3. Times_alpha(Plus(gf_mul(Alpha[e], y), gf_mul(Alpha[e], z)))
            = Plus(Times_alpha(gf_mul(Alpha[e], y)), Times_alpha(gf_mul(Alpha[e], z)))
      BY <1>1, <2>1, TimesAlphaLaws
    <3> QED BY <1>2, <2>1, <3>1, <3>2, <3>3
  <2> QED BY <2>1, <2>2
<1> HIDE DEF T
<1>5. T \in SUBSET Nat
  BY DEF T
<1>6. \A e \in Nat : e \in T
  BY <1>3, <1>4, <1>5, Induct, Zenon
<1>7. \A e \in Nat : Law(e)
  BY <1>6 DEF T
<1> HIDE DEF Law
<1>8. ASSUME NEW x \in Gf, NEW y \in Gf, NEW z \in Gf
      PROVE  gf_mul(x, Plus(y, z)) = Plus(gf_mul(x, y), gf_mul(x, z))
  <2>1. CASE x = Zero
    BY <2>1, MulLaws, PlusLaws
  <2>2. CASE x # Zero
    <3>1. PICK e \in Nat : x = Alpha[e]
      BY <2>2, MulPowers
    <3> QED BY <1>7, <3>1 DEF Law
  <2> QED BY <2>1, <2>2
<1>9. ASSUME NEW x \in Gf, NEW y \in Gf, NEW z \in Gf
      PROVE  gf_mul(Plus(y, z), x) = Plus(gf_mul(y, x), gf_mul(z, x))
  <2>1. gf_mul(Plus(y, z), x) = gf_mul(x, Plus(y, z))
    BY PlusLaws, MulLaws
  <2>2. gf_mul(y, x) = gf_mul(x, y) /\ gf_mul(z, x) = gf_mul(x, z)
    BY MulLaws
  <2> QED BY <1>8, <2>1, <2>2
<1> QED BY <1>8, <1>9

\* inverse gives what multiplies to 1.
LEMMA InverseLaws ==
    \A x \in Gf \ {Zero} :
        /\ inverse[x] \in Gf /\ inverse[x] # Zero
        /\ gf_mul(x, inverse[x]) = One /\ gf_mul(inverse[x], x) = One
<1> DEFINE N == GF_SIZE
<1>1. N \in Nat \ {0}
  BY SizeFacts
<1>2. Alpha[0] = One
  BY AlphaType DEF IsPowers
<1> TAKE x \in Gf \ {Zero}
<1>3. inverse[x] \in Gf /\ gf_mul(x, inverse[x]) = One
  <2>1. CASE x = One
    BY <2>1, PlusLaws, MulLaws DEF inverse
  <2>2. CASE x # One
    <3> DEFINE e == gf_log[x]
               f == N - e
    <3>1. inverse[x] = gf_exp[f]
      BY <2>2 DEF inverse
    <3>2. e \in 0..(N - 1) /\ Alpha[e] = x
      BY LogOfPower
    <3>3. e # 0
      BY <1>2, <2>2, <3>2
    <3> HIDE DEF e
    <3>4. f \in Nat /\ f \in 0..(2 * N - 1) /\ e \in Nat /\ e + f = N /\ f < N
      BY <1>1, <3>2, <3>3, SMT
    <3> HIDE DEF f
    <3>5. f % N = f
      BY <1>1, <3>4, ModFacts
    <3>6. inverse[x] = Alpha[f] /\ Alpha[f] \in Gf
      BY <3>1, <3>4, <3>5, ExpIsAlpha, AlphaPeriod
    <3>7. gf_mul(x, inverse[x]) = Alpha[N]
      BY <3>2, <3>4, <3>6, MulPowers
    <3>8. N % N = 0
      <4>1. 0 \in Nat /\ 0 + N = N /\ 0 < N /\ N \in Nat
        BY <1>1, SMT
      <4>2. (0 + N) % N = 0 % N /\ 0 % N = 0
        BY <1>1, <4>1, ModFacts
      <4> QED BY <4>1, <4>2
    <3>9. Alpha[N] = One
      BY <1>1, <1>2, <3>8, AlphaPeriod
    <3> QED BY <3>6, <3>7, <3>9
  <2> QED BY <2>1, <2>2
<1>4. inverse[x] # Zero
  BY <1>3, MulLaws, PlusLaws
<1> QED BY <1>3, <1>4, MulLaws

-------------------------------------------------------------------------------
(***************************************************************************)
(* Sums                                                                    *)
(***************************************************************************)
\* The terms of a sum
Terms(f, n) == \A e \in 0..(n - 1) : f[e] \in Gf

LEMMA SumExists ==
    ASSUME NEW n \in Nat, NEW f, Terms(f, n)
    PROVE  \E h \in [Nat -> Gf] :
              /\ h[0] = Zero
              /\ \A e \in 0..(n - 1) : h[e + 1] = Plus(h[e], f[e])
<1> DEFINE F == [p \in Nat \X Gf |-> IF p[1] \in 0..(n - 1) THEN Plus(p[2], f[p[1]]) ELSE Zero]
<1>1. F \in [Nat \X Gf -> Gf]
  BY PlusLaws DEF Terms
<1>2. \A e \in 0..(n - 1), x \in Gf : F[<<e, x>>] = Plus(x, f[e])
  <2> TAKE e \in 0..(n - 1), x \in Gf
  <2>1. e \in Nat
    BY SMT
  <2>2. <<e, x>> \in Nat \X Gf /\ <<e, x>>[1] = e /\ <<e, x>>[2] = x
    BY <2>1
  <2> QED BY <2>2
<1> HIDE DEF F
<1>3. \E h \in [Nat -> Gf] : h[0] = Zero /\ \A e \in Nat : h[e + 1] = F[<<e, h[e]>>]
  <2>1. Zero \in Gf
    BY PlusLaws
  <2> QED BY <1>1, <2>1, RecursionGf
<1>4. PICK h \in [Nat -> Gf] : h[0] = Zero /\ \A e \in Nat : h[e + 1] = F[<<e, h[e]>>]
  BY <1>3
<1>5. ASSUME NEW e \in 0..(n - 1) PROVE h[e + 1] = Plus(h[e], f[e])
  <2>1. e \in Nat
    BY SMT
  <2>2. h[e] \in Gf
    BY <1>4, <2>1
  <2> QED BY <1>2, <1>4, <2>1, <2>2
<1> QED BY <1>4, <1>5

\* GfSum follows its recursion; what follows that recursion is GfSum.
LEMMA SumUnique ==
    ASSUME NEW n \in Nat, NEW f, Terms(f, n), NEW h, h[0] = Zero,
           \A e \in 0..(n - 1) : h[e + 1] = Plus(h[e], f[e])
    PROVE  GfSum(f, n) = h[n]
<1> DEFINE Law(s) == s = [e \in 0..n |-> IF e = 0 THEN Zero ELSE Plus(s[e - 1], f[e - 1])]
           sum == CHOOSE s : Law(s)
           here == [e \in 0..n |-> h[e]]
<1>1. Law(here)
  <2>1. ASSUME NEW e \in 0..n
        PROVE  h[e] = IF e = 0 THEN Zero ELSE Plus(here[e - 1], f[e - 1])
    <3>1. CASE e = 0
      BY <3>1
    <3>2. CASE e # 0
      <4>1. e - 1 \in 0..(n - 1) /\ e - 1 \in 0..n /\ (e - 1) + 1 = e
        BY <3>2, SMT
      <4>2. h[(e - 1) + 1] = Plus(h[e - 1], f[e - 1])
        BY <4>1
      <4> QED BY <3>2, <4>1, <4>2
    <3> QED BY <3>1, <3>2
  <2> QED BY <2>1
<1> HIDE DEF here
<1>2. Law(sum)
  BY <1>1, Zenon
<1>3. GfSum(f, n) = sum[n]
  BY Zenon DEF GfSum
<1> HIDE DEF sum
<1> DEFINE T == {e \in Nat : e <= n => sum[e] = h[e]}
<1>4. 0 \in T
  BY <1>2
<1>5. ASSUME NEW e \in T PROVE e + 1 \in T
  <2>1. /\ e \in Nat /\ e + 1 \in Nat /\ e + 1 # 0 /\ (e + 1) - 1 = e
        /\ e + 1 <= n => e <= n /\ e + 1 \in 0..n /\ e \in 0..(n - 1)
    BY SMT
  <2>2. e + 1 <= n => sum[e + 1] = Plus(sum[e], f[e])
    BY <1>2, <2>1
  <2> QED BY <2>1, <2>2
<1> HIDE DEF T
<1>6. T \in SUBSET Nat
  BY DEF T
<1>7. \A e \in Nat : e \in T
  BY <1>4, <1>5, <1>6, Induct, Zenon
<1>8. n \in T /\ n <= n
  BY <1>7
<1> QED BY <1>3, <1>8 DEF T

LEMMA SumStep ==
    ASSUME NEW n \in Nat, NEW f, Terms(f, n)
    PROVE  /\ GfSum(f, 0) = Zero
           /\ \A m \in 0..n : GfSum(f, m) \in Gf
           /\ \A m \in 0..(n - 1) : GfSum(f, m + 1) = Plus(GfSum(f, m), f[m])
<1>1. PICK h \in [Nat -> Gf] : /\ h[0] = Zero
                               /\ \A e \in 0..(n - 1) : h[e + 1] = Plus(h[e], f[e])
  BY SumExists
<1>2. ASSUME NEW m \in 0..n PROVE GfSum(f, m) = h[m]
  <2>1. m \in Nat /\ \A e \in 0..(m - 1) : e \in 0..(n - 1)
    BY SMT
  <2>2. Terms(f, m)
    BY <2>1 DEF Terms
  <2>3. \A e \in 0..(m - 1) : h[e + 1] = Plus(h[e], f[e])
    BY <1>1, <2>1
  <2> QED BY <1>1, <2>1, <2>2, <2>3, SumUnique
<1>3. 0 \in 0..n /\ \A m \in 0..(n - 1) : m \in 0..n /\ m + 1 \in 0..n
  BY SMT
<1>4. \A m \in 0..n : m \in Nat
  BY SMT
<1> QED BY <1>1, <1>2, <1>3, <1>4

\* Sums of the same terms are the same.
LEMMA SumEqual ==
    ASSUME NEW n \in Nat, NEW f, NEW g, Terms(f, n), \A e \in 0..(n - 1) : f[e] = g[e]
    PROVE  GfSum(f, n) = GfSum(g, n)
<1>1. Terms(g, n)
  BY DEF Terms
<1>2. PICK h \in [Nat -> Gf] : /\ h[0] = Zero
                               /\ \A e \in 0..(n - 1) : h[e + 1] = Plus(h[e], f[e])
  BY SumExists
<1>3. \A e \in 0..(n - 1) : h[e + 1] = Plus(h[e], g[e])
  BY <1>2
<1>4. GfSum(f, n) = h[n]
  BY <1>2, SumUnique
<1>5. GfSum(g, n) = h[n]
  BY <1>1, <1>2, <1>3, SumUnique
<1> QED BY <1>4, <1>5

\* The sum of the sums
LEMMA SumPlus ==
    ASSUME NEW n \in Nat, NEW f, NEW g, NEW s, Terms(f, n), Terms(g, n),
           \A e \in 0..(n - 1) : s[e] = Plus(f[e], g[e])
    PROVE  GfSum(s, n) = Plus(GfSum(f, n), GfSum(g, n))
<1>1. PICK h \in [Nat -> Gf] : /\ h[0] = Zero
                               /\ \A e \in 0..(n - 1) : h[e + 1] = Plus(h[e], f[e])
  BY SumExists
<1>2. PICK j \in [Nat -> Gf] : /\ j[0] = Zero
                               /\ \A e \in 0..(n - 1) : j[e + 1] = Plus(j[e], g[e])
  BY SumExists
<1> DEFINE b == [e \in Nat |-> Plus(h[e], j[e])]
<1>3. Terms(s, n)
  BY PlusLaws DEF Terms
<1>4. b[0] = Zero
  BY <1>1, <1>2, PlusLaws
<1>5. \A w, x, y, z : Plus(Plus(w, x), Plus(y, z)) = Plus(Plus(w, y), Plus(x, z))
  BY DEF Plus
<1>6. ASSUME NEW e \in 0..(n - 1) PROVE b[e + 1] = Plus(b[e], s[e])
  <2>1. e \in Nat /\ e + 1 \in Nat
    BY SMT
  <2>2. h[e + 1] = Plus(h[e], f[e]) /\ j[e + 1] = Plus(j[e], g[e]) /\ s[e] = Plus(f[e], g[e])
    BY <1>1, <1>2
  <2> QED BY <1>5, <2>1, <2>2
<1>7. b[n] = Plus(h[n], j[n])
  OBVIOUS
<1> HIDE DEF b
<1>8. GfSum(s, n) = b[n]
  BY <1>3, <1>4, <1>6, SumUnique
<1>9. GfSum(f, n) = h[n] /\ GfSum(g, n) = j[n]
  BY <1>1, <1>2, SumUnique
<1> QED BY <1>7, <1>8, <1>9

\* A multiple of a sum
LEMMA SumScale ==
    ASSUME NEW n \in Nat, NEW f, NEW s, NEW x \in Gf, Terms(f, n),
           \A e \in 0..(n - 1) : s[e] = gf_mul(x, f[e])
    PROVE  GfSum(s, n) = gf_mul(x, GfSum(f, n))
<1>1. PICK h \in [Nat -> Gf] : /\ h[0] = Zero
                               /\ \A e \in 0..(n - 1) : h[e + 1] = Plus(h[e], f[e])
  BY SumExists
<1> DEFINE b == [e \in Nat |-> gf_mul(x, h[e])]
<1>2. Terms(s, n)
  <2>1. \A e \in 0..(n - 1) : gf_mul(x, f[e]) \in Gf
    BY MulLaws DEF Terms
  <2> QED BY <2>1 DEF Terms
<1>3. b[0] = Zero
  BY <1>1, MulLaws
<1>4. ASSUME NEW e \in 0..(n - 1) PROVE b[e + 1] = Plus(b[e], s[e])
  <2>1. e \in Nat /\ e + 1 \in Nat
    BY SMT
  <2>2. h[e] \in Gf /\ f[e] \in Gf
    BY <1>1, <2>1 DEF Terms
  <2>3. h[e + 1] = Plus(h[e], f[e]) /\ s[e] = gf_mul(x, f[e])
    BY <1>1
  <2> QED BY <2>1, <2>2, <2>3, Distributive
<1>5. b[n] = gf_mul(x, h[n])
  OBVIOUS
<1> HIDE DEF b
<1>6. GfSum(s, n) = b[n]
  BY <1>2, <1>3, <1>4, SumUnique
<1>7. GfSum(f, n) = h[n]
  BY <1>1, SumUnique
<1> QED BY <1>5, <1>6, <1>7

\* One term that is not 0
LEMMA SumSingle ==
    ASSUME NEW n \in Nat, NEW f, NEW i \in 0..(n - 1), f[i] \in Gf,
           \A e \in 0..(n - 1) : e # i => f[e] = Zero
    PROVE  GfSum(f, n) = f[i]
<1> DEFINE h == [e \in Nat |-> IF e <= i THEN Zero ELSE f[i]]
<1>1. Terms(f, n)
  BY PlusLaws DEF Terms
<1>2. h[0] = Zero
  BY SMT
<1>3. ASSUME NEW e \in 0..(n - 1) PROVE h[e + 1] = Plus(h[e], f[e])
  <2>1. e \in Nat /\ e + 1 \in Nat
    BY SMT
  <2>2. CASE e = i
    <3>1. ~(e + 1 <= i) /\ e <= i
      BY <2>2, SMT
    <3> QED BY <2>1, <2>2, <3>1, PlusLaws
  <2>3. CASE e # i
    <3>1. (e + 1 <= i) = (e <= i)
      BY <2>3, SMT
    <3> QED BY <2>1, <2>3, <3>1, PlusLaws
  <2> QED BY <2>2, <2>3
<1>4. h[n] = f[i]
  BY SMT
<1> HIDE DEF h
<1> QED BY <1>1, <1>2, <1>3, <1>4, SumUnique

\* Two sums that differ in one term
LEMMA SumDiffer ==
    ASSUME NEW n \in Nat, NEW f, NEW g, NEW i \in 0..(n - 1), Terms(f, n), Terms(g, n),
           \A e \in 0..(n - 1) : e # i => f[e] = g[e]
    PROVE  Plus(GfSum(f, n), GfSum(g, n)) = Plus(f[i], g[i])
<1> DEFINE s == [e \in 0..(n - 1) |-> Plus(f[e], g[e])]
<1>1. \A e \in 0..(n - 1) : s[e] = Plus(f[e], g[e])
  OBVIOUS
<1>2. \A e \in 0..(n - 1) : e # i => s[e] = Zero
  BY PlusLaws
<1>3. s[i] \in Gf /\ s[i] = Plus(f[i], g[i])
  BY PlusLaws DEF Terms
<1> HIDE DEF s
<1>4. GfSum(s, n) = Plus(GfSum(f, n), GfSum(g, n))
  BY <1>1, SumPlus
<1>5. GfSum(s, n) = s[i]
  BY <1>2, <1>3, SumSingle
<1> QED BY <1>3, <1>4, <1>5

\* The first term apart
LEMMA SumFirst ==
    ASSUME NEW n \in Nat, NEW f, NEW g, Terms(f, n + 1),
           \A e \in 0..(n - 1) : g[e] = f[e + 1]
    PROVE  GfSum(f, n + 1) = Plus(f[0], GfSum(g, n))
<1> DEFINE h == [e \in 0..n |-> Plus(f[0], GfSum(f, e + 1))]
<1>1. n + 1 \in Nat /\ (n + 1) - 1 = n /\ 0 \in 0..n /\ n \in 0..n
      /\ \A e \in 0..(n - 1) : e \in 0..n /\ e + 1 \in 0..n /\ e + 1 \in 0..(n + 1)
  BY SMT
<1>2. \A e \in 0..n : f[e] \in Gf
  BY <1>1 DEF Terms
<1>3. GfSum(f, 0) = Zero /\ \A m \in 0..n : GfSum(f, m + 1) = Plus(GfSum(f, m), f[m])
  BY <1>1, SumStep
<1>4. \A m \in 0..(n + 1) : GfSum(f, m) \in Gf
  BY <1>1, SumStep
<1>5. Terms(g, n)
  BY <1>1, <1>2 DEF Terms
<1>6. h[0] = Zero
  <2>1. GfSum(f, 0 + 1) = f[0]
    BY <1>1, <1>3, PlusLaws
  <2> QED BY <1>1, <2>1, PlusLaws
<1>7. ASSUME NEW e \in 0..(n - 1) PROVE h[e + 1] = Plus(h[e], g[e])
  <2>1. e \in 0..n /\ e + 1 \in 0..n
    BY <1>1
  <2>2. GfSum(f, (e + 1) + 1) = Plus(GfSum(f, e + 1), f[e + 1]) /\ g[e] = f[e + 1]
    BY <1>3, <2>1
  <2>3. h[e + 1] = Plus(f[0], GfSum(f, (e + 1) + 1)) /\ h[e] = Plus(f[0], GfSum(f, e + 1))
    BY <2>1
  <2> QED BY <2>2, <2>3, PlusLaws
<1>8. h[n] = Plus(f[0], GfSum(f, n + 1))
  BY <1>1
<1> HIDE DEF h
<1>9. GfSum(g, n) = h[n]
  BY <1>5, <1>6, <1>7, SumUnique
<1> QED BY <1>8, <1>9, PlusLaws

-------------------------------------------------------------------------------
(***************************************************************************)
(* The tables are the field's                                              *)
(***************************************************************************)
\* Below GF_BITS, alpha^e is the single exponent e.
LEMMA LowPowers == \A e \in 0..(GF_BITS - 1) : Alpha[e] = {e}
<1> DEFINE T == {e \in Nat : e < GF_BITS => Alpha[e] = {e}}
<1>1. 0 \in T
  BY AlphaType DEF IsPowers, One
<1>2. ASSUME NEW e \in T PROVE e + 1 \in T
  <2>1. e \in Nat /\ e + 1 \in Nat
    OBVIOUS
  <2>2. SUFFICES ASSUME e + 1 < GF_BITS PROVE Alpha[e + 1] = {e + 1}
    BY <2>1
  <2>3. e < GF_BITS /\ e # GF_BITS - 1
    BY <2>1, <2>2, FieldAssumption, SMT
  <2>4. Alpha[e] = {e} /\ Alpha[e + 1] = Times_alpha(Alpha[e])
    BY <2>1, <2>3, AlphaType DEF IsPowers
  <2>5. Times_alpha({e}) = Shifted({e})
    BY <2>3 DEF Times_alpha
  <2>6. Shifted({e}) = {e + 1}
    BY Zenon DEF Shifted
  <2> QED BY <2>4, <2>5, <2>6
<1> HIDE DEF T
<1>3. T \in SUBSET Nat
  BY DEF T
<1>4. \A e \in Nat : e \in T
  BY <1>1, <1>2, <1>3, Induct, Zenon
<1> TAKE e \in 0..(GF_BITS - 1)
<1>5. e \in Nat /\ e < GF_BITS
  BY FieldAssumption, SMT
<1> QED BY <1>4, <1>5 DEF T

\* The terms of Product are multiples by powers of alpha.
LEMMA ProductTerms ==
    ASSUME NEW x, NEW y \in Gf
    PROVE  Product(x, y) =
             GfSum([e \in 0..(GF_BITS - 1) |-> IF e \in x THEN gf_mul(Alpha[e], y) ELSE Zero],
                   GF_BITS)
<1> DEFINE top == GF_BITS - 1
           Law(t) == t = [e \in 0..top |-> IF e = 0 THEN y ELSE Times_alpha(t[e - 1])]
           times == CHOOSE t : Law(t)
           here == [e \in 0..top |-> gf_mul(Alpha[e], y)]
<1>1. Law(here)
  <2>1. ASSUME NEW e \in 0..top
        PROVE  gf_mul(Alpha[e], y) = IF e = 0 THEN y ELSE Times_alpha(here[e - 1])
    <3>1. CASE e = 0
      BY <3>1, AlphaType, MulLaws DEF IsPowers
    <3>2. CASE e # 0
      <4>1. e - 1 \in Nat /\ e - 1 \in 0..top /\ (e - 1) + 1 = e
        BY <3>2, FieldAssumption, SMT
      <4>2. gf_mul(Alpha[(e - 1) + 1], y) = Times_alpha(gf_mul(Alpha[e - 1], y))
        BY <4>1, MulNext
      <4> QED BY <3>2, <4>1, <4>2
    <3> QED BY <3>1, <3>2
  <2> QED BY <2>1
<1> HIDE DEF here
<1>2. Law(times)
  BY <1>1, Zenon
<1>3. Product(x, y) = GfSum([e \in 0..top |-> IF e \in x THEN times[e] ELSE Zero], GF_BITS)
  BY Zenon DEF Product
<1> HIDE DEF times
<1> DEFINE T == {e \in Nat : e < GF_BITS => times[e] = gf_mul(Alpha[e], y)}
<1>4. 0 \in T
  <2>1. 0 \in 0..top
    BY FieldAssumption, SMT
  <2> QED BY <1>2, <2>1, AlphaType, MulLaws DEF IsPowers
<1>5. ASSUME NEW e \in T PROVE e + 1 \in T
  <2>1. /\ e \in Nat /\ e + 1 \in Nat /\ e + 1 # 0 /\ (e + 1) - 1 = e
        /\ e + 1 < GF_BITS => e < GF_BITS /\ e + 1 \in 0..top
    BY FieldAssumption, SMT
  <2>2. e + 1 < GF_BITS => times[e + 1] = Times_alpha(times[e])
    BY <1>2, <2>1
  <2> QED BY <2>1, <2>2, MulNext
<1> HIDE DEF T
<1>6. T \in SUBSET Nat
  BY DEF T
<1>7. \A e \in Nat : e \in T
  BY <1>4, <1>5, <1>6, Induct, Zenon
<1>8. \A e \in 0..top : e \in Nat /\ e < GF_BITS
  BY FieldAssumption, SMT
<1>9. \A e \in 0..top : times[e] = gf_mul(Alpha[e], y)
  BY <1>7, <1>8 DEF T
<1>10. [e \in 0..top |-> IF e \in x THEN times[e] ELSE Zero]
         = [e \in 0..top |-> IF e \in x THEN gf_mul(Alpha[e], y) ELSE Zero]
  BY <1>9
<1> QED BY <1>3, <1>10

LEMMA MulIsProduct ==
    ASSUME NEW x \in Gf, NEW y \in Gf
    PROVE  gf_mul(x, y) = Product(x, y)
<1> DEFINE top == GF_BITS - 1
           term == [e \in 0..top |-> IF e \in x THEN gf_mul(Alpha[e], y) ELSE Zero]
           Low(e) == x \intersect 0..(e - 1)
           h == [e \in 0..GF_BITS |-> gf_mul(Low(e), y)]
<1>1. GF_BITS \in Nat /\ x \subseteq 0..top
  BY FieldAssumption, SMT DEF Gf
<1>2. \A e \in 0..GF_BITS : Low(e) \in Gf
  BY <1>1, Zenon DEF Gf
<1>3. ASSUME NEW e \in 0..top
      PROVE  Low(e + 1) = Plus(Low(e), IF e \in x THEN {e} ELSE Zero)
  <2>1. \A a \in Int : a \in 0..((e + 1) - 1) <=> (a \in 0..(e - 1) \/ a = e)
    BY SMT
  <2>2. e \notin 0..(e - 1)
    BY SMT
  <2>3. \A a \in x : a \in Int
    BY <1>1, SMT
  <2>4. \A a : a \in Low(e + 1) <=> (a \in Low(e) \/ (a = e /\ e \in x))
    BY <2>1, <2>3
  <2>5. e \notin Low(e)
    BY <2>2
  <2> HIDE DEF Low
  <2>6. Low(e + 1) = Low(e) \union (IF e \in x THEN {e} ELSE {})
    BY <2>4
  <2> QED BY <2>5, <2>6 DEF Plus, Zero
<1>4. \A e \in 0..top : term[e] \in Gf
  <2>1. \A e \in 0..top : e \in Nat
    BY SMT
  <2> QED BY <2>1, AlphaPeriod, MulLaws, PlusLaws
<1>5. Terms(term, GF_BITS)
  BY <1>4 DEF Terms
<1>6. h[0] = Zero
  <2>1. 0 \in 0..GF_BITS /\ 0..(0 - 1) = {}
    BY <1>1, SMT
  <2>2. Low(0) = Zero
    BY <2>1 DEF Zero
  <2> QED BY <2>1, <2>2, MulLaws
<1>7. ASSUME NEW e \in 0..(GF_BITS - 1) PROVE h[e + 1] = Plus(h[e], term[e])
  <2>1. e \in 0..GF_BITS /\ e + 1 \in 0..GF_BITS
    BY <1>1, SMT
  <2>2. Alpha[e] = {e}
    BY LowPowers
  <2> DEFINE one == IF e \in x THEN {e} ELSE Zero
  <2>3. term[e] = gf_mul(one, y)
    BY <2>2, MulLaws
  <2>4. one \in Gf
    BY PlusLaws, SMT DEF Gf
  <2>5. Low(e + 1) = Plus(Low(e), one) /\ Low(e) \in Gf
    BY <1>2, <1>3, <2>1
  <2>6. h[e + 1] = gf_mul(Low(e + 1), y) /\ h[e] = gf_mul(Low(e), y)
    BY <2>1
  <2> HIDE DEF one, Low, h, term
  <2> QED BY <2>3, <2>4, <2>5, <2>6, Distributive
<1>8. GF_BITS \in 0..GF_BITS /\ Low(GF_BITS) = x
  <2>1. GF_BITS \in 0..GF_BITS
    BY <1>1, SMT
  <2> QED BY <1>1, <2>1, Zenon
<1>9. h[GF_BITS] = gf_mul(x, y)
  BY <1>8
<1> HIDE DEF h, Low
<1>10. GfSum(term, GF_BITS) = h[GF_BITS]
  BY <1>1, <1>5, <1>6, <1>7, SumUnique
<1>11. Product(x, y) = GfSum(term, GF_BITS)
  BY ProductTerms
<1> QED BY <1>9, <1>10, <1>11

\* The tables of generate_gf and init_mul_table are those of the field: products
\* of polynomials modulo the field's polynomial, and what multiplies to 1.
THEOREM FieldTables == TablesAreField
<1>1. \A x, y \in Gf : gf_mul(x, y) = Product(x, y)
  BY MulIsProduct
<1>2. \A x \in Gf \ {Zero} : gf_mul(x, inverse[x]) = One
  BY InverseLaws
<1> QED BY <1>1, <1>2 DEF TablesAreField
=============================================================================
