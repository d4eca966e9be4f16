---------------------------- MODULE RsCodeProofs ----------------------------
(***************************************************************************)
(* Proofs about the erasure code, for every code, field, data and choice   *)
(* of the packages that come.                                              *)
(*                                                                         *)
(* shuffle first.  Then the generator: the points are distinct, so that a  *)
(* polynomial of degree below k with k roots is 0 (Vanishing); invert_vdm  *)
(* computes the coefficients of the interpolating polynomials              *)
(* (InverseColumnLaws), and a word is the values of one polynomial of      *)
(* degree below k (EncLaws).  Then the decoder: InvertInv says of every    *)
(* such polynomial what HalfInverted says of the word, hence the matrix is *)
(* regular and the next pivot is on the diagonal.  Lagrange's polynomials  *)
(* last.                                                                   *)
(***************************************************************************)
EXTENDS RsCode, GaloisFieldProofs

-------------------------------------------------------------------------------
(***************************************************************************)
(* The packages that came, in order                                        *)
(***************************************************************************)
\* how many elements of set are below x
Rank(set, x) == Cardinality({y \in set : y < x})

LEMMA RankGrows ==
    ASSUME NEW set \in SUBSET Nat, IsFiniteSet(set), NEW x \in set, NEW z \in Nat,
           x < z
    PROVE  Rank(set, x) \in Nat /\ Rank(set, z) \in Nat /\ Rank(set, x) < Rank(set, z)
<1> DEFINE a == {y \in set : y < x}
           b == {y \in set : y < z}
<1>1. a \in SUBSET b /\ b \in SUBSET set /\ x \in b /\ x \notin a
  <2>1. \A y \in set : y \in Nat /\ (y < x => y < z) /\ ~(x < x)
    BY SMT
  <2> QED BY <2>1, Zenon
<1>2. a # b
  BY <1>1
<1> HIDE DEF a, b
<1>3. IsFiniteSet(b)
  BY <1>1, FS_Subset
<1>4. IsFiniteSet(a) /\ Cardinality(a) <= Cardinality(b) /\ Cardinality(a) # Cardinality(b)
  BY <1>1, <1>2, <1>3, FS_Subset
<1>5. Cardinality(a) \in Nat /\ Cardinality(b) \in Nat
  BY <1>3, <1>4, FS_CardinalityType
<1>6. Cardinality(a) < Cardinality(b)
  BY <1>4, <1>5, SMT
<1> QED BY <1>5, <1>6 DEF Rank, a, b

\* There is an element of each rank, and Nth returns it.
LEMMA NthRank ==
    ASSUME NEW size \in Nat, NEW set \in SUBSET (0..(size - 1)),
           NEW j \in 0..(Cardinality(set) - 1)
    PROVE  Nth(set, j) \in set /\ Rank(set, Nth(set, j)) = j
<1>1. IsFiniteSet(set) /\ set \in SUBSET Nat
  <2>1. IsFiniteSet(0..(size - 1))
    BY 0 \in Int, size - 1 \in Int, FS_Interval
  <2>2. IsFiniteSet(set)
    BY <2>1, FS_Subset
  <2> QED BY <2>2
<1> DEFINE count == Cardinality(set)
           rank == [x \in set |-> Rank(set, x)]
<1>2. count \in Nat
  BY <1>1, FS_CardinalityType
<1>3. ASSUME NEW x \in set
      PROVE  Rank(set, x) \in 0..(count - 1)
  <2>1. \A y \in set : y < size
    BY SMT
  <2>2. {y \in set : y < size} = set /\ x < size
    BY <2>1, Zenon
  <2>3. Rank(set, size) = count
    BY <2>2, Zenon DEF Rank
  <2>4. Rank(set, x) \in Nat /\ Rank(set, x) < count
    BY <1>1, <2>2, <2>3, RankGrows
  <2> QED BY <1>2, <2>4, SMT
<1>4. ASSUME NEW x \in set, NEW z \in set, rank[x] = rank[z]
      PROVE  x = z
  <2>1. Rank(set, x) = Rank(set, z) /\ x \in Nat /\ z \in Nat
    BY <1>1, <1>4
  <2>2. ~(x < z) /\ ~(z < x)
    BY <1>1, <2>1, RankGrows, SMT
  <2> QED BY <2>1, <2>2, SMT
<1>5. rank \in Injection(set, 0..(count - 1))
  BY <1>3, <1>4 DEF Injection, IsInjective
<1>6. IsFiniteSet(0..(count - 1)) /\ Cardinality(0..(count - 1)) = count
  BY <1>2, FS_Interval, SMT
<1> HIDE DEF rank
<1>7. rank \in Surjection(set, 0..(count - 1))
  BY <1>5, <1>6, FS_Injection
<1>8. \E x \in set : rank[x] = j
  BY <1>7 DEF Surjection
<1>9. \E x \in set : Cardinality({y \in set : y < x}) = j
  BY <1>8 DEF rank, Rank
<1> QED BY <1>9, Zenon DEF Nth, Rank

-------------------------------------------------------------------------------
(***************************************************************************)
(* The invariant                                                           *)
(***************************************************************************)
CodeInv ==
    /\ k \in Nat \ {0} /\ n \in Nat /\ k <= n
    /\ DOMAIN data = 0..(n - 1)

\* The first places of data hold different packages of the word, as many as
\* came, and index says which.
CameInv ==
    \E count \in k..n :
        /\ index \in [0..(count - 1) -> 0..(n - 1)]
        /\ \A a, b \in 0..(count - 1) : index[a] = index[b] => a = b
        /\ \A j \in 0..(count - 1) : data[j] = word[index[j]]

ShuffleInv ==
    /\ CodeInv
    /\ pc = "receive" => i = 0
    /\ pc \in {"shuffle", "invert"} => CameInv
    /\ pc = "shuffle" => i \in 0..k /\ \A j \in 0..(i - 1) : Settled(j)
    /\ pc = "invert" => \A j \in 0..(k - 1) : Settled(j)

LEMMA InitShuffle ==
    ASSUME Init
    PROVE  ShuffleInv
<1>1. PICK c \in Codes : k = c[1] /\ n = c[2]
  BY DEF Init
<1>2. k \in Nat \ {0} /\ n \in k..(GF_SIZE + 1)
  BY <1>1, CodeAssumption
<1>3. n \in Nat /\ k <= n
  BY <1>2
<1> QED BY <1>2, <1>3 DEF Init, ShuffleInv, CodeInv

LEMMA ReceiveShuffle ==
    ASSUME ShuffleInv, NEW came \in SUBSET (0..(n - 1)), Receive(came)
    PROVE  ShuffleInv'
<1> DEFINE count == Cardinality(came)
<1>1. /\ pc = "receive" /\ i = 0 /\ i' = i /\ k' = k /\ n' = n /\ word' = word
      /\ index' = [j \in 0..(count - 1) |-> Nth(came, j)]
      /\ data' = [j \in 0..(n - 1) |->
                    IF j < count THEN word[Nth(came, j)] ELSE Lost]
      /\ pc' = IF count < k THEN "failed" ELSE "shuffle"
  BY DEF Receive, ShuffleInv
<1>2. k \in Nat \ {0} /\ n \in Nat /\ k <= n
  BY DEF ShuffleInv, CodeInv
<1>3. count \in Nat /\ count <= n
  <2>1. IsFiniteSet(0..(n - 1)) /\ Cardinality(0..(n - 1)) = n
    BY <1>2, FS_Interval, SMT
  <2>2. IsFiniteSet(came) /\ count <= n
    BY <2>1, FS_Subset
  <2> QED BY <2>2, FS_CardinalityType
<1>4. CodeInv'
  BY <1>1, <1>2 DEF CodeInv
<1>5. \A j \in 0..(count - 1) : Nth(came, j) \in came /\ Rank(came, Nth(came, j)) = j
  BY <1>2, NthRank
<1> HIDE DEF count
<1>6. ASSUME pc' = "shuffle"
      PROVE  CameInv'
  <2>1. count \in k..n
    BY <1>1, <1>2, <1>3, <1>6
  <2>2. index' \in [0..(count - 1) -> 0..(n - 1)]
    BY <1>1, <1>5
  <2>3. \A a, b \in 0..(count - 1) : index'[a] = index'[b] => a = b
    BY <1>1, <1>5
  <2>4. \A j \in 0..(count - 1) : data'[j] = word'[index'[j]]
    <3>1. \A j \in 0..(count - 1) : j \in 0..(n - 1) /\ j < count
      BY <1>2, <1>3
    <3> QED BY <1>1, <3>1
  <2> QED BY <1>1, <2>1, <2>2, <2>3, <2>4 DEF CameInv
<1>7. pc' # "receive" /\ pc' # "invert" /\ i' \in 0..k /\ 0..(i' - 1) = {}
  BY <1>1, <1>2
<1> QED BY <1>1, <1>4, <1>6, <1>7 DEF ShuffleInv

\* A place that is not settled holds a data package, and the place of that
\* package holds another one: the error return of shuffle (fec.c:780-783) is
\* never taken.
LEMMA NoConflict ==
    ASSUME CodeInv, CameInv, NEW j \in 0..(k - 1), ~Settled(j)
    PROVE  /\ index[j] \in 0..(k - 1) /\ index[j] # j
           /\ index[index[j]] # index[j]
<1>1. PICK count \in k..n :
        /\ index \in [0..(count - 1) -> 0..(n - 1)]
        /\ \A a, b \in 0..(count - 1) : index[a] = index[b] => a = b
  BY DEF CameInv
<1>2. k \in Nat /\ n \in Nat /\ count \in Nat /\ k <= count
  BY DEF CodeInv
<1>3. j \in 0..(count - 1) /\ ~(index[j] >= k) /\ index[j] # j
  BY <1>2 DEF Settled
<1>4. index[j] \in 0..(n - 1)
  BY <1>1, <1>3
<1>5. index[j] \in 0..(k - 1) /\ index[j] \in 0..(count - 1)
  BY <1>2, <1>3, <1>4
<1> QED BY <1>1, <1>3, <1>5

LEMMA SwapShuffle ==
    ASSUME ShuffleInv, ShuffleSwap
    PROVE  ShuffleInv'
<1>1. pc = "shuffle" /\ i \in Nat /\ i < k /\ ~Settled(i) /\ i \in 0..(k - 1)
  BY DEF ShuffleSwap, ShuffleInv, CodeInv
<1>2. CodeInv /\ CameInv
  BY <1>1 DEF ShuffleInv
<1> DEFINE c == index[i]
<1>3. c \in 0..(k - 1) /\ c # i /\ index[c] # c
  BY <1>1, <1>2, NoConflict
<1>4. /\ index' = [index EXCEPT ![i] = index[c], ![c] = index[i]]
      /\ data' = [data EXCEPT ![i] = data[c], ![c] = data[i]]
      /\ i' = i /\ pc' = pc /\ k' = k /\ n' = n /\ word' = word
  BY <1>3 DEF ShuffleSwap, Swapped, AfterSwap
<1>5. k \in Nat \ {0} /\ n \in Nat /\ k <= n /\ DOMAIN data = 0..(n - 1)
  BY <1>2 DEF CodeInv
<1>6. CodeInv'
  BY <1>4, <1>5 DEF CodeInv
<1>7. PICK count \in k..n :
        /\ index \in [0..(count - 1) -> 0..(n - 1)]
        /\ \A a, b \in 0..(count - 1) : index[a] = index[b] => a = b
        /\ \A j \in 0..(count - 1) : data[j] = word[index[j]]
  BY <1>2 DEF CameInv
<1>8. /\ i \in 0..(count - 1) /\ c \in 0..(count - 1)
      /\ \A j \in 0..(count - 1) : j \in 0..(n - 1)
  BY <1>1, <1>3, <1>5
<1> HIDE DEF c
<1>9. \A j \in 0..(count - 1) :
        /\ index'[j] = IF j = c THEN index[i] ELSE IF j = i THEN index[c] ELSE index[j]
        /\ data'[j] = IF j = c THEN data[i] ELSE IF j = i THEN data[c] ELSE data[j]
  BY <1>3, <1>4, <1>5, <1>7, <1>8
<1>10. CameInv'
  <2>1. index' \in [0..(count - 1) -> 0..(n - 1)]
    BY <1>4, <1>7, <1>8
  <2>2. \A a, b \in 0..(count - 1) : index'[a] = index'[b] => a = b
    BY <1>7, <1>8, <1>9
  <2>3. \A j \in 0..(count - 1) : data'[j] = word'[index'[j]]
    BY <1>4, <1>7, <1>8, <1>9
  <2> QED BY <1>4, <2>1, <2>2, <2>3 DEF CameInv
<1>11. ASSUME NEW j \in 0..(i - 1)
       PROVE  Settled(j)'
  <2>1. Settled(j) /\ j # i /\ j \in 0..(count - 1)
    BY <1>1, <1>5, <1>8 DEF ShuffleInv
  <2>2. CASE j = c
    BY <1>4, <1>9, <2>1, <2>2 DEF Settled, c
  <2>3. CASE j # c
    BY <1>4, <1>9, <2>1, <2>3 DEF Settled
  <2> QED BY <2>2, <2>3
<1>12. i \in 0..k
  BY <1>1, <1>5
<1> QED BY <1>1, <1>4, <1>6, <1>10, <1>11, <1>12 DEF ShuffleInv

\* What has settled at the end of shuffle stays where it is.
LEMMA StepShuffle ==
    ASSUME ShuffleInv, [Next]_vars
    PROVE  ShuffleInv'
<1> USE DEF invVars
<1>1. CASE \E came \in SUBSET (0..(n - 1)) : Receive(came)
  BY <1>1, ReceiveShuffle
<1>2. CASE ShuffleNext
  <2>1. /\ pc = "shuffle" /\ pc' = pc /\ i' = i + 1 /\ i < k /\ Settled(i)
        /\ UNCHANGED <<k, n, word, data, index>>
    BY <1>2 DEF ShuffleNext
  <2>2. CodeInv' /\ CameInv'
    BY <2>1 DEF ShuffleInv, CodeInv, CameInv
  <2>3. i \in Nat /\ k \in Nat
    BY <2>1 DEF ShuffleInv, CodeInv
  <2>4. i' \in 0..k' /\ \A j \in 0..(i' - 1) : j \in 0..(i - 1) \/ j = i
    BY <2>1, <2>3
  <2>5. \A j \in 0..(i' - 1) : Settled(j)'
    BY <2>1, <2>4 DEF ShuffleInv, Settled
  <2> QED BY <2>1, <2>2, <2>4, <2>5 DEF ShuffleInv
<1>3. CASE ShuffleSwap
  BY <1>3, SwapShuffle
<1>4. CASE Build
  <2>1. /\ pc = "shuffle" /\ i = k /\ pc' = "invert"
        /\ UNCHANGED <<k, n, word, data, index>>
    BY <1>4 DEF Build
  <2>2. CodeInv' /\ CameInv'
    BY <2>1 DEF ShuffleInv, CodeInv, CameInv
  <2>3. \A j \in 0..(k' - 1) : Settled(j)'
    BY <2>1 DEF ShuffleInv, Settled
  <2> QED BY <2>1, <2>2, <2>3 DEF ShuffleInv
<1>5. CASE Pivot
  <2>1. /\ pc = "invert" /\ pc' \in {"invert", "failed"}
        /\ UNCHANGED <<k, n, word, data, index>>
    BY <1>5 DEF Pivot
  <2>2. CodeInv' /\ CameInv' /\ \A j \in 0..(k' - 1) : Settled(j)'
    BY <2>1 DEF ShuffleInv, CodeInv, CameInv, Settled
  <2> QED BY <2>1, <2>2 DEF ShuffleInv
<1>6. CASE Decode
  <2>1. /\ pc' = "done" /\ UNCHANGED <<k, n>>
        /\ data' = Restored(Unswapped)
    BY <1>6 DEF Decode
  <2>2. CodeInv'
    BY <2>1 DEF ShuffleInv, CodeInv, Restored
  <2> QED BY <2>1, <2>2 DEF ShuffleInv
<1>7. CASE UNCHANGED vars
  BY <1>7 DEF vars, ShuffleInv, CodeInv, CameInv, Settled
<1> QED BY <1>1, <1>2, <1>3, <1>4, <1>5, <1>6, <1>7 DEF Next

-------------------------------------------------------------------------------
\* shuffle moves a package and its index together, and when it is through
\* each data package that came is in its place: fec.c:771-787, 814-816.
THEOREM InPlace == Spec => []PackagesInPlace
<1>1. Init => ShuffleInv
  BY InitShuffle
<1>2. ShuffleInv /\ [Next]_vars => ShuffleInv'
  BY StepShuffle
<1>3. ShuffleInv => PackagesInPlace
  <2> SUFFICES ASSUME ShuffleInv PROVE PackagesInPlace
    OBVIOUS
  <2>1. ASSUME pc \in {"shuffle", "invert"}
        PROVE  \A j \in DOMAIN index : data[j] = word[index[j]]
    BY <2>1 DEF ShuffleInv, CameInv
  <2> QED BY <2>1 DEF ShuffleInv, PackagesInPlace
<1> QED BY <1>1, <1>2, <1>3, PTL DEF Spec

\* shuffle never gives up: two packages that came never claim one place, so
\* that its error return (fec.c:780-783) is not taken for any code.
THEOREM ShuffleSucceeds == Spec => [][ShuffleSwap => pc' = "shuffle"]_vars
<1>1. Init => ShuffleInv
  BY InitShuffle
<1>2. ShuffleInv /\ [Next]_vars => ShuffleInv'
  BY StepShuffle
<1>3. ShuffleInv => (ShuffleSwap => pc' = "shuffle")
  <2> SUFFICES ASSUME ShuffleInv, ShuffleSwap PROVE pc' = "shuffle"
    OBVIOUS
  <2>1. pc = "shuffle" /\ i \in 0..(k - 1) /\ ~Settled(i)
    BY DEF ShuffleSwap, ShuffleInv, CodeInv
  <2>2. index[index[i]] # index[i]
    BY <2>1, NoConflict DEF ShuffleInv
  <2> QED BY <2>1, <2>2 DEF ShuffleSwap
<1> QED BY <1>1, <1>2, <1>3, PTL DEF Spec

-------------------------------------------------------------------------------
(***************************************************************************)
(* The points                                                              *)
(***************************************************************************)
\* The rows of the largest matrix: one for every element of the field.
Rows == 0..GF_SIZE

\* Point(row)^col
W(row, col) ==
    IF row = 0 THEN IF col = 0 THEN One ELSE Zero ELSE Alpha[(row - 1) * col]

\* The table gf_exp and modnn give any power.
LEMMA ExpModnn == \A m \in Nat : gf_exp[modnn[m]] = Alpha[m]
<1> TAKE m \in Nat
<1> DEFINE r == m % GF_SIZE
<1>1. GF_SIZE \in Nat \ {0}
  BY SizeFacts
<1>2. r \in 0..(GF_SIZE - 1) /\ modnn[m] = r /\ Alpha[m] = Alpha[r]
  BY <1>1, ModFacts, ModnnIsMod, AlphaPeriod
<1> HIDE DEF r
<1>3. r \in Nat /\ r < GF_SIZE /\ r \in 0..(2 * GF_SIZE - 1)
  BY <1>1, <1>2, SMT
<1>4. r % GF_SIZE = r
  BY <1>1, <1>3, ModFacts
<1>5. gf_exp[r] = Alpha[r]
  BY <1>3, <1>4, ExpIsAlpha
<1> QED BY <1>2, <1>5

LEMMA PowersAreW ==
    ASSUME NEW row \in Rows, NEW size \in Nat
    PROVE  \A col \in 0..(size - 1) : Powers(row, size)[col] = W(row, col)
<1> TAKE col \in 0..(size - 1)
<1>1. CASE row = 0
  BY <1>1 DEF Powers, W
<1>2. CASE row # 0
  <2> DEFINE m == (row - 1) * col
  <2>1. row - 1 \in Nat /\ col \in Nat
    BY <1>2, SizeFacts, SMT DEF Rows
  <2>2. m \in Nat
    BY <2>1
  <2>3. Powers(row, size)[col] = gf_exp[modnn[m]]
    BY <1>2 DEF Powers
  <2> HIDE DEF m
  <2>4. Powers(row, size)[col] = Alpha[m]
    BY <2>2, <2>3, ExpModnn
  <2> QED BY <1>2, <2>4 DEF W, m
<1> QED BY <1>1, <1>2

LEMMA PointLaws ==
    /\ \A row \in Rows : Point(row) \in Gf
    /\ Point(0) = Zero
    /\ \A row, other \in Rows : Point(row) = Point(other) => row = other
    /\ \A row \in Rows : W(row, 0) = One
    /\ \A row \in Rows : \A col \in Nat : W(row, col) \in Gf
    /\ \A row \in Rows : \A col \in Nat : W(row, col + 1) = gf_mul(Point(row), W(row, col))
<1>1. GF_SIZE \in Nat \ {0}
  BY SizeFacts
<1>2. ASSUME NEW row \in Rows PROVE Point(row) = W(row, 1)
  <2>1. 1 \in 0..(2 - 1) /\ 2 \in Nat
    BY SMT
  <2> QED BY <2>1, PowersAreW DEF Point
<1>3. Point(0) = Zero
  BY <1>2, <1>1, SMT DEF Rows, W
<1>4. ASSUME NEW row \in Rows, row # 0
      PROVE  row - 1 \in 0..(GF_SIZE - 1) /\ row - 1 \in Nat /\ Point(row) = Alpha[row - 1]
  <2>1. row - 1 \in 0..(GF_SIZE - 1) /\ row - 1 \in Nat /\ (row - 1) * 1 = row - 1
    BY <1>1, <1>4, SMT DEF Rows
  <2> QED BY <1>2, <1>4, <2>1 DEF W
<1>5. \A row \in Rows : Point(row) \in Gf /\ (Point(row) = Zero => row = 0)
  BY <1>3, <1>4, AlphaPeriod, PlusLaws
<1>6. ASSUME NEW row \in Rows, NEW other \in Rows, Point(row) = Point(other)
      PROVE  row = other
  <2>1. CASE row = 0 \/ other = 0
    BY <1>3, <1>5, <1>6, <2>1
  <2>2. CASE row # 0 /\ other # 0
    <3>1. row - 1 = other - 1
      BY <1>4, <1>6, <2>2, AlphaBijective
    <3> QED BY <3>1, SMT DEF Rows
  <2> QED BY <2>1, <2>2
<1>7. ASSUME NEW row \in Rows, row # 0, NEW col \in Nat
      PROVE  W(row, col) \in Gf /\ W(row, col + 1) = gf_mul(Point(row), W(row, col))
             /\ W(row, 0) = One
  <2> DEFINE a == row - 1
             b == a * col
  <2>1. a \in Nat /\ Point(row) = Alpha[a]
    BY <1>4, <1>7
  <2>2. b \in Nat /\ a * (col + 1) = a + b /\ a * 0 = 0
    BY <2>1, SMT
  <2>3. W(row, col) = Alpha[b] /\ W(row, col + 1) = Alpha[a + b] /\ W(row, 0) = Alpha[0]
    BY <1>7, <2>2, SMT DEF W
  <2> HIDE DEF a, b
  <2> QED BY <2>1, <2>2, <2>3, MulPowers, AlphaPeriod, AlphaType DEF IsPowers
<1>8. ASSUME NEW col \in Nat
      PROVE  W(0, col) \in Gf /\ W(0, col + 1) = gf_mul(Point(0), W(0, col)) /\ W(0, 0) = One
  <2>1. W(0, col) \in Gf /\ W(0, 0) = One
    BY PlusLaws DEF W
  <2>2. W(0, col + 1) = Zero
    BY SMT DEF W
  <2> QED BY <1>3, <2>1, <2>2, MulLaws
<1>9. 0 \in Nat
  OBVIOUS
<1> QED BY <1>3, <1>5, <1>6, <1>7, <1>8, <1>9

-------------------------------------------------------------------------------
(***************************************************************************)
(* Polynomials, as functions of the row whose point they are taken at      *)
(***************************************************************************)
\* f is a + y * g at every point y.
IsNext(f, a, g) == \A r \in Rows : f[r] = Plus(a, gf_mul(Point(r), g[r]))

NextPolys(set) == {f \in [Rows -> Gf] : \E a \in Gf, g \in set : IsNext(f, a, g)}

\* T[s]: the polynomials of degree s whose coefficient of y^s is c
IsTower(T, c) ==
    /\ T \in [Nat -> SUBSET [Rows -> Gf]]
    /\ T[0] = {[r \in Rows |-> c]}
    /\ \A s \in Nat : T[s + 1] = NextPolys(T[s])

Tower(c) == CHOOSE T : IsTower(T, c)

\* of degree below s; of degree s with leading coefficient 1
Poly(s) == Tower(Zero)[s]
Monic(s) == Tower(One)[s]

LEMMA TowerExists ==
    ASSUME NEW c \in Gf
    PROVE  IsTower(Tower(c), c)
<1> DEFINE S == SUBSET [Rows -> Gf]
           F == [p \in Nat \X S |-> NextPolys(p[2])]
           a == {[r \in Rows |-> c]}
<1>1. F \in [Nat \X S -> S] /\ a \in S
  BY DEF NextPolys
<1>2. \A s \in Nat, set \in S : F[<<s, set>>] = NextPolys(set)
  OBVIOUS
<1> HIDE DEF F, S
<1>3. IsStep(F, S)
  BY <1>1 DEF IsStep
<1>4. PICK T : FollowsAll(T, S, a, F)
  BY <1>1, <1>3, RecursionNat
<1>5. \A s \in Nat : T[s] \in S
  BY <1>4 DEF FollowsAll
<1>6. IsTower(T, c)
  BY <1>2, <1>4, <1>5 DEF FollowsAll, IsTower, S
<1> QED BY <1>6, Zenon DEF Tower

LEMMA TowerLaws ==
    ASSUME NEW c \in Gf
    PROVE  /\ \A s \in Nat : \A f \in Tower(c)[s] : f \in [Rows -> Gf]
           /\ \A f \in [Rows -> Gf] : f \in Tower(c)[0] <=> \A r \in Rows : f[r] = c
           /\ \A s \in Nat : \A f \in [Rows -> Gf] :
                 f \in Tower(c)[s + 1] <=> \E a \in Gf, g \in Tower(c)[s] : IsNext(f, a, g)
<1>1. IsTower(Tower(c), c)
  BY TowerExists
<1>2. \A s \in Nat : \A f \in Tower(c)[s] : f \in [Rows -> Gf]
  BY <1>1 DEF IsTower
<1>3. ASSUME NEW f \in [Rows -> Gf]
      PROVE  f \in Tower(c)[0] <=> \A r \in Rows : f[r] = c
  <2>1. f \in Tower(c)[0] <=> f = [r \in Rows |-> c]
    BY <1>1 DEF IsTower
  <2> QED BY <2>1
<1>4. \A s \in Nat : \A f \in [Rows -> Gf] :
         f \in Tower(c)[s + 1] <=> \E a \in Gf, g \in Tower(c)[s] : IsNext(f, a, g)
  BY <1>1, Zenon DEF IsTower, NextPolys
<1> QED BY <1>2, <1>3, <1>4

\* A sum with a polynomial of lower degree
LEMMA TowerPlus ==
    ASSUME NEW c \in Gf
    PROVE  \A s \in Nat : \A f \in Tower(c)[s], g \in Poly(s), h \in [Rows -> Gf] :
              (\A r \in Rows : h[r] = Plus(f[r], g[r])) => h \in Tower(c)[s]
<1> DEFINE Law(s) == \A f \in Tower(c)[s], g \in Poly(s), h \in [Rows -> Gf] :
              (\A r \in Rows : h[r] = Plus(f[r], g[r])) => h \in Tower(c)[s]
           T == {s \in Nat : Law(s)}
<1>1. 0 \in T
  <2>1. ASSUME NEW f \in Tower(c)[0], NEW g \in Poly(0), NEW h \in [Rows -> Gf],
               \A r \in Rows : h[r] = Plus(f[r], g[r])
        PROVE  h \in Tower(c)[0]
    <3>1. \A r \in Rows : f[r] = c
      BY TowerLaws
    <3>2. \A r \in Rows : g[r] = Zero
      BY TowerLaws, PlusLaws DEF Poly
    <3> QED BY <2>1, <3>1, <3>2, TowerLaws, PlusLaws
  <2> QED BY <2>1
<1>2. ASSUME NEW s \in T PROVE s + 1 \in T
  <2>1. s \in Nat /\ s + 1 \in Nat /\ Law(s)
    OBVIOUS
  <2>2. ASSUME NEW f \in Tower(c)[s + 1], NEW g \in Poly(s + 1), NEW h \in [Rows -> Gf],
               \A r \in Rows : h[r] = Plus(f[r], g[r])
        PROVE  h \in Tower(c)[s + 1]
    <3>1. f \in [Rows -> Gf] /\ \E a \in Gf, u \in Tower(c)[s] : IsNext(f, a, u)
      BY <2>1, TowerLaws
    <3>2. g \in [Rows -> Gf] /\ \E b \in Gf, v \in Poly(s) : IsNext(g, b, v)
      BY <2>1, TowerLaws, PlusLaws DEF Poly
    <3>3. PICK a \in Gf, u \in Tower(c)[s] : IsNext(f, a, u)
      BY <3>1
    <3>4. PICK b \in Gf, v \in Poly(s) : IsNext(g, b, v)
      BY <3>2
    <3>5. u \in [Rows -> Gf] /\ v \in [Rows -> Gf]
      BY <2>1, TowerLaws, PlusLaws DEF Poly
    <3> DEFINE w == [r \in Rows |-> Plus(u[r], v[r])]
    <3>6. w \in [Rows -> Gf] /\ \A r \in Rows : w[r] = Plus(u[r], v[r])
      BY <3>5, PlusLaws
    <3> HIDE DEF w
    <3>7. w \in Tower(c)[s]
      BY <2>1, <3>6
    <3>8. \A x, y, z, t : Plus(Plus(x, y), Plus(z, t)) = Plus(Plus(x, z), Plus(y, t))
      BY DEF Plus
    <3>9. IsNext(h, Plus(a, b), w)
      <4>1. ASSUME NEW r \in Rows
            PROVE  h[r] = Plus(Plus(a, b), gf_mul(Point(r), w[r]))
        <5>1. Point(r) \in Gf /\ u[r] \in Gf /\ v[r] \in Gf
          BY <3>5, PointLaws
        <5>2. gf_mul(Point(r), w[r])
                = Plus(gf_mul(Point(r), u[r]), gf_mul(Point(r), v[r]))
          BY <3>6, <5>1, Distributive
        <5>3. f[r] = Plus(a, gf_mul(Point(r), u[r])) /\ g[r] = Plus(b, gf_mul(Point(r), v[r]))
          BY <3>3, <3>4 DEF IsNext
        <5>4. h[r] = Plus(f[r], g[r])
          BY <2>2
        <5> QED BY <3>8, <5>2, <5>3, <5>4
      <4> QED BY <4>1 DEF IsNext
    <3>10. Plus(a, b) \in Gf
      BY PlusLaws
    <3> QED BY <2>1, <3>7, <3>9, <3>10, TowerLaws
  <2> QED BY <2>1, <2>2
<1> HIDE DEF T
<1>3. T \in SUBSET Nat
  BY DEF T
<1>4. \A s \in Nat : s \in T
  BY <1>1, <1>2, <1>3, Induct, Zenon
<1> QED BY <1>4 DEF T

\* A multiple
LEMMA TowerScale ==
    ASSUME NEW c \in Gf, NEW x \in Gf
    PROVE  \A s \in Nat : \A f \in Tower(c)[s], h \in [Rows -> Gf] :
              (\A r \in Rows : h[r] = gf_mul(x, f[r])) => h \in Tower(gf_mul(x, c))[s]
<1> DEFINE d == gf_mul(x, c)
           Law(s) == \A f \in Tower(c)[s], h \in [Rows -> Gf] :
              (\A r \in Rows : h[r] = gf_mul(x, f[r])) => h \in Tower(d)[s]
           T == {s \in Nat : Law(s)}
<1>1. d \in Gf
  BY MulLaws
<1>2. 0 \in T
  <2>1. ASSUME NEW f \in Tower(c)[0], NEW h \in [Rows -> Gf],
               \A r \in Rows : h[r] = gf_mul(x, f[r])
        PROVE  h \in Tower(d)[0]
    <3>1. f \in [Rows -> Gf]
      BY TowerLaws
    <3>2. \A r \in Rows : f[r] = c
      BY <3>1, TowerLaws
    <3> QED BY <1>1, <2>1, <3>2, TowerLaws
  <2> QED BY <2>1
<1> HIDE DEF d
<1>3. ASSUME NEW s \in T PROVE s + 1 \in T
  <2>1. s \in Nat /\ s + 1 \in Nat /\ Law(s)
    OBVIOUS
  <2>2. ASSUME NEW f \in Tower(c)[s + 1], NEW h \in [Rows -> Gf],
               \A r \in Rows : h[r] = gf_mul(x, f[r])
        PROVE  h \in Tower(d)[s + 1]
    <3>1. f \in [Rows -> Gf]
      BY <2>1, TowerLaws
    <3>2. PICK a \in Gf, u \in Tower(c)[s] : IsNext(f, a, u)
      BY <2>1, <3>1, TowerLaws
    <3>3. u \in [Rows -> Gf]
      BY <2>1, TowerLaws
    <3> DEFINE w == [r \in Rows |-> gf_mul(x, u[r])]
    <3>4. w \in [Rows -> Gf] /\ \A r \in Rows : w[r] = gf_mul(x, u[r])
      BY <3>3, MulLaws
    <3> HIDE DEF w
    <3>5. w \in Tower(d)[s]
      BY <2>1, <3>4
    <3>6. IsNext(h, gf_mul(x, a), w)
      <4>1. ASSUME NEW r \in Rows
            PROVE  h[r] = Plus(gf_mul(x, a), gf_mul(Point(r), w[r]))
        <5> DEFINE y == Point(r)
                   v == u[r]
        <5>1. y \in Gf /\ v \in Gf
          BY <3>3, PointLaws
        <5>2. h[r] = gf_mul(x, Plus(a, gf_mul(y, v))) /\ w[r] = gf_mul(x, v)
          BY <2>2, <3>2, <3>4 DEF IsNext
        <5> HIDE DEF y, v
        <5>3. gf_mul(y, v) \in Gf /\ gf_mul(x, gf_mul(y, v)) = gf_mul(y, gf_mul(x, v))
          <6>1. gf_mul(x, gf_mul(y, v)) = gf_mul(gf_mul(x, y), v)
            BY <5>1, MulLaws
          <6>2. gf_mul(y, gf_mul(x, v)) = gf_mul(gf_mul(y, x), v)
            BY <5>1, MulLaws
          <6> QED BY <5>1, <6>1, <6>2, MulLaws
        <5>4. gf_mul(x, Plus(a, gf_mul(y, v))) = Plus(gf_mul(x, a), gf_mul(x, gf_mul(y, v)))
          BY <5>3, Distributive
        <5> QED BY <5>2, <5>3, <5>4 DEF y
      <4> QED BY <4>1 DEF IsNext
    <3>7. gf_mul(x, a) \in Gf
      BY MulLaws
    <3> QED BY <1>1, <2>1, <3>5, <3>6, <3>7, TowerLaws
  <2> QED BY <2>1, <2>2
<1> HIDE DEF T
<1>4. T \in SUBSET Nat
  BY DEF T
<1>5. \A s \in Nat : s \in T
  BY <1>2, <1>3, <1>4, Induct, Zenon
<1> QED BY <1>5 DEF T, d

\* A polynomial of degree s is one of degree below s + 1.
LEMMA TowerBelow ==
    ASSUME NEW c \in Gf
    PROVE  \A s \in Nat : \A f \in Tower(c)[s] : f \in Poly(s + 1)
<1> DEFINE Law(s) == \A f \in Tower(c)[s] : f \in Poly(s + 1)
           T == {s \in Nat : Law(s)}
<1>1. 0 \in T
  <2>1. ASSUME NEW f \in Tower(c)[0] PROVE f \in Poly(0 + 1)
    <3>1. f \in [Rows -> Gf] /\ 0 \in Nat
      BY TowerLaws
    <3>2. \A r \in Rows : f[r] = c
      BY <3>1, TowerLaws
    <3> DEFINE z == [r \in Rows |-> Zero]
    <3>3. z \in Tower(Zero)[0]
      BY TowerLaws, PlusLaws
    <3>4. \A r \in Rows : Plus(c, gf_mul(Point(r), z[r])) = c
      BY PointLaws, MulLaws, PlusLaws
    <3> HIDE DEF z
    <3>5. IsNext(f, c, z)
      BY <3>2, <3>4 DEF IsNext
    <3> QED BY <3>1, <3>3, <3>5, TowerLaws, PlusLaws DEF Poly
  <2> QED BY <2>1
<1>2. ASSUME NEW s \in T PROVE s + 1 \in T
  <2>1. s \in Nat /\ s + 1 \in Nat /\ Law(s)
    OBVIOUS
  <2>2. ASSUME NEW f \in Tower(c)[s + 1] PROVE f \in Poly((s + 1) + 1)
    <3>1. f \in [Rows -> Gf]
      BY <2>1, TowerLaws
    <3>2. PICK a \in Gf, u \in Tower(c)[s] : IsNext(f, a, u)
      BY <2>1, <3>1, TowerLaws
    <3>3. u \in Tower(Zero)[s + 1]
      BY <2>1 DEF Poly
    <3> QED BY <2>1, <3>1, <3>2, <3>3, TowerLaws, PlusLaws DEF Poly
  <2> QED BY <2>1, <2>2
<1> HIDE DEF T
<1>3. T \in SUBSET Nat
  BY DEF T
<1>4. \A s \in Nat : s \in T
  BY <1>1, <1>2, <1>3, Induct, Zenon
<1> QED BY <1>4 DEF T

\* Times y, and times y + x
LEMMA TowerTimes ==
    ASSUME NEW c \in Gf, NEW x \in Gf, NEW s \in Nat, NEW f \in Tower(c)[s]
    PROVE  /\ \A h \in [Rows -> Gf] :
                 (\A r \in Rows : h[r] = gf_mul(Point(r), f[r])) => h \in Tower(c)[s + 1]
           /\ \A h \in [Rows -> Gf] :
                 (\A r \in Rows : h[r] = gf_mul(Plus(Point(r), x), f[r]))
                    => h \in Tower(c)[s + 1]
<1>1. f \in [Rows -> Gf] /\ s + 1 \in Nat
  BY TowerLaws
<1>2. ASSUME NEW h \in [Rows -> Gf], \A r \in Rows : h[r] = gf_mul(Point(r), f[r])
      PROVE  h \in Tower(c)[s + 1]
  <2>1. IsNext(h, Zero, f)
    BY <1>2, PlusLaws DEF IsNext
  <2> QED BY <2>1, TowerLaws, PlusLaws
<1>3. ASSUME NEW h \in [Rows -> Gf],
             \A r \in Rows : h[r] = gf_mul(Plus(Point(r), x), f[r])
      PROVE  h \in Tower(c)[s + 1]
  <2> DEFINE u == [r \in Rows |-> gf_mul(Point(r), f[r])]
             v == [r \in Rows |-> gf_mul(x, f[r])]
             d == gf_mul(x, c)
  <2>1. /\ u \in [Rows -> Gf] /\ \A r \in Rows : u[r] = gf_mul(Point(r), f[r])
        /\ v \in [Rows -> Gf] /\ \A r \in Rows : v[r] = gf_mul(x, f[r])
        /\ d \in Gf
    BY <1>1, PointLaws, MulLaws
  <2> HIDE DEF u, v
  <2>2. u \in Tower(c)[s + 1]
    BY <1>2, <2>1
  <2>3. v \in Tower(d)[s]
    BY <2>1, TowerScale
  <2> HIDE DEF d
  <2>4. v \in Poly(s + 1)
    BY <2>1, <2>3, TowerBelow
  <2>5. \A r \in Rows : h[r] = Plus(u[r], v[r])
    BY <1>1, <1>3, <2>1, PointLaws, Distributive
  <2> QED BY <1>1, <2>2, <2>4, <2>5, TowerPlus
<1> QED BY <1>2, <1>3

\* The quotient by y - Point(x), and the remainder
LEMMA TowerDivide ==
    ASSUME NEW c \in Gf, NEW x \in Rows
    PROVE  \A s \in Nat : \A f \in Tower(c)[s + 1] : \E g \in Tower(c)[s] :
              \A r \in Rows : f[r] = Plus(f[x], gf_mul(Plus(Point(r), Point(x)), g[r]))
<1> DEFINE Divided(f, g) ==
              \A r \in Rows : f[r] = Plus(f[x], gf_mul(Plus(Point(r), Point(x)), g[r]))
           Law(s) == \A f \in Tower(c)[s + 1] : \E g \in Tower(c)[s] : Divided(f, g)
           T == {s \in Nat : Law(s)}
\* from y * g to the quotient
<1>1. ASSUME NEW f \in [Rows -> Gf], NEW a \in Gf, NEW g \in [Rows -> Gf], IsNext(f, a, g),
             NEW u \in [Rows -> Gf],
             \A r \in Rows : g[r] = Plus(g[x], gf_mul(Plus(Point(r), Point(x)), u[r])),
             NEW w \in [Rows -> Gf],
             \A r \in Rows : w[r] = Plus(g[x], gf_mul(Point(r), u[r]))
      PROVE  Divided(f, w)
  <2> TAKE r \in Rows
  <2> DEFINE y == Point(r)
             p == Point(x)
             d == Plus(y, p)
             gx == g[x]
             v == u[r]
  <2>1. y \in Gf /\ p \in Gf /\ gx \in Gf /\ v \in Gf /\ d \in Gf
    BY PointLaws, PlusLaws
  <2>2. f[r] = Plus(a, gf_mul(y, g[r])) /\ f[x] = Plus(a, gf_mul(p, gx))
        /\ g[r] = Plus(gx, gf_mul(d, v)) /\ w[r] = Plus(gx, gf_mul(y, v))
    BY <1>1 DEF IsNext
  <2> HIDE DEF y, p, gx, v, d
  <2>3. gf_mul(y, g[r]) = Plus(gf_mul(y, gx), gf_mul(y, gf_mul(d, v)))
    BY <2>1, <2>2, MulLaws, Distributive
  <2>4. gf_mul(d, w[r]) = Plus(gf_mul(d, gx), gf_mul(d, gf_mul(y, v)))
    BY <2>1, <2>2, MulLaws, Distributive
  <2>5. gf_mul(d, gf_mul(y, v)) = gf_mul(y, gf_mul(d, v))
    <3>1. gf_mul(d, gf_mul(y, v)) = gf_mul(gf_mul(d, y), v)
      BY <2>1, MulLaws
    <3>2. gf_mul(y, gf_mul(d, v)) = gf_mul(gf_mul(y, d), v)
      BY <2>1, MulLaws
    <3> QED BY <2>1, <3>1, <3>2, MulLaws
  <2>6. gf_mul(d, gx) = Plus(gf_mul(y, gx), gf_mul(p, gx))
    BY <2>1, Distributive DEF d
  <2>7. \A A, B, C, D : Plus(A, Plus(B, D)) = Plus(Plus(A, C), Plus(Plus(B, C), D))
    BY DEF Plus
  <2> QED BY <2>2, <2>3, <2>4, <2>5, <2>6, <2>7 DEF d, y, p
<1>2. 0 \in T
  <2>1. ASSUME NEW f \in Tower(c)[0 + 1] PROVE \E g \in Tower(c)[0] : Divided(f, g)
    <3>1. f \in [Rows -> Gf]
      BY TowerLaws, 0 + 1 \in Nat
    <3>2. PICK a \in Gf, g \in Tower(c)[0] : IsNext(f, a, g)
      BY <3>1, TowerLaws, 0 \in Nat
    <3>3. g \in [Rows -> Gf]
      BY TowerLaws, 0 \in Nat
    <3>4. \A r \in Rows : g[r] = c
      BY <3>3, TowerLaws
    <3> DEFINE u == [r \in Rows |-> Zero]
    <3>5. u \in [Rows -> Gf] /\ \A r \in Rows : u[r] = Zero
      BY PlusLaws
    <3> HIDE DEF u
    <3>6. \A r \in Rows : gf_mul(Plus(Point(r), Point(x)), u[r]) = Zero
                          /\ gf_mul(Point(r), u[r]) = Zero
      BY <3>5, MulLaws
    <3>7. \A r \in Rows : g[r] = Plus(g[x], gf_mul(Plus(Point(r), Point(x)), u[r]))
                          /\ g[r] = Plus(g[x], gf_mul(Point(r), u[r]))
      BY <3>4, <3>6, PlusLaws
    <3> HIDE DEF Divided
    <3>8. Divided(f, g)
      BY <1>1, <3>1, <3>2, <3>3, <3>5, <3>7
    <3> QED BY <3>8
  <2> QED BY <2>1
<1>3. ASSUME NEW s \in T PROVE s + 1 \in T
  <2>1. s \in Nat /\ s + 1 \in Nat /\ Law(s)
    OBVIOUS
  <2>2. ASSUME NEW f \in Tower(c)[(s + 1) + 1]
        PROVE  \E w \in Tower(c)[s + 1] : Divided(f, w)
    <3>1. f \in [Rows -> Gf]
      BY <2>1, TowerLaws, (s + 1) + 1 \in Nat
    <3>2. PICK a \in Gf, g \in Tower(c)[s + 1] : IsNext(f, a, g)
      BY <2>1, <3>1, TowerLaws
    <3>3. PICK u \in Tower(c)[s] : Divided(g, u)
      BY <2>1
    <3>4. g \in [Rows -> Gf] /\ u \in [Rows -> Gf]
      BY <2>1, TowerLaws
    <3> DEFINE w == [r \in Rows |-> Plus(g[x], gf_mul(Point(r), u[r]))]
    <3>5. w \in [Rows -> Gf] /\ \A r \in Rows : w[r] = Plus(g[x], gf_mul(Point(r), u[r]))
      BY <3>4, PointLaws, MulLaws, PlusLaws
    <3> HIDE DEF w
    <3>6. IsNext(w, g[x], u)
      BY <3>5 DEF IsNext
    <3>7. g[x] \in Gf
      BY <3>4
    <3>8. w \in Tower(c)[s + 1]
      BY <2>1, <3>5, <3>6, <3>7, TowerLaws
    <3>9. Divided(f, w)
      BY <1>1, <3>1, <3>2, <3>3, <3>4, <3>5
    <3> QED BY <3>8, <3>9
  <2> HIDE DEF Divided
  <2> QED BY <2>1, <2>2
<1> HIDE DEF T
<1>4. T \in SUBSET Nat
  BY DEF T
<1>5. \A s \in Nat : s \in T
  BY <1>2, <1>3, <1>4, Induct, Zenon
<1> QED BY <1>5 DEF T

\* No divisor of 0
LEMMA MulZero == \A d, v \in Gf : d # Zero => (gf_mul(d, v) = Zero <=> v = Zero)
BY MulLaws

\* One place less
LEMMA OneLess ==
    ASSUME NEW s \in Nat, NEW R \in SUBSET Rows, IsFiniteSet(R), Cardinality(R) = s + 1
    PROVE  \E x \in R : /\ R \ {x} \in SUBSET Rows /\ IsFiniteSet(R \ {x})
                        /\ Cardinality(R \ {x}) = s
<1>1. R # {}
  BY FS_EmptySet, SMT
<1>2. PICK x \in R : TRUE
  BY <1>1
<1>3. IsFiniteSet(R \ {x}) /\ Cardinality(R \ {x}) = Cardinality(R) - 1
  BY FS_RemoveElement
<1>4. Cardinality(R \ {x}) = s
  BY <1>3, SMT
<1> QED BY <1>2, <1>3, <1>4

\* A polynomial of degree s that vanishes at s points vanishes at another point
\* only if its leading coefficient is 0.
LEMMA TowerRoots ==
    ASSUME NEW c \in Gf
    PROVE  \A s \in Nat : \A f \in Tower(c)[s], R \in SUBSET Rows :
              IsFiniteSet(R) /\ Cardinality(R) = s /\ (\A x \in R : f[x] = Zero)
                 => \A y \in Rows \ R : f[y] = Zero <=> c = Zero
<1> DEFINE Law(s) == \A f \in Tower(c)[s], R \in SUBSET Rows :
              IsFiniteSet(R) /\ Cardinality(R) = s /\ (\A x \in R : f[x] = Zero)
                 => \A y \in Rows \ R : f[y] = Zero <=> c = Zero
           T == {s \in Nat : Law(s)}
<1>1. 0 \in T
  <2>1. ASSUME NEW f \in Tower(c)[0] PROVE \A y \in Rows : f[y] = c
    BY TowerLaws, 0 \in Nat
  <2> QED BY <2>1
<1>2. ASSUME NEW s \in T PROVE s + 1 \in T
  <2>1. s \in Nat /\ s + 1 \in Nat /\ Law(s)
    OBVIOUS
  <2>2. ASSUME NEW f \in Tower(c)[s + 1], NEW R \in SUBSET Rows,
               IsFiniteSet(R), Cardinality(R) = s + 1, \A x \in R : f[x] = Zero,
               NEW y \in Rows \ R
        PROVE  f[y] = Zero <=> c = Zero
    <3>1. PICK x \in R : /\ R \ {x} \in SUBSET Rows /\ IsFiniteSet(R \ {x})
                         /\ Cardinality(R \ {x}) = s
      BY <2>1, <2>2, OneLess
    <3>2. x \in Rows /\ y \in Rows /\ x # y /\ y \in Rows \ (R \ {x}) /\ f[x] = Zero
      BY <2>2
    <3>3. PICK g \in Tower(c)[s] :
             \A r \in Rows : f[r] = Plus(f[x], gf_mul(Plus(Point(r), Point(x)), g[r]))
      BY <2>1, <3>2, TowerDivide
    <3>4. g \in [Rows -> Gf]
      BY <2>1, TowerLaws
    <3>5. ASSUME NEW r \in Rows, r # x PROVE f[r] = Zero <=> g[r] = Zero
      <4> DEFINE d == Plus(Point(r), Point(x))
      <4>1. d \in Gf /\ d # Zero
        BY <3>2, <3>5, PointLaws, PlusLaws
      <4>2. gf_mul(d, g[r]) \in Gf /\ f[r] = Plus(Zero, gf_mul(d, g[r])) /\ g[r] \in Gf
        BY <3>2, <3>3, <3>4, <4>1, MulLaws
      <4> HIDE DEF d
      <4>3. f[r] = gf_mul(d, g[r])
        BY <4>2, PlusLaws
      <4>4. gf_mul(d, g[r]) = Zero <=> g[r] = Zero
        BY <4>1, <4>2, MulZero
      <4> QED BY <4>3, <4>4
    <3>6. \A z \in R \ {x} : g[z] = Zero
      BY <2>2, <3>5
    <3>7. g[y] = Zero <=> c = Zero
      BY <2>1, <3>1, <3>2, <3>6
    <3> QED BY <3>2, <3>5, <3>7
  <2> QED BY <2>1, <2>2
<1> HIDE DEF T
<1>3. T \in SUBSET Nat
  BY DEF T
<1>4. \A s \in Nat : s \in T
  BY <1>1, <1>2, <1>3, Induct, Zenon
<1> QED BY <1>4 DEF T

\* Polynomials of degree below s that agree at s points are the same.
LEMMA PolyAgree ==
    ASSUME NEW s \in Nat, NEW f \in Poly(s), NEW g \in Poly(s),
           NEW R \in SUBSET Rows, IsFiniteSet(R), Cardinality(R) = s,
           \A x \in R : f[x] = g[x]
    PROVE  \A r \in Rows : f[r] = g[r]
<1> DEFINE h == [r \in Rows |-> Plus(f[r], g[r])]
<1>1. f \in [Rows -> Gf] /\ g \in [Rows -> Gf] /\ Zero \in Gf /\ f \in Tower(Zero)[s]
  BY TowerLaws, PlusLaws DEF Poly
<1>2. h \in [Rows -> Gf] /\ \A r \in Rows : h[r] = Plus(f[r], g[r])
  BY <1>1, PlusLaws
<1> HIDE DEF h
<1>3. h \in Tower(Zero)[s]
  BY <1>1, <1>2, TowerPlus
<1>4. \A x \in R : h[x] = Zero
  BY <1>2, PlusLaws
<1>5. \A y \in Rows \ R : h[y] = Zero
  BY <1>1, <1>3, <1>4, TowerRoots
<1> QED BY <1>2, <1>4, <1>5, PlusLaws

\* There is a polynomial that vanishes where one likes, and nowhere else.
LEMMA Vanishing ==
    \A s \in Nat : \A R \in SUBSET Rows :
        IsFiniteSet(R) /\ Cardinality(R) = s
           => \E f \in Monic(s) : \A r \in Rows : f[r] = Zero <=> r \in R
<1> DEFINE Law(s) == \A R \in SUBSET Rows :
              IsFiniteSet(R) /\ Cardinality(R) = s
                 => \E f \in Monic(s) : \A r \in Rows : f[r] = Zero <=> r \in R
           T == {s \in Nat : Law(s)}
<1>1. 0 \in T
  <2> DEFINE f == [r \in Rows |-> One]
  <2>1. f \in Monic(0) /\ \A r \in Rows : f[r] # Zero
    BY TowerLaws, PlusLaws DEF Monic
  <2>2. \A R : IsFiniteSet(R) /\ Cardinality(R) = 0 => R = {}
    BY FS_EmptySet
  <2> HIDE DEF f
  <2> QED BY <2>1, <2>2
<1>2. ASSUME NEW s \in T PROVE s + 1 \in T
  <2>1. s \in Nat /\ s + 1 \in Nat /\ Law(s)
    OBVIOUS
  <2>2. ASSUME NEW R \in SUBSET Rows, IsFiniteSet(R), Cardinality(R) = s + 1
        PROVE  \E f \in Monic(s + 1) : \A r \in Rows : f[r] = Zero <=> r \in R
    <3>1. PICK x \in R : /\ R \ {x} \in SUBSET Rows /\ IsFiniteSet(R \ {x})
                         /\ Cardinality(R \ {x}) = s
      BY <2>1, <2>2, OneLess
    <3>2. PICK g \in Monic(s) : \A r \in Rows : g[r] = Zero <=> r \in R \ {x}
      BY <2>1, <3>1
    <3>3. g \in [Rows -> Gf] /\ x \in Rows /\ Point(x) \in Gf /\ One \in Gf
      BY <2>1, TowerLaws, PlusLaws, PointLaws DEF Monic
    <3> DEFINE f == [r \in Rows |-> gf_mul(Plus(Point(r), Point(x)), g[r])]
    <3>4. f \in [Rows -> Gf] /\ \A r \in Rows : f[r] = gf_mul(Plus(Point(r), Point(x)), g[r])
      BY <3>3, PointLaws, PlusLaws, MulLaws
    <3> HIDE DEF f
    <3>5. f \in Monic(s + 1)
      BY <2>1, <3>2, <3>3, <3>4, TowerTimes DEF Monic
    <3>6. ASSUME NEW r \in Rows PROVE f[r] = Zero <=> r \in R
      <4> DEFINE d == Plus(Point(r), Point(x))
      <4>1. d \in Gf /\ (d = Zero <=> r = x) /\ g[r] \in Gf
        BY <3>3, PointLaws, PlusLaws
      <4>2. f[r] = gf_mul(d, g[r])
        BY <3>4
      <4> HIDE DEF d
      <4>3. f[r] = Zero <=> r = x \/ g[r] = Zero
        BY <4>1, <4>2, MulLaws
      <4> QED BY <3>2, <4>3
    <3> QED BY <3>5, <3>6
  <2> QED BY <2>1, <2>2
<1> HIDE DEF T
<1>3. T \in SUBSET Nat
  BY DEF T
<1>4. \A s \in Nat : s \in T
  BY <1>1, <1>2, <1>3, Induct, Zenon
<1> QED BY <1>4 DEF T

-------------------------------------------------------------------------------
(***************************************************************************)
(* Polynomials by their coefficients                                       *)
(***************************************************************************)
\* The value at Point(r) of the polynomial with the coefficients q[c], c < s
Value(q, r, s) == GfSum([c \in 0..(s - 1) |-> gf_mul(W(r, c), q[c])], s)

\* What RowTimes computes with a row of powers
LEMMA RowTimesValue ==
    ASSUME NEW r \in Rows, NEW s \in Nat, NEW q
    PROVE  RowTimes(Powers(r, s), q, s) = Value(q, r, s)
<1>1. [c \in 0..(s - 1) |-> gf_mul(Powers(r, s)[c], q[c])]
        = [c \in 0..(s - 1) |-> gf_mul(W(r, c), q[c])]
  BY PowersAreW
<1> QED BY <1>1 DEF RowTimes, Value

LEMMA ValueTerms ==
    ASSUME NEW r \in Rows, NEW s \in Nat, NEW q, Terms(q, s)
    PROVE  /\ Terms([c \in 0..(s - 1) |-> gf_mul(W(r, c), q[c])], s)
           /\ Value(q, r, s) \in Gf
<1> DEFINE f == [c \in 0..(s - 1) |-> gf_mul(W(r, c), q[c])]
<1>1. ASSUME NEW c \in 0..(s - 1) PROVE f[c] \in Gf
  <2>1. c \in Nat /\ q[c] \in Gf
    BY SMT DEF Terms
  <2>2. W(r, c) \in Gf
    BY <2>1, PointLaws
  <2> QED BY <2>1, <2>2, MulLaws
<1>2. Terms(f, s) /\ s \in 0..s
  BY <1>1 DEF Terms
<1>3. GfSum(f, s) \in Gf
  BY <1>2, SumStep
<1> QED BY <1>2, <1>3 DEF Value

\* One coefficient more
LEMMA ValueStep ==
    ASSUME NEW r \in Rows, NEW s \in Nat, NEW q, Terms(q, s + 1)
    PROVE  /\ Value(q, r, 0) = Zero
           /\ Value(q, r, s) \in Gf /\ q[s] \in Gf /\ Terms(q, s)
           /\ Value(q, r, s + 1) = Plus(Value(q, r, s), gf_mul(W(r, s), q[s]))
<1> DEFINE f == [c \in 0..s |-> gf_mul(W(r, c), q[c])]
           g == [c \in 0..(s - 1) |-> gf_mul(W(r, c), q[c])]
<1>1. s + 1 \in Nat /\ (s + 1) - 1 = s /\ s \in 0..s /\ \A c \in 0..(s - 1) : c \in 0..s
  BY SMT
<1>2. Terms(f, s + 1) /\ Terms(q, s) /\ q[s] \in Gf
  <2>1. Terms(f, s + 1)
    BY <1>1, ValueTerms
  <2> QED BY <1>1, <2>1 DEF Terms
<1>3. Terms(g, s) /\ Value(q, r, s) \in Gf
  BY <1>2, ValueTerms
<1>4. \A c \in 0..(s - 1) : g[c] = f[c]
  BY <1>1
<1>5. f[s] = gf_mul(W(r, s), q[s])
  BY <1>1
<1>6. Value(q, r, s + 1) = GfSum(f, s + 1) /\ Value(q, r, s) = GfSum(g, s)
  BY <1>1 DEF Value
<1>7. Value(q, r, 0) = Zero
  <2>1. 0 \in Nat
    OBVIOUS
  <2>2. \A h : Terms(h, 0)
    BY SMT DEF Terms
  <2>3. \A h : GfSum(h, 0) = Zero
    BY <2>1, <2>2, SumStep
  <2> QED BY <2>3 DEF Value
<1> HIDE DEF f, g
<1>8. GfSum(g, s) = GfSum(f, s)
  BY <1>3, <1>4, SumEqual
<1>9. GfSum(f, s + 1) = Plus(GfSum(f, s), f[s])
  <2>1. s \in 0..((s + 1) - 1)
    BY <1>1
  <2> QED BY <1>1, <1>2, <2>1, SumStep
<1> QED BY <1>2, <1>3, <1>5, <1>6, <1>7, <1>8, <1>9

\* The constant coefficient apart
LEMMA ValueShift ==
    ASSUME NEW r \in Rows, NEW s \in Nat, NEW a, NEW b, Terms(a, s + 1),
           \A c \in 0..(s - 1) : b[c] = a[c + 1]
    PROVE  /\ Terms(b, s)
           /\ Value(a, r, s + 1) = Plus(a[0], gf_mul(Point(r), Value(b, r, s)))
<1> DEFINE f == [c \in 0..s |-> gf_mul(W(r, c), a[c])]
           g == [c \in 0..(s - 1) |-> gf_mul(W(r, c), b[c])]
           h == [c \in 0..(s - 1) |-> f[c + 1]]
<1>1. s + 1 \in Nat /\ (s + 1) - 1 = s /\ 0 \in 0..s
      /\ \A c \in 0..(s - 1) : c \in 0..s /\ c + 1 \in 0..s /\ c \in Nat /\ c + 1 \in Nat
  BY SMT
<1>2. Terms(b, s)
  BY <1>1 DEF Terms
<1>3. Terms(f, s + 1) /\ Terms(g, s)
  BY <1>1, <1>2, ValueTerms
<1>4. ASSUME NEW c \in 0..(s - 1) PROVE h[c] = gf_mul(Point(r), g[c])
  <2> DEFINE y == Point(r)
             w == W(r, c)
             v == b[c]
  <2>1. y \in Gf /\ w \in Gf /\ v \in Gf
    BY <1>1, <1>2, PointLaws DEF Terms
  <2>2. h[c] = gf_mul(gf_mul(y, w), v) /\ g[c] = gf_mul(w, v)
    BY <1>1, PointLaws
  <2> HIDE DEF y, w, v
  <2>3. gf_mul(gf_mul(y, w), v) = gf_mul(y, gf_mul(w, v))
    BY <2>1, MulLaws
  <2> QED BY <2>2, <2>3 DEF y
<1>5. f[0] = a[0]
  BY <1>1, PointLaws, MulLaws DEF Terms
<1>6. Value(a, r, s + 1) = GfSum(f, s + 1) /\ Value(b, r, s) = GfSum(g, s)
  BY <1>1 DEF Value
<1>7. \A c \in 0..(s - 1) : h[c] = f[c + 1]
  OBVIOUS
<1> HIDE DEF f, g, h
<1>8. GfSum(f, s + 1) = Plus(f[0], GfSum(h, s))
  BY <1>3, <1>7, SumFirst
<1>9. GfSum(h, s) = gf_mul(Point(r), GfSum(g, s))
  BY <1>3, <1>4, PointLaws, SumScale
<1> QED BY <1>2, <1>5, <1>6, <1>8, <1>9

\* The coefficients a[c] + x * b[c]
LEMMA ValueLinear ==
    ASSUME NEW r \in Rows, NEW s \in Nat, NEW a, NEW b, NEW q, NEW x \in Gf,
           Terms(a, s), Terms(b, s),
           \A c \in 0..(s - 1) : q[c] = Plus(a[c], gf_mul(x, b[c]))
    PROVE  Value(q, r, s) = Plus(Value(a, r, s), gf_mul(x, Value(b, r, s)))
<1> DEFINE f == [c \in 0..(s - 1) |-> gf_mul(W(r, c), a[c])]
           g == [c \in 0..(s - 1) |-> gf_mul(W(r, c), b[c])]
           h == [c \in 0..(s - 1) |-> gf_mul(x, g[c])]
           t == [c \in 0..(s - 1) |-> gf_mul(W(r, c), q[c])]
<1>1. Terms(f, s) /\ Terms(g, s)
  BY ValueTerms
<1>2. ASSUME NEW c \in 0..(s - 1) PROVE t[c] = Plus(f[c], h[c]) /\ h[c] = gf_mul(x, g[c])
  <2> DEFINE w == W(r, c)
             u == a[c]
             v == b[c]
  <2>1. c \in Nat
    BY SMT
  <2>2. w \in Gf /\ u \in Gf /\ v \in Gf
    BY <2>1, PointLaws DEF Terms
  <2>3. t[c] = gf_mul(w, Plus(u, gf_mul(x, v))) /\ f[c] = gf_mul(w, u)
        /\ g[c] = gf_mul(w, v) /\ h[c] = gf_mul(x, g[c])
    OBVIOUS
  <2> HIDE DEF w, u, v, t, f, g, h
  <2>4. gf_mul(w, Plus(u, gf_mul(x, v))) = Plus(gf_mul(w, u), gf_mul(w, gf_mul(x, v)))
    BY <2>2, MulLaws, Distributive
  <2>5. gf_mul(w, gf_mul(x, v)) = gf_mul(x, gf_mul(w, v))
    <3>1. gf_mul(w, gf_mul(x, v)) = gf_mul(gf_mul(w, x), v)
      BY <2>2, MulLaws
    <3>2. gf_mul(x, gf_mul(w, v)) = gf_mul(gf_mul(x, w), v)
      BY <2>2, MulLaws
    <3> QED BY <2>2, <3>1, <3>2, MulLaws
  <2> QED BY <2>3, <2>4, <2>5
<1>3. ASSUME NEW c \in 0..(s - 1) PROVE h[c] \in Gf
  BY <1>1, MulLaws DEF Terms
<1>4. Terms(h, s)
  BY <1>3 DEF Terms
<1>5. Value(q, r, s) = GfSum(t, s) /\ Value(a, r, s) = GfSum(f, s) /\ Value(b, r, s) = GfSum(g, s)
  BY DEF Value
<1> HIDE DEF f, g, h, t
<1>6. GfSum(h, s) = gf_mul(x, GfSum(g, s))
  BY <1>1, <1>2, SumScale
<1>7. GfSum(t, s) = Plus(GfSum(f, s), GfSum(h, s))
  BY <1>1, <1>2, <1>4, SumPlus
<1> QED BY <1>5, <1>6, <1>7

\* y^s is a polynomial of degree s.
LEMMA WTower ==
    \A s \in Nat : \A h \in [Rows -> Gf] : (\A r \in Rows : h[r] = W(r, s)) => h \in Monic(s)
<1> DEFINE Law(s) == \A h \in [Rows -> Gf] : (\A r \in Rows : h[r] = W(r, s)) => h \in Monic(s)
           T == {s \in Nat : Law(s)}
<1>1. 0 \in T
  BY PointLaws, PlusLaws, TowerLaws, 0 \in Nat DEF Monic
<1>2. ASSUME NEW s \in T PROVE s + 1 \in T
  <2>1. s \in Nat /\ s + 1 \in Nat /\ Law(s)
    OBVIOUS
  <2>2. ASSUME NEW h \in [Rows -> Gf], \A r \in Rows : h[r] = W(r, s + 1)
        PROVE  h \in Monic(s + 1)
    <3> DEFINE g == [r \in Rows |-> W(r, s)]
    <3>1. g \in [Rows -> Gf] /\ \A r \in Rows : g[r] = W(r, s)
      BY <2>1, PointLaws
    <3> HIDE DEF g
    <3>2. g \in Tower(One)[s]
      BY <2>1, <3>1 DEF Monic
    <3>3. \A r \in Rows : h[r] = gf_mul(Point(r), g[r])
      BY <2>1, <2>2, <3>1, PointLaws
    <3> QED BY <2>1, <3>2, <3>3, TowerTimes, PlusLaws DEF Monic
  <2> QED BY <2>1, <2>2
<1> HIDE DEF T
<1>3. T \in SUBSET Nat
  BY DEF T
<1>4. \A s \in Nat : s \in T
  BY <1>1, <1>2, <1>3, Induct, Zenon
<1> QED BY <1>4 DEF T

\* s coefficients make a polynomial of degree below s.
LEMMA ValuePoly ==
    ASSUME NEW q
    PROVE  \A s \in Nat : Terms(q, s) =>
              \A h \in [Rows -> Gf] : (\A r \in Rows : h[r] = Value(q, r, s)) => h \in Poly(s)
<1> DEFINE Law(s) == Terms(q, s) =>
              \A h \in [Rows -> Gf] : (\A r \in Rows : h[r] = Value(q, r, s)) => h \in Poly(s)
           T == {s \in Nat : Law(s)}
<1>1. 0 \in T
  <2>1. ASSUME NEW h \in [Rows -> Gf], \A r \in Rows : h[r] = Value(q, r, 0)
        PROVE  h \in Poly(0)
    <3>1. \A f : Terms(f, 0)
      BY SMT DEF Terms
    <3>2. \A f : GfSum(f, 0) = Zero
      BY <3>1, SumStep, 0 \in Nat
    <3>3. \A r \in Rows : h[r] = Zero
      BY <2>1, <3>2 DEF Value
    <3> QED BY <3>3, TowerLaws, PlusLaws DEF Poly
  <2> QED BY <2>1
<1>2. ASSUME NEW s \in T PROVE s + 1 \in T
  <2>1. s \in Nat /\ s + 1 \in Nat /\ Law(s)
    OBVIOUS
  <2>2. ASSUME Terms(q, s + 1),
               NEW h \in [Rows -> Gf], \A r \in Rows : h[r] = Value(q, r, s + 1)
        PROVE  h \in Poly(s + 1)
    <3> DEFINE x == q[s]
               f == [r \in Rows |-> Value(q, r, s)]
               w == [r \in Rows |-> W(r, s)]
               m == [r \in Rows |-> gf_mul(x, W(r, s))]
    <3>1. ASSUME NEW r \in Rows
          PROVE  /\ Value(q, r, s) \in Gf /\ x \in Gf /\ Terms(q, s)
                 /\ h[r] = Plus(Value(q, r, s), gf_mul(W(r, s), x))
      BY <2>1, <2>2, ValueStep
    <3>2. \A r \in Rows : W(r, s) \in Gf
      BY <2>1, PointLaws
    <3>3. 0 \in Rows
      BY SizeFacts, SMT DEF Rows
    <3>4. x \in Gf /\ Terms(q, s)
      BY <3>1, <3>3
    <3> HIDE DEF x
    <3>5. f \in [Rows -> Gf] /\ w \in [Rows -> Gf] /\ m \in [Rows -> Gf]
      BY <3>1, <3>2, <3>4, MulLaws
    <3>6. \A r \in Rows : f[r] = Value(q, r, s) /\ w[r] = W(r, s) /\ m[r] = gf_mul(x, w[r])
      OBVIOUS
    <3>7. \A r \in Rows : h[r] = Plus(m[r], f[r])
      BY <3>1, <3>2, <3>4, <3>6, PlusLaws, MulLaws
    <3> HIDE DEF f, w, m
    <3>8. f \in Poly(s)
      BY <2>1, <3>4, <3>5, <3>6
    <3>9. f \in Poly(s + 1)
      BY <2>1, <3>8, TowerBelow, PlusLaws DEF Poly
    <3>10. w \in Tower(One)[s]
      BY <2>1, <3>5, <3>6, WTower DEF Monic
    <3>11. m \in Tower(gf_mul(x, One))[s]
      <4>1. One \in Gf
        BY PlusLaws
      <4>2. \A t \in Nat : \A u \in Tower(One)[t], v \in [Rows -> Gf] :
               (\A r \in Rows : v[r] = gf_mul(x, u[r])) => v \in Tower(gf_mul(x, One))[t]
        BY <3>4, <4>1, TowerScale
      <4>3. s \in Nat /\ \A r \in Rows : m[r] = gf_mul(x, w[r])
        BY <2>1, <3>6
      <4> QED BY <3>5, <3>10, <4>2, <4>3
    <3>12. m \in Poly(s + 1)
      BY <2>1, <3>4, <3>11, TowerBelow, PlusLaws, MulLaws
    <3> QED BY <2>1, <3>7, <3>9, <3>12, TowerPlus, PlusLaws DEF Poly
  <2> QED BY <2>1, <2>2
<1> HIDE DEF T
<1>3. T \in SUBSET Nat
  BY DEF T
<1>4. \A s \in Nat : s \in T
  BY <1>1, <1>2, <1>3, Induct, Zenon
<1> QED BY <1>4 DEF T

\* with leading coefficient 1
LEMMA ValueMonic ==
    ASSUME NEW q, NEW s \in Nat, Terms(q, s + 1), q[s] = One,
           NEW h \in [Rows -> Gf], \A r \in Rows : h[r] = Value(q, r, s + 1)
    PROVE  h \in Monic(s)
<1> DEFINE f == [r \in Rows |-> Value(q, r, s)]
           w == [r \in Rows |-> W(r, s)]
<1>1. ASSUME NEW r \in Rows
      PROVE  /\ Value(q, r, s) \in Gf /\ Terms(q, s)
             /\ h[r] = Plus(Value(q, r, s), gf_mul(W(r, s), One))
  BY ValueStep
<1>2. \A r \in Rows : W(r, s) \in Gf
  BY PointLaws
<1>3. 0 \in Rows
  BY SizeFacts, SMT DEF Rows
<1>4. f \in [Rows -> Gf] /\ w \in [Rows -> Gf] /\ Terms(q, s)
  BY <1>1, <1>2, <1>3
<1>5. \A r \in Rows : f[r] = Value(q, r, s) /\ w[r] = W(r, s)
  OBVIOUS
<1>6. \A r \in Rows : h[r] = Plus(w[r], f[r])
  BY <1>1, <1>2, <1>5, PlusLaws, MulLaws
<1> HIDE DEF f, w
<1>7. f \in Poly(s)
  BY <1>4, <1>5, ValuePoly
<1>8. w \in Tower(One)[s]
  BY <1>4, <1>5, WTower DEF Monic
<1> QED BY <1>6, <1>7, <1>8, TowerPlus, PlusLaws DEF Monic

-------------------------------------------------------------------------------
(***************************************************************************)
(* invert_vdm: the product of the y - Point(i)                             *)
(***************************************************************************)
\* One pass of the loop of invert_vdm over c
NextCoefs(size, s, c) ==
    [j \in 0..(size - 1) |->
        IF j = size - 1 THEN Plus(c[j], Point(s))
        ELSE IF j < size - s THEN c[j]
        ELSE Plus(c[j], gf_mul(Point(s), c[j + 1]))]

FirstCoefs(size) == [j \in 0..(size - 1) |-> IF j = size - 1 THEN Point(0) ELSE Zero]

LEMMA ProductCoefs ==
    ASSUME NEW size \in Nat \ {0}, size <= GF_SIZE + 1
    PROVE  \E C \in [Nat -> [0..(size - 1) -> Gf]] :
              /\ C[0] = FirstCoefs(size)
              /\ \A s \in 0..(size - 2) : C[s + 1] = NextCoefs(size, s + 1, C[s])
              /\ ProductOfPoints(size) = C[size - 1]
<1> DEFINE last == size - 1
           S == [0..last -> Gf]
           F == [p \in Nat \X S |->
                   IF p[1] < last THEN NextCoefs(size, p[1] + 1, p[2]) ELSE p[2]]
           first == FirstCoefs(size)
           Law(c) == c = [s \in 0..last |->
                            IF s = 0
                            THEN [j \in 0..last |-> IF j = last THEN Point(0) ELSE Zero]
                            ELSE [j \in 0..last |->
                                    IF j = last THEN Plus(c[s - 1][j], Point(s))
                                    ELSE IF j < size - s THEN c[s - 1][j]
                                    ELSE Plus(c[s - 1][j], gf_mul(Point(s), c[s - 1][j + 1]))]]
           product == CHOOSE c : Law(c)
<1>1. last \in Nat /\ GF_SIZE \in Nat /\ last <= GF_SIZE
  BY SizeFacts, SMT
<1>2. \A s \in 0..last : Point(s) \in Gf
  <2>1. \A s \in 0..last : s \in Rows
    BY <1>1, SMT DEF Rows
  <2> QED BY <2>1, PointLaws
<1>3. ASSUME NEW s \in 0..last, NEW c \in S PROVE NextCoefs(size, s, c) \in S
  <2>1. ASSUME NEW j \in 0..last
        PROVE  (IF j = size - 1 THEN Plus(c[j], Point(s))
                ELSE IF j < size - s THEN c[j]
                ELSE Plus(c[j], gf_mul(Point(s), c[j + 1]))) \in Gf
    <3>1. c[j] \in Gf /\ Point(s) \in Gf
      BY <1>2
    <3>2. CASE j = size - 1
      BY <3>1, <3>2, PlusLaws
    <3>3. CASE j # size - 1
      <4>1. j + 1 \in 0..last
        BY <3>3, SMT
      <4>2. c[j + 1] \in Gf
        BY <4>1
      <4> QED BY <3>1, <3>3, <4>2, PlusLaws, MulLaws
    <3> QED BY <3>2, <3>3
  <2> QED BY <2>1 DEF NextCoefs
<1>4. first \in S
  BY <1>1, <1>2, PlusLaws DEF FirstCoefs
<1>5. F \in [Nat \X S -> S]
  <2>1. ASSUME NEW p \in Nat \X S
        PROVE  (IF p[1] < last THEN NextCoefs(size, p[1] + 1, p[2]) ELSE p[2]) \in S
    <3>1. p[1] \in Nat /\ p[2] \in S
      OBVIOUS
    <3>2. p[1] < last => p[1] + 1 \in 0..last
      BY <1>1, <3>1, SMT
    <3> HIDE DEF S
    <3> QED BY <1>3, <3>1, <3>2
  <2> QED BY <2>1
<1>6. \A s \in Nat, c \in S : s < last => F[<<s, c>>] = NextCoefs(size, s + 1, c)
  OBVIOUS
<1> HIDE DEF F, S, first
<1>7. IsStep(F, S)
  BY <1>5 DEF IsStep
<1>8. PICK C : FollowsAll(C, S, first, F)
  BY <1>4, <1>7, RecursionNat
<1>9. /\ C \in [Nat -> S] /\ C[0] = first
      /\ \A s \in Nat : s < last => C[s + 1] = NextCoefs(size, s + 1, C[s])
  BY <1>6, <1>8 DEF FollowsAll
<1>10. Law([s \in 0..last |-> C[s]])
  <2> DEFINE here == [s \in 0..last |-> C[s]]
  <2>1. ASSUME NEW s \in 0..last
        PROVE  C[s] = IF s = 0 THEN FirstCoefs(size) ELSE NextCoefs(size, s, here[s - 1])
    <3>1. CASE s = 0
      BY <1>9, <3>1 DEF first
    <3>2. CASE s # 0
      <4>1. s - 1 \in Nat /\ s - 1 \in 0..last /\ s - 1 < last /\ (s - 1) + 1 = s
        BY <1>1, <3>2, SMT
      <4>2. C[(s - 1) + 1] = NextCoefs(size, (s - 1) + 1, C[s - 1])
        BY <1>9, <4>1
      <4> QED BY <3>2, <4>1, <4>2
    <3> QED BY <3>1, <3>2
  <2>2. here = [s \in 0..last |-> IF s = 0 THEN FirstCoefs(size)
                                  ELSE NextCoefs(size, s, here[s - 1])]
    BY <2>1
  <2> HIDE DEF here
  <2>3. Law(here)
    BY <2>2 DEF FirstCoefs, NextCoefs
  <2> QED BY <2>3 DEF here
<1>11. Law(product)
  BY <1>10, Zenon
<1>12. ProductOfPoints(size) = product[last]
  BY Zenon DEF ProductOfPoints
<1>13. product = [s \in 0..last |-> IF s = 0 THEN FirstCoefs(size)
                                    ELSE NextCoefs(size, s, product[s - 1])]
  BY <1>11 DEF FirstCoefs, NextCoefs
<1> HIDE DEF product, Law
<1> DEFINE T == {s \in Nat : s <= last => product[s] = C[s]}
<1>14. 0 \in T
  BY <1>1, <1>9, <1>13 DEF first
<1>15. ASSUME NEW s \in T PROVE s + 1 \in T
  <2>1. /\ s \in Nat /\ s + 1 \in Nat /\ s + 1 # 0 /\ (s + 1) - 1 = s
        /\ s + 1 <= last => s <= last /\ s < last /\ s + 1 \in 0..last
    BY <1>1, SMT
  <2>2. s + 1 <= last => product[s + 1] = NextCoefs(size, s + 1, product[s])
    BY <1>13, <2>1
  <2> QED BY <1>9, <2>1, <2>2
<1> HIDE DEF T
<1>16. T \in SUBSET Nat
  BY DEF T
<1>17. \A s \in Nat : s \in T
  BY <1>14, <1>15, <1>16, Induct, Zenon
<1>18. product[last] = C[last]
  BY <1>1, <1>17, SMT DEF T
<1>19. \A s \in 0..(size - 2) : s \in Nat /\ s < last
  BY <1>1, SMT
<1>20. \A s \in 0..(size - 2) : C[s + 1] = NextCoefs(size, s + 1, C[s])
  BY <1>9, <1>19
<1> QED BY <1>9, <1>12, <1>18, <1>20 DEF S, first

\* The whole polynomial of s + 1 points: the coefficients c and the leading 1
Full(c, size) == [j \in 0..size |-> IF j = size THEN One ELSE c[j]]

\* One more point: y * next = (y - Point(s)) * before.
LEMMA ProductNext ==
    ASSUME NEW size \in Nat \ {0}, size <= GF_SIZE + 1, NEW s \in 0..(size - 2),
           NEW c \in [0..(size - 1) -> Gf], \A j \in 0..(size - 1 - s) : c[j] = Zero,
           NEW d \in [0..(size - 1) -> Gf], d = NextCoefs(size, s + 1, c)
    PROVE  /\ \A j \in 0..(size - 1 - (s + 1)) : d[j] = Zero
           /\ \A r \in Rows : gf_mul(Point(r), Value(Full(d, size), r, size + 1))
                 = gf_mul(Plus(Point(r), Point(s + 1)), Value(Full(c, size), r, size + 1))
<1> DEFINE last == size - 1
           a == Full(c, size)
           b == [j \in 0..last |-> a[j + 1]]
           e == [j \in 0..size |-> IF j = size THEN Zero ELSE b[j]]
           q == Full(d, size)
           x == Point(s + 1)
<1>1. /\ last \in Nat /\ size \in Nat /\ size + 1 \in Nat /\ s + 1 \in Nat
      /\ (size + 1) - 1 = size /\ size = last + 1
      /\ 0 \in 0..last /\ size \in 0..size /\ last \in 0..last /\ last # size
      /\ 0 \in 0..(last - s)
      /\ \A j \in 0..last : j \in 0..size /\ j # size /\ j + 1 \in 0..size
      /\ \A j \in 0..size : j # size => j \in 0..last
      /\ \A j \in 0..last : j # last => j + 1 \in 0..last /\ j + 1 # size
      /\ last + 1 = size
  BY SMT
<1>2. x \in Gf
  <2>1. s + 1 \in Rows
    BY SizeFacts, SMT DEF Rows
  <2> QED BY <2>1, PointLaws
<1>3. ASSUME NEW j \in 0..(last - (s + 1)) PROVE d[j] = Zero
  <2>1. j \in 0..last /\ j # size - 1 /\ j < size - (s + 1) /\ j \in 0..(size - 1 - s)
    BY <1>1, SMT
  <2>2. d[j] = c[j]
    BY <2>1 DEF NextCoefs
  <2> QED BY <2>1, <2>2
<1>4. a \in [0..size -> Gf] /\ q \in [0..size -> Gf]
  BY <1>1, PlusLaws DEF Full
<1>5. b \in [0..last -> Gf] /\ e \in [0..size -> Gf]
  BY <1>1, <1>4, PlusLaws
<1>6. ASSUME NEW j \in 0..size PROVE q[j] = Plus(a[j], gf_mul(x, e[j]))
  <2>1. CASE j = size
    BY <1>1, <1>2, <2>1, MulLaws, PlusLaws DEF Full
  <2>2. CASE j # size
    <3>1. j \in 0..last /\ q[j] = d[j] /\ a[j] = c[j] /\ e[j] = a[j + 1] /\ c[j] \in Gf
      BY <1>1, <2>2 DEF Full
    <3>2. CASE j = last
      <4>1. d[j] = Plus(c[j], x)
        BY <3>1, <3>2 DEF NextCoefs
      <4>2. a[j + 1] = One
        BY <1>1, <3>2 DEF Full
      <4> QED BY <1>2, <3>1, <4>1, <4>2, MulLaws
    <3>3. CASE j # last
      <4>1. j + 1 \in 0..last /\ a[j + 1] = c[j + 1]
        BY <1>1, <3>1, <3>3 DEF Full
      <4>2. CASE j < size - (s + 1)
        <5>1. d[j] = c[j]
          BY <3>1, <3>3, <4>2 DEF NextCoefs
        <5>2. j + 1 \in 0..(size - 1 - s)
          BY <1>1, <3>1, <4>2, SMT
        <5>3. c[j + 1] = Zero
          BY <5>2
        <5>4. e[j] = Zero /\ q[j] = a[j]
          BY <3>1, <4>1, <5>1, <5>3
        <5>5. gf_mul(x, e[j]) = Zero /\ a[j] = Plus(a[j], Zero)
          BY <5>4, MulLaws, PlusLaws
        <5> QED BY <5>4, <5>5
      <4>3. CASE ~(j < size - (s + 1))
        <5>1. d[j] = Plus(c[j], gf_mul(x, c[j + 1]))
          BY <3>1, <3>3, <4>3 DEF NextCoefs
        <5> QED BY <3>1, <4>1, <5>1
      <4> QED BY <4>2, <4>3
    <3> QED BY <3>2, <3>3
  <2> QED BY <2>1, <2>2
<1>7. a[0] = Zero
  BY <1>1 DEF Full
<1>8. \A j \in 0..last : b[j] = a[j + 1] /\ e[j] = b[j]
  BY <1>1
<1>9. e[size] = Zero
  BY <1>1
<1> HIDE DEF a, b, e, q, x
<1>10. Terms(a, size + 1) /\ Terms(e, size + 1) /\ Terms(b, size)
  BY <1>1, <1>4, <1>5 DEF Terms
<1>11. ASSUME NEW r \in Rows
       PROVE  gf_mul(Point(r), Value(q, r, size + 1))
                 = gf_mul(Plus(Point(r), x), Value(a, r, size + 1))
  <2> DEFINE y == Point(r)
             A == Value(a, r, size + 1)
             E == Value(e, r, size + 1)
             B == Value(b, r, size)
  <2>1. y \in Gf /\ A \in Gf /\ E \in Gf /\ B \in Gf
    BY <1>1, <1>10, PointLaws, ValueTerms
  <2>2. Value(q, r, size + 1) = Plus(A, gf_mul(x, E))
    BY <1>1, <1>2, <1>6, <1>10, ValueLinear
  <2>3. A = gf_mul(y, B)
    <3>1. A = Plus(a[0], gf_mul(y, B))
      BY <1>1, <1>8, <1>10, ValueShift
    <3> QED BY <1>7, <2>1, <3>1, MulLaws, PlusLaws
  <2>4. E = B
    <3>1. E = Plus(Value(e, r, size), gf_mul(W(r, size), e[size]))
      BY <1>1, <1>10, ValueStep
    <3>2. Value(e, r, size) = B
      <4>1. [j \in 0..(size - 1) |-> gf_mul(W(r, j), e[j])]
              = [j \in 0..(size - 1) |-> gf_mul(W(r, j), b[j])]
        BY <1>8
      <4> QED BY <4>1 DEF Value
    <3> QED BY <1>9, <2>1, <3>1, <3>2, MulLaws, PlusLaws
  <2> HIDE DEF y, A, E, B
  <2>5. gf_mul(y, Plus(A, gf_mul(x, B))) = Plus(gf_mul(y, A), gf_mul(y, gf_mul(x, B)))
    BY <1>2, <2>1, MulLaws, Distributive
  <2>6. gf_mul(y, gf_mul(x, B)) = gf_mul(x, gf_mul(y, B))
    <3>1. gf_mul(y, gf_mul(x, B)) = gf_mul(gf_mul(y, x), B)
      BY <1>2, <2>1, MulLaws
    <3>2. gf_mul(x, gf_mul(y, B)) = gf_mul(gf_mul(x, y), B)
      BY <1>2, <2>1, MulLaws
    <3> QED BY <1>2, <2>1, <3>1, <3>2, MulLaws
  <2>7. gf_mul(Plus(y, x), A) = Plus(gf_mul(y, A), gf_mul(x, A))
    BY <1>2, <2>1, Distributive
  <2> QED BY <2>2, <2>3, <2>4, <2>5, <2>6, <2>7 DEF y, A
<1> QED BY <1>3, <1>11 DEF a, q, x

\* The product vanishes at its points.
LEMMA ProductRoots ==
    ASSUME NEW size \in Nat \ {0}, size <= GF_SIZE + 1
    PROVE  /\ ProductOfPoints(size) \in [0..(size - 1) -> Gf]
           /\ \A r \in 0..(size - 1) :
                 Value(Full(ProductOfPoints(size), size), r, size + 1) = Zero
<1> DEFINE last == size - 1
           At(c, r) == Value(Full(c, size), r, size + 1)
<1>1. PICK C \in [Nat -> [0..(size - 1) -> Gf]] :
              /\ C[0] = FirstCoefs(size)
              /\ \A s \in 0..(size - 2) : C[s + 1] = NextCoefs(size, s + 1, C[s])
              /\ ProductOfPoints(size) = C[size - 1]
  BY ProductCoefs
<1>2. last \in Nat /\ size \in Nat /\ size = last + 1 /\ \A r \in 0..last : r \in Rows
  BY SizeFacts, SMT DEF Rows
<1>3. 0 \in Rows /\ Point(0) = Zero /\ \A r \in Rows : Point(r) \in Gf
  BY SizeFacts, PointLaws, SMT DEF Rows
<1>4. ASSUME NEW c \in [0..last -> Gf], NEW r \in Rows
      PROVE  At(c, r) \in Gf /\ (c[0] = Zero => At(c, 0) = Zero)
  <2> DEFINE a == Full(c, size)
             b == [j \in 0..(size - 1) |-> a[j + 1]]
  <2>1. a \in [0..size -> Gf]
    <3>1. \A j \in 0..size : j # size => j \in 0..last
      BY <1>2, SMT
    <3> QED BY <3>1, PlusLaws DEF Full
  <2>2. 0 \in 0..size /\ 0 # size /\ size + 1 \in Nat /\ (size + 1) - 1 = size
    BY <1>2, SMT
  <2>3. a[0] = c[0]
    BY <2>2 DEF Full
  <2>4. \A j \in 0..(size - 1) : b[j] = a[j + 1]
    OBVIOUS
  <2> HIDE DEF a, b
  <2>5. Terms(a, size + 1)
    BY <2>1, <2>2 DEF Terms
  <2>6. Value(a, r, size + 1) \in Gf
    BY <2>2, <2>5, ValueTerms
  <2>7. Value(a, 0, size + 1) = Plus(a[0], gf_mul(Zero, Value(b, 0, size)))
    BY <1>2, <1>3, <2>4, <2>5, ValueShift
  <2>8. Value(a, 0, size + 1) = Plus(a[0], Zero)
    BY <2>7, MulLaws
  <2> QED BY <2>3, <2>6, <2>8, PlusLaws DEF a
<1> DEFINE Zeros(s) == \A j \in 0..(last - s) : C[s][j] = Zero
           Roots(s) == \A r \in 0..s : At(C[s], r) = Zero
           T == {s \in Nat : s <= last => Zeros(s) /\ Roots(s)}
<1> HIDE DEF At
<1>5. ASSUME NEW s \in Nat, s <= last, Zeros(s) PROVE At(C[s], 0) = Zero
  <2>1. 0 \in 0..(last - s) /\ C[s] \in [0..last -> Gf]
    BY <1>2, <1>5, SMT
  <2>2. C[s][0] = Zero
    BY <1>5, <2>1
  <2> QED BY <1>3, <1>4, <2>1, <2>2
<1>6. 0 \in T
  <2>1. Zeros(0)
    <3>1. C[0] = FirstCoefs(size) /\ last - 0 = last
      BY <1>1, <1>2
    <3> QED BY <1>3, <3>1 DEF FirstCoefs
  <2>2. At(C[0], 0) = Zero
    BY <1>2, <1>5, <2>1
  <2>3. \A r \in 0..0 : r = 0
    BY SMT
  <2> QED BY <2>1, <2>2, <2>3
<1>7. ASSUME NEW s \in T PROVE s + 1 \in T
  <2>1. s \in Nat /\ s + 1 \in Nat
    OBVIOUS
  <2>2. SUFFICES ASSUME s + 1 <= last PROVE Zeros(s + 1) /\ Roots(s + 1)
    BY <2>1
  <2>3. s <= last /\ s \in 0..(size - 2) /\ size - 1 - s = last - s
        /\ size - 1 - (s + 1) = last - (s + 1)
    BY <1>2, <2>1, <2>2, SMT
  <2>4. Zeros(s) /\ Roots(s)
    BY <2>3
  <2>5. C[s] \in [0..(size - 1) -> Gf] /\ C[s + 1] \in [0..(size - 1) -> Gf]
        /\ C[s + 1] = NextCoefs(size, s + 1, C[s])
    BY <1>1, <2>1, <2>3
  <2>6. /\ \A j \in 0..(size - 1 - (s + 1)) : C[s + 1][j] = Zero
        /\ \A r \in Rows : gf_mul(Point(r), At(C[s + 1], r))
              = gf_mul(Plus(Point(r), Point(s + 1)), At(C[s], r))
    BY <2>3, <2>4, <2>5, ProductNext DEF At
  <2>7. Zeros(s + 1)
    BY <2>3, <2>6
  <2>8. ASSUME NEW r \in 0..(s + 1) PROVE At(C[s + 1], r) = Zero
    <3>1. CASE r = 0
      BY <1>5, <2>1, <2>2, <2>7, <3>1
    <3>2. CASE r # 0
      <4>1. r \in 0..last /\ (r # s + 1 => r \in 0..s)
        BY <1>2, <2>1, <2>2, SMT
      <4>2. r \in Rows /\ Point(r) \in Gf /\ Point(r) # Zero
        BY <1>2, <1>3, <3>2, <4>1, PointLaws
      <4>3. At(C[s + 1], r) \in Gf /\ At(C[s], r) \in Gf
        BY <1>4, <2>5, <4>2
      <4>4. gf_mul(Point(r), At(C[s + 1], r)) = Zero
        <5>1. CASE r = s + 1
          <6>1. Plus(Point(r), Point(s + 1)) = Zero
            BY <5>1, PlusLaws
          <6> QED BY <2>6, <4>2, <6>1, MulLaws
        <5>2. CASE r # s + 1
          <6>1. At(C[s], r) = Zero
            BY <2>4, <4>1, <5>2
          <6> QED BY <2>6, <4>2, <6>1, MulLaws
        <5> QED BY <5>1, <5>2
      <4> QED BY <4>2, <4>3, <4>4, MulZero
    <3> QED BY <3>1, <3>2
  <2> QED BY <2>7, <2>8
<1> HIDE DEF T
<1>8. T \in SUBSET Nat
  BY DEF T
<1>9. \A s \in Nat : s \in T
  BY <1>6, <1>7, <1>8, Induct, Zenon
<1>10. Roots(last)
  BY <1>2, <1>9, SMT DEF T
<1> QED BY <1>1, <1>2, <1>10 DEF At

-------------------------------------------------------------------------------
(***************************************************************************)
(* invert_vdm: division by y - Point(row), and the inverse                 *)
(***************************************************************************)
\* What Horner's rule computes, the last value first
IsHorner(h, last, x, d) ==
    h = [j \in 0..last |-> IF j = last THEN One ELSE Plus(d[j], gf_mul(x, h[j + 1]))]

LEMMA HornerExists ==
    ASSUME NEW last \in Nat, NEW x \in Gf, NEW d, \A j \in 0..(last - 1) : d[j] \in Gf
    PROVE  /\ \E h : IsHorner(h, last, x, d)
           /\ \A h : IsHorner(h, last, x, d) => h \in [0..last -> Gf]
<1> DEFINE F == [p \in Nat \X Gf |->
                   IF p[1] < last THEN Plus(d[last - 1 - p[1]], gf_mul(x, p[2])) ELSE Zero]
<1>1. F \in [Nat \X Gf -> Gf]
  <2>1. ASSUME NEW p \in Nat \X Gf
        PROVE  (IF p[1] < last THEN Plus(d[last - 1 - p[1]], gf_mul(x, p[2])) ELSE Zero) \in Gf
    <3>1. p[1] \in Nat /\ p[2] \in Gf
      OBVIOUS
    <3>2. p[1] < last => last - 1 - p[1] \in 0..(last - 1)
      BY <3>1, SMT
    <3>3. gf_mul(x, p[2]) \in Gf
      BY <3>1, MulLaws
    <3> QED BY <3>2, <3>3, PlusLaws
  <2> QED BY <2>1
<1>2. \A e \in Nat, v \in Gf : e < last => F[<<e, v>>] = Plus(d[last - 1 - e], gf_mul(x, v))
  OBVIOUS
<1> HIDE DEF F
<1>3. \E u \in [Nat -> Gf] : u[0] = One /\ \A e \in Nat : u[e + 1] = F[<<e, u[e]>>]
  <2>1. One \in Gf
    BY PlusLaws
  <2> QED BY <1>1, <2>1, RecursionGf
<1>4. PICK u \in [Nat -> Gf] : u[0] = One /\ \A e \in Nat : u[e + 1] = F[<<e, u[e]>>]
  BY <1>3
<1> DEFINE here == [j \in 0..last |-> u[last - j]]
<1>5. ASSUME NEW j \in 0..last, j # last
      PROVE  u[last - j] = Plus(d[j], gf_mul(x, here[j + 1]))
  <2> DEFINE e == last - (j + 1)
  <2>1. e \in Nat /\ e < last /\ e + 1 = last - j /\ last - 1 - e = j /\ j + 1 \in 0..last
    BY <1>5, SMT
  <2>2. here[j + 1] = u[e]
    BY <2>1
  <2> HIDE DEF e, here
  <2>3. u[e + 1] = F[<<e, u[e]>>] /\ u[e] \in Gf
    BY <1>4, <2>1
  <2>4. F[<<e, u[e]>>] = Plus(d[j], gf_mul(x, u[e]))
    BY <1>2, <2>1, <2>3
  <2> QED BY <2>1, <2>2, <2>3, <2>4
<1>6. \A j \in 0..last : u[last - j] = IF j = last THEN One ELSE Plus(d[j], gf_mul(x, here[j + 1]))
  <2>1. last - last = 0
    OBVIOUS
  <2> HIDE DEF here
  <2> QED BY <1>4, <1>5, <2>1
<1>7. IsHorner(here, last, x, d)
  <2>1. here = [j \in 0..last |-> IF j = last THEN One ELSE Plus(d[j], gf_mul(x, here[j + 1]))]
    BY <1>6
  <2> QED BY <2>1 DEF IsHorner
<1>8. ASSUME NEW h, IsHorner(h, last, x, d)
      PROVE  h \in [0..last -> Gf]
  <2> DEFINE T == {e \in Nat : e <= last => h[last - e] \in Gf}
  <2>1. 0 \in T
    <3>1. last - 0 = last /\ last \in 0..last
      BY SMT
    <3> QED BY <1>8, <3>1, PlusLaws DEF IsHorner
  <2>2. ASSUME NEW e \in T PROVE e + 1 \in T
    <3> DEFINE j == last - (e + 1)
    <3>1. /\ e \in Nat /\ e + 1 \in Nat
          /\ e + 1 <= last => e <= last /\ j \in 0..last /\ j # last /\ j + 1 = last - e
                              /\ j \in 0..(last - 1)
      BY SMT
    <3>2. e + 1 <= last => h[j] = Plus(d[j], gf_mul(x, h[j + 1])) /\ d[j] \in Gf
      BY <1>8, <3>1 DEF IsHorner
    <3>3. e + 1 <= last => h[j + 1] \in Gf
      BY <3>1
    <3> HIDE DEF j
    <3>4. ASSUME e + 1 <= last PROVE h[j] \in Gf
      <4>1. gf_mul(x, h[j + 1]) \in Gf
        BY <3>3, <3>4, MulLaws
      <4> QED BY <3>2, <3>4, <4>1, PlusLaws
    <3> USE DEF j
    <3> QED BY <3>1, <3>4
  <2> HIDE DEF T
  <2>3. T \in SUBSET Nat
    BY DEF T
  <2>4. \A e \in Nat : e \in T
    BY <2>1, <2>2, <2>3, Induct, Zenon
  <2>5. ASSUME NEW j \in 0..last PROVE h[j] \in Gf
    <3>1. last - j \in Nat /\ last - j <= last /\ last - (last - j) = j
      BY SMT
    <3>2. last - j \in T
      BY <2>4, <3>1
    <3> QED BY <3>1, <3>2 DEF T
  <2>6. h = [j \in 0..last |-> IF j = last THEN One ELSE Plus(d[j], gf_mul(x, h[j + 1]))]
    BY <1>8 DEF IsHorner
  <2>7. DOMAIN h = 0..last /\ h = [j \in 0..last |-> h[j]]
    BY <2>6
  <2> QED BY <2>5, <2>7
<1> QED BY <1>7, <1>8

\* Synthetic division: a = (y - x) * b + remainder.
LEMMA Division ==
    ASSUME NEW last \in Nat, NEW x \in Gf, NEW a \in [0..(last + 1) -> Gf], a[last + 1] = One,
           NEW b, IsHorner(b, last, x, [j \in 0..(last - 1) |-> a[j + 1]])
    PROVE  \E rem \in Gf : \A r \in Rows :
              Value(a, r, last + 2) = Plus(rem, gf_mul(Plus(Point(r), x), Value(b, r, last + 1)))
<1> DEFINE size == last + 1
           d == [j \in 0..(last - 1) |-> a[j + 1]]
           e == [j \in 0..last |-> a[j + 1]]
           up == [j \in 0..last |-> IF j = last THEN Zero ELSE b[j + 1]]
           rem == Plus(a[0], gf_mul(x, b[0]))
<1>1. /\ size \in Nat /\ size + 1 \in Nat /\ last + 2 = size + 1 /\ size - 1 = last
      /\ (size + 1) - 1 = size
      /\ 0 \in 0..size /\ size \in 0..size /\ 0 \in 0..last /\ last \in 0..last
      /\ \A j \in 0..last : j + 1 \in 0..size
      /\ \A j \in 0..last : j # last => j \in 0..(last - 1) /\ j + 1 \in 0..last
      /\ \A j \in 0..(last - 1) : j \in 0..last /\ j # last
  BY SMT
<1>2. \A j \in 0..(last - 1) : d[j] \in Gf
  BY <1>1
<1>3. b \in [0..last -> Gf]
  BY <1>2, HornerExists
<1>4. \A j \in 0..last : b[j] = IF j = last THEN One ELSE Plus(a[j + 1], gf_mul(x, b[j + 1]))
  <2>1. b = [j \in 0..last |-> IF j = last THEN One ELSE Plus(d[j], gf_mul(x, b[j + 1]))]
    BY DEF IsHorner
  <2> HIDE DEF d
  <2>2. \A j \in 0..last : j # last => d[j] = a[j + 1]
    BY <1>1 DEF d
  <2> QED BY <2>1, <2>2
<1>5. \A j \in 0..last : up[j] \in Gf /\ e[j] \in Gf /\ e[j] = a[j + 1]
  BY <1>1, <1>3, PlusLaws
<1>6. ASSUME NEW j \in 0..last PROVE e[j] = Plus(b[j], gf_mul(x, up[j]))
  <2>1. CASE j = last
    <3>1. e[j] = One /\ b[j] = One /\ up[j] = Zero
      BY <1>1, <1>4, <2>1
    <3> HIDE DEF e, up
    <3>2. gf_mul(x, up[j]) = Zero
      BY <3>1, MulLaws
    <3> QED BY <3>1, <3>2, PlusLaws
  <2>2. CASE j # last
    <3> DEFINE v == gf_mul(x, b[j + 1])
    <3>1. e[j] = a[j + 1] /\ up[j] = b[j + 1] /\ b[j] = Plus(a[j + 1], v)
      BY <1>4, <2>2
    <3>2. gf_mul(x, up[j]) = v
      BY <3>1
    <3> HIDE DEF v, e, up
    <3> QED BY <3>1, <3>2, PlusLaws
  <2> QED BY <2>1, <2>2
<1>7. rem \in Gf /\ a[0] \in Gf /\ b[0] \in Gf
  BY <1>1, <1>3, MulLaws, PlusLaws
<1>8. \A j \in 0..(last - 1) : up[j] = b[j + 1]
  BY <1>1
<1>9. up[last] = Zero
  BY <1>1
<1> HIDE DEF d, e, up, size
<1>10. Terms(a, size + 1) /\ Terms(b, size) /\ Terms(e, size) /\ Terms(up, size)
  BY <1>1, <1>3, <1>5 DEF Terms, size
<1>11. ASSUME NEW r \in Rows
       PROVE  Value(a, r, size + 1) = Plus(rem, gf_mul(Plus(Point(r), x), Value(b, r, size)))
  <2> DEFINE y == Point(r)
             A == Value(a, r, size + 1)
             B == Value(b, r, size)
             E == Value(e, r, size)
             U == Value(up, r, size)
             a0 == a[0]
             b0 == b[0]
  <2>1. y \in Gf /\ A \in Gf /\ B \in Gf /\ E \in Gf /\ U \in Gf /\ a0 \in Gf /\ b0 \in Gf
    BY <1>1, <1>7, <1>10, PointLaws, ValueTerms
  <2>2. A = Plus(a0, gf_mul(y, E))
    <3>1. \A c \in 0..(size - 1) : e[c] = a[c + 1]
      BY <1>1, <1>5
    <3> HIDE DEF y, A, B, E, U, a0, b0, rem
    <3>2. Value(a, r, size + 1) = Plus(a[0], gf_mul(Point(r), Value(e, r, size)))
      <4>1. size \in Nat /\ Terms(a, size + 1)
        BY <1>1, <1>10
      <4> QED BY <3>1, <4>1, ValueShift
    <3> QED BY <3>2 DEF A, a0, y, E
  <2>3. E = Plus(B, gf_mul(x, U))
    BY <1>1, <1>6, <1>10, ValueLinear
  <2>4. B = Plus(b0, gf_mul(y, U))
    <3>1. Value(b, r, last + 1) = Plus(b0, gf_mul(y, Value(up, r, last)))
      BY <1>8, <1>10, ValueShift DEF size
    <3>2. Value(up, r, last) \in Gf
          /\ Value(up, r, last + 1) = Plus(Value(up, r, last), gf_mul(W(r, last), up[last]))
      BY <1>10, ValueStep DEF size
    <3>3. Value(up, r, last + 1) = Value(up, r, last)
      BY <1>9, <3>2, MulLaws, PlusLaws
    <3> QED BY <3>1, <3>3 DEF size
  <2> HIDE DEF y, A, B, E, U, a0, b0
  <2> DEFINE xU == gf_mul(x, U)
             yU == gf_mul(y, U)
             yB == gf_mul(y, B)
             xb == gf_mul(x, b0)
             xyU == gf_mul(x, yU)
  <2>5. gf_mul(y, E) = Plus(yB, gf_mul(y, xU))
    BY <2>1, <2>3, MulLaws, Distributive
  <2>6. gf_mul(y, xU) = xyU
    <3>1. gf_mul(y, gf_mul(x, U)) = gf_mul(gf_mul(y, x), U)
      BY <2>1, MulLaws
    <3>2. gf_mul(x, gf_mul(y, U)) = gf_mul(gf_mul(x, y), U)
      BY <2>1, MulLaws
    <3> QED BY <2>1, <3>1, <3>2, MulLaws
  <2>7. gf_mul(Plus(y, x), B) = Plus(yB, gf_mul(x, B))
    BY <2>1, Distributive
  <2>8. gf_mul(x, B) = Plus(xb, xyU)
    BY <2>1, <2>4, MulLaws, Distributive
  <2>9. rem = Plus(a0, xb)
    BY DEF a0, b0
  <2> HIDE DEF xU, yU, yB, xb, xyU, rem
  <2>10. A = Plus(a0, Plus(yB, xyU))
    BY <2>2, <2>5, <2>6
  <2>11. gf_mul(Plus(y, x), B) = Plus(yB, Plus(xb, xyU))
    BY <2>7, <2>8
  <2>12. \A p, q, s, t : Plus(p, Plus(q, t)) = Plus(Plus(p, s), Plus(q, Plus(s, t)))
    BY DEF Plus
  <2> QED BY <2>9, <2>10, <2>11, <2>12 DEF A, B, y
<1> QED BY <1>1, <1>7, <1>11 DEF size

\* Horner's rule gives the value.
LEMMA HornerValue ==
    ASSUME NEW last \in Nat, NEW m \in Rows, NEW b \in [0..last -> Gf], b[last] = One,
           NEW t, IsHorner(t, last, Point(m), b)
    PROVE  t[0] = Value(b, m, last + 1)
<1> DEFINE x == Point(m)
           T == {e \in Nat : e <= last => Plus(Value(b, m, e), gf_mul(W(m, e), t[e])) = t[0]}
<1>1. x \in Gf /\ t \in [0..last -> Gf]
  <2>1. \A j \in 0..(last - 1) : b[j] \in Gf
    BY SMT
  <2> QED BY <2>1, PointLaws, HornerExists
<1>2. \A e \in 0..last : Terms(b, e + 1)
  <2>1. \A e \in 0..last : \A j \in 0..((e + 1) - 1) : j \in 0..last
    BY SMT
  <2> QED BY <2>1 DEF Terms
<1>3. 0 \in T
  <2>1. 0 \in 0..last /\ 0 \in Nat
    OBVIOUS
  <2>2. Value(b, m, 0) = Zero
    BY <1>2, <2>1, ValueStep
  <2>3. W(m, 0) = One
    BY PointLaws
  <2> QED BY <1>1, <2>1, <2>2, <2>3, MulLaws, PlusLaws
<1>4. ASSUME NEW e \in T PROVE e + 1 \in T
  <2>1. e \in Nat /\ e + 1 \in Nat
    OBVIOUS
  <2>2. SUFFICES ASSUME e + 1 <= last
                 PROVE  Plus(Value(b, m, e + 1), gf_mul(W(m, e + 1), t[e + 1])) = t[0]
    BY <2>1
  <2>3. e <= last /\ e \in 0..last /\ e # last /\ e + 1 \in 0..last
    BY <2>1, <2>2, SMT
  <2> DEFINE w == W(m, e)
             V == Value(b, m, e)
             be == b[e]
             te == t[e + 1]
             X == gf_mul(w, be)
             Y == gf_mul(w, gf_mul(x, te))
  <2>4. w \in Gf /\ be \in Gf /\ te \in Gf
    BY <1>1, <2>1, <2>3, PointLaws
  <2>5. V \in Gf /\ Value(b, m, e + 1) = Plus(V, X)
    BY <1>2, <2>1, <2>3, ValueStep
  <2>6. W(m, e + 1) = gf_mul(x, w)
    BY <2>1, PointLaws
  <2>7. t[e] = Plus(be, gf_mul(x, te))
    BY <2>3 DEF IsHorner
  <2>8. Plus(V, gf_mul(w, t[e])) = t[0]
    BY <2>3
  <2> HIDE DEF w, V, be, te, x
  <2>9. gf_mul(w, t[e]) = Plus(X, Y)
    BY <1>1, <2>4, <2>7, MulLaws, Distributive
  <2>10. gf_mul(gf_mul(x, w), te) = Y
    <3>1. gf_mul(gf_mul(w, x), te) = Y
      BY <1>1, <2>4, MulLaws
    <3> QED BY <1>1, <2>4, <3>1, MulLaws
  <2> HIDE DEF X, Y
  <2>11. Plus(Plus(V, X), Y) = Plus(V, Plus(X, Y))
    BY PlusLaws
  <2> QED BY <2>5, <2>6, <2>8, <2>9, <2>10, <2>11 DEF te
<1> HIDE DEF T
<1>5. T \in SUBSET Nat
  BY DEF T
<1>6. \A e \in Nat : e \in T
  BY <1>3, <1>4, <1>5, Induct, Zenon
<1>7. Plus(Value(b, m, last), gf_mul(W(m, last), t[last])) = t[0]
  BY <1>6, SMT DEF T
<1>8. t[last] = One
  BY SMT DEF IsHorner
<1>9. Value(b, m, last + 1) = Plus(Value(b, m, last), gf_mul(W(m, last), b[last]))
  <2>1. last \in 0..last
    OBVIOUS
  <2> QED BY <1>2, <2>1, ValueStep
<1> QED BY <1>7, <1>8, <1>9

\* What invert_vdm computes for one column
LEMMA ColumnParts ==
    ASSUME NEW size \in Nat, 1 < size, size <= GF_SIZE + 1, NEW m \in 0..(size - 1)
    PROVE  \E b, t :
              /\ IsHorner(b, size - 1, Point(m),
                          [j \in 0..(size - 2) |-> Full(ProductOfPoints(size), size)[j + 1]])
              /\ IsHorner(t, size - 1, Point(m), b)
              /\ b \in [0..(size - 1) -> Gf]
              /\ InverseColumn(m, size)
                    = [col \in 0..(size - 1) |-> gf_mul(inverse[t[0]], b[col])]
<1> DEFINE last == size - 1
           xx == Point(m)
           c == ProductOfPoints(size)
           d == [j \in 0..(last - 1) |-> c[j + 1]]
           full == [j \in 0..(last - 1) |-> Full(c, size)[j + 1]]
           IsB(h) == h = [j \in 0..last |->
                            IF j = last THEN One ELSE Plus(c[j + 1], gf_mul(xx, h[j + 1]))]
           b == CHOOSE h : IsB(h)
           IsT(h) == h = [j \in 0..last |->
                            IF j = last THEN One ELSE Plus(gf_mul(xx, h[j + 1]), b[j])]
           t == CHOOSE h : IsT(h)
<1>1. size # 1 /\ last \in Nat /\ last - 1 = size - 2
      /\ (\A j \in 0..last : j # last => j \in 0..(last - 1))
      /\ (\A j \in 0..(last - 1) : j + 1 \in 0..last /\ j + 1 \in 0..size /\ j + 1 # size
                                   /\ j \in 0..last)
  BY SMT
<1>2. InverseColumn(m, size) = [col \in 0..last |-> gf_mul(inverse[t[0]], b[col])]
  BY <1>1 DEF InverseColumn
<1>3. size \in Nat \ {0} /\ m \in Rows
  BY SizeFacts, SMT DEF Rows
<1>4. xx \in Gf /\ c \in [0..last -> Gf]
  BY <1>3, PointLaws, ProductRoots
<1>5. full = d
  BY <1>1 DEF Full
<1>6. \A j \in 0..(last - 1) : d[j] \in Gf
  BY <1>1, <1>4
<1> HIDE DEF full
<1>7. \A h : IsB(h) <=> IsHorner(h, last, xx, d)
  <2> SUFFICES ASSUME NEW h PROVE IsB(h) <=> IsHorner(h, last, xx, d)
    OBVIOUS
  <2>1. \A j \in 0..last : j # last => d[j] = c[j + 1]
    BY <1>1
  <2> HIDE DEF d, c, xx, last
  <2>2. [j \in 0..last |-> IF j = last THEN One ELSE Plus(c[j + 1], gf_mul(xx, h[j + 1]))]
         = [j \in 0..last |-> IF j = last THEN One ELSE Plus(d[j], gf_mul(xx, h[j + 1]))]
    BY <2>1
  <2> QED BY <2>2 DEF IsHorner
<1>8. \A h : IsT(h) <=> IsHorner(h, last, xx, b)
  <2> SUFFICES ASSUME NEW h PROVE IsT(h) <=> IsHorner(h, last, xx, b)
    OBVIOUS
  <2> HIDE DEF b, xx, last
  <2>1. \A j \in 0..last : Plus(gf_mul(xx, h[j + 1]), b[j]) = Plus(b[j], gf_mul(xx, h[j + 1]))
    BY PlusLaws
  <2>2. [j \in 0..last |-> IF j = last THEN One ELSE Plus(gf_mul(xx, h[j + 1]), b[j])]
         = [j \in 0..last |-> IF j = last THEN One ELSE Plus(b[j], gf_mul(xx, h[j + 1]))]
    BY <2>1
  <2> QED BY <2>2 DEF IsHorner
<1> HIDE DEF IsB, IsT, c, d, xx, last
<1>9. IsHorner(b, last, xx, d) /\ b \in [0..last -> Gf]
  <2>1. \E h : IsB(h)
    BY <1>1, <1>4, <1>6, <1>7, HornerExists
  <2>2. IsB(b)
    BY <2>1, Zenon
  <2> HIDE DEF b
  <2>3. IsHorner(b, last, xx, d)
    BY <1>7, <2>2
  <2> QED BY <1>1, <1>4, <1>6, <2>3, HornerExists
<1>10. IsHorner(t, last, xx, b)
  <2>1. \A j \in 0..(last - 1) : b[j] \in Gf
    BY <1>1, <1>9
  <2> HIDE DEF b
  <2>2. \E h : IsT(h)
    BY <1>1, <1>4, <1>8, <2>1, HornerExists
  <2>3. IsT(t)
    BY <2>2, Zenon
  <2> HIDE DEF t
  <2> QED BY <1>8, <2>3
<1> HIDE DEF b, t
<1>11. last = size - 1 /\ size - 2 = last - 1
  BY SMT DEF last
<1> QED BY <1>2, <1>5, <1>9, <1>10, <1>11 DEF full, xx, c

\* Column m of the inverse: the polynomial that is 1 at Point(m), 0 at the
\* other points of the top.
LEMMA InverseColumnLaws ==
    ASSUME NEW size \in Nat \ {0}, size <= GF_SIZE + 1, NEW m \in 0..(size - 1)
    PROVE  /\ InverseColumn(m, size) \in [0..(size - 1) -> Gf]
           /\ \A r \in 0..(size - 1) :
                 Value(InverseColumn(m, size), r, size) = IF r = m THEN One ELSE Zero
<1>1. CASE size = 1
  <2>1. m = 0 /\ \A r \in 0..(size - 1) : r = 0
    BY <1>1, SMT
  <2>2. InverseColumn(m, size) = Unit(0, 1)
    BY <1>1 DEF InverseColumn
  <2>3. Unit(0, 1) = [col \in 0..0 |-> One]
    BY DEF Unit
  <2> DEFINE q == Unit(0, 1)
  <2>4. q \in [0..0 -> Gf] /\ q[0] = One
    BY <2>3, PlusLaws
  <2> HIDE DEF q
  <2>5. 0 \in Rows /\ 0 \in Nat /\ (0 + 1) - 1 = 0 /\ 0 + 1 = 1 /\ 1 - 1 = 0
    BY SizeFacts, SMT DEF Rows
  <2>6. Terms(q, 0 + 1)
    BY <2>4, <2>5 DEF Terms
  <2>7. Value(q, 0, 1) = Plus(Zero, gf_mul(W(0, 0), One))
    BY <2>4, <2>5, <2>6, ValueStep
  <2>8. Value(q, 0, 1) = One
    BY <2>5, <2>7, PointLaws, PlusLaws, MulLaws
  <2> QED BY <1>1, <2>1, <2>2, <2>4, <2>5, <2>8 DEF q
<1>2. CASE size # 1
  <2> DEFINE last == size - 1
             c == ProductOfPoints(size)
             a == Full(c, size)
             x == Point(m)
  <2>1. 1 < size /\ last \in Nat /\ size \in Nat /\ size = last + 1 /\ last - 1 = size - 2
        /\ size + 1 = last + 2 /\ 0 \in 0..last /\ last \in 0..last
        /\ (\A r \in 0..last : r \in Rows) /\ size \in 0..size
        /\ (\A j \in 0..size : j # size => j \in 0..last)
    BY <1>2, SizeFacts, SMT DEF Rows
  <2>2. PICK b, t :
              /\ IsHorner(b, size - 1, Point(m),
                          [j \in 0..(size - 2) |-> Full(ProductOfPoints(size), size)[j + 1]])
              /\ IsHorner(t, size - 1, Point(m), b)
              /\ b \in [0..(size - 1) -> Gf]
              /\ InverseColumn(m, size)
                    = [col \in 0..(size - 1) |-> gf_mul(inverse[t[0]], b[col])]
    BY <2>1, ColumnParts, Zenon
  <2>3. c \in [0..last -> Gf] /\ \A r \in 0..last : Value(a, r, size + 1) = Zero
    BY ProductRoots
  <2>4. a \in [0..size -> Gf] /\ a[size] = One
    BY <2>1, <2>3, PlusLaws DEF Full
  <2>5. x \in Gf /\ \A r \in 0..last : Point(r) \in Gf
    BY <2>1, PointLaws
  <2> DEFINE B(r) == Value(b, r, size)
  <2>6. b \in [0..last -> Gf] /\ b[last] = One
    <3>1. b[last] = One
      BY <2>1, <2>2 DEF IsHorner
    <3> QED BY <2>2, <3>1
  <2>7. Terms(b, size)
    BY <2>6 DEF Terms
  <2>8. \E rem \in Gf : \A r \in Rows :
           Value(a, r, size + 1) = Plus(rem, gf_mul(Plus(Point(r), x), B(r)))
    <3>1. IsHorner(b, last, x, [j \in 0..(last - 1) |-> a[j + 1]])
      BY <2>1, <2>2
    <3> HIDE DEF a, x, last
    <3> QED BY <2>1, <2>4, <2>5, <3>1, Division
  <2>9. \A r \in Rows : B(r) \in Gf
    BY <2>1, <2>7, ValueTerms
  <2>10. t[0] = B(m)
    <3>1. IsHorner(t, last, Point(m), b)
      BY <2>2
    <3> HIDE DEF last
    <3>2. m \in Rows
      BY <2>1 DEF last
    <3> QED BY <2>1, <2>6, <3>1, <3>2, HornerValue
  <2> HIDE DEF a, c, B, last
  <2>11. ASSUME NEW r \in 0..last, r # m PROVE B(r) = Zero
    <3>1. PICK rem \in Gf : \A rr \in Rows :
             Value(a, rr, size + 1) = Plus(rem, gf_mul(Plus(Point(rr), x), B(rr)))
      BY <2>8
    <3>2. m \in 0..last /\ m \in Rows /\ r \in Rows
      BY <2>1 DEF last
    <3>3. gf_mul(Plus(Point(m), x), B(m)) = Zero
      BY PlusLaws, MulLaws
    <3>4. rem = Zero
      BY <2>3, <3>1, <3>2, <3>3, PlusLaws
    <3>5. gf_mul(Plus(Point(r), x), B(r)) = Zero
      BY <2>3, <2>11, <3>1, <3>2, <3>4, PlusLaws
    <3>6. Plus(Point(r), x) \in Gf /\ Plus(Point(r), x) # Zero
      BY <2>5, <2>11, <3>2, PointLaws, PlusLaws
    <3> QED BY <2>9, <3>2, <3>5, <3>6, MulZero
  <2>12. B(m) # Zero
    <3> DEFINE h == [r \in Rows |-> B(r)]
               R == (0..last) \ {m}
    <3>1. h \in [Rows -> Gf] /\ \A r \in Rows : h[r] = B(r)
      BY <2>9
    <3>2. m \in 0..last /\ m \in Rows /\ m \notin R /\ R \in SUBSET Rows
      BY <2>1 DEF last
    <3>3. IsFiniteSet(R) /\ Cardinality(R) = last
      <4>1. IsFiniteSet(0..last) /\ Cardinality(0..last) = last + 1
        BY <2>1, FS_Interval, SMT
      <4>2. IsFiniteSet(R) /\ Cardinality(R) = Cardinality(0..last) - 1
        BY <3>2, <4>1, FS_RemoveElement
      <4> QED BY <2>1, <4>1, <4>2, SMT
    <3>4. \A y \in R : h[y] = Zero
      BY <2>1, <2>11
    <3> HIDE DEF h, R
    <3>5. h \in Monic(last)
      BY <2>1, <2>6, <2>7, <3>1, ValueMonic DEF B
    <3>6. h[m] = Zero <=> One = Zero
      BY <2>1, <3>2, <3>3, <3>4, <3>5, TowerRoots, PlusLaws DEF Monic
    <3> QED BY <3>1, <3>2, <3>6, PlusLaws
  <2> DEFINE v == inverse[t[0]]
             q == InverseColumn(m, size)
  <2>13. m \in Rows
    BY <2>1 DEF last
  <2>14. v \in Gf /\ gf_mul(v, B(m)) = One
    BY <2>9, <2>10, <2>12, <2>13, InverseLaws
  <2>15. q = [col \in 0..last |-> gf_mul(v, b[col])]
    BY <2>2 DEF last
  <2> HIDE DEF v, q, x
  <2>16. q \in [0..last -> Gf]
    BY <2>6, <2>14, <2>15, MulLaws
  <2>17. ASSUME NEW r \in Rows PROVE Value(q, r, size) = gf_mul(v, B(r))
    <3> DEFINE z == [col \in 0..last |-> Zero]
    <3>1. \A col \in 0..last : z[col] = Zero
      OBVIOUS
    <3> HIDE DEF z
    <3>2. Terms(z, size)
      BY <3>1, PlusLaws DEF Terms, last
    <3>3. \A col \in 0..(size - 1) : q[col] = Plus(z[col], gf_mul(v, b[col]))
      BY <2>15, <3>1, PlusLaws DEF last
    <3>4. \A col \in 0..(size - 1) : z[col] = gf_mul(Zero, z[col])
      BY <3>1, MulLaws DEF last
    <3>5. \A col \in 0..(size - 1) : z[col] = Plus(z[col], gf_mul(One, z[col]))
      BY <3>1, MulLaws, PlusLaws DEF last
    <3>6. Value(q, r, size) = Plus(Value(z, r, size), gf_mul(v, B(r)))
      BY <2>1, <2>7, <2>14, <3>2, <3>3, ValueLinear DEF B
    <3>7. Value(z, r, size) = Plus(Value(z, r, size), gf_mul(One, Value(z, r, size)))
      BY <2>1, <3>2, <3>5, ValueLinear, PlusLaws
    <3>8. Value(z, r, size) = Zero
      <4>1. Value(z, r, size) \in Gf
        BY <2>1, <3>2, ValueTerms
      <4> QED BY <3>7, <4>1, MulLaws, PlusLaws
    <3> QED BY <3>6, <3>8, PlusLaws
  <2>18. \A r \in 0..last : Value(q, r, size) = IF r = m THEN One ELSE Zero
    BY <2>1, <2>11, <2>14, <2>17, MulLaws
  <2> QED BY <2>16, <2>18 DEF q, last
<1> QED BY <1>1, <1>2

-------------------------------------------------------------------------------
(***************************************************************************)
(* fec_new: the packages of a word are the values of a polynomial          *)
(***************************************************************************)
\* Sums and multiples of polynomials of degree below s
LEMMA PolyLaws ==
    ASSUME NEW s \in Nat
    PROVE  /\ \A h \in [Rows -> Gf] : (\A r \in Rows : h[r] = Zero) => h \in Poly(s)
           /\ \A f \in Poly(s) : f \in [Rows -> Gf]
           /\ \A f, g \in Poly(s), h \in [Rows -> Gf] :
                 (\A r \in Rows : h[r] = Plus(f[r], g[r])) => h \in Poly(s)
           /\ \A x \in Gf, f \in Poly(s), h \in [Rows -> Gf] :
                 (\A r \in Rows : h[r] = gf_mul(x, f[r])) => h \in Poly(s)
<1>1. Zero \in Gf /\ One \in Gf
  BY PlusLaws
<1>2. \A f \in Poly(s) : f \in [Rows -> Gf]
  BY <1>1, TowerLaws DEF Poly
<1>3. \A f, g \in Poly(s), h \in [Rows -> Gf] :
         (\A r \in Rows : h[r] = Plus(f[r], g[r])) => h \in Poly(s)
  BY <1>1, TowerPlus DEF Poly
<1>4. ASSUME NEW x \in Gf, NEW f \in Poly(s), NEW h \in [Rows -> Gf],
             \A r \in Rows : h[r] = gf_mul(x, f[r])
      PROVE  h \in Poly(s)
  <2>1. h \in Tower(gf_mul(x, Zero))[s]
    BY <1>1, <1>4, TowerScale DEF Poly
  <2>2. gf_mul(x, Zero) = Zero
    BY MulLaws
  <2> QED BY <2>1, <2>2 DEF Poly
<1>5. ASSUME NEW h \in [Rows -> Gf], \A r \in Rows : h[r] = Zero
      PROVE  h \in Poly(s)
  <2> DEFINE w == [r \in Rows |-> W(r, s)]
  <2>1. w \in [Rows -> Gf] /\ \A r \in Rows : w[r] = W(r, s)
    BY PointLaws
  <2> HIDE DEF w
  <2>2. w \in Tower(One)[s]
    BY <2>1, WTower DEF Monic
  <2>3. \A r \in Rows : h[r] = gf_mul(Zero, w[r])
    BY <1>5, MulLaws
  <2>4. h \in Tower(gf_mul(Zero, One))[s]
    BY <1>1, <2>2, <2>3, TowerScale
  <2>5. gf_mul(Zero, One) = Zero
    BY MulLaws
  <2> QED BY <2>4, <2>5 DEF Poly
<1> QED BY <1>2, <1>3, <1>4, <1>5

\* term[r] has the multiples of size polynomials of degree below s, at Point(r).
Multiples(s, size, p, x, term) ==
    /\ \A m \in 0..(size - 1) : p[m] \in Poly(s) /\ x[m] \in Gf
    /\ \A r \in Rows : \A m \in 0..(size - 1) : term[r][m] = gf_mul(x[m], p[m][r])

\* Their sum is such a polynomial.
LEMMA PolySum ==
    ASSUME NEW s \in Nat, NEW size \in Nat, NEW p, NEW x, NEW term,
           Multiples(s, size, p, x, term)
    PROVE  \E h \in Poly(s) : \A r \in Rows :
              Terms(term[r], size) /\ h[r] = GfSum(term[r], size)
<1> DEFINE T == {e \in Nat : e <= size =>
                    \E h \in Poly(s) : \A r \in Rows : h[r] = GfSum(term[r], e)}
<1> USE DEF Multiples
<1>1. \A r \in Rows : Terms(term[r], size)
  <2> SUFFICES ASSUME NEW r \in Rows, NEW m \in 0..(size - 1) PROVE term[r][m] \in Gf
    BY DEF Terms
  <2>1. p[m] \in [Rows -> Gf]
    BY PolyLaws
  <2> QED BY <2>1, MulLaws
<1>3. \A r \in Rows : /\ GfSum(term[r], 0) = Zero
                      /\ \A m \in 0..(size - 1) :
                           GfSum(term[r], m + 1) = Plus(GfSum(term[r], m), term[r][m])
  BY <1>1, SumStep
<1>4. 0 \in T
  <2> DEFINE h == [r \in Rows |-> Zero]
  <2>1. h \in [Rows -> Gf] /\ \A r \in Rows : h[r] = Zero
    BY PlusLaws
  <2> HIDE DEF h
  <2>2. h \in Poly(s)
    BY <2>1, PolyLaws
  <2> QED BY <1>3, <2>1, <2>2
<1>5. ASSUME NEW e \in T PROVE e + 1 \in T
  <2>1. e \in Nat /\ e + 1 \in Nat
    OBVIOUS
  <2>2. SUFFICES ASSUME e + 1 <= size
                 PROVE  \E h \in Poly(s) : \A r \in Rows : h[r] = GfSum(term[r], e + 1)
    BY <2>1
  <2>3. e <= size /\ e \in 0..(size - 1)
    BY <2>1, <2>2, SMT
  <2>4. PICK g \in Poly(s) : \A r \in Rows : g[r] = GfSum(term[r], e)
    BY <2>3
  <2> DEFINE u == [r \in Rows |-> gf_mul(x[e], p[e][r])]
             h == [r \in Rows |-> Plus(g[r], u[r])]
  <2>5. p[e] \in Poly(s) /\ p[e] \in [Rows -> Gf] /\ x[e] \in Gf /\ g \in [Rows -> Gf]
    BY <2>3, <2>4, PolyLaws
  <2>6. u \in [Rows -> Gf] /\ \A r \in Rows : u[r] = gf_mul(x[e], p[e][r])
    BY <2>5, MulLaws
  <2>7. h \in [Rows -> Gf] /\ \A r \in Rows : h[r] = Plus(g[r], u[r])
    BY <2>5, <2>6, PlusLaws
  <2> HIDE DEF u, h
  <2>8. u \in Poly(s)
    BY <2>5, <2>6, PolyLaws
  <2>9. h \in Poly(s)
    BY <2>4, <2>7, <2>8, PolyLaws
  <2>10. \A r \in Rows : h[r] = GfSum(term[r], e + 1)
    BY <1>3, <2>3, <2>4, <2>6, <2>7
  <2> QED BY <2>9, <2>10
<1> HIDE DEF T
<1>6. T \in SUBSET Nat
  BY DEF T
<1>7. \A e \in Nat : e \in T
  BY <1>4, <1>5, <1>6, Induct, Zenon
<1>8. size \in T
  BY <1>7
<1> QED BY <1>1, <1>8 DEF T

\* There is a polynomial through the packages src, and its value at any point
\* is their sum with the coefficients that fec_new computes.
LEMMA Interpolation ==
    ASSUME NEW size \in Nat \ {0}, size <= GF_SIZE + 1, NEW src,
           \A m \in 0..(size - 1) : src[m] \in Gf
    PROVE  \E f \in Poly(size) :
              /\ \A m \in 0..(size - 1) : f[m] = src[m]
              /\ \A r \in Rows :
                    f[r] = GfSum([m \in 0..(size - 1) |->
                              gf_mul(src[m], Value(InverseColumn(m, size), r, size))], size)
<1> DEFINE p == [m \in 0..(size - 1) |->
                    [r \in Rows |-> Value(InverseColumn(m, size), r, size)]]
           term == [r \in Rows |-> [m \in 0..(size - 1) |-> gf_mul(src[m], p[m][r])]]
           sum(r) == [m \in 0..(size - 1) |->
                        gf_mul(src[m], Value(InverseColumn(m, size), r, size))]
<1>1. ASSUME NEW m \in 0..(size - 1)
      PROVE  p[m] \in Poly(size)
  <2> DEFINE q == InverseColumn(m, size)
             h == [r \in Rows |-> Value(q, r, size)]
  <2>1. q \in [0..(size - 1) -> Gf]
    BY InverseColumnLaws
  <2>2. p[m] = h
    OBVIOUS
  <2> HIDE DEF q, p
  <2>3. Terms(q, size)
    BY <2>1 DEF Terms
  <2>4. h \in [Rows -> Gf] /\ \A r \in Rows : h[r] = Value(q, r, size)
    BY <2>3, ValueTerms
  <2> HIDE DEF h
  <2>5. h \in Poly(size)
    BY <2>3, <2>4, ValuePoly
  <2> QED BY <2>2, <2>5
<1>2. \A m \in 0..(size - 1) : \A r \in Rows :
         p[m][r] = Value(InverseColumn(m, size), r, size)
  OBVIOUS
<1>3. \A r \in Rows : \A m \in 0..(size - 1) : term[r][m] = gf_mul(src[m], p[m][r])
  OBVIOUS
<1>4. \A r \in Rows : term[r] = sum(r)
  BY <1>2
<1> HIDE DEF p, term
<1>5. PICK f \in Poly(size) : \A r \in Rows : /\ Terms(term[r], size)
                                              /\ f[r] = GfSum(term[r], size)
  <2>1. size \in Nat /\ Multiples(size, size, p, src, term)
    BY <1>1, <1>3 DEF Multiples
  <2> QED BY <2>1, PolySum
<1>6. ASSUME NEW m \in 0..(size - 1) PROVE f[m] = src[m]
  <2>1. m \in Rows
    BY SizeFacts, SMT DEF Rows
  <2>2. \A e \in 0..(size - 1) : p[e][m] = IF m = e THEN One ELSE Zero
    BY <1>2, <2>1, InverseColumnLaws
  <2>3. term[m][m] = src[m] /\ \A e \in 0..(size - 1) : e # m => term[m][e] = Zero
    BY <1>3, <2>1, <2>2, MulLaws
  <2>4. GfSum(term[m], size) = term[m][m]
    BY <2>3, SumSingle
  <2> QED BY <1>5, <2>1, <2>3, <2>4
<1>7. \A r \in Rows : f[r] = GfSum(sum(r), size)
  BY <1>4, <1>5
<1> QED BY <1>6, <1>7

\* A row of the identity picks a package.
LEMMA UnitTimes ==
    ASSUME NEW size \in Nat, NEW row \in 0..(size - 1), NEW src, src[row] \in Gf
    PROVE  /\ Unit(row, size) \in [0..(size - 1) -> Gf]
           /\ RowTimes(Unit(row, size), src, size) = src[row]
<1> DEFINE f == [j \in 0..(size - 1) |-> gf_mul(Unit(row, size)[j], src[j])]
<1>1. Unit(row, size) \in [0..(size - 1) -> Gf]
      /\ \A j \in 0..(size - 1) : Unit(row, size)[j] = IF j = row THEN One ELSE Zero
  BY PlusLaws DEF Unit
<1>2. f[row] = src[row] /\ \A j \in 0..(size - 1) : j # row => f[j] = Zero
  BY <1>1, MulLaws
<1> HIDE DEF f
<1>3. GfSum(f, size) = f[row]
  BY <1>2, SumSingle
<1> QED BY <1>1, <1>2, <1>3 DEF f, RowTimes

\* Row r of the matrix, times the packages of a word, is package r.
LEMMA EncLaws ==
    ASSUME NEW size \in Nat \ {0}, NEW total \in size..(GF_SIZE + 1),
           NEW r \in 0..(total - 1)
    PROVE  /\ r \in Rows /\ EncMatrix(size, total)[r] \in [0..(size - 1) -> Gf]
           /\ \A f \in Poly(size) : \A src :
                 (\A m \in 0..(size - 1) : src[m] = f[m])
                    => RowTimes(EncMatrix(size, total)[r], src, size) = f[r]
<1> DEFINE enc == EncMatrix(size, total)[r]
<1>1. size <= GF_SIZE + 1 /\ r \in Rows /\ size \in Nat
      /\ (r < size => r \in 0..(size - 1)) /\ \A m \in 0..(size - 1) : m \in Rows
  BY SizeFacts, SMT DEF Rows
<1>2. CASE r < size
  <2>1. enc = Unit(r, size)
    BY <1>2 DEF EncMatrix
  <2>2. Unit(r, size) \in [0..(size - 1) -> Gf]
    BY <1>1, <1>2, PlusLaws DEF Unit
  <2>3. ASSUME NEW f \in Poly(size), NEW src, \A m \in 0..(size - 1) : src[m] = f[m]
        PROVE  RowTimes(enc, src, size) = f[r]
    <3>1. f[r] \in Gf /\ src[r] = f[r] /\ r \in 0..(size - 1)
      BY <1>1, <1>2, <2>3, PolyLaws
    <3> HIDE DEF enc
    <3> QED BY <1>1, <2>1, <3>1, UnitTimes
  <2> QED BY <1>1, <2>1, <2>2, <2>3
<1>3. CASE ~(r < size)
  <2>1. enc = [col \in 0..(size - 1) |-> RowTimes(Powers(r, size), InverseColumn(col, size), size)]
    BY <1>3 DEF EncMatrix
  <2>2. \A col \in 0..(size - 1) : enc[col] = Value(InverseColumn(col, size), r, size)
    <3>1. \A q : RowTimes(Powers(r, size), q, size) = Value(q, r, size)
      BY <1>1, RowTimesValue
    <3> QED BY <2>1, <3>1
  <2>3. ASSUME NEW col \in 0..(size - 1) PROVE enc[col] \in Gf
    <3> DEFINE q == InverseColumn(col, size)
    <3>1. q \in [0..(size - 1) -> Gf]
      BY <1>1, InverseColumnLaws
    <3>2. enc[col] = Value(q, r, size)
      BY <2>2
    <3> HIDE DEF q, enc
    <3>3. Terms(q, size)
      BY <3>1 DEF Terms
    <3> QED BY <1>1, <3>2, <3>3, ValueTerms
  <2>4. enc \in [0..(size - 1) -> Gf]
    BY <2>1, <2>3
  <2>5. ASSUME NEW f \in Poly(size), NEW src, \A m \in 0..(size - 1) : src[m] = f[m]
        PROVE  RowTimes(enc, src, size) = f[r]
    <3>1. f \in [Rows -> Gf] /\ \A m \in 0..(size - 1) : src[m] \in Gf
      BY <1>1, <2>5, PolyLaws
    <3>2. PICK g \in Poly(size) :
              /\ \A m \in 0..(size - 1) : g[m] = src[m]
              /\ \A rr \in Rows :
                    g[rr] = GfSum([m \in 0..(size - 1) |->
                              gf_mul(src[m], Value(InverseColumn(m, size), rr, size))], size)
      BY <1>1, <3>1, Interpolation
    <3>3. g[r] = f[r]
      <4> DEFINE R == 0..(size - 1)
      <4>1. IsFiniteSet(R) /\ Cardinality(R) = size /\ R \in SUBSET Rows
        <5>1. 0 \in Int /\ size - 1 \in Int /\ (size - 1) - 0 + 1 = size /\ 0 <= size - 1
          BY <1>1, SMT
        <5>2. IsFiniteSet(R) /\ Cardinality(R) = size
          BY <5>1, FS_Interval, SMT
        <5> QED BY <1>1, <5>2
      <4>2. \A m \in R : g[m] = f[m]
        BY <2>5, <3>2
      <4> HIDE DEF R
      <4> QED BY <1>1, <4>1, <4>2, PolyAgree
    <3>4. [m \in 0..(size - 1) |-> gf_mul(enc[m], src[m])]
            = [m \in 0..(size - 1) |-> gf_mul(src[m], Value(InverseColumn(m, size), r, size))]
      <4>1. ASSUME NEW m \in 0..(size - 1)
            PROVE  gf_mul(enc[m], src[m]) = gf_mul(src[m], Value(InverseColumn(m, size), r, size))
        <5>1. enc[m] \in Gf /\ src[m] \in Gf
          BY <2>3, <3>1
        <5>2. enc[m] = Value(InverseColumn(m, size), r, size)
          BY <2>2
        <5> HIDE DEF enc
        <5>3. gf_mul(enc[m], src[m]) = gf_mul(src[m], enc[m])
          BY <5>1, MulLaws
        <5> QED BY <5>2, <5>3
      <4> HIDE DEF enc
      <4> QED BY <4>1
    <3>5. RowTimes(enc, src, size) = GfSum([m \in 0..(size - 1) |-> gf_mul(enc[m], src[m])], size)
      BY DEF RowTimes
    <3> HIDE DEF enc
    <3> QED BY <1>1, <3>2, <3>3, <3>4, <3>5
  <2> QED BY <1>1, <2>4, <2>5
<1> QED BY <1>2, <1>3

-------------------------------------------------------------------------------
(***************************************************************************)
(* invert_mat: what the operations on rows do to their products            *)
(***************************************************************************)
LEMMA RowTerms ==
    ASSUME NEW size \in Nat, NEW row, NEW g, Terms(row, size), Terms(g, size)
    PROVE  /\ Terms([j \in 0..(size - 1) |-> gf_mul(row[j], g[j])], size)
           /\ RowTimes(row, g, size) \in Gf
<1> DEFINE f == [j \in 0..(size - 1) |-> gf_mul(row[j], g[j])]
<1>1. \A j \in 0..(size - 1) : f[j] \in Gf
  BY MulLaws DEF Terms
<1>2. Terms(f, size) /\ size \in 0..size
  BY <1>1 DEF Terms
<1>3. GfSum(f, size) \in Gf
  BY <1>2, SumStep
<1> QED BY <1>2, <1>3 DEF RowTimes

\* The row a + x * b
LEMMA RowTimesLinear ==
    ASSUME NEW size \in Nat, NEW a, NEW b, NEW q, NEW g, NEW x \in Gf,
           Terms(a, size), Terms(b, size), Terms(g, size),
           \A c \in 0..(size - 1) : q[c] = Plus(a[c], gf_mul(x, b[c]))
    PROVE  RowTimes(q, g, size) = Plus(RowTimes(a, g, size), gf_mul(x, RowTimes(b, g, size)))
<1> DEFINE f == [c \in 0..(size - 1) |-> gf_mul(a[c], g[c])]
           e == [c \in 0..(size - 1) |-> gf_mul(b[c], g[c])]
           h == [c \in 0..(size - 1) |-> gf_mul(x, e[c])]
           t == [c \in 0..(size - 1) |-> gf_mul(q[c], g[c])]
<1>1. Terms(f, size) /\ Terms(e, size)
  BY RowTerms
<1>2. ASSUME NEW c \in 0..(size - 1) PROVE t[c] = Plus(f[c], h[c]) /\ h[c] = gf_mul(x, e[c])
  <2> DEFINE w == g[c]
             u == a[c]
             v == b[c]
  <2>1. w \in Gf /\ u \in Gf /\ v \in Gf
    BY DEF Terms
  <2>2. t[c] = gf_mul(Plus(u, gf_mul(x, v)), w) /\ f[c] = gf_mul(u, w)
        /\ e[c] = gf_mul(v, w) /\ h[c] = gf_mul(x, e[c])
    OBVIOUS
  <2> HIDE DEF w, u, v, t, f, e, h
  <2>3. gf_mul(Plus(u, gf_mul(x, v)), w) = Plus(gf_mul(u, w), gf_mul(gf_mul(x, v), w))
    BY <2>1, MulLaws, Distributive
  <2>4. gf_mul(gf_mul(x, v), w) = gf_mul(x, gf_mul(v, w))
    BY <2>1, MulLaws
  <2> QED BY <2>2, <2>3, <2>4
<1>3. ASSUME NEW c \in 0..(size - 1) PROVE h[c] \in Gf
  BY <1>1, MulLaws DEF Terms
<1>4. Terms(h, size)
  BY <1>3 DEF Terms
<1>5. /\ RowTimes(q, g, size) = GfSum(t, size) /\ RowTimes(a, g, size) = GfSum(f, size)
      /\ RowTimes(b, g, size) = GfSum(e, size)
  BY DEF RowTimes
<1> HIDE DEF f, e, h, t
<1>6. GfSum(h, size) = gf_mul(x, GfSum(e, size))
  BY <1>1, <1>2, SumScale
<1>7. GfSum(t, size) = Plus(GfSum(f, size), GfSum(h, size))
  BY <1>1, <1>2, <1>4, SumPlus
<1> QED BY <1>5, <1>6, <1>7

\* The row x * b
LEMMA RowTimesScale ==
    ASSUME NEW size \in Nat, NEW b, NEW q, NEW g, NEW x \in Gf,
           Terms(b, size), Terms(g, size),
           \A c \in 0..(size - 1) : q[c] = gf_mul(x, b[c])
    PROVE  RowTimes(q, g, size) = gf_mul(x, RowTimes(b, g, size))
<1> DEFINE z == [c \in 0..(size - 1) |-> Zero]
           f == [c \in 0..(size - 1) |-> gf_mul(z[c], g[c])]
<1>1. \A c \in 0..(size - 1) : z[c] = Zero /\ f[c] = gf_mul(Zero, g[c])
  OBVIOUS
<1> HIDE DEF z, f
<1>2. Terms(z, size) /\ \A c \in 0..(size - 1) : f[c] = Zero
  BY <1>1, PlusLaws, MulLaws DEF Terms
<1>3. \A c \in 0..(size - 1) : f[c] = gf_mul(Zero, f[c])
  BY <1>2, MulLaws
<1>4. Terms(f, size)
  BY <1>2, PlusLaws DEF Terms
<1>5. GfSum(f, size) = gf_mul(Zero, GfSum(f, size))
  BY <1>3, <1>4, SumScale, PlusLaws
<1>6. RowTimes(z, g, size) = Zero
  BY <1>5, MulLaws DEF RowTimes, f
<1>7. \A c \in 0..(size - 1) : q[c] = Plus(z[c], gf_mul(x, b[c]))
  BY <1>1, PlusLaws
<1>8. RowTimes(q, g, size) = Plus(RowTimes(z, g, size), gf_mul(x, RowTimes(b, g, size)))
  BY <1>2, <1>7, RowTimesLinear
<1> QED BY <1>6, <1>8, PlusLaws

\* Rows a and b, and columns g and h, that differ at place p only
Differ(size, p, a, b, g, h) ==
    /\ Terms(a, size) /\ Terms(b, size) /\ Terms(g, size) /\ Terms(h, size)
    /\ \A c \in 0..(size - 1) : c # p => a[c] = b[c] /\ g[c] = h[c]

LEMMA RowTimesDiffer ==
    ASSUME NEW size \in Nat, NEW a, NEW b, NEW g, NEW h, NEW p \in 0..(size - 1),
           Differ(size, p, a, b, g, h)
    PROVE  Plus(RowTimes(a, g, size), RowTimes(b, h, size))
              = Plus(gf_mul(a[p], g[p]), gf_mul(b[p], h[p]))
<1> DEFINE e == [c \in 0..(size - 1) |-> gf_mul(a[c], g[c])]
           f == [c \in 0..(size - 1) |-> gf_mul(b[c], h[c])]
<1>1. Terms(e, size) /\ Terms(f, size)
  BY RowTerms DEF Differ
<1>2. \A c \in 0..(size - 1) : c # p => e[c] = f[c]
  BY DEF Differ
<1>3. e[p] = gf_mul(a[p], g[p]) /\ f[p] = gf_mul(b[p], h[p])
  OBVIOUS
<1>4. RowTimes(a, g, size) = GfSum(e, size) /\ RowTimes(b, h, size) = GfSum(f, size)
  BY DEF RowTimes
<1> HIDE DEF e, f
<1> QED BY <1>1, <1>2, <1>3, <1>4, SumDiffer

\* The row of the pivot makes what was sent there from what came there.
LEMMA PivotTimes ==
    ASSUME k \in Nat, NEW row \in [0..(k - 1) -> Gf], NEW p \in 0..(k - 1), row[p] # Zero,
           NEW g, NEW h, Terms(g, k), Terms(h, k),
           \A c \in 0..(k - 1) : c # p => g[c] = h[c],
           RowTimes(row, g, k) = h[p]
    PROVE  /\ PivotRow(row, p) \in [0..(k - 1) -> Gf]
           /\ RowTimes(PivotRow(row, p), h, k) = g[p]
<1> DEFINE u == [c \in 0..(k - 1) |-> IF c = p THEN One ELSE row[c]]
           v == inverse[row[p]]
           d == row[p]
           q == PivotRow(row, p)
           gp == g[p]
           hp == h[p]
<1>1. Terms(u, k) /\ Terms(row, k)
  BY PlusLaws DEF Terms
<1>2. v \in Gf /\ d \in Gf /\ gf_mul(v, d) = One
  BY InverseLaws
<1>3. q = [c \in 0..(k - 1) |-> gf_mul(v, u[c])]
  BY DEF PivotRow
<1>4. (\A c \in 0..(k - 1) : c # p => u[c] = row[c]) /\ u[p] = One
  OBVIOUS
<1> HIDE DEF u, v, q
<1>5. q \in [0..(k - 1) -> Gf]
  BY <1>1, <1>2, <1>3, MulLaws DEF Terms
<1>6. RowTimes(q, h, k) = gf_mul(v, RowTimes(u, h, k))
  <2>1. \A c \in 0..(k - 1) : q[c] = gf_mul(v, u[c])
    BY <1>3
  <2> QED BY <1>1, <1>2, <2>1, RowTimesScale
<1>7. Plus(RowTimes(u, h, k), RowTimes(row, g, k)) = Plus(gf_mul(u[p], h[p]), gf_mul(row[p], g[p]))
  <2>1. Differ(k, p, u, row, h, g)
    BY <1>1, <1>4 DEF Differ
  <2> QED BY <2>1, RowTimesDiffer
<1>8. gp \in Gf /\ hp \in Gf /\ RowTimes(u, h, k) \in Gf
  BY <1>1, RowTerms DEF Terms
<1>9. Plus(RowTimes(u, h, k), hp) = Plus(hp, gf_mul(d, gp))
  BY <1>4, <1>7, <1>8, MulLaws
<1> DEFINE U == RowTimes(u, h, k)
           dg == gf_mul(d, gp)
<1> HIDE DEF U, dg, d, gp, hp
<1>10. \A x, y, z : Plus(x, y) = Plus(y, z) => x = z
  BY DEF Plus
<1>11. U = dg
  BY <1>9, <1>10 DEF U, dg
<1>12. gf_mul(v, gf_mul(d, gp)) = gf_mul(gf_mul(v, d), gp)
  BY <1>2, <1>8, MulLaws
<1>13. gf_mul(v, gf_mul(d, gp)) = gp
  BY <1>2, <1>8, <1>12, MulLaws
<1> QED BY <1>5, <1>6, <1>11, <1>13 DEF U, dg, q, gp

\* Another row makes what it made.
LEMMA EliminatedTimes ==
    ASSUME k \in Nat, NEW row \in [0..(k - 1) -> Gf], NEW pivot \in [0..(k - 1) -> Gf],
           NEW p \in 0..(k - 1),
           NEW g, NEW h, Terms(g, k), Terms(h, k),
           \A c \in 0..(k - 1) : c # p => g[c] = h[c],
           RowTimes(pivot, h, k) = g[p]
    PROVE  /\ Eliminated(row, pivot, p) \in [0..(k - 1) -> Gf]
           /\ RowTimes(Eliminated(row, pivot, p), h, k) = RowTimes(row, g, k)
<1> DEFINE u == [c \in 0..(k - 1) |-> IF c = p THEN Zero ELSE row[c]]
           d == row[p]
           q == Eliminated(row, pivot, p)
           gp == g[p]
<1>1. Terms(u, k) /\ Terms(row, k) /\ Terms(pivot, k)
  BY PlusLaws DEF Terms
<1>2. d \in Gf /\ gp \in Gf
  BY DEF Terms
<1>3. q = [c \in 0..(k - 1) |-> Plus(u[c], gf_mul(d, pivot[c]))]
  BY DEF Eliminated
<1>4. (\A c \in 0..(k - 1) : c # p => u[c] = row[c]) /\ u[p] = Zero
  OBVIOUS
<1> HIDE DEF u, q
<1>5. q \in [0..(k - 1) -> Gf]
  <2>1. \A c \in 0..(k - 1) : u[c] \in Gf /\ gf_mul(d, pivot[c]) \in Gf
    BY <1>1, <1>2, MulLaws DEF Terms
  <2> HIDE DEF d
  <2> QED BY <1>3, <2>1, PlusLaws
<1>6. RowTimes(q, h, k) = Plus(RowTimes(u, h, k), gf_mul(d, RowTimes(pivot, h, k)))
  <2>1. \A c \in 0..(k - 1) : q[c] = Plus(u[c], gf_mul(d, pivot[c]))
    BY <1>3
  <2> HIDE DEF d
  <2> QED BY <1>1, <1>2, <2>1, RowTimesLinear
<1>7. Plus(RowTimes(u, h, k), RowTimes(row, g, k)) = Plus(gf_mul(u[p], h[p]), gf_mul(row[p], g[p]))
  <2>1. Differ(k, p, u, row, h, g)
    BY <1>1, <1>4 DEF Differ
  <2> QED BY <2>1, RowTimesDiffer
<1>8. gf_mul(u[p], h[p]) = Zero
  BY <1>4, MulLaws
<1> DEFINE U == RowTimes(u, h, k)
           R == RowTimes(row, g, k)
           dg == gf_mul(d, gp)
<1>9. Plus(U, R) = dg
  BY <1>7, <1>8, PlusLaws
<1>10. RowTimes(q, h, k) = Plus(U, dg)
  BY <1>6
<1> HIDE DEF U, R, dg
<1>11. \A x, y, z : Plus(x, y) = z => Plus(x, z) = y
  BY DEF Plus
<1> QED BY <1>5, <1>9, <1>10, <1>11 DEF q, R

-------------------------------------------------------------------------------
(***************************************************************************)
(* The invariant of rs_decode                                              *)
(***************************************************************************)
\* The matrix is fec_new's, and the word is on a polynomial.
WordInv ==
    /\ k \in Nat \ {0} /\ n \in k..(GF_SIZE + 1)
    /\ enc_matrix = EncMatrix(k, n)
    /\ \E f \in Poly(k) : \A r \in 0..(n - 1) : word[r] = f[r]

\* Where column j of the half inverted matrix takes its package from, and
\* which package row j makes
From(j) == IF j < i THEN index[j] ELSE j
To(j) == IF j < i THEN j ELSE index[j]

Taken(f) == [j \in 0..(k - 1) |-> f[From(j)]]

\* HalfInverted for every word of the code, not only for this one: the matrix
\* is then regular, and its next pivot is on the diagonal.
InvertInv ==
    /\ i \in 0..k
    /\ matrix \in [0..(k - 1) -> [0..(k - 1) -> Gf]]
    /\ ipiv = [j \in 0..(k - 1) |-> IF j < i THEN 1 ELSE 0]
    /\ indxr \in [0..(k - 1) -> Nat] /\ indxc \in [0..(k - 1) -> Nat]
    /\ \A col \in 0..(i - 1) : indxr[col] = col /\ indxc[col] = col
    /\ \A f \in Poly(k) : \A row \in 0..(k - 1) :
          RowTimes(matrix[row], Taken(f), k) = f[To(row)]

\* The packages that came, once they are in their places
LEMMA InPlaceFacts ==
    ASSUME ShuffleInv, WordInv, pc = "invert" \/ (pc = "shuffle" /\ i = k)
    PROVE  /\ k \in Nat \ {0} /\ n \in Nat /\ k <= n /\ k <= GF_SIZE + 1
           /\ \A j \in 0..(k - 1) :
                 /\ j \in Rows /\ j \in 0..(n - 1)
                 /\ index[j] \in Rows /\ index[j] \in 0..(n - 1)
                 /\ index[j] >= k \/ index[j] = j
                 /\ data[j] = word[index[j]]
           /\ \A a, b \in 0..(k - 1) : index[a] = index[b] => a = b
<1>1. k \in Nat \ {0} /\ n \in Nat /\ k <= n /\ k <= GF_SIZE + 1 /\ GF_SIZE \in Nat
      /\ \A j \in 0..(n - 1) : j \in Rows
  BY SizeFacts, SMT DEF WordInv, Rows
<1>2. PICK count \in k..n :
        /\ index \in [0..(count - 1) -> 0..(n - 1)]
        /\ \A a, b \in 0..(count - 1) : index[a] = index[b] => a = b
        /\ \A j \in 0..(count - 1) : data[j] = word[index[j]]
  BY DEF ShuffleInv, CameInv
<1>3. \A j \in 0..(k - 1) : j \in 0..(count - 1) /\ j \in 0..(n - 1)
  BY <1>1, SMT
<1>4. \A j \in 0..(k - 1) : index[j] >= k \/ index[j] = j
  BY DEF ShuffleInv, Settled
<1> QED BY <1>1, <1>2, <1>3, <1>4

LEMMA TakenTerms ==
    ASSUME ShuffleInv, WordInv, pc = "invert", NEW f \in Poly(k)
    PROVE  /\ Terms(Taken(f), k)
           /\ \A j \in 0..(k - 1) : From(j) \in Rows /\ To(j) \in Rows /\ f[From(j)] \in Gf
<1>1. k \in Nat /\ \A j \in 0..(k - 1) : j \in Rows /\ index[j] \in Rows
  BY InPlaceFacts
<1>2. f \in [Rows -> Gf]
  BY <1>1, PolyLaws
<1>3. \A j \in 0..(k - 1) : From(j) \in Rows /\ To(j) \in Rows
  BY <1>1 DEF From, To
<1> QED BY <1>2, <1>3 DEF Terms, Taken

\* A polynomial that vanishes at all the places the columns take from but one
LEMMA OneColumn ==
    ASSUME ShuffleInv, WordInv, pc = "invert", i \in 0..(k - 1)
    PROVE  \E f \in Poly(k) : /\ \A j \in 0..(k - 1) : j # i => f[From(j)] = Zero
                              /\ f[index[i]] # Zero
<1> DEFINE places == (0..(k - 1)) \ {i}
           R == {From(j) : j \in places}
           from == [j \in places |-> From(j)]
<1>1. k \in Nat /\ k - 1 \in Nat /\ (k - 1) + 1 = k /\ i \in 0..(k - 1)
  BY InPlaceFacts, SMT
<1>2. IsFiniteSet(places) /\ Cardinality(places) = k - 1
  <2>1. IsFiniteSet(0..(k - 1)) /\ Cardinality(0..(k - 1)) = k
    BY <1>1, FS_Interval, SMT
  <2>2. IsFiniteSet(places) /\ Cardinality(places) = Cardinality(0..(k - 1)) - 1
    BY <1>1, <2>1, FS_RemoveElement
  <2> QED BY <2>1, <2>2
<1>3. ASSUME NEW a \in places, NEW b \in places, From(a) = From(b) PROVE a = b
  <2>1. a \in 0..(k - 1) /\ b \in 0..(k - 1)
    OBVIOUS
  <2>2. /\ index[a] >= k \/ index[a] = a
        /\ index[b] >= k \/ index[b] = b
        /\ index[a] = index[b] => a = b
    BY <2>1, InPlaceFacts
  <2>3. a < k /\ b < k /\ ~(a >= k) /\ ~(b >= k)
    BY <1>1, <2>1, SMT
  <2> QED BY <1>3, <2>2, <2>3, SMT DEF From
<1>4. IsFiniteSet(R) /\ Cardinality(R) = k - 1
  <2>1. from \in Bijection(places, R)
    BY <1>3 DEF Bijection, Injection, Surjection, IsInjective
  <2> HIDE DEF places, R, from
  <2> QED BY <1>2, <2>1, FS_Bijection DEF ExistsBijection
<1>5. R \in SUBSET Rows
  <2>1. \A j \in places : From(j) \in Rows
    BY InPlaceFacts DEF From
  <2> QED BY <2>1
<1>6. index[i] \in Rows /\ index[i] \notin R
  <2>1. ASSUME NEW j \in places PROVE index[i] # From(j)
    <3>1. j \in 0..(k - 1) /\ j # i
      OBVIOUS
    <3>2. index[i] # index[j] /\ (index[i] >= k \/ index[i] = i) /\ ~(j >= k)
      BY <1>1, <3>1, InPlaceFacts, SMT
    <3> QED BY <3>1, <3>2 DEF From
  <2> QED BY <1>1, <2>1, InPlaceFacts
<1> HIDE DEF R
<1>7. PICK f \in Monic(k - 1) : \A r \in Rows : f[r] = Zero <=> r \in R
  BY <1>1, <1>4, <1>5, Vanishing
<1>8. f \in Poly(k)
  BY <1>1, TowerBelow, PlusLaws DEF Monic
<1> QED BY <1>5, <1>6, <1>7, <1>8 DEF R

\* The pivot is on the diagonal.
LEMMA OnDiagonal ==
    ASSUME ShuffleInv, WordInv, pc = "invert", InvertInv, i < k
    PROVE  /\ i \in 0..(k - 1) /\ matrix[i][i] # Zero
           /\ \A row, ix \in 0..(k - 1) : IsPivot(i, row, ix) <=> row = i /\ ix = i
<1>1. k \in Nat /\ i \in 0..(k - 1) /\ ~(i < i)
  BY InPlaceFacts, SMT DEF InvertInv
<1>2. PICK f \in Poly(k) : /\ \A j \in 0..(k - 1) : j # i => f[From(j)] = Zero
                           /\ f[index[i]] # Zero
  BY <1>1, OneColumn
<1>3. ASSUME matrix[i][i] = Zero PROVE FALSE
  <2> DEFINE row == matrix[i]
             g == Taken(f)
             terms == [j \in 0..(k - 1) |-> gf_mul(row[j], g[j])]
  <2>1. RowTimes(row, g, k) = f[index[i]]
    BY <1>1 DEF InvertInv, To
  <2>2. ASSUME NEW j \in 0..(k - 1) PROVE row[j] = Zero \/ g[j] = Zero
    BY <1>2, <1>3 DEF Taken
  <2> HIDE DEF row, g
  <2>3. \A j \in 0..(k - 1) : terms[j] = Zero
    BY <2>2, MulLaws
  <2> HIDE DEF terms
  <2>4. GfSum(terms, k) = Zero
    BY <1>1, <2>3, SumSingle, PlusLaws
  <2> QED BY <1>2, <2>1, <2>4 DEF RowTimes, terms
<1>4. ipiv[i] # 1
  BY <1>1 DEF InvertInv
<1> QED BY <1>1, <1>3, <1>4 DEF IsPivot

\* Swapping a place with itself changes nothing.
LEMMA SwappedSame ==
    ASSUME NEW S, NEW T, NEW f \in [S -> T], NEW p
    PROVE  Swapped(f, p, p) = f
BY DEF Swapped

LEMMA InitWord ==
    ASSUME Init
    PROVE  WordInv
<1>1. PICK c \in Codes : k = c[1] /\ n = c[2]
  BY DEF Init
<1>2. k \in Nat \ {0} /\ n \in k..(GF_SIZE + 1) /\ k <= GF_SIZE + 1
  <2>1. k \in Nat \ {0} /\ n \in k..(GF_SIZE + 1)
    BY <1>1, CodeAssumption
  <2> QED BY <2>1, SizeFacts, SMT
<1>3. PICK src \in [0..(k - 1) -> Bytes] : word = Encoded(src, enc_matrix, k, n)
  BY DEF Init
<1>4. \A m \in 0..(k - 1) : src[m] \in Gf
  BY CodeAssumption
<1>5. PICK f \in Poly(k) : \A m \in 0..(k - 1) : f[m] = src[m]
  BY <1>2, <1>4, Interpolation
<1>6. ASSUME NEW r \in 0..(n - 1) PROVE word[r] = f[r]
  <2>1. CASE r < k
    <3>1. r \in 0..(k - 1)
      BY <1>2, <2>1, SMT
    <3> QED BY <1>3, <1>5, <2>1, <3>1 DEF Encoded
  <2>2. CASE ~(r < k)
    <3>1. word[r] = RowTimes(EncMatrix(k, n)[r], src, k)
      BY <1>3, <2>2 DEF Encoded, Init
    <3>2. \A m \in 0..(k - 1) : src[m] = f[m]
      BY <1>5
    <3> QED BY <1>2, <3>1, <3>2, EncLaws
  <2> QED BY <2>1, <2>2
<1> QED BY <1>2, <1>6 DEF WordInv, Init

LEMMA BuildInvert ==
    ASSUME ShuffleInv, WordInv, Build
    PROVE  InvertInv' /\ pc' = "invert"
<1>1. /\ pc = "shuffle" /\ i = k /\ i' = 0 /\ pc' = "invert"
      /\ matrix' = [j \in 0..(k - 1) |-> DecodeRow(j)]
      /\ ipiv' = [j \in 0..(k - 1) |-> 0]
      /\ indxr' = [j \in 0..(k - 1) |-> 0]
      /\ indxc' = [j \in 0..(k - 1) |-> 0]
      /\ k' = k /\ n' = n /\ index' = index
  BY DEF Build
<1>2. k \in Nat \ {0} /\ n \in k..(GF_SIZE + 1) /\ enc_matrix = EncMatrix(k, n)
  BY DEF WordInv
<1>3. ASSUME NEW j \in 0..(k - 1)
      PROVE  /\ DecodeRow(j) \in [0..(k - 1) -> Gf]
             /\ \A f \in Poly(k) : \A src : (\A m \in 0..(k - 1) : src[m] = f[m])
                   => RowTimes(DecodeRow(j), src, k) = f[index[j]]
  <2>1. index[j] \in 0..(n - 1) /\ (index[j] >= k \/ index[j] = j) /\ ~(j >= k)
    BY <1>1, <1>2, InPlaceFacts, SMT
  <2>2. CASE index[j] < k
    <3>1. index[j] = j /\ DecodeRow(j) = Unit(j, k)
      BY <1>2, <2>1, <2>2, SMT DEF DecodeRow
    <3>2. Unit(j, k) \in [0..(k - 1) -> Gf]
      BY <1>2, PlusLaws DEF Unit
    <3>3. ASSUME NEW f \in Poly(k), NEW src, \A m \in 0..(k - 1) : src[m] = f[m]
          PROVE  RowTimes(Unit(j, k), src, k) = f[j]
      <4>1. j \in Rows
        BY <1>1, InPlaceFacts
      <4>2. src[j] \in Gf /\ src[j] = f[j]
        BY <1>2, <3>3, <4>1, PolyLaws
      <4> QED BY <1>2, <4>2, UnitTimes
    <3> QED BY <3>1, <3>2, <3>3
  <2>3. CASE ~(index[j] < k)
    <3>1. DecodeRow(j) = EncMatrix(k, n)[index[j]]
      BY <1>2, <2>3 DEF DecodeRow
    <3> DEFINE r == index[j]
    <3>2. r \in 0..(n - 1)
      BY <2>1
    <3> HIDE DEF r
    <3>3. /\ EncMatrix(k, n)[r] \in [0..(k - 1) -> Gf]
          /\ \A f \in Poly(k) : \A src : (\A m \in 0..(k - 1) : src[m] = f[m])
                => RowTimes(EncMatrix(k, n)[r], src, k) = f[r]
      BY <1>2, <3>2, EncLaws
    <3> QED BY <3>1, <3>3 DEF r
  <2> QED BY <2>2, <2>3
<1>4. matrix' \in [0..(k - 1) -> [0..(k - 1) -> Gf]]
      /\ \A row \in 0..(k - 1) : matrix'[row] = DecodeRow(row)
  BY <1>1, <1>3
<1>5. \A j \in 0..(k - 1) : ~(j < 0)
  BY SMT
<1>6. ASSUME NEW f \in Poly(k), NEW row \in 0..(k - 1)
      PROVE  RowTimes(matrix'[row], Taken(f)', k) = f[To(row)']
  <2>1. \A m \in 0..(k - 1) : Taken(f)'[m] = f[m]
    BY <1>1, <1>5 DEF Taken, From
  <2>2. To(row)' = index[row]
    BY <1>1, <1>5 DEF To
  <2> QED BY <1>3, <1>4, <2>1, <2>2
<1>7. /\ i' \in 0..k' /\ ipiv' = [j \in 0..(k' - 1) |-> IF j < i' THEN 1 ELSE 0]
      /\ indxr' \in [0..(k' - 1) -> Nat] /\ indxc' \in [0..(k' - 1) -> Nat]
      /\ \A col \in 0..(i' - 1) : indxr'[col] = col /\ indxc'[col] = col
  <2>1. 0 \in 0..k /\ \A col \in 0..(0 - 1) : FALSE
    BY <1>2, SMT
  <2> QED BY <1>1, <1>5, <2>1
<1>8. Poly(k)' = Poly(k)
  BY <1>1 DEF Poly
<1>9. \A f \in Poly(k)' : \A row \in 0..(k' - 1) :
         RowTimes(matrix'[row], Taken(f)', k') = f[To(row)']
  BY <1>1, <1>6, <1>8
<1> QED BY <1>1, <1>4, <1>7, <1>9 DEF InvertInv

LEMMA PivotInvert ==
    ASSUME ShuffleInv, WordInv, InvertInv, Pivot
    PROVE  InvertInv' /\ pc' = "invert"
<1>1. pc = "invert" /\ i < k /\ k' = k /\ n' = n /\ index' = index
  BY DEF Pivot
<1>2. k \in Nat /\ i \in 0..(k - 1) /\ matrix[i][i] # Zero
      /\ \A row, ix \in 0..(k - 1) : IsPivot(i, row, ix) <=> row = i /\ ix = i
  BY <1>1, OnDiagonal, InPlaceFacts
<1> DEFINE m == Swapped(matrix, i, i)
           pivot == PivotRow(matrix[i], i)
<1>3. matrix \in [0..(k - 1) -> [0..(k - 1) -> Gf]] /\ m = matrix
  BY SwappedSame DEF InvertInv
<1>4. /\ matrix' = [row \in 0..(k - 1) |->
                      IF row = i THEN pivot ELSE Eliminated(matrix[row], pivot, i)]
      /\ ipiv' = [ipiv EXCEPT ![i] = @ + 1]
      /\ indxr' = [indxr EXCEPT ![i] = i]
      /\ indxc' = [indxc EXCEPT ![i] = i]
      /\ i' = i + 1
      /\ pc' = "invert"
  <2>1. \E row, ix \in 0..(k - 1) : IsPivot(i, row, ix)
    BY <1>2
  <2>2. PICK irow, icol \in 0..(k - 1) :
              /\ IsPivot(i, irow, icol)
              /\ matrix' = [row \in 0..(k - 1) |->
                        IF row = icol
                        THEN PivotRow(Swapped(matrix, irow, icol)[icol], icol)
                        ELSE Eliminated(Swapped(matrix, irow, icol)[row],
                                PivotRow(Swapped(matrix, irow, icol)[icol], icol), icol)]
              /\ ipiv' = [ipiv EXCEPT ![icol] = @ + 1]
              /\ indxr' = [indxr EXCEPT ![i] = irow]
              /\ indxc' = [indxc EXCEPT ![i] = icol]
              /\ i' = i + 1
              /\ UNCHANGED pc
    BY <2>1 DEF Pivot
  <2>3. irow = i /\ icol = i
    BY <1>2, <2>2
  <2> QED BY <1>1, <1>3, <2>2, <2>3
<1>5. \A j \in 0..(k - 1) : (j < i + 1 <=> j < i \/ j = i) /\ ~(i < i)
  BY <1>2, SMT
<1>6. \A f : /\ \A j \in 0..(k - 1) : j # i => Taken(f)[j] = Taken(f)'[j]
             /\ Taken(f)[i] = f[i] /\ Taken(f)'[i] = f[index[i]]
  BY <1>1, <1>2, <1>4, <1>5 DEF Taken, From
<1>7. \A j \in 0..(k - 1) : j # i => To(j)' = To(j)
  BY <1>1, <1>4, <1>5 DEF To
<1>8. To(i) = index[i] /\ \A j \in 0..(k - 1) : j = i => To(j)' = j
  BY <1>1, <1>2, <1>4, <1>5 DEF To
<1>9. ASSUME NEW f \in Poly(k)
      PROVE  /\ Terms(Taken(f), k) /\ Terms(Taken(f)', k)
             /\ pivot \in [0..(k - 1) -> Gf] /\ RowTimes(pivot, Taken(f)', k) = f[i]
  <2> DEFINE g == Taken(f)
             h == Taken(f)'
  <2>1. Terms(g, k)
    BY <1>1, TakenTerms
  <2>2. f[index[i]] \in Gf
    BY <1>1, <1>2, <1>8, InPlaceFacts, PolyLaws
  <2>3. Terms(h, k)
    BY <1>6, <2>1, <2>2 DEF Terms
  <2>4. matrix[i] \in [0..(k - 1) -> Gf] /\ RowTimes(matrix[i], g, k) = h[i]
        /\ g[i] = f[i] /\ \A c \in 0..(k - 1) : c # i => g[c] = h[c]
    <3>1. matrix[i] \in [0..(k - 1) -> Gf]
      BY <1>2, <1>3
    <3>2. RowTimes(matrix[i], g, k) = f[To(i)]
      BY <1>2 DEF InvertInv
    <3> HIDE DEF m, pivot
    <3> QED BY <1>6, <1>8, <3>1, <3>2
  <2> HIDE DEF g, h, pivot
  <2>5. /\ PivotRow(matrix[i], i) \in [0..(k - 1) -> Gf]
        /\ RowTimes(PivotRow(matrix[i], i), h, k) = g[i]
    BY <1>2, <2>1, <2>3, <2>4, PivotTimes
  <2> QED BY <2>1, <2>3, <2>4, <2>5 DEF g, h, pivot
<1>10. \E f : f \in Poly(k)
  <2>1. PICK f \in Poly(k) : \A r \in 0..(n - 1) : word[r] = f[r]
    BY DEF WordInv
  <2> QED BY <2>1
<1>11. pivot \in [0..(k - 1) -> Gf]
  BY <1>9, <1>10
<1> HIDE DEF pivot, m
<1>12. ASSUME NEW row \in 0..(k - 1), NEW f \in Poly(k)
       PROVE  matrix'[row] \in [0..(k - 1) -> Gf]
              /\ RowTimes(matrix'[row], Taken(f)', k) = f[To(row)']
  <2>1. CASE row = i
    <3>1. matrix'[row] = pivot /\ To(row)' = row
      BY <1>4, <1>8, <2>1
    <3>2. RowTimes(pivot, Taken(f)', k) = f[i]
      BY <1>9
    <3> QED BY <1>11, <2>1, <3>1, <3>2
  <2>2. CASE row # i
    <3> DEFINE g == Taken(f)
               h == Taken(f)'
               a == matrix[row]
    <3>1. matrix'[row] = Eliminated(a, pivot, i)
      BY <1>4, <2>2
    <3>2. a \in [0..(k - 1) -> Gf] /\ RowTimes(a, g, k) = f[To(row)]
      BY <1>3 DEF InvertInv
    <3>3. RowTimes(pivot, h, k) = g[i] /\ Terms(g, k) /\ Terms(h, k)
          /\ \A c \in 0..(k - 1) : c # i => g[c] = h[c]
      BY <1>6, <1>9
    <3> HIDE DEF g, h, a
    <3>4. /\ Eliminated(a, pivot, i) \in [0..(k - 1) -> Gf]
          /\ RowTimes(Eliminated(a, pivot, i), h, k) = RowTimes(a, g, k)
      BY <1>2, <1>11, <3>2, <3>3, EliminatedTimes
    <3> QED BY <1>7, <2>2, <3>1, <3>2, <3>4 DEF h
  <2> QED BY <2>1, <2>2
<1>13. matrix' \in [0..(k - 1) -> [0..(k - 1) -> Gf]]
  <2>1. DOMAIN matrix' = 0..(k - 1) /\ matrix' = [row \in 0..(k - 1) |-> matrix'[row]]
    BY <1>4
  <2> QED BY <1>10, <1>12, <2>1
<1>14. ipiv' = [j \in 0..(k - 1) |-> IF j < i' THEN 1 ELSE 0]
  <2>1. ipiv = [j \in 0..(k - 1) |-> IF j < i THEN 1 ELSE 0]
    BY DEF InvertInv
  <2>2. ipiv' = [j \in 0..(k - 1) |-> IF j = i THEN ipiv[i] + 1 ELSE ipiv[j]]
    BY <1>4, <2>1
  <2>3. ipiv[i] + 1 = 1 /\ \A j \in 0..(k - 1) : ipiv[j] = IF j < i THEN 1 ELSE 0
    BY <1>2, <1>5, <2>1
  <2> QED BY <1>4, <1>5, <2>2, <2>3
<1>15. /\ indxr' \in [0..(k - 1) -> Nat] /\ indxc' \in [0..(k - 1) -> Nat]
       /\ \A col \in 0..(i' - 1) : indxr'[col] = col /\ indxc'[col] = col
  <2>1. /\ indxr \in [0..(k - 1) -> Nat] /\ indxc \in [0..(k - 1) -> Nat]
        /\ \A col \in 0..(i - 1) : indxr[col] = col /\ indxc[col] = col
    BY DEF InvertInv
  <2>2. i \in Nat /\ i' - 1 = i /\ \A col \in 0..i : col \in 0..(k - 1) /\ (col # i => col \in 0..(i - 1))
    BY <1>2, <1>4, SMT
  <2> QED BY <1>2, <1>4, <2>1, <2>2
<1>16. i' \in 0..k
  BY <1>2, <1>4, SMT
<1>17. Poly(k)' = Poly(k)
  BY <1>1 DEF Poly
<1>18. \A f \in Poly(k)' : \A row \in 0..(k' - 1) :
         RowTimes(matrix'[row], Taken(f)', k') = f[To(row)']
  BY <1>1, <1>12, <1>17
<1> QED BY <1>1, <1>4, <1>13, <1>14, <1>15, <1>16, <1>18 DEF InvertInv

\* The swaps that invert_mat undoes changed nothing.
LEMMA UnswappedSame ==
    ASSUME k \in Nat, matrix \in [0..(k - 1) -> [0..(k - 1) -> Gf]],
           \A col \in 0..(k - 1) : indxr[col] = col /\ indxc[col] = col
    PROVE  Unswapped = matrix
<1> DEFINE IsAfter(a) == a = [col \in 0..k |->
                                IF col = k THEN matrix
                                ELSE [row \in 0..(k - 1) |->
                                        Swapped(a[col + 1][row], indxr[col], indxc[col])]]
           after == CHOOSE a : IsAfter(a)
           here == [col \in 0..k |-> matrix]
<1>1. Unswapped = after[0]
  BY DEF Unswapped
<1>2. ASSUME NEW col \in 0..(k - 1)
      PROVE  [row \in 0..(k - 1) |-> Swapped(matrix[row], indxr[col], indxc[col])] = matrix
  <2>1. \A row \in 0..(k - 1) : Swapped(matrix[row], indxr[col], indxc[col]) = matrix[row]
    <3> SUFFICES ASSUME NEW row \in 0..(k - 1)
                 PROVE  Swapped(matrix[row], indxr[col], indxc[col]) = matrix[row]
      OBVIOUS
    <3>1. matrix[row] \in [0..(k - 1) -> Gf] /\ indxr[col] = col /\ indxc[col] = col
      OBVIOUS
    <3> DEFINE f == matrix[row]
    <3>2. f \in [0..(k - 1) -> Gf]
      BY <3>1
    <3> HIDE DEF f
    <3>3. Swapped(f, col, col) = f
      BY <3>2, SwappedSame
    <3> QED BY <3>1, <3>3 DEF f
  <2> QED BY <2>1
<1>3. \A col \in 0..k : (col # k => col \in 0..(k - 1) /\ col + 1 \in 0..k)
  BY SMT
<1>4. IsAfter(here)
  <2>1. \A col \in 0..k : matrix = IF col = k THEN matrix
                                   ELSE [row \in 0..(k - 1) |->
                                           Swapped(here[col + 1][row], indxr[col], indxc[col])]
    <3> SUFFICES ASSUME NEW col \in 0..k, col # k
                 PROVE  matrix = [row \in 0..(k - 1) |->
                                    Swapped(here[col + 1][row], indxr[col], indxc[col])]
      OBVIOUS
    <3>1. here[col + 1] = matrix /\ col \in 0..(k - 1)
      BY <1>3
    <3> HIDE DEF here
    <3> QED BY <1>2, <3>1
  <2> QED BY <2>1
<1>5. IsAfter(after)
  <2> HIDE DEF IsAfter, here
  <2> QED BY <1>4, Zenon
<1> HIDE DEF after
<1> DEFINE T == {e \in Nat : e <= k => after[k - e] = matrix}
<1>6. 0 \in T
  <2>1. k - 0 = k /\ k \in 0..k
    BY SMT
  <2> QED BY <1>5, <2>1
<1>7. ASSUME NEW e \in T PROVE e + 1 \in T
  <2> DEFINE col == k - (e + 1)
  <2>1. e \in Nat /\ e + 1 \in Nat
        /\ (e + 1 <= k => e <= k /\ col \in 0..(k - 1) /\ col \in 0..k /\ col # k
                          /\ col + 1 = k - e)
    BY SMT
  <2> HIDE DEF col
  <2>2. ASSUME e + 1 <= k PROVE after[col] = matrix
    <3>1. after[col + 1] = matrix
      BY <2>1, <2>2
    <3>2. after[col] = [row \in 0..(k - 1) |->
                          Swapped(after[col + 1][row], indxr[col], indxc[col])]
      BY <1>5, <2>1, <2>2
    <3> QED BY <1>2, <2>1, <2>2, <3>1, <3>2
  <2> QED BY <2>1, <2>2 DEF col
<1> HIDE DEF T
<1>8. T \in SUBSET Nat
  BY DEF T
<1>9. \A e \in Nat : e \in T
  BY <1>6, <1>7, <1>8, Induct, Zenon
<1>10. after[k - k] = matrix
  BY <1>9 DEF T
<1> QED BY <1>1, <1>10

LEMMA DecodeRecovers ==
    ASSUME ShuffleInv, WordInv, InvertInv, Decode
    PROVE  Recovered' /\ pc' = "done"
<1>1. pc = "invert" /\ i = k /\ pc' = "done" /\ k' = k /\ word' = word
      /\ data' = Restored(Unswapped)
  BY DEF Decode
<1>2. k \in Nat /\ n \in Nat /\ k <= n
      /\ \A j \in 0..(k - 1) : /\ j \in 0..(n - 1) /\ index[j] \in 0..(n - 1)
                               /\ index[j] >= k \/ index[j] = j
                               /\ data[j] = word[index[j]]
  BY <1>1, InPlaceFacts
<1>3. Unswapped = matrix
  BY <1>1, <1>2, UnswappedSame DEF InvertInv
<1>4. PICK f \in Poly(k) : \A r \in 0..(n - 1) : word[r] = f[r]
  BY DEF WordInv
<1>5. ASSUME NEW j \in 0..(k - 1) PROVE data'[j] = word[j]
  <2>1. j \in 0..(n - 1) /\ j < k /\ ~(j >= k)
    BY <1>2, SMT
  <2>2. CASE index[j] >= k
    <3>1. data'[j] = RowTimes(matrix[j], data, k)
      BY <1>1, <1>3, <2>1, <2>2 DEF Restored
    <3>2. \A c \in 0..(k - 1) : data[c] = Taken(f)[c]
      <4>1. \A c \in 0..(k - 1) : c < i
        BY <1>1, <1>2, SMT
      <4> QED BY <1>2, <1>4, <4>1 DEF Taken, From
    <3>3. RowTimes(matrix[j], data, k) = RowTimes(matrix[j], Taken(f), k)
      <4>1. [c \in 0..(k - 1) |-> gf_mul(matrix[j][c], data[c])]
              = [c \in 0..(k - 1) |-> gf_mul(matrix[j][c], Taken(f)[c])]
        BY <3>2
      <4> QED BY <4>1 DEF RowTimes
    <3>4. RowTimes(matrix[j], Taken(f), k) = f[j]
      BY <1>1, <2>1 DEF InvertInv, To
    <3> QED BY <1>4, <2>1, <3>1, <3>3, <3>4
  <2>3. CASE ~(index[j] >= k)
    <3>1. data'[j] = data[j]
      BY <1>1, <2>1, <2>3 DEF Restored
    <3> QED BY <1>2, <2>3, <3>1
  <2> QED BY <2>2, <2>3
<1> QED BY <1>1, <1>5 DEF Recovered

DecodeInv ==
    /\ ShuffleInv
    /\ WordInv
    /\ pc = "invert" => InvertInv
    /\ OnlyTooFewFail
    /\ Recovered

LEMMA InitDecode ==
    ASSUME Init
    PROVE  DecodeInv
BY InitShuffle, InitWord DEF DecodeInv, Init, OnlyTooFewFail, Recovered

\* The part that no step changes
LEMMA WordStays ==
    ASSUME WordInv, UNCHANGED <<k, n, enc_matrix, word>>
    PROVE  WordInv'
<1>1. Poly(k)' = Poly(k)
  BY DEF Poly
<1> QED BY <1>1 DEF WordInv

LEMMA StepDecode ==
    ASSUME DecodeInv, [Next]_vars
    PROVE  DecodeInv'
<1> USE DEF DecodeInv
<1>1. ShuffleInv'
  BY StepShuffle
<1>2. UNCHANGED <<k, n, enc_matrix, word>>
  BY DEF Next, Receive, ShuffleNext, ShuffleSwap, Build, Pivot, Decode, vars
<1>3. WordInv'
  BY <1>2, WordStays
<1>4. ASSUME NEW came \in SUBSET (0..(n - 1)), Receive(came)
      PROVE  DecodeInv'
  <2> DEFINE count == Cardinality(came)
  <2>1. /\ index' = [j \in 0..(count - 1) |-> Nth(came, j)]
        /\ pc' = IF count < k THEN "failed" ELSE "shuffle"
        /\ k' = k
    BY <1>4 DEF Receive
  <2>2. IsFiniteSet(came) /\ count \in Nat
    <3>1. IsFiniteSet(0..(n - 1))
      <4>1. n - 1 \in Int /\ 0 \in Int
        BY DEF ShuffleInv, CodeInv
      <4> QED BY <4>1, FS_Interval
    <3> QED BY <3>1, FS_Subset, FS_CardinalityType
  <2> HIDE DEF count
  <2>3. Cardinality(DOMAIN index') = count
    <3>1. DOMAIN index' = 0..(count - 1)
      BY <2>1
    <3>2. Cardinality(0..(count - 1)) = count
      BY <2>2, FS_Interval, SMT
    <3> QED BY <3>1, <3>2
  <2> QED BY <1>1, <1>3, <2>1, <2>3 DEF OnlyTooFewFail, Recovered
<1>5. CASE ShuffleNext
  BY <1>1, <1>3, <1>5 DEF ShuffleNext, OnlyTooFewFail, Recovered
<1>6. CASE ShuffleSwap
  <2>1. pc = "shuffle" /\ i \in 0..(k - 1) /\ ~Settled(i)
    BY <1>6 DEF ShuffleSwap, ShuffleInv, CodeInv
  <2>2. index[index[i]] # index[i]
    BY <2>1, NoConflict DEF ShuffleInv
  <2>3. pc' = "shuffle"
    BY <1>6, <2>1, <2>2 DEF ShuffleSwap
  <2> QED BY <1>1, <1>3, <2>3 DEF OnlyTooFewFail, Recovered
<1>7. CASE Build
  <2>1. InvertInv' /\ pc' = "invert"
    BY <1>7, BuildInvert
  <2> QED BY <1>1, <1>3, <2>1 DEF OnlyTooFewFail, Recovered
<1>8. CASE Pivot
  <2>1. pc = "invert"
    BY <1>8 DEF Pivot
  <2>2. InvertInv' /\ pc' = "invert"
    BY <1>8, <2>1, PivotInvert
  <2> QED BY <1>1, <1>3, <2>2 DEF OnlyTooFewFail, Recovered
<1>9. CASE Decode
  <2>1. pc = "invert"
    BY <1>9 DEF Decode
  <2>2. Recovered' /\ pc' = "done"
    BY <1>9, <2>1, DecodeRecovers
  <2> QED BY <1>1, <1>3, <2>2 DEF OnlyTooFewFail
<1>10. CASE UNCHANGED vars
  <2>1. pc' = pc /\ i' = i /\ index' = index /\ data' = data /\ matrix' = matrix
        /\ ipiv' = ipiv /\ indxr' = indxr /\ indxc' = indxc
    BY <1>10 DEF vars, invVars
  <2>2. pc = "invert" => InvertInv'
    <3>1. Poly(k)' = Poly(k)
      BY <1>2 DEF Poly
    <3>2. \A f : Taken(f)' = Taken(f)
      BY <1>2, <2>1 DEF Taken, From
    <3>3. \A j : To(j)' = To(j)
      BY <2>1 DEF To
    <3> QED BY <1>2, <2>1, <3>1, <3>2, <3>3 DEF InvertInv
  <2> QED BY <1>1, <1>2, <1>3, <2>1, <2>2 DEF OnlyTooFewFail, Recovered
<1> QED BY <1>4, <1>5, <1>6, <1>7, <1>8, <1>9, <1>10 DEF Next

\* The inductive invariant of fec_encode and fec_decode: shuffle's, a word that
\* is the values of one polynomial, and a matrix half inverted for all
\* polynomials (fec.c:462-544, 771-787, 842-899).
THEOREM DecodeInvariant == Spec => []DecodeInv
<1>1. Init => DecodeInv
  BY InitDecode
<1>2. DecodeInv /\ [Next]_vars => DecodeInv'
  BY StepDecode
<1> QED BY <1>1, <1>2, PTL DEF Spec

\* Between two columns, the half inverted matrix makes of the packages taken
\* the packages promised, and every pivot so far was on the diagonal
\* (invert_mat, fec.c:462-544).
THEOREM HalfwayInverted == Spec => []HalfInverted
<1>1. DecodeInv => HalfInverted
  <2> SUFFICES ASSUME DecodeInv, pc = "invert" PROVE HalfInverted
    BY DEF HalfInverted
  <2>1. ShuffleInv /\ WordInv /\ InvertInv
    BY DEF DecodeInv
  <2>2. /\ \A j \in 0..(k - 1) : /\ j \in 0..(n - 1) /\ index[j] \in 0..(n - 1)
                                 /\ data[j] = word[index[j]]
    BY <2>1, InPlaceFacts
  <2>3. PICK f \in Poly(k) : \A r \in 0..(n - 1) : word[r] = f[r]
    BY <2>1 DEF WordInv
  <2>4. Taken(f) = [j \in 0..(k - 1) |-> IF j < i THEN data[j] ELSE word[j]]
    BY <2>2, <2>3 DEF Taken, From
  <2>5. ASSUME NEW row \in 0..(k - 1)
        PROVE  RowTimes(matrix[row], Taken(f), k) = IF row < i THEN word[row] ELSE data[row]
    <3>1. RowTimes(matrix[row], Taken(f), k) = f[To(row)]
      BY <2>1 DEF InvertInv
    <3>2. f[To(row)] = IF row < i THEN word[row] ELSE data[row]
      BY <2>2, <2>3 DEF To
    <3> QED BY <3>1, <3>2
  <2>6. \A col \in 0..(i - 1) : indxr[col] = col /\ indxc[col] = col
    BY <2>1 DEF InvertInv
  <2> QED BY <2>4, <2>5, <2>6 DEF HalfInverted
<1> QED BY <1>1, DecodeInvariant, PTL

\* Any k packages are enough: no decode matrix is singular, shuffle meets no
\* conflict (fec.c:829-832, 861-866).
THEOREM AnyPackagesAreEnough == Spec => []OnlyTooFewFail
<1>1. DecodeInv => OnlyTooFewFail
  BY DEF DecodeInv
<1> QED BY <1>1, DecodeInvariant, PTL

\* What fec_decode leaves in the first k places is what fec_encode was given
\* (fec.c:842-899).
THEOREM DecodeRestores == Spec => []Recovered
<1>1. DecodeInv => Recovered
  BY DEF DecodeInv
<1> QED BY <1>1, DecodeInvariant, PTL

-------------------------------------------------------------------------------
(***************************************************************************)
(* The reference: Lagrange's polynomials                                   *)
(***************************************************************************)
LagrangeFactor(j, m, l) == gf_mul(Plus(Point(j), Point(l)), inverse[Plus(Point(m), Point(l))])

\* The products of the first factors, at Point(j)
IsLagrange(q, j, m) ==
    q = [l \in 0..k |->
            IF l = 0 THEN One
            ELSE IF l - 1 = m THEN q[l - 1]
            ELSE gf_mul(q[l - 1], LagrangeFactor(j, m, l - 1))]

LagrangeProducts(j, m) == CHOOSE q : IsLagrange(q, j, m)

LEMMA FactorLaws ==
    ASSUME k <= GF_SIZE + 1, k \in Nat, NEW j \in Rows, NEW m \in 0..(k - 1), NEW l \in 0..(k - 1), l # m
    PROVE  /\ LagrangeFactor(j, m, l) \in Gf
           /\ inverse[Plus(Point(m), Point(l))] \in Gf
           /\ j = m => LagrangeFactor(j, m, l) = One
           /\ j = l => LagrangeFactor(j, m, l) = Zero
<1> DEFINE d == Plus(Point(m), Point(l))
           e == Plus(Point(j), Point(l))
<1>1. m \in Rows /\ l \in Rows
  BY SizeFacts, SMT DEF Rows
<1>2. d \in Gf \ {Zero} /\ e \in Gf /\ (j = l => e = Zero) /\ (j = m => e = d)
  BY <1>1, PointLaws, PlusLaws
<1>3. LagrangeFactor(j, m, l) = gf_mul(e, inverse[d])
  BY DEF LagrangeFactor
<1> HIDE DEF d, e
<1>4. inverse[d] \in Gf /\ gf_mul(d, inverse[d]) = One
  BY <1>2, InverseLaws
<1>5. gf_mul(e, inverse[d]) \in Gf /\ gf_mul(Zero, inverse[d]) = Zero
  BY <1>2, <1>4, MulLaws
<1>6. /\ LagrangeFactor(j, m, l) \in Gf
      /\ j = m => LagrangeFactor(j, m, l) = One
      /\ j = l => LagrangeFactor(j, m, l) = Zero
  BY <1>2, <1>3, <1>4, <1>5
<1> QED BY <1>4, <1>6 DEF d

LEMMA ProductsExist ==
    ASSUME k \in Nat, k <= GF_SIZE + 1, NEW j \in Rows, NEW m \in 0..(k - 1)
    PROVE  /\ LagrangeProducts(j, m)[0] = One
           /\ \A l \in 0..(k - 1) :
                 LagrangeProducts(j, m)[l + 1]
                    = IF l = m THEN LagrangeProducts(j, m)[l]
                      ELSE gf_mul(LagrangeProducts(j, m)[l], LagrangeFactor(j, m, l))
<1> DEFINE F == [p \in Nat \X Gf |->
                   IF p[1] < k /\ p[1] # m THEN gf_mul(p[2], LagrangeFactor(j, m, p[1]))
                   ELSE p[2]]
<1>1. F \in [Nat \X Gf -> Gf]
  <2>1. ASSUME NEW p \in Nat \X Gf
        PROVE  (IF p[1] < k /\ p[1] # m THEN gf_mul(p[2], LagrangeFactor(j, m, p[1]))
                ELSE p[2]) \in Gf
    <3>1. p[1] \in Nat /\ p[2] \in Gf
      OBVIOUS
    <3>2. ASSUME p[1] < k, p[1] # m PROVE gf_mul(p[2], LagrangeFactor(j, m, p[1])) \in Gf
      <4> DEFINE l == p[1]
      <4>1. l \in 0..(k - 1) /\ l # m
        BY <3>1, <3>2, SMT
      <4> HIDE DEF l
      <4>2. LagrangeFactor(j, m, l) \in Gf
        BY <4>1, FactorLaws
      <4> QED BY <3>1, <4>2, MulLaws DEF l
    <3> QED BY <3>1, <3>2
  <2> QED BY <2>1
<1>2. \A e \in Nat, v \in Gf : e < k =>
         F[<<e, v>>] = IF e = m THEN v ELSE gf_mul(v, LagrangeFactor(j, m, e))
  OBVIOUS
<1> HIDE DEF F
<1>3. PICK u \in [Nat -> Gf] : u[0] = One /\ \A e \in Nat : u[e + 1] = F[<<e, u[e]>>]
  BY <1>1, RecursionGf, PlusLaws
<1> DEFINE here == [l \in 0..k |-> u[l]]
           q == LagrangeProducts(j, m)
<1>4. IsLagrange(here, j, m)
  <2>1. ASSUME NEW l \in 0..k
        PROVE  u[l] = IF l = 0 THEN One
                      ELSE IF l - 1 = m THEN here[l - 1]
                      ELSE gf_mul(here[l - 1], LagrangeFactor(j, m, l - 1))
    <3>1. CASE l = 0
      BY <1>3, <3>1
    <3>2. CASE l # 0
      <4> DEFINE e == l - 1
      <4>1. e \in Nat /\ e < k /\ e \in 0..k /\ e + 1 = l
        BY <3>2, SMT
      <4>2. here[e] = u[e]
        BY <4>1
      <4> HIDE DEF e, here
      <4>3. u[e + 1] = F[<<e, u[e]>>] /\ u[e] \in Gf
        BY <1>3, <4>1
      <4>4. F[<<e, u[e]>>] = IF e = m THEN u[e] ELSE gf_mul(u[e], LagrangeFactor(j, m, e))
        BY <1>2, <4>1, <4>3
      <4>5. u[l] = IF e = m THEN here[e] ELSE gf_mul(here[e], LagrangeFactor(j, m, e))
        BY <4>1, <4>2, <4>3, <4>4
      <4> QED BY <3>2, <4>5 DEF e
    <3> QED BY <3>1, <3>2
  <2>2. here = [l \in 0..k |->
                  IF l = 0 THEN One
                  ELSE IF l - 1 = m THEN here[l - 1]
                  ELSE gf_mul(here[l - 1], LagrangeFactor(j, m, l - 1))]
    BY <2>1
  <2> HIDE DEF here
  <2> QED BY <2>2 DEF IsLagrange
<1>5. IsLagrange(q, j, m)
  <2> HIDE DEF here
  <2> QED BY <1>4, Zenon DEF LagrangeProducts
<1> HIDE DEF q
<1>6. q[0] = One
  <2>1. 0 \in 0..k
    OBVIOUS
  <2> QED BY <1>5, <2>1 DEF IsLagrange
<1>7. ASSUME NEW l \in 0..(k - 1)
      PROVE  q[l + 1] = IF l = m THEN q[l] ELSE gf_mul(q[l], LagrangeFactor(j, m, l))
  <2>1. l + 1 \in 0..k /\ l + 1 # 0 /\ (l + 1) - 1 = l
    BY SMT
  <2> DEFINE e == l + 1
  <2>2. q[e] = IF e - 1 = m THEN q[e - 1] ELSE gf_mul(q[e - 1], LagrangeFactor(j, m, e - 1))
    <3>1. e \in 0..k /\ e # 0
      BY <2>1
    <3> HIDE DEF e
    <3> QED BY <1>5, <3>1 DEF IsLagrange
  <2> QED BY <2>1, <2>2
<1> QED BY <1>6, <1>7 DEF q

\* They are polynomials of the degree of their factors, 1 at Point(m) and 0 at
\* the points of their factors.
LEMMA BasisLaws ==
    ASSUME k \in Nat \ {0}, k <= GF_SIZE + 1, NEW m \in 0..(k - 1)
    PROVE  \E h \in Poly(k) : /\ \A r \in Rows : h[r] = LagrangeProducts(r, m)[k]
                              /\ \A r \in 0..(k - 1) : h[r] = IF r = m THEN One ELSE Zero
<1> DEFINE degree(l) == IF l <= m THEN l + 1 ELSE l
           P(r, l) == LagrangeProducts(r, m)[l]
           Law(h, l) == /\ \A r \in Rows : h[r] = P(r, l)
                        /\ h[m] = One
                        /\ \A r \in 0..(k - 1) : r # m /\ r < l => h[r] = Zero
           T == {l \in Nat : l <= k => \E h \in Poly(degree(l)) : Law(h, l)}
<1>1. k \in Nat /\ m \in Rows /\ (\A r \in 0..(k - 1) : r \in Rows) /\ m \in Nat /\ ~(k <= m)
  BY SizeFacts, SMT DEF Rows
<1>2. \A r \in Rows : /\ P(r, 0) = One
                      /\ \A l \in 0..(k - 1) :
                            P(r, l + 1) = IF l = m THEN P(r, l)
                                          ELSE gf_mul(P(r, l), LagrangeFactor(r, m, l))
  BY <1>1, ProductsExist
<1> HIDE DEF P
<1>3. 0 \in T
  <2> DEFINE h == [r \in Rows |-> One]
  <2>1. h \in [Rows -> Gf] /\ \A r \in Rows : h[r] = One
    BY PlusLaws
  <2> HIDE DEF h
  <2>2. h \in Tower(One)[0]
    BY <2>1, TowerLaws, PlusLaws
  <2>3. h \in Poly(0 + 1)
    BY <2>2, TowerBelow, PlusLaws, 0 \in Nat
  <2>4. degree(0) = 0 + 1
    BY <1>1, SMT
  <2>5. Law(h, 0)
    BY <1>1, <1>2, <2>1, SMT
  <2> QED BY <2>3, <2>4, <2>5
<1>4. ASSUME NEW l \in T PROVE l + 1 \in T
  <2>1. l \in Nat /\ l + 1 \in Nat
    OBVIOUS
  <2>2. SUFFICES ASSUME l + 1 <= k PROVE \E h \in Poly(degree(l + 1)) : Law(h, l + 1)
    BY <2>1
  <2>3. l <= k /\ l \in 0..(k - 1) /\ l \in Rows
        /\ \A r \in 0..(k - 1) : r < l + 1 <=> r < l \/ r = l
    BY <1>1, <2>1, <2>2, SMT
  <2>4. PICK g \in Poly(degree(l)) : Law(g, l)
    BY <2>3
  <2>5. degree(l) \in Nat
    BY <2>1
  <2>6. CASE l = m
    <3>1. degree(l) = degree(l + 1)
      BY <1>1, <2>6, SMT
    <3>2. Law(g, l + 1)
      <4>1. \A r \in Rows : g[r] = P(r, l + 1)
        BY <1>2, <2>3, <2>4, <2>6
      <4> QED BY <2>3, <2>4, <2>6, <4>1
    <3> QED BY <2>4, <3>1, <3>2
  <2>7. CASE l # m
    <3> DEFINE v == inverse[Plus(Point(m), Point(l))]
               u == [r \in Rows |-> gf_mul(Plus(Point(r), Point(l)), g[r])]
               h == [r \in Rows |-> gf_mul(v, u[r])]
               s == degree(l)
    <3>1. degree(l + 1) = s + 1
      BY <1>1, <2>1, <2>7, SMT
    <3>2. v \in Gf /\ Point(l) \in Gf /\ s \in Nat /\ g \in Poly(s)
      BY <1>1, <2>3, <2>4, <2>5, <2>7, FactorLaws, PointLaws
    <3> HIDE DEF degree, s
    <3>3. g \in [Rows -> Gf]
      BY <3>2, PolyLaws
    <3>4. u \in [Rows -> Gf] /\ \A r \in Rows : u[r] = gf_mul(Plus(Point(r), Point(l)), g[r])
      BY <3>2, <3>3, PointLaws, PlusLaws, MulLaws
    <3> HIDE DEF u
    <3>5. h \in [Rows -> Gf] /\ \A r \in Rows : h[r] = gf_mul(v, u[r])
      BY <3>2, <3>4, MulLaws
    <3> HIDE DEF h
    <3>6. u \in Poly(s + 1)
      BY <3>2, <3>4, TowerTimes, PlusLaws DEF Poly
    <3>7. h \in Poly(s + 1)
      BY <3>2, <3>5, <3>6, PolyLaws
    <3>8. ASSUME NEW r \in Rows PROVE h[r] = gf_mul(g[r], LagrangeFactor(r, m, l))
      <4> DEFINE d == Plus(Point(r), Point(l))
                 w == g[r]
      <4>1. d \in Gf /\ w \in Gf
        BY <3>2, <3>3, PointLaws, PlusLaws
      <4>2. h[r] = gf_mul(v, gf_mul(d, w)) /\ LagrangeFactor(r, m, l) = gf_mul(d, v)
        BY <3>4, <3>5 DEF LagrangeFactor
      <4> HIDE DEF v, d, w
      <4>3. gf_mul(v, gf_mul(d, w)) = gf_mul(gf_mul(v, d), w)
        BY <3>2, <4>1, MulLaws
      <4>4. gf_mul(gf_mul(v, d), w) = gf_mul(w, gf_mul(v, d)) /\ gf_mul(v, d) = gf_mul(d, v)
        BY <3>2, <4>1, MulLaws
      <4> QED BY <4>2, <4>3, <4>4 DEF w
    <3>9. \A r \in Rows : h[r] = P(r, l + 1)
      BY <1>2, <2>3, <2>4, <2>7, <3>8
    <3>10. h[m] = One
      <4>1. LagrangeFactor(m, m, l) = One
        BY <1>1, <2>3, <2>7, FactorLaws
      <4>2. g[m] = One
        BY <2>4
      <4> QED BY <1>1, <3>8, <4>1, <4>2, MulLaws, PlusLaws
    <3>11. ASSUME NEW r \in 0..(k - 1), r # m, r < l + 1 PROVE h[r] = Zero
      <4>1. r \in Rows /\ h[r] = gf_mul(g[r], LagrangeFactor(r, m, l))
        BY <1>1, <3>8
      <4>2. CASE r = l
        <5>1. LagrangeFactor(r, m, l) = Zero
          BY <1>1, <2>3, <2>7, <4>1, <4>2, FactorLaws
        <5> QED BY <4>1, <5>1, MulLaws
      <4>3. CASE r # l
        <5>1. g[r] = Zero
          BY <2>3, <2>4, <3>11, <4>3
        <5> QED BY <4>1, <5>1, MulLaws
      <4> QED BY <4>2, <4>3
    <3>12. Law(h, l + 1)
      BY <3>9, <3>10, <3>11
    <3> QED BY <3>1, <3>7, <3>12
  <2> QED BY <2>6, <2>7
<1> HIDE DEF T
<1>5. T \in SUBSET Nat
  BY DEF T
<1>6. \A l \in Nat : l \in T
  BY <1>3, <1>4, <1>5, Induct, Zenon
<1>7. PICK h \in Poly(degree(k)) : Law(h, k)
  BY <1>1, <1>6 DEF T
<1>8. degree(k) = k
  BY <1>1
<1>9. \A r \in 0..(k - 1) : r < k
  BY <1>1, SMT
<1> QED BY <1>7, <1>8, <1>9 DEF P

LEMMA LagrangeSum ==
    ASSUME NEW j
    PROVE  Lagrange(j) = GfSum([m \in 0..(k - 1) |->
                                  gf_mul(word[m], LagrangeProducts(j, m)[k])], k)
BY DEF Lagrange, LagrangeProducts, IsLagrange, LagrangeFactor

\* fec_new's matrix makes the packages that the polynomial through the k
\* packages has at the other points (fec.c:605-611, 702-717).
THEOREM WordsArePolynomials == Spec => []WordOnPolynomial
<1>1. ASSUME WordInv PROVE WordOnPolynomial
  <2>1. k \in Nat \ {0} /\ k \in Nat /\ n \in k..(GF_SIZE + 1) /\ k <= GF_SIZE + 1
        /\ (\A r \in 0..(n - 1) : r \in Rows)
        /\ (\A r \in 0..(k - 1) : r \in Rows /\ r \in 0..(n - 1))
    BY <1>1, SizeFacts, SMT DEF WordInv, Rows
  <2>2. PICK f \in Poly(k) : \A r \in 0..(n - 1) : word[r] = f[r]
    BY <1>1 DEF WordInv
  <2> DEFINE p == [m \in 0..(k - 1) |->
                     CHOOSE h \in Poly(k) :
                        /\ \A r \in Rows : h[r] = LagrangeProducts(r, m)[k]
                        /\ \A r \in 0..(k - 1) : h[r] = IF r = m THEN One ELSE Zero]
             term == [r \in Rows |-> [m \in 0..(k - 1) |-> gf_mul(word[m], p[m][r])]]
  <2>3. \A m \in 0..(k - 1) :
           /\ p[m] \in Poly(k)
           /\ \A r \in Rows : p[m][r] = LagrangeProducts(r, m)[k]
           /\ \A r \in 0..(k - 1) : p[m][r] = IF r = m THEN One ELSE Zero
    BY <2>1, BasisLaws, Zenon
  <2>4. \A m \in 0..(k - 1) : word[m] \in Gf
    BY <2>1, <2>2, PolyLaws
  <2>5. ASSUME NEW r \in Rows
        PROVE  term[r] = [m \in 0..(k - 1) |-> gf_mul(word[m], LagrangeProducts(r, m)[k])]
    <3>1. \A m \in 0..(k - 1) : p[m][r] = LagrangeProducts(r, m)[k]
      BY <2>3
    <3> HIDE DEF p
    <3> QED BY <3>1
  <2>6. \A r \in Rows : \A m \in 0..(k - 1) : term[r][m] = gf_mul(word[m], p[m][r])
    OBVIOUS
  <2> HIDE DEF p, term
  <2>7. PICK h \in Poly(k) : \A r \in Rows : Terms(term[r], k) /\ h[r] = GfSum(term[r], k)
    <3>1. Multiples(k, k, p, word, term)
      BY <2>3, <2>4, <2>6 DEF Multiples
    <3> QED BY <2>1, <3>1, PolySum
  <2>8. \A r \in Rows : h[r] = Lagrange(r)
    BY <2>5, <2>7, LagrangeSum
  <2>9. ASSUME NEW r \in 0..(k - 1) PROVE h[r] = f[r]
    <3>1. r \in Rows /\ word[r] = f[r]
      BY <2>1, <2>2
    <3>2. term[r][r] = word[r] /\ \A m \in 0..(k - 1) : m # r => term[r][m] = Zero
      BY <2>3, <2>4, <2>6, <3>1, MulLaws
    <3>3. GfSum(term[r], k) = term[r][r]
      BY <2>1, <2>4, <3>2, SumSingle
    <3> QED BY <2>7, <3>1, <3>2, <3>3
  <2>10. \A r \in Rows : h[r] = f[r]
    <3> DEFINE R == 0..(k - 1)
    <3>1. IsFiniteSet(R) /\ Cardinality(R) = k
      BY <2>1, FS_Interval, SMT
    <3>2. R \in SUBSET Rows /\ \A r \in R : h[r] = f[r]
      BY <2>1, <2>9
    <3> HIDE DEF R
    <3> QED BY <2>1, <3>1, <3>2, PolyAgree
  <2>11. \A r \in 0..(n - 1) : word[r] = Lagrange(r)
    BY <2>1, <2>2, <2>8, <2>10
  <2> QED BY <2>11 DEF WordOnPolynomial
<1>2. DecodeInv => WordOnPolynomial
  BY <1>1 DEF DecodeInv
<1> QED BY <1>2, DecodeInvariant, PTL
=============================================================================
