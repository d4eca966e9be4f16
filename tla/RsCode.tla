------------------------------- MODULE RsCode -------------------------------
(***************************************************************************)
(* The erasure code under the FEC layer (src/lib/libfec/lib/source/rs.c    *)
(* and fec.c): rs_encode2 makes n - k redundant packages of k, rs_decode2  *)
(* recovers the k from any k of the n.  Its inner loops are steps, so that *)
(* what each iteration preserves can be said.                              *)
(*                                                                         *)
(* All operations work byte by byte with the same coefficients, so a       *)
(* package is one element of the field here (sz = 1).  Arrays count from 0 *)
(* as in the code.                                                         *)
(***************************************************************************)
EXTENDS GaloisField

CONSTANTS
    Codes,  \* the pairs <<k, n>> asked of get_code
    Bytes,  \* the data of the packages
    Lost    \* a package that did not come

ASSUME CodeAssumption ==
    /\ \A c \in Codes : c[1] \in Nat \ {0} /\ c[2] \in c[1]..(GF_SIZE + 1)
    /\ Bytes \subseteq Gf

VARIABLES
    k, n,           \* the code
    enc_matrix,     \* its matrix, kept in table[k][n]
    word,           \* history: the k packages and the n - k made of them
    data,           \* what rs_decode works on: the packages that came first
    index,          \* which package of the word data[i] is
    i,              \* the loop variable of shuffle, col of invert_mat
    matrix,         \* what invert_mat inverts in place
    ipiv, indxr, indxc,
    pc

invVars == <<matrix, ipiv, indxr, indxc>>
vars == <<k, n, enc_matrix, word, data, index, i, invVars, pc>>

RowTimes(row, column, size) ==
    GfSum([j \in 0..(size - 1) |-> gf_mul(row[j], column[j])], size)

Unit(j, size) == [col \in 0..(size - 1) |-> IF col = j THEN One ELSE Zero]

(***************************************************************************)
(* fec_new: a matrix of powers of the points 0, 1, alpha, alpha^2, ...,    *)
(* times the inverse of its top, so that the top becomes the identity.     *)
(***************************************************************************)
\* mutant: the powers start at the first row
PowersFromFirst(row, size) == [col \in 0..(size - 1) |-> gf_exp[modnn[row * col]]]

\* row of tmp_m
Powers(row, size) ==
    [col \in 0..(size - 1) |->
        IF row = 0 THEN IF col = 0 THEN One ELSE Zero
        ELSE gf_exp[modnn[(row - 1) * col]]]

Point(row) == Powers(row, 2)[1]

\* the coefficients c of the product of x - Point(i), i in 0 .. size - 1,
\* without the leading one
ProductOfPoints(size) ==
    LET last == size - 1
        c[s \in 0..last] ==
          IF s = 0
          THEN [j \in 0..last |-> IF j = last THEN Point(0) ELSE Zero]
          ELSE [j \in 0..last |->
                  IF j = last THEN Plus(c[s - 1][j], Point(s))
                  ELSE IF j < size - s THEN c[s - 1][j]
                  ELSE Plus(c[s - 1][j], gf_mul(Point(s), c[s - 1][j + 1]))]
    IN  c[last]

\* column row of what invert_vdm makes of the top of tmp_m
InverseColumn(row, size) ==
    LET last == size - 1
        xx == Point(row)
        c == ProductOfPoints(size)
        b[j \in 0..last] ==
          IF j = last THEN One ELSE Plus(c[j + 1], gf_mul(xx, b[j + 1]))
        t[j \in 0..last] ==
          IF j = last THEN One ELSE Plus(gf_mul(xx, t[j + 1]), b[j])
    IN  IF size = 1 THEN Unit(0, 1)
        ELSE [col \in 0..last |-> gf_mul(inverse[t[0]], b[col])]

EncMatrix(size, total) ==
    LET column == [row \in 0..(size - 1) |-> InverseColumn(row, size)]
    IN  [row \in 0..(total - 1) |->
            IF row < size THEN Unit(row, size)
            ELSE [col \in 0..(size - 1) |->
                    RowTimes(Powers(row, size), column[col], size)]]

(***************************************************************************)
(* get_code and rs_encode                                                  *)
(***************************************************************************)
Encoded(src, enc, size, total) ==
    [row \in 0..(total - 1) |->
        IF row < size THEN src[row] ELSE RowTimes(enc[row], src, size)]

Init ==
    /\ \E c \in Codes : k = c[1] /\ n = c[2]
    /\ enc_matrix = EncMatrix(k, n)
    /\ \E src \in [0..(k - 1) -> Bytes] : word = Encoded(src, enc_matrix, k, n)
    /\ data = [j \in 0..(n - 1) |-> Lost]
    /\ index = <<>>
    /\ i = 0
    /\ matrix = <<>> /\ ipiv = <<>> /\ indxr = <<>> /\ indxc = <<>>
    /\ pc = "receive"

(***************************************************************************)
(* rs_decode: the packages that came, in front                             *)
(***************************************************************************)
Nth(set, j) == CHOOSE x \in set : Cardinality({y \in set : y < x}) = j

Receive(came) ==
    LET count == Cardinality(came)
    IN  /\ pc = "receive"
        /\ index' = [j \in 0..(count - 1) |-> Nth(came, j)]
        /\ data' = [j \in 0..(n - 1) |->
                      IF j < count THEN word[Nth(came, j)] ELSE Lost]
        /\ pc' = IF count < k THEN "failed" ELSE "shuffle"
        /\ UNCHANGED <<k, n, enc_matrix, word, i, invVars>>

(***************************************************************************)
(* shuffle: a package that came takes its own place                        *)
(***************************************************************************)
\* mutant: only redundant packages are passed over
SettledRedundant(j) == index[j] >= k

Settled(j) == index[j] >= k \/ index[j] = j

\* mutant: SWAP gets values, not variables
SwappedCopies(f, a, b) == f

Swapped(f, a, b) == [f EXCEPT ![a] = f[b], ![b] = f[a]]

\* mutant: on to the next place after a swap
NextAnyway(j) == j + 1

\* i after a swap
AfterSwap(j) == j

ShuffleNext ==
    /\ pc = "shuffle" /\ i < k /\ Settled(i)
    /\ i' = i + 1
    /\ UNCHANGED <<k, n, enc_matrix, word, data, index, invVars, pc>>

ShuffleSwap ==
    /\ pc = "shuffle" /\ i < k /\ ~Settled(i)
    /\ IF index[index[i]] = index[i]
       THEN pc' = "failed" /\ UNCHANGED <<data, index, i>>
       ELSE /\ index' = Swapped(index, i, index[i])
            /\ data' = Swapped(data, i, index[i])
            /\ i' = AfterSwap(i)
            /\ UNCHANGED pc
    /\ UNCHANGED <<k, n, enc_matrix, word, invVars>>

(***************************************************************************)
(* build_decode_matrix, then invert_mat column by column                   *)
(***************************************************************************)
DecodeRow(j) == IF index[j] < k THEN Unit(j, k) ELSE enc_matrix[index[j]]

Build ==
    /\ pc = "shuffle" /\ i = k
    /\ matrix' = [j \in 0..(k - 1) |-> DecodeRow(j)]
    /\ ipiv' = [j \in 0..(k - 1) |-> 0]
    /\ indxr' = [j \in 0..(k - 1) |-> 0]
    /\ indxc' = [j \in 0..(k - 1) |-> 0]
    /\ i' = 0
    /\ pc' = "invert"
    /\ UNCHANGED <<k, n, enc_matrix, word, data, index>>

\* the place of the pivot of column col: on the diagonal, else the first one
\* in the rows not used yet
IsPivot(col, row, ix) ==
    IF ipiv[col] # 1 /\ matrix[col][col] # Zero THEN row = col /\ ix = col
    ELSE LET Usable(r, x) == ipiv[r] # 1 /\ ipiv[x] = 0 /\ matrix[r][x] # Zero
         IN  /\ Usable(row, ix)
             /\ \A r, x \in 0..(k - 1) :
                   Usable(r, x) => row < r \/ (row = r /\ ix <= x)

\* mutant: the pivot row is not divided
UndividedRow(row, icol) == [row EXCEPT ![icol] = One]

\* the pivot row divided by its pivot, which 1 replaced
PivotRow(row, icol) ==
    [col \in 0..(k - 1) |->
        gf_mul(inverse[row[icol]], IF col = icol THEN One ELSE row[col])]

\* another row less its multiple of the pivot row
Eliminated(row, pivot, icol) ==
    [col \in 0..(k - 1) |->
        Plus(IF col = icol THEN Zero ELSE row[col], gf_mul(row[icol], pivot[col]))]

Pivot ==
    /\ pc = "invert" /\ i < k
    /\ IF \E row, ix \in 0..(k - 1) : IsPivot(i, row, ix)
       THEN \E irow, icol \in 0..(k - 1) :
              /\ IsPivot(i, irow, icol)
              /\ LET m == Swapped(matrix, irow, icol)
                     pivot == PivotRow(m[icol], icol)
                 IN  matrix' = [row \in 0..(k - 1) |->
                        IF row = icol THEN pivot
                        ELSE Eliminated(m[row], pivot, icol)]
              /\ ipiv' = [ipiv EXCEPT ![icol] = @ + 1]
              /\ indxr' = [indxr EXCEPT ![i] = irow]
              /\ indxc' = [indxc EXCEPT ![i] = icol]
              /\ i' = i + 1
              /\ UNCHANGED pc
       ELSE pc' = "failed" /\ UNCHANGED <<invVars, i>>
    /\ UNCHANGED <<k, n, enc_matrix, word, data, index>>

\* the columns swapped back, the last swap first
Unswapped ==
    LET after[col \in 0..k] ==
          IF col = k THEN matrix
          ELSE [row \in 0..(k - 1) |->
                  Swapped(after[col + 1][row], indxr[col], indxc[col])]
    IN  after[0]

(***************************************************************************)
(* fec_decode: redundant packages are replaced by those they stand for     *)
(***************************************************************************)
\* mutant: without new_pkt a package is replaced before the next is made
RestoredInPlace(m) ==
    LET after[row \in 0..k] ==
          IF row = 0 THEN data
          ELSE IF index[row - 1] >= k
          THEN [after[row - 1] EXCEPT ![row - 1] =
                  RowTimes(m[row - 1], after[row - 1], k)]
          ELSE after[row - 1]
    IN  after[k]

Restored(m) ==
    [j \in 0..(n - 1) |->
        IF j < k /\ index[j] >= k THEN RowTimes(m[j], data, k) ELSE data[j]]

Decode ==
    /\ pc = "invert" /\ i = k
    /\ matrix' = Unswapped
    /\ data' = Restored(Unswapped)
    /\ pc' = "done"
    /\ UNCHANGED <<k, n, enc_matrix, word, index, i, ipiv, indxr, indxc>>

Next ==
    \/ \E came \in SUBSET (0..(n - 1)) : Receive(came)
    \/ ShuffleNext
    \/ ShuffleSwap
    \/ Build
    \/ Pivot
    \/ Decode

\* one thread runs it to its end
Spec == Init /\ [][Next]_vars /\ WF_vars(Next)

-------------------------------------------------------------------------------
(***************************************************************************)
(* Properties                                                              *)
(***************************************************************************)
\* Reference: package j is the value at Point(j) of the polynomial of degree
\* below k that has the value src[m] at Point(m).
Lagrange(j) ==
    LET Factor(m, l) == gf_mul(Plus(Point(j), Point(l)),
                               inverse[Plus(Point(m), Point(l))])
        basis(m) ==
          LET product[l \in 0..k] ==
                IF l = 0 THEN One
                ELSE IF l - 1 = m THEN product[l - 1]
                ELSE gf_mul(product[l - 1], Factor(m, l - 1))
          IN  product[k]
    IN  GfSum([m \in 0..(k - 1) |-> gf_mul(word[m], basis(m))], k)

\* fec_new builds the code it is documented to build, although invert_vdm
\* leaves out terms that vanish only because the first point is 0
\* (fec.c:605-611, 702-717): every package is on the polynomial.
WordOnPolynomial == pc = "receive" => \A j \in 0..(n - 1) : word[j] = Lagrange(j)

\* shuffle moves a package and its index together, and leaves each package
\* that came in its place: build_decode_matrix gives it a row of the identity
\* there (fec.c:771-787, 814-816).
PackagesInPlace ==
    /\ pc \in {"shuffle", "invert"} =>
        \A j \in DOMAIN index : data[j] = word[index[j]]
    /\ pc = "invert" => \A j \in 0..(k - 1) : Settled(j)

\* Between two columns the matrix is half inverted: from what came in the
\* columns done and what was sent in the others, it makes what was sent in
\* the rows done and what came in the others; and the pivot was always on
\* the diagonal (fec.c:462-544).
HalfInverted ==
    pc = "invert" =>
        /\ \A col \in 0..(i - 1) : indxr[col] = col /\ indxc[col] = col
        /\ \A row \in 0..(k - 1) :
            RowTimes(matrix[row],
                     [j \in 0..(k - 1) |-> IF j < i THEN data[j] ELSE word[j]], k)
              = IF row < i THEN word[row] ELSE data[row]

\* Any k packages of the n are enough, whichever they are: no decode matrix
\* is singular and shuffle meets no conflict (fec.c:829-832, 861-866).
OnlyTooFewFail == pc = "failed" => Cardinality(DOMAIN index) < k

\* What comes out is what went in.
Recovered == pc = "done" => \A j \in 0..(k - 1) : data[j] = word[j]

\* It comes to an end: every swap of shuffle settles a package.
Terminates == <>(pc \in {"done", "failed"})
=============================================================================
