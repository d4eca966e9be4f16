----------------------------- MODULE GaloisField -----------------------------
(***************************************************************************)
(* The field GF(2^GF_BITS) of src/lib/libfec/lib/source/fec.c: its tables, *)
(* as generate_gf and init_mul_table fill them.                            *)
(*                                                                         *)
(* An element is a polynomial over {0, 1}: the set of the exponents whose  *)
(* coefficient is 1, that is the set of the bits a gf has set.  x ^ y is   *)
(* then their symmetric difference, x << 1 adds one to each exponent.      *)
(***************************************************************************)
EXTENDS Integers, FiniteSets

CONSTANTS
    GF_BITS,    \* 8
    Pp          \* the exponents of allPp[GF_BITS] below GF_BITS

ASSUME FieldAssumption ==
    /\ GF_BITS \in 2..16
    /\ Pp \subseteq 0..(GF_BITS - 1)

GF_SIZE == 2^GF_BITS - 1

Zero == {}
One == {0}
Gf == SUBSET (0..(GF_BITS - 1))

Plus(x, y) == (x \ y) \union (y \ x)

Shifted(x) == {e + 1 : e \in x}

(***************************************************************************)
(* generate_gf                                                             *)
(***************************************************************************)
\* alpha^(e + 1) from alpha^e, whose bit GF_BITS - 1 becomes alpha^GF_BITS
Times_alpha(x) ==
    IF GF_BITS - 1 \in x THEN Plus(Pp, Shifted(x \ {GF_BITS - 1}))
    ELSE Shifted(x)

gf_exp ==
    LET power[e \in 0..(GF_SIZE - 1)] ==
            IF e = 0 THEN One ELSE Times_alpha(power[e - 1])
    IN  [e \in 0..(2 * GF_SIZE - 1) |-> power[e % GF_SIZE]]

\* allPp lists primitive polynomials (fec.c:143-170): every element but 0 is a
\* power of alpha.
ASSUME PrimitiveAssumption ==
    \A x \in Gf \ {Zero} : \E e \in 0..(GF_SIZE - 1) : gf_exp[e] = x

gf_log ==
    [x \in Gf |-> IF x = Zero THEN GF_SIZE
                  ELSE CHOOSE e \in 0..(GF_SIZE - 1) : gf_exp[e] = x]

inverse ==
    [x \in Gf |-> IF x \in {Zero, One} THEN x ELSE gf_exp[GF_SIZE - gf_log[x]]]

(***************************************************************************)
(* init_mul_table                                                          *)
(***************************************************************************)
\* x % GF_SIZE, by folding the high bits down
modnn[x \in Nat] ==
    IF x < GF_SIZE THEN x
    ELSE LET less == x - GF_SIZE
         IN  modnn[(less \div 2^GF_BITS) + (less % 2^GF_BITS)]

\* mutant: row and column 0 of the table as the logarithms give them
gf_mulNoZero(x, y) == gf_exp[modnn[gf_log[x] + gf_log[y]]]

gf_mul(x, y) ==
    IF x = Zero \/ y = Zero THEN Zero
    ELSE gf_exp[modnn[gf_log[x] + gf_log[y]]]

\* the sum of f[e], e in 0 .. n - 1
GfSum(f, n) ==
    LET sum[e \in 0..n] == IF e = 0 THEN Zero ELSE Plus(sum[e - 1], f[e - 1])
    IN  sum[n]

-------------------------------------------------------------------------------
(***************************************************************************)
(* Reference: multiplication of polynomials modulo the field's polynomial. *)
(***************************************************************************)
Product(x, y) ==
    LET times[e \in 0..(GF_BITS - 1)] ==
            IF e = 0 THEN y ELSE Times_alpha(times[e - 1])
    IN  GfSum([e \in 0..(GF_BITS - 1) |-> IF e \in x THEN times[e] ELSE Zero],
              GF_BITS)

\* The tables are the field's: gf_mul is multiplication of polynomials, and
\* inverse gives what multiplies to 1 (fec.c:190-230, 278-338).
TablesAreField ==
    /\ \A x, y \in Gf : gf_mul(x, y) = Product(x, y)
    /\ \A x \in Gf \ {Zero} : gf_mul(x, inverse[x]) = One
=============================================================================
