------------------------------ MODULE MCRsCode ------------------------------
(***************************************************************************)
(* Small instances of RsCode for TLC.                                      *)
(***************************************************************************)
EXTENDS RsCode

\* 1 + x + x^4
PpOf4 == {0, 1}

\* the samples' code <<2, 3>> among others
SmallCodes == {<<1, 2>>, <<2, 3>>, <<3, 5>>, <<4, 6>>}

SomeBytes == {Zero, One, {1, 3}}

\* The field the program's code words are computed in (fec.c:42, 157) is too
\* large for the states of RsCode, but what GaloisField assumes of its
\* polynomial holds: Times_alpha, at GF_BITS = 8, comes through every element
\* but 0.  The 255 steps are taken as five walks, each from where the last ends.
Gf256_times_alpha(x) ==
    IF 7 \in x THEN Plus({0, 2, 3, 4}, Shifted(x \ {7})) ELSE Shifted(x)

Gf256_walk(x) ==
    LET at[e \in 0..51] == IF e = 0 THEN x ELSE Gf256_times_alpha(at[e - 1])
    IN  at

ASSUME Gf256IsPrimitive ==
    LET a == Gf256_walk(One)
        b == Gf256_walk(a[51])
        c == Gf256_walk(b[51])
        d == Gf256_walk(c[51])
        f == Gf256_walk(d[51])
    IN  UNION {{walk[e] : e \in 0..50} : walk \in {a, b, c, d, f}}
          = SUBSET (0..7) \ {Zero}
=============================================================================
