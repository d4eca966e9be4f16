----------------------------- MODULE MCTimeoutMap -----------------------------
(***************************************************************************)
(* Small instances of TimeoutMap for TLC.                                  *)
(***************************************************************************)
EXTENDS TimeoutMap

CONSTANTS k1, k2, k3

ThreeKeys == {k1, k2, k3}
=============================================================================
