------------------------------ MODULE MCFecLink ------------------------------
(***************************************************************************)
(* Small instances of FecLink for TLC.                                     *)
(***************************************************************************)
EXTENDS FecLink
=============================================================================
