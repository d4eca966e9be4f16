------------------------------- MODULE MCRelay -------------------------------
(***************************************************************************)
(* A small instance of Relay for TLC.                                      *)
(***************************************************************************)
EXTENDS Relay

\* two questions and an answer
TwoAndOne == [client |-> 2, server |-> 1]
=============================================================================
