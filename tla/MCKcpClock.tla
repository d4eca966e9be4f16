----------------------------- MODULE MCKcpClock -----------------------------
(***************************************************************************)
(* A small instance of KcpClock for TLC: the constants of ikcp.c scaled    *)
(* down in their order, with an acknowledgement that seems to come from    *)
(* the future after a set-back.                                            *)
(***************************************************************************)
EXTENDS KcpClock

RoundTrips == {-1, 2}
=============================================================================
