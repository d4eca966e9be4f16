------------------------------ MODULE MCKcpLink ------------------------------
(***************************************************************************)
(* Small instances of KcpLink for TLC.                                     *)
(***************************************************************************)
EXTENDS KcpLink

\* only the client's application sends
OneWay == [client |-> 3, server |-> 0]

\* enough to fill a receive queue of two segments, hold two more behind it
\* and still have one to send
ShutWindow == [client |-> 5, server |-> 0]
=============================================================================
