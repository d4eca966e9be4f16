------------------------------- MODULE Datagram -------------------------------
(***************************************************************************)
(* What KCP needs of the layer below it, and KcpLink assumes of its        *)
(* network: datagrams may be lost, delayed, repeated and followed by       *)
(* padding, but none comes out that did not go in, and none comes out cut  *)
(* short.                                                                  *)
(***************************************************************************)
EXTENDS Naturals

VARIABLES
    sent,   \* the datagrams that went in, each [id, len]
    handed  \* what came out: [pkg, bytes]

Init ==
    /\ sent = {}
    /\ handed = {}

Accept(p) ==
    /\ \A q \in sent : q.id # p.id
    /\ sent' = sent \union {p}
    /\ UNCHANGED handed

Hand(h) ==
    /\ h.pkg \in sent
    /\ h.bytes >= h.pkg.len
    /\ handed' = handed \union {h}
    /\ UNCHANGED sent

Next ==
    \/ \E p \in sent' : Accept(p)
    \/ \E h \in handed' : Hand(h)

Spec == Init /\ [][Next]_<<sent, handed>>
=============================================================================
