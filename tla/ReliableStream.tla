--------------------------- MODULE ReliableStream ---------------------------
(***************************************************************************)
(* What KCP promises the two applications, with no network in sight: each  *)
(* hands it messages and gets the other's, whole, once and in order        *)
(* (ikcp_send and ikcp_recv of src/lib/kcp/source/ikcp.c).                 *)
(***************************************************************************)
EXTENDS Naturals, Sequences

CONSTANTS Ends, Peer(_)

VARIABLES
    accepted,   \* fragments of the messages each end has sent
    handed      \* fragments each end's application has received

vars == <<accepted, handed>>

\* fragments from+1 .. to of q are one message: only its last has frg = 0
IsMessage(q, from, to) ==
    /\ from < to /\ to <= Len(q)
    /\ q[to].frg = 0
    /\ \A i \in (from + 1)..(to - 1) : q[i].frg # 0

Init ==
    /\ accepted = [e \in Ends |-> <<>>]
    /\ handed = [e \in Ends |-> <<>>]

Accept(e) ==
    /\ IsMessage(accepted'[e], Len(accepted[e]), Len(accepted'[e]))
    /\ SubSeq(accepted'[e], 1, Len(accepted[e])) = accepted[e]
    /\ \A other \in Ends \ {e} : accepted'[other] = accepted[other]
    /\ UNCHANGED handed

Hand(e) ==
    /\ \E to \in 1..Len(accepted[Peer(e)]) :
        /\ IsMessage(accepted[Peer(e)], Len(handed[e]), to)
        /\ handed' = [handed EXCEPT ![e] = SubSeq(accepted[Peer(e)], 1, to)]
    /\ UNCHANGED accepted

Next == \E e \in Ends : Accept(e) \/ Hand(e)

Spec == Init /\ [][Next]_vars
=============================================================================
