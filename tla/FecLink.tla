------------------------------- MODULE FecLink -------------------------------
(***************************************************************************)
(* One direction of the FEC layer: the encoder of one end, the network,    *)
(* the decoder of the other.  The network loses (a package need never be   *)
(* delivered), repeats and reorders, and forgets a package once it is      *)
(* older than Lifetime.                                                    *)
(*                                                                         *)
(* Between two words with the same seq there are SeqLimit - 2 (65519)      *)
(* others.  KCP's window of 32 segments per 100 ms lets them take minutes, *)
(* longer than a package lives and the decoder remembers it (10 s), and    *)
(* some of them arrive; that is all the model assumes of it (Paced).       *)
(***************************************************************************)
EXTENDS FecDecoder

CONSTANTS
    PkgLens,    \* bytes of the datagrams KCP outputs
    MaxPkgs,    \* bound: how many it outputs
    MaxTime,    \* bound: steps of the decoder's clock
    Lifetime,   \* how long the network keeps a package
    Ticks       \* steps the encoder's clock makes from one timer to the next;
                \* 0 if it was set back, which FecEncodeUpdateTime ignores

ASSUME LinkAssumption ==
    /\ PkgLens \subseteq Nat \ {0}
    /\ MaxPkgs \in Nat /\ MaxTime \in Nat /\ Lifetime \in Nat
    /\ Ticks \subseteq Nat

VARIABLES
    coded_net,  \* packages of code words in the network: [pkt, born]
    raw_net,    \* unencoded ones: [pkt, born]
    cut,        \* a send failed
    accepted,   \* history: the datagrams KCP output
    swept,      \* history: when the decoder was last drained
    handed,     \* history: what ikcp_input was called with
    again       \* history: datagrams of code words handed over twice

netVars == <<coded_net, raw_net, cut>>
logVars == <<swept, handed, again>>
vars == <<encVars, decVars, now, netVars, accepted, logVars>>

Init ==
    /\ EncInit
    /\ DecInit
    /\ coded_net = {}
    /\ raw_net = {}
    /\ cut = FALSE
    /\ accepted = {}
    /\ swept = 0
    /\ handed = {}
    /\ again = {}

\* the first n of the packages out, those before a send that fails
Aired(out, n) == {[pkt |-> out[i], born |-> now] : i \in 1..n}

(***************************************************************************)
(* The sender: udpout (src/samples/fec_kcp_client.cpp:16-19) and the timer *)
(* of the event loop (107-113).                                            *)
(***************************************************************************)
\* the packages that used the current seq before are forgotten everywhere,
\* and it is not the seq of the word that was handed out last
Paced ==
    \A m \in coded_net :
        m.pkt.seq = seq =>
            m.born + Lifetime + Timeout < swept /\ last_seq # seq

KcpOutput(len, n) ==
    LET p == [id |-> Cardinality(accepted) + 1, len |-> len]
        out == InputSends(p)
    IN  /\ p.id <= MaxPkgs
        /\ n <= Len(out)
        /\ Completes => Paced
        /\ EncInput(p)
        /\ accepted' = accepted \union {p}
        /\ coded_net' = coded_net \union Aired(out, n)
        /\ cut' = (cut \/ n < Len(out))
        /\ UNCHANGED <<decVars, now, raw_net, logVars>>

Timer(elapsed, n) ==
    LET out == TimerSends(elapsed)
    IN  /\ n <= Len(out)
        /\ EncTimer(elapsed)
        /\ raw_net' = raw_net \union Aired(out, n)
        /\ cut' = (cut \/ n < Len(out))
        /\ UNCHANGED <<decVars, now, coded_net, accepted, logVars>>

(***************************************************************************)
(* The receiver                                                            *)
(***************************************************************************)
Alive(m) == now <= m.born + Lifetime

RecvCoded(m) ==
    /\ Alive(m)
    /\ InputCoded(m.pkt)
    /\ UNCHANGED <<encVars, now, netVars, accepted, logVars>>

RecvRaw(m) ==
    /\ Alive(m)
    /\ InputRaw(m.pkt)
    /\ UNCHANGED <<encVars, now, netVars, accepted, logVars>>

\* Output, and ikcp_input of the left bytes that were asked for
Hand ==
    /\ OutputRaw \/ OutputCoded
    /\ handed' = handed \union {[pkg |-> Copied, bytes |-> left]}
    /\ swept' = IF left' = 0 THEN now ELSE swept
    /\ again' = IF unit = NoPkg /\ \E h \in handed : h.pkg.id = Copied.id
                THEN again \union {Copied.id} ELSE again
    /\ UNCHANGED <<encVars, now, netVars, accepted>>

\* a step of the clock is seconds: the loop around Output does not take one
Tick ==
    /\ left = 0
    /\ now < MaxTime
    /\ now' = now + 1
    /\ UNCHANGED <<encVars, decVars, netVars, accepted, logVars>>

Next ==
    \/ \E len \in PkgLens, n \in 0..(K + R) : KcpOutput(len, n)
    \/ \E elapsed \in Ticks, n \in 0..K : Timer(elapsed, n)
    \/ \E m \in coded_net : RecvCoded(m)
    \/ \E m \in raw_net : RecvRaw(m)
    \/ Hand
    \/ Tick

Spec == Init /\ [][Next]_vars

(***************************************************************************)
(* Fairness: the event loop calls its timer again and again, with a clock  *)
(* that goes on, and a loop around Output is not left in the middle.       *)
(***************************************************************************)
TimerTicks == \E elapsed \in Ticks \ {0}, n \in 0..K : Timer(elapsed, n)

Fairness == WF_vars(TimerTicks) /\ WF_vars(Hand)

FairSpec == Spec /\ Fairness

-------------------------------------------------------------------------------
(***************************************************************************)
(* Properties                                                              *)
(***************************************************************************)
Slot == [pkg : Pkg, len : Nat]
Air(pkts) == [pkt : pkts, born : Nat]

\* Every variable has its type; the only invariant that says just that.
FecTypeOK ==
    /\ held \in Seq(Pkg) /\ Len(held) < K
    /\ max_len \in Nat
    /\ seq \in 1..(SeqLimit - 1)
    /\ age \in 0..FlushAfter
    /\ \A s \in DOMAIN groups :
        /\ groups[s].cur \in 0..(K + R)
        /\ groups[s].max \in Nat /\ groups[s].stamp \in 0..now
        /\ \/ groups[s].slots \in [1..(K + R) -> Coded \union {NoPkg}]
           \/ groups[s].slots \in [1..K -> Slot]
    /\ ready \subseteq DOMAIN groups
    /\ ready_nums \in Nat
    /\ unit \in Pkg \union {NoPkg}
    /\ last_seq \in Nat /\ last_index \in 0..K
    /\ left \in Nat /\ now \in Nat /\ swept \in 0..now
    /\ coded_net \subseteq Air(Coded)
    /\ raw_net \subseteq Air(Pkg)
    /\ cut \in BOOLEAN
    /\ accepted \subseteq Pkg
    /\ handed \subseteq [pkg : Pkg, bytes : Nat]
    /\ again \subseteq Nat

\* The layer is the datagram service KCP is written for: ikcp_input gets
\* only what the other end's ikcp_output gave, whole, recovered or not.
Service == INSTANCE Datagram WITH sent <- accepted, handed <- handed

DatagramSpec == Service!Spec

Words == {m.pkt.word : m \in coded_net}
In(p, word) == \E i \in DOMAIN word : word[i] = p

\* A datagram leaves the encoder once: in one code word or unencoded, never
\* both, and until then it is held; only a failed send drops it
\* (fec_encode.cpp:48-52, 115-118, 139-147, fec_manager.cpp:29-34, 55-60).
WentOutOnce ==
    \A p \in accepted :
        /\ In(p, held) => /\ ~\E w \in Words : In(p, w)
                          /\ ~\E m \in raw_net : m.pkt = p
        /\ (\E w \in Words : In(p, w)) => ~\E m \in raw_net : m.pkt = p
        /\ \/ In(p, held) \/ cut
           \/ \E w \in Words : In(p, w)
           \/ \E m \in raw_net : m.pkt = p

\* What the decoder remembers of a seq is of the word that uses it now: no
\* package is put to those of an older word or taken for one of them, although
\* records expire only when an Output finds nothing ready or too many words
\* are known (fec_decode.cpp:57-61, 111-112, 179-197).
NotMixed ==
    \A m \in coded_net :
        Alive(m) /\ m.pkt.seq \in DOMAIN groups =>
            LET group == groups[m.pkt.seq]
            IN  \A i \in Present(group.slots) :
                    IF group.cur < K THEN group.slots[i].word = m.pkt.word
                    ELSE group.slots[i].pkg = m.pkt.word[i]

\* Any K packages of a word still on its way are enough: once the loop is left,
\* all its datagrams were handed over (fec_decode.cpp:82-110, 129-177).
AnyKSuffice ==
    left = 0 =>
        \A m \in coded_net :
            LET s == m.pkt.seq
            IN  Alive(m) /\ s \in DOMAIN groups =>
                    \/ /\ groups[s].cur < K
                       /\ Cardinality(Present(groups[s].slots)) = groups[s].cur
                    \/ \A i \in 1..K : \E h \in handed : h.pkg = m.pkt.word[i]

\* The loop drains the decoder: ready_seqs_nums_ counts the ready groups,
\* and none is left behind when the loop ends, so that a package never meets
\* a ready group in Input (fec_decode.cpp:60-61, 108, 145-177).
Drained ==
    /\ ready_nums = Cardinality(ready)
    /\ left = 0 => ready = {} /\ unit = NoPkg

\* Output reads inside its group: last_process_index survives the group it
\* was counted in (fec_decode.cpp:153-168).
IndexInRange == last_seq \in ready => last_index < K

\* The decoder remembers a group long enough: as long as the network forgets
\* a package before Timeout, no datagram of a code word comes out twice
\* (fec_decode.cpp:57-61, 75-81, 191-197).
AtMostOnce == again = {}

\* A datagram does not wait in the encoder for ever, even if no other one
\* completes its word and if the clock is refused for a while: what is held
\* leaves all together (fec_encode.cpp:121-149, fec_manager.cpp:48-62).
LeavesEncoder == []<>(held = <<>>)

\* The loop around Output ends.
LoopEnds == []<>(left = 0)

\* What the header says of Input: "return positive number means the length of
\* the prepared data package" (fec_decode.h:37-38).
LengthOfPackage == \A h \in handed : h.bytes = h.pkg.len
=============================================================================
