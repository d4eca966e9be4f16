------------------------------- MODULE KcpLink -------------------------------
(***************************************************************************)
(* Two KCP control blocks (src/lib/kcp/source/ikcp.c) talking over a       *)
(* network that loses, duplicates and reorders the datagrams ikcp_output   *)
(* hands to it.  Each end runs in one thread (samples/fec_kcp_client.cpp   *)
(* and samples/fec_kcp_server.cpp), so the handlers of one end never       *)
(* overlap; those of the two ends interleave freely.                       *)
(*                                                                         *)
(* A serial number is a natural here (no wrap), time is not a number: a    *)
(* flush resends an arbitrary set of unacknowledged segments, those whose  *)
(* resendts has passed, and may or may not find the probe timer expired.   *)
(* The program leaves nodelay, wndsize and setmtu alone, so fast resend    *)
(* (fastresend = 0) and stream mode (stream = 0) never act.                *)
(***************************************************************************)
EXTENDS Naturals, Sequences, FiniteSets

CONSTANTS
    WND_SND,    \* snd_wnd, in segments (IKCP_WND_SND)
    WND_RCV,    \* rcv_wnd, in segments (IKCP_WND_RCV)
    MTU,        \* IKCP_MTU_DEF, in bytes
    OVERHEAD,   \* IKCP_OVERHEAD, the bytes of a segment header
    RECV_BUF,   \* bytes of the buffer the samples pass to ikcp_recv
    MsgLens,    \* bytes of the messages an application sends
    MaxFrags,   \* bound: fragments each end may accept from its application
    MaxAcks,    \* bound: entries of acklist between two flushes
    MaxNet      \* bound: datagrams in flight

Ends == {"client", "server"}
Peer(e) == IF e = "client" THEN "server" ELSE "client"

MSS == MTU - OVERHEAD
THRESH_MIN == 2

ASSUME KcpAssumption ==
    /\ WND_SND \in Nat \ {0}
    /\ WND_RCV \in Nat \ {0}
    /\ MTU \in Nat /\ OVERHEAD \in Nat \ {0} /\ OVERHEAD < MTU
    /\ RECV_BUF \in Nat
    /\ MsgLens \subseteq Nat
    /\ MaxFrags \in [Ends -> Nat]
    /\ MaxAcks \in Nat
    /\ MaxNet \in Nat

VARIABLES
    snd_queue,  \* fragments accepted by ikcp_send, not yet numbered
    snd_buf,    \* numbered segments not yet acknowledged
    snd_una,    \* lowest unacknowledged serial number
    snd_nxt,    \* serial number of the next new segment
    rmt_wnd,    \* free segments the peer last advertised
    cwnd, ssthresh, incr,   \* congestion window
    probe,      \* pending IKCP_ASK_SEND ("send") and IKCP_ASK_TELL ("tell")
    probing,    \* probe_wait /= 0
    rcv_nxt,    \* next serial number rcv_queue takes
    rcv_buf,    \* segments received out of order, or held by a full rcv_queue
    rcv_queue,  \* fragments ready for ikcp_recv
    acklist,    \* serial numbers to acknowledge at the next flush
    rx,         \* PUSH segments ikcp_input has still to parse in its datagram
    net,        \* datagrams in flight
    stream,     \* history: fragments accepted by ikcp_send
    consumed    \* history: fragments handed out by ikcp_recv

sndVars == <<snd_queue, snd_buf, snd_una, snd_nxt>>
congVars == <<cwnd, ssthresh, incr>>
probeVars == <<probe, probing>>
rcvVars == <<rcv_nxt, rcv_buf, rcv_queue>>
histVars == <<stream, consumed>>
vars == <<sndVars, rmt_wnd, congVars, probeVars, rcvVars, acklist, rx, net,
          histVars>>

(***************************************************************************)
(* Data.  A fragment's bytes are named by the message they belong to (the  *)
(* position of its first fragment in the stream) and their place in it.    *)
(***************************************************************************)
Frag == [msg : Nat, frg : Nat, len : Nat]
Seg == [sn : Nat, frag : Frag]

\* What one call of ikcp_output carries.  All its segments were written by
\* one ikcp_flush, so they share wnd and una.
Datagram == [to : Ends, wnd : Nat, una : Nat, acks : SUBSET Nat,
             wask : BOOLEAN, wins : BOOLEAN, push : SUBSET Seg]

imin(a, b) == IF a <= b THEN a ELSE b

Idle(e) == rx[e] = {}

Sns(segs) == {s.sn : s \in segs}

(***************************************************************************)
(* ikcp_create                                                             *)
(***************************************************************************)
Init ==
    /\ snd_queue = [e \in Ends |-> <<>>]
    /\ snd_buf = [e \in Ends |-> {}]
    /\ snd_una = [e \in Ends |-> 0]
    /\ snd_nxt = [e \in Ends |-> 0]
    /\ rmt_wnd = [e \in Ends |-> WND_RCV]
    /\ cwnd = [e \in Ends |-> 0]
    /\ ssthresh = [e \in Ends |-> THRESH_MIN]
    /\ incr = [e \in Ends |-> 0]
    /\ probe = [e \in Ends |-> {}]
    /\ probing = [e \in Ends |-> FALSE]
    /\ rcv_nxt = [e \in Ends |-> 0]
    /\ rcv_buf = [e \in Ends |-> {}]
    /\ rcv_queue = [e \in Ends |-> <<>>]
    /\ acklist = [e \in Ends |-> <<>>]
    /\ rx = [e \in Ends |-> {}]
    /\ net = {}
    /\ stream = [e \in Ends |-> <<>>]
    /\ consumed = [e \in Ends |-> <<>>]

(***************************************************************************)
(* ikcp_send: the application's message is cut into count fragments, the   *)
(* last one with frg = 0.  A message of WND_RCV or more fragments is       *)
(* refused before anything is queued.                                      *)
(***************************************************************************)
FragCount(len) == IF len <= MSS THEN 1 ELSE (len + MSS - 1) \div MSS

\* mutants: the rest counted after the cut; frg counted down to 1
FragmentsShortRest(m, len) ==
    LET count == FragCount(len)
    IN  [i \in 1..count |->
            [msg |-> m, frg |-> count - i,
             len |-> IF i < count THEN MSS ELSE len - count * MSS]]

FragmentsDownToOne(m, len) ==
    LET count == FragCount(len)
    IN  [i \in 1..count |->
            [msg |-> m, frg |-> count - i + 1,
             len |-> IF i < count THEN MSS ELSE len - (count - 1) * MSS]]

Fragments(m, len) ==
    LET count == FragCount(len)
    IN  [i \in 1..count |->
            [msg |-> m, frg |-> count - i,
             len |-> IF i < count THEN MSS ELSE len - (count - 1) * MSS]]

Send(e, len) ==
    /\ Idle(e)
    /\ FragCount(len) < WND_RCV
    /\ Len(stream[e]) + FragCount(len) <= MaxFrags[e]
    /\ LET frags == Fragments(Len(stream[e]), len)
       IN  /\ snd_queue' = [snd_queue EXCEPT ![e] = @ \o frags]
           /\ stream' = [stream EXCEPT ![e] = @ \o frags]
    /\ UNCHANGED <<snd_buf, snd_una, snd_nxt, rmt_wnd, congVars, probeVars,
                   rcvVars, acklist, rx, net, consumed>>

(***************************************************************************)
(* rcv_buf -> rcv_queue, the loop that ends ikcp_parse_data and ikcp_recv: *)
(* m segments move, as many as are consecutive from rcv_nxt and fit.       *)
(***************************************************************************)
\* mutant: one segment only, no loop
MovableOne(buf, nxt, room, m) ==
    m = IF room > 0 /\ nxt \in Sns(buf) THEN 1 ELSE 0

Movable(buf, nxt, room, m) ==
    /\ m <= room
    /\ \A i \in 1..m : nxt + i - 1 \in Sns(buf)
    /\ m = room \/ nxt + m \notin Sns(buf)

SegAt(buf, sn) == CHOOSE s \in buf : s.sn = sn

\* mutant: rcv_nxt does not count what moved
MoveUncounted(e, buf, queue, m) ==
    /\ Movable(buf, rcv_nxt[e], WND_RCV - Len(queue), m)
    /\ rcv_queue' = [rcv_queue EXCEPT ![e] =
            queue \o [i \in 1..m |-> SegAt(buf, rcv_nxt[e] + i - 1).frag]]
    /\ rcv_buf' = [rcv_buf EXCEPT ![e] = {s \in buf : s.sn >= rcv_nxt[e] + m}]
    /\ UNCHANGED rcv_nxt

MoveAvailable(e, buf, queue, m) ==
    /\ Movable(buf, rcv_nxt[e], WND_RCV - Len(queue), m)
    /\ rcv_queue' = [rcv_queue EXCEPT ![e] =
            queue \o [i \in 1..m |-> SegAt(buf, rcv_nxt[e] + i - 1).frag]]
    /\ rcv_buf' = [rcv_buf EXCEPT ![e] = {s \in buf : s.sn >= rcv_nxt[e] + m}]
    /\ rcv_nxt' = [rcv_nxt EXCEPT ![e] = @ + m]

(***************************************************************************)
(* ikcp_recv: the message at the head of rcv_queue (its first k fragments) *)
(* if all of it is there and the caller's buffer holds it; what rcv_buf    *)
(* held back follows it, and the peer is told when a full queue reopens.   *)
(***************************************************************************)
HeadMessage(q, k) ==
    /\ k \in 1..Len(q)
    /\ q[k].frg = 0
    /\ \A i \in 1..(k - 1) : q[i].frg # 0

MessageLength(q, k) ==
    LET sum[i \in 0..k] == IF i = 0 THEN 0 ELSE sum[i - 1] + q[i].len
    IN  sum[k]

\* mutant: the fragments at hand make a message, the last one there or not
PeekPartial(q, k) ==
    /\ q[k].frg = 0 \/ k = Len(q)
    /\ \A i \in 1..(k - 1) : q[i].frg # 0
    /\ MessageLength(q, k) <= RECV_BUF

\* ikcp_peeksize succeeds with the k fragments of the head message
Peek(q, k) ==
    /\ HeadMessage(q, k)
    /\ q[1].frg + 1 <= Len(q)
    /\ MessageLength(q, k) <= RECV_BUF

Recv(e) ==
    /\ Idle(e)
    /\ \E k \in 1..Len(rcv_queue[e]) :
        LET q == rcv_queue[e]
            rest == SubSeq(q, k + 1, Len(q))
            recover == Len(q) >= WND_RCV
        IN  /\ Peek(q, k)
            /\ consumed' = [consumed EXCEPT ![e] = @ \o SubSeq(q, 1, k)]
            /\ \E m \in 0..WND_RCV : MoveAvailable(e, rcv_buf[e], rest, m)
            /\ probe' = [probe EXCEPT ![e] =
                    IF recover /\ Len(rcv_queue'[e]) < WND_RCV
                    THEN @ \union {"tell"} ELSE @]
    /\ UNCHANGED <<sndVars, rmt_wnd, congVars, probing, acklist, rx, net,
                   stream>>

(***************************************************************************)
(* ikcp_flush.  Its datagrams hold, in this order, the acknowledgements,   *)
(* the window probe, the window advertisement and the data segments, cut   *)
(* greedily at MTU bytes.  Place j of that order is an acknowledgement up  *)
(* to Len(acks), then the probe, the advertisement and the serial numbers  *)
(* from una on; cost is the bytes found there, 0 if nothing is.            *)
(***************************************************************************)
\* mutant: the data of a segment is counted, its header is not
CostNoHeader(acks, ask, una, push, j) ==
    LET n == Len(acks)
        sn == una + j - (n + 3)
    IN  CASE j <= n -> OVERHEAD
          [] j = n + 1 -> IF "send" \in ask THEN OVERHEAD ELSE 0
          [] j = n + 2 -> IF "tell" \in ask THEN OVERHEAD ELSE 0
          [] OTHER -> IF sn \in Sns(push) THEN SegAt(push, sn).frag.len ELSE 0

Cost(acks, ask, una, push, j) ==
    LET n == Len(acks)
        sn == una + j - (n + 3)
    IN  CASE j <= n -> OVERHEAD
          [] j = n + 1 -> IF "send" \in ask THEN OVERHEAD ELSE 0
          [] j = n + 2 -> IF "tell" \in ask THEN OVERHEAD ELSE 0
          [] OTHER -> IF sn \in Sns(push)
                      THEN OVERHEAD + SegAt(push, sn).frag.len ELSE 0

\* the datagram, counted from 1, and the bytes used in it after place j
Filled(acks, ask, una, push, last) ==
    LET fill[j \in 0..last] ==
          IF j = 0 THEN [dg |-> 1, used |-> 0]
          ELSE LET before == fill[j - 1]
                   cost == Cost(acks, ask, una, push, j)
               IN  IF before.used + cost > MTU
                   THEN [dg |-> before.dg + 1, used |-> cost]
                   ELSE [before EXCEPT !.used = @ + cost]
    IN  fill

\* ikcp_wnd_unused
WndUnused(e) ==
    IF Len(rcv_queue[e]) < WND_RCV THEN WND_RCV - Len(rcv_queue[e]) ELSE 0

Packed(e, acks, ask, una, push, last) ==
    LET n == Len(acks)
        fill == Filled(acks, ask, una, push, last)
        Here(k, j) == fill[j].dg = k
    IN  { [to |-> Peer(e),
           wnd |-> WndUnused(e),
           una |-> rcv_nxt[e],
           acks |-> {acks[i] : i \in {i \in 1..n : Here(k, i)}},
           wask |-> "send" \in ask /\ Here(k, n + 1),
           wins |-> "tell" \in ask /\ Here(k, n + 2),
           push |-> {s \in push : Here(k, n + 3 + s.sn - una)}] :
          k \in {k \in 1..fill[last].dg : fill[last].used > 0} }

\* mutant: the window counted from snd_nxt
MovedFromNxt(e, win) == imin(Len(snd_queue[e]), win)

\* the fragments the window lets flush number, and the segments they become
Moved(e, win) ==
    IF snd_una[e] + win <= snd_nxt[e] THEN 0
    ELSE imin(Len(snd_queue[e]), snd_una[e] + win - snd_nxt[e])

Numbered(e, n) ==
    { [sn |-> snd_nxt[e] + i - 1, frag |-> snd_queue[e][i]] : i \in 1..n }

\* mutant: no probe
AskedNever(e, due) == probe[e]

\* the window commands to write, the probe timer being due or not
Asked(e, due) ==
    IF rmt_wnd[e] = 0 /\ probing[e] /\ due
    THEN probe[e] \union {"send"} ELSE probe[e]

\* overdue: the segments whose resendts has passed; due: so has ts_probe
Flush(e, overdue, due) ==
    LET win == imin(cwnd[e], imin(WND_SND, rmt_wnd[e]))
        n == Moved(e, win)
        fresh == Numbered(e, n)
        ask == Asked(e, due)
        last == Len(acklist[e]) + 2 + (snd_nxt[e] + n - snd_una[e])
        cut == IF overdue # {} THEN 1 ELSE cwnd[e]
    IN  /\ Idle(e)
        /\ net' = net \union
                    Packed(e, acklist[e], ask, snd_una[e], fresh \union overdue, last)
        /\ Cardinality(net') <= MaxNet
        /\ snd_queue' = [snd_queue EXCEPT ![e] = SubSeq(@, n + 1, Len(@))]
        /\ snd_buf' = [snd_buf EXCEPT ![e] = @ \union fresh]
        /\ snd_nxt' = [snd_nxt EXCEPT ![e] = @ + n]
        /\ acklist' = [acklist EXCEPT ![e] = <<>>]
        /\ probing' = [probing EXCEPT ![e] = (rmt_wnd[e] = 0)]
        /\ probe' = [probe EXCEPT ![e] = {}]
        /\ ssthresh' = [ssthresh EXCEPT ![e] =
                IF overdue = {} THEN @
                ELSE IF win \div 2 < THRESH_MIN THEN THRESH_MIN ELSE win \div 2]
        /\ cwnd' = [cwnd EXCEPT ![e] = IF cut < 1 THEN 1 ELSE cut]
        /\ incr' = [incr EXCEPT ![e] =
                IF overdue # {} \/ cut < 1 THEN MSS ELSE @]
        /\ UNCHANGED <<snd_una, rmt_wnd, rcvVars, rx, histVars>>

(***************************************************************************)
(* ikcp_input: headers.  una and the acknowledgements remove segments from *)
(* snd_buf (ikcp_parse_una, ikcp_parse_ack), snd_una follows               *)
(* (ikcp_shrink_buf), and the window grows if snd_una moved.  A datagram   *)
(* that comes out of the FEC decoder padded with OVERHEAD or more zero     *)
(* bytes makes ikcp_input return -2 on them, before that last step.        *)
(***************************************************************************)
Unacked(e, d) ==
    { s \in snd_buf[e] :
        ~ \/ s.sn < d.una
          \/ s.sn \in d.acks /\ s.sn < snd_nxt[e] }

\* ikcp_shrink_buf: sn is the lowest serial number left, nxt if there is none
IsLowest(sn, segs, nxt) ==
    \/ segs = {} /\ sn = nxt
    \/ sn \in Sns(segs) /\ \A s \in segs : sn <= s.sn

\* mutant: slow start forgets incr
GrownOnlyCwnd(cw, ss, inc, wnd) ==
    IF cw >= wnd THEN [cwnd |-> cw, incr |-> inc]
    ELSE [cwnd |-> cw + 1, incr |-> inc]

\* cwnd and incr after one datagram that moved snd_una, the peer's window wnd
Grown(cw, ss, inc, wnd) ==
    LET base == IF inc < MSS THEN MSS ELSE inc
        more == base + (MSS * MSS) \div base + MSS \div 16
        next == IF cw < ss THEN [cwnd |-> cw + 1, incr |-> inc + MSS]
                ELSE [cwnd |-> IF (cw + 1) * MSS <= more THEN cw + 1 ELSE cw,
                      incr |-> more]
    IN  IF cw >= wnd THEN [cwnd |-> cw, incr |-> inc]
        ELSE IF next.cwnd > wnd THEN [cwnd |-> wnd, incr |-> wnd * MSS]
        ELSE next

Input(e, d, padded) ==
    /\ Idle(e)
    /\ d.to = e
    /\ Len(acklist[e]) + Cardinality(d.push) <= MaxAcks
    /\ rmt_wnd' = [rmt_wnd EXCEPT ![e] = d.wnd]
    /\ snd_buf' = [snd_buf EXCEPT ![e] = Unacked(e, d)]
    /\ \E una \in Sns(Unacked(e, d)) \union {snd_nxt[e]} :
        LET grown == Grown(cwnd[e], ssthresh[e], incr[e], d.wnd)
            grows == una > snd_una[e] /\ ~padded
        IN  /\ IsLowest(una, Unacked(e, d), snd_nxt[e])
            /\ snd_una' = [snd_una EXCEPT ![e] = una]
            /\ cwnd' = [cwnd EXCEPT ![e] = IF grows THEN grown.cwnd ELSE @]
            /\ incr' = [incr EXCEPT ![e] = IF grows THEN grown.incr ELSE @]
    /\ probe' = [probe EXCEPT ![e] = IF d.wask THEN @ \union {"tell"} ELSE @]
    /\ rx' = [rx EXCEPT ![e] = d.push]
    /\ UNCHANGED <<snd_queue, snd_nxt, ssthresh, probing, rcvVars, acklist,
                   histVars>>

(***************************************************************************)
(* ikcp_input: the PUSH segments of that datagram, in their order, one per *)
(* step; the end does nothing else until they are all parsed.  A segment   *)
(* inside the window or below it is acknowledged, and ikcp_parse_data      *)
(* keeps it if it is new.                                                  *)
(***************************************************************************)
\* mutants: what lies beyond the window is acknowledged too; what came
\* before is not acknowledged again
AcceptsAll(e, s) == TRUE
AcceptsNew(e, s) == s.sn >= rcv_nxt[e] /\ s.sn < rcv_nxt[e] + WND_RCV

\* the segments ikcp_input acknowledges, and those ikcp_parse_data keeps
Accepts(e, s) == s.sn < rcv_nxt[e] + WND_RCV
Keeps(e, s) == s.sn >= rcv_nxt[e] /\ s.sn < rcv_nxt[e] + WND_RCV

InputPush(e) ==
    /\ ~Idle(e)
    /\ \E s \in rx[e] :
        /\ \A other \in rx[e] : s.sn <= other.sn
        /\ rx' = [rx EXCEPT ![e] = @ \ {s}]
        /\ acklist' = IF Accepts(e, s)
                      THEN [acklist EXCEPT ![e] = Append(@, s.sn)]
                      ELSE acklist
        /\ \/ /\ Keeps(e, s)
              /\ LET buf == IF s.sn \in Sns(rcv_buf[e]) THEN rcv_buf[e]
                            ELSE rcv_buf[e] \union {s}
                 IN  \E m \in 0..WND_RCV :
                        MoveAvailable(e, buf, rcv_queue[e], m)
           \/ /\ ~Keeps(e, s)
              /\ UNCHANGED rcvVars
    /\ UNCHANGED <<sndVars, rmt_wnd, congVars, probeVars, net, histVars>>

(***************************************************************************)
(* The network: a datagram is handed to its end once (Deliver) or again    *)
(* later (Duplicate keeps it in flight), or it is lost.                    *)
(***************************************************************************)
Deliver(e, d, padded) == Input(e, d, padded) /\ net' = net \ {d}

Duplicate(e, d, padded) == Input(e, d, padded) /\ net' = net

Lose(d) ==
    /\ net' = net \ {d}
    /\ UNCHANGED <<sndVars, rmt_wnd, congVars, probeVars, rcvVars, acklist, rx,
                   histVars>>

Step ==
    \/ \E e \in Ends :
        \/ \E len \in MsgLens : Send(e, len)
        \/ Recv(e)
        \/ \E overdue \in SUBSET snd_buf[e], due \in BOOLEAN :
              Flush(e, overdue, due)
        \/ \E d \in net, padded \in BOOLEAN : Deliver(e, d, padded)
        \/ InputPush(e)
    \/ \E d \in net : Lose(d)

Again == \E e \in Ends, d \in net, padded \in BOOLEAN : Duplicate(e, d, padded)

Next == Step \/ Again

Spec == Init /\ [][Next]_vars

(***************************************************************************)
(* Fairness.  The event loop of each end calls ikcp_update and ikcp_recv   *)
(* again and again, and finishes the datagram it parses; time passes, so   *)
(* a segment that stays unacknowledged becomes overdue and an armed probe  *)
(* timer expires.  A datagram is duplicated a finite number of times only  *)
(* (here never); each leaves the network in the end, and the network may   *)
(* lose any of them but not all those that carry the same news.            *)
(***************************************************************************)
News(e, d, news) ==
    CASE news = "wnd" -> d.wnd > 0
      [] news = "ack" -> d.una > snd_una[e] \/ d.acks \cap Sns(snd_buf[e]) # {}
      [] news = "ask" -> d.wask
      [] OTHER -> \E s \in d.push : s.sn = rcv_nxt[e]

Hears(e, news) ==
    \E d \in net, padded \in BOOLEAN : News(e, d, news) /\ Deliver(e, d, padded)

Leaves(d) ==
    Lose(d) \/ \E e \in Ends, padded \in BOOLEAN : Deliver(e, d, padded)

Fairness ==
    /\ WF_vars(\E d \in net : Leaves(d))
    /\ \A e \in Ends :
        /\ WF_vars(InputPush(e))
        /\ WF_vars(Recv(e))
        /\ SF_vars(Flush(e, snd_buf[e], TRUE))
        /\ \A news \in {"wnd", "ack", "ask", "push"} : SF_vars(Hears(e, news))

FairSpec == Init /\ [][Step]_vars /\ Fairness

-------------------------------------------------------------------------------
(***************************************************************************)
(* Properties                                                              *)
(***************************************************************************)

\* Every variable has its type; the only invariant that says just that.
TypeOK ==
    /\ snd_queue \in [Ends -> Seq(Frag)]
    /\ snd_buf \in [Ends -> SUBSET Seg]
    /\ snd_una \in [Ends -> Nat]
    /\ snd_nxt \in [Ends -> Nat]
    /\ rmt_wnd \in [Ends -> Nat]
    /\ cwnd \in [Ends -> Nat]
    /\ ssthresh \in [Ends -> Nat]
    /\ incr \in [Ends -> Nat]
    /\ probe \in [Ends -> SUBSET {"send", "tell"}]
    /\ probing \in [Ends -> BOOLEAN]
    /\ rcv_nxt \in [Ends -> Nat]
    /\ rcv_buf \in [Ends -> SUBSET Seg]
    /\ rcv_queue \in [Ends -> Seq(Frag)]
    /\ acklist \in [Ends -> Seq(Nat)]
    /\ rx \in [Ends -> SUBSET Seg]
    /\ net \subseteq Datagram
    /\ stream \in [Ends -> Seq(Frag)]
    /\ consumed \in [Ends -> Seq(Frag)]

\* What ikcp_recv has handed out at one end is a prefix of what ikcp_send
\* accepted at the other: nothing lost, repeated, reordered or altered,
\* whatever the network did (ikcp.c:683-743, 822-847).
InOrder ==
    \A e \in Ends :
        /\ Len(consumed[e]) <= Len(stream[Peer(e)])
        /\ \A i \in 1..Len(consumed[e]) : consumed[e][i] = stream[Peer(e)][i]

\* A numbered segment leaves snd_buf only when the other end has it: until
\* then some flush can still resend it (ikcp.c:571-607).
NoSegmentAbandoned ==
    \A e \in Ends : \A sn \in 0..(snd_nxt[e] - 1) :
        \/ sn \in Sns(snd_buf[e])
        \/ sn < rcv_nxt[Peer(e)]
        \/ sn \in Sns(rcv_buf[Peer(e)])

\* Memory is bounded on both sides although the advertised window a sender
\* acts on may be stale (a reordered datagram brings an old wnd back): never
\* more than a window of segments numbered past snd_una, and none kept in
\* rcv_buf beyond rcv_wnd (ikcp.c:689-693, 788, 1012-1019).
BuffersBounded ==
    \A e \in Ends :
        /\ snd_una[e] <= snd_nxt[e]
        /\ snd_nxt[e] <= snd_una[e] + imin(WND_SND, WND_RCV)
        /\ Sns(snd_buf[e]) \subseteq snd_una[e]..(snd_nxt[e] - 1)
        /\ Len(rcv_queue[e]) <= WND_RCV
        /\ Sns(rcv_buf[e]) \subseteq rcv_nxt[e]..(rcv_nxt[e] + WND_RCV - 1)
        /\ \A s, t \in rcv_buf[e] : s.sn = t.sn => s = t

\* A full rcv_queue always starts with a whole message that the caller's
\* buffer holds.  Otherwise ikcp_recv would fail for ever, the window would
\* stay shut and both ends would wait (ikcp.c:367-378, 441-463, 510).
FullQueueHasMessage ==
    \A e \in Ends :
        Len(rcv_queue[e]) >= WND_RCV =>
            \E k \in 1..Len(rcv_queue[e]) : Peek(rcv_queue[e], k)

\* The segment the application waits for stays in rcv_buf only while
\* rcv_queue is full: parse_data and recv both run the moving loop to its
\* end (ikcp.c:720-732, 413-425).
NothingDeliverableHeld ==
    \A e \in Ends :
        rcv_nxt[e] \in Sns(rcv_buf[e]) => Len(rcv_queue[e]) >= WND_RCV

\* cwnd and incr are set together at five places (ikcp.c:876-892,
\* 1110-1131); incr counts bytes, and cwnd is always that in segments.
CwndTracksIncr ==
    \A e \in Ends : cwnd[e] = incr[e] \div MSS

\* No call of ikcp_output carries more than the MTU (ikcp.c:956, 992, 1003,
\* 1086); an acknowledgement listed twice in a datagram is counted once.
DatagramBytes(d) ==
    LET sum[segs \in SUBSET d.push] ==
          IF segs = {} THEN 0
          ELSE LET s == CHOOSE s \in segs : TRUE
               IN  OVERHEAD + s.frag.len + sum[segs \ {s}]
        probes == (IF d.wask THEN 1 ELSE 0) + (IF d.wins THEN 1 ELSE 0)
    IN  sum[d.push] + OVERHEAD * (Cardinality(d.acks) + probes)

DatagramFitsMtu == \A d \in net : DatagramBytes(d) <= MTU

(***************************************************************************)
(* The inductive invariant behind InOrder and NoSegmentAbandoned.          *)
(***************************************************************************)

\* s is the segment end e numbered s.sn
Carries(e, s) == s.sn < snd_nxt[e] /\ s.frag = stream[e][s.sn + 1]

\* end e has the segment sn of its peer
Got(e, sn) == sn < rcv_nxt[e] \/ sn \in Sns(rcv_buf[e])

\* The stream is what was numbered, followed by snd_queue.
StreamSplit ==
    \A e \in Ends :
        /\ Len(stream[e]) = snd_nxt[e] + Len(snd_queue[e])
        /\ \A i \in 1..Len(snd_queue[e]) :
              snd_queue[e][i] = stream[e][snd_nxt[e] + i]

\* Every segment, wherever it is, still carries what was numbered.
SegmentsGenuine ==
    /\ \A e \in Ends :
        /\ \A s \in snd_buf[e] : Carries(e, s)
        /\ \A s \in rx[e] : Carries(Peer(e), s)
        /\ \A s \in rcv_buf[e] : Carries(Peer(e), s)
    /\ \A d \in net : \A s \in d.push : Carries(Peer(d.to), s)

\* What was handed out, followed by rcv_queue, is the peer's stream up to
\* rcv_nxt.
ReceivedPrefix ==
    \A e \in Ends :
        /\ rcv_nxt[e] = Len(consumed[e]) + Len(rcv_queue[e])
        /\ rcv_nxt[e] <= snd_nxt[Peer(e)]
        /\ \A i \in 1..Len(consumed[e]) : consumed[e][i] = stream[Peer(e)][i]
        /\ \A i \in 1..Len(rcv_queue[e]) :
              rcv_queue[e][i] = stream[Peer(e)][Len(consumed[e]) + i]

StreamInv == TypeOK /\ StreamSplit /\ SegmentsGenuine /\ ReceivedPrefix

\* An acknowledgement, pending or in flight, is of a segment its end has.
AcksTrue ==
    /\ \A e \in Ends : \A i \in 1..Len(acklist[e]) : Got(e, acklist[e][i])
    /\ \A d \in net :
        /\ d.una <= rcv_nxt[Peer(d.to)]
        /\ \A sn \in d.acks : Got(Peer(d.to), sn)

AckInv == StreamInv /\ AcksTrue /\ NoSegmentAbandoned

\* The link is the stream the applications think they have: every step hands
\* out one whole message of the peer, the next one, or changes nothing they
\* see (ikcp_send, ikcp_recv; ikcp.c:358-435, 469-537).
Stream == INSTANCE ReliableStream WITH accepted <- stream, handed <- consumed

ReliableStreamSpec == Stream!Spec

\* What an application sends reaches the other application, whatever was
\* lost on the way and even if the receiver's window was shut for a while
\* (ikcp.c:967-1010, 1040-1102).  Both histories only grow and MaxFrags bounds
\* them, so each fragment arrives if again and again none is missing.
EverythingArrives ==
    \A e \in Ends : []<>(Len(consumed[Peer(e)]) = Len(stream[e]))

\* The sender learns it: again and again there is nothing left to resend.
SenderDrains ==
    \A e \in Ends : []<>(snd_buf[e] = {} /\ snd_queue[e] = <<>>)
=============================================================================
