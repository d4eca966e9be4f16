------------------------------- MODULE KcpClock -------------------------------
(***************************************************************************)
(* The clock of one KCP control block (src/lib/kcp/source/ikcp.c): when    *)
(* ikcp_update flushes, when a flush resends a segment or asks for the     *)
(* window, how the retransmission timeout follows the round trips, and     *)
(* what ikcp_check answers.  KcpLink has the rest and takes any time.      *)
(*                                                                         *)
(* A time is a 32-bit counter of milliseconds (W = 2^32 values) that       *)
(* wraps.  The samples read it from gettimeofday, so it may be set back;   *)
(* between two calls of ikcp_update the control block does not see it      *)
(* move.  nodelay is 0, as in the program.                                 *)
(***************************************************************************)
EXTENDS Integers

CONSTANTS
    W,              \* 2^32: how many values a time has
    INTERVAL,       \* IKCP_INTERVAL
    RTO_DEF, RTO_MIN, RTO_MAX,  \* IKCP_RTO_DEF, IKCP_RTO_MIN, IKCP_RTO_MAX
    SLACK,          \* 8: a first transmission has 1/8 of the timeout more
    JUMP,           \* 10000: a larger difference restarts the flush timer
    PROBE_INIT, PROBE_LIMIT,    \* IKCP_PROBE_INIT, IKCP_PROBE_LIMIT
    Segs,           \* segments; each may be sent again under a new number
    Phases,         \* what the clock may show at the first ikcp_update
    Ticks,          \* time from one ikcp_update to the next
    Gap,            \* the longest of them
    Backs,          \* by how much the clock may be set back, once
    Ages,           \* how long ago the segment was sent that an
                    \* acknowledgement answers, by the clock of this end
    MaxXmit         \* bound: transmissions of a segment

ASSUME ClockAssumption ==
    /\ W \in Nat \ {0} /\ W % 2 = 0
    /\ INTERVAL \in Nat \ {0} /\ INTERVAL <= JUMP
    /\ RTO_MIN \in Nat \ {0} /\ RTO_DEF \in RTO_MIN..RTO_MAX /\ RTO_MAX \in Nat
    /\ SLACK \in Nat \ {0} /\ JUMP \in Nat \ {0}
    /\ PROBE_INIT \in Nat \ {0} /\ PROBE_LIMIT \in Nat /\ PROBE_INIT <= PROBE_LIMIT
    /\ Phases \subseteq 0..(W - 1)
    /\ Gap \in Nat /\ Ticks \subseteq 1..Gap
    /\ Backs \subseteq Nat \ {0}
    /\ Ages \subseteq Int
    /\ MaxXmit \in Nat \ {0, 1}
    \* nothing is waited for as long as half the range of the counter
    /\ INTERVAL + JUMP + 2 * Gap < W \div 2
    /\ \A b \in Backs \union {0} :
        /\ MaxXmit * RTO_MAX + b < W \div 2
        /\ PROBE_LIMIT + INTERVAL + Gap + b < W \div 2

VARIABLES
    current,    \* the time of the last ikcp_update
    updated,    \* it was called
    ts_flush,   \* when the next flush is due
    rx_srtt, rx_rttval,     \* smoothed round trip and its deviation
    rx_rto,     \* retransmission timeout
    snd_buf,    \* per segment [xmit, rto, resendts]; xmit = 0: not in snd_buf
    shut,       \* rmt_wnd = 0
    probe_wait, ts_probe,
    setback,    \* the clock was set back
    flushed,    \* history: time since the last flush [for, back]
    waited,     \* history: per segment, since its last transmission
    probed      \* history: since the window shut or the last probe; .back
                \* since the probe timer was last stopped or restarted

rttVars == <<rx_srtt, rx_rttval, rx_rto>>
probeVars == <<probe_wait, ts_probe>>
histVars == <<flushed, waited, probed>>
vars == <<current, updated, ts_flush, rttVars, snd_buf, shut, probeVars,
          setback, histVars>>

imin(a, b) == IF a <= b THEN a ELSE b
imax(a, b) == IF a >= b THEN a ELSE b

\* a time d later, or earlier if d < 0
Plus(t, d) == (t + d) % W

\* _itimediff: the difference of two times as a signed number
Diff(later, earlier) ==
    LET d == (later - earlier) % W
    IN  IF d < W \div 2 THEN d ELSE d - W

Absent == [xmit |-> 0, rto |-> 0, resendts |-> 0]
InBuf(s) == snd_buf[s].xmit > 0

\* how long something has been waited for, and how far the clock was set back
\* in that time
Zero == [for |-> 0, back |-> 0]
Later(w, d, b) == [for |-> w.for + d, back |-> w.back + b]

Init ==
    /\ current = 0
    /\ updated = FALSE
    /\ ts_flush = INTERVAL
    /\ rx_srtt = 0 /\ rx_rttval = 0
    /\ rx_rto = RTO_DEF
    /\ snd_buf = [s \in Segs |-> Absent]
    /\ shut = FALSE
    /\ probe_wait = 0 /\ ts_probe = 0
    /\ setback = FALSE
    /\ flushed = Zero
    /\ waited = [s \in Segs |-> Zero]
    /\ probed = Zero

(***************************************************************************)
(* ikcp_update_ack: a round trip of rtt.                                   *)
(***************************************************************************)
\* mutant: no upper bound
RtoUnbounded(srtt, rttval) ==
    imax(RTO_MIN, srtt + imax(INTERVAL, 4 * rttval))

Rto(srtt, rttval) ==
    imin(imax(RTO_MIN, srtt + imax(INTERVAL, 4 * rttval)), RTO_MAX)

Abs(n) == IF n < 0 THEN -n ELSE n

Srtt(rtt) == IF rx_srtt = 0 THEN rtt ELSE imax(1, (7 * rx_srtt + rtt) \div 8)

Rttval(rtt) ==
    IF rx_srtt = 0 THEN rtt \div 2
    ELSE (3 * rx_rttval + Abs(rtt - rx_srtt)) \div 4

(***************************************************************************)
(* ikcp_input, the parts that touch the clock.  Any header brings a window *)
(* and una, which may remove segments.                                     *)
(***************************************************************************)
Header(closed, acked) ==
    /\ shut' = closed
    /\ probed' = IF shut /\ closed THEN probed ELSE [probed EXCEPT !.for = 0]
    /\ snd_buf' = [s \in Segs |-> IF s \in acked THEN Absent ELSE snd_buf[s]]
    /\ waited' = [s \in Segs |-> IF s \in acked THEN Zero ELSE waited[s]]
    /\ UNCHANGED <<current, updated, ts_flush, probeVars, setback, flushed>>

Input(closed, acked) == Header(closed, acked) /\ UNCHANGED rttVars

\* An acknowledgement also echoes when its segment was sent.  A time still to
\* come, as it seems after a set-back, is no round trip.
InputAck(closed, acked, age) ==
    LET rtt == Diff(current, Plus(current, -age))
    IN  /\ updated
        /\ Header(closed, acked)
        /\ IF rtt >= 0
           THEN /\ rx_srtt' = Srtt(rtt)
                /\ rx_rttval' = Rttval(rtt)
                /\ rx_rto' = Rto(Srtt(rtt), Rttval(rtt))
           ELSE UNCHANGED rttVars

(***************************************************************************)
(* ikcp_flush at time t, the parts that look at it.                        *)
(***************************************************************************)
\* the first transmission of a segment, and one more
First(t) ==
    [xmit |-> 1, rto |-> rx_rto, resendts |-> Plus(t, rx_rto + rx_rto \div SLACK)]

\* mutant: the timeout does not grow
AgainSame(seg, t) ==
    [xmit |-> seg.xmit + 1, rto |-> rx_rto, resendts |-> Plus(t, rx_rto)]

Again(seg, t) ==
    [xmit |-> seg.xmit + 1, rto |-> seg.rto + rx_rto,
     resendts |-> Plus(t, seg.rto + rx_rto)]

\* mutant: as if the clock did not wrap
OverduePlain(s, t) == InBuf(s) /\ t >= snd_buf[s].resendts

Overdue(s, t) == InBuf(s) /\ Diff(t, snd_buf[s].resendts) >= 0

\* the segments a flush may number: none into a shut window
Unsent == IF shut THEN {} ELSE {s \in Segs : ~InBuf(s)}

\* the segments sent at t for the first time (fresh) or again
FlushSegments(fresh, t) ==
    snd_buf' = [s \in Segs |->
                  IF s \in fresh THEN First(t)
                  ELSE IF Overdue(s, t) THEN Again(snd_buf[s], t)
                  ELSE snd_buf[s]]

ProbeDue(t) == shut /\ probe_wait # 0 /\ Diff(t, ts_probe) >= 0

\* mutant: no limit
LongerWaitFree == probe_wait + probe_wait \div 2

LongerWait ==
    LET base == imax(probe_wait, PROBE_INIT)
    IN  imin(base + base \div 2, PROBE_LIMIT)

FlushProbe(t) ==
    /\ probe_wait' = IF ~shut THEN 0
                     ELSE IF probe_wait = 0 THEN PROBE_INIT
                     ELSE IF ProbeDue(t) THEN LongerWait
                     ELSE probe_wait
    /\ ts_probe' = IF ~shut THEN 0
                   ELSE IF probe_wait = 0 \/ ProbeDue(t) THEN Plus(t, probe_wait')
                   ELSE ts_probe

(***************************************************************************)
(* ikcp_update                                                             *)
(***************************************************************************)
\* mutant: only a jump ahead counts
JumpedAhead(t, ts) == Diff(t, ts) >= JUMP

Jumped(t, ts) == Diff(t, ts) >= JUMP \/ Diff(t, ts) < -JUMP

\* what ikcp_update takes ts_flush for at time t
Anchor(t, ts) == IF Jumped(t, ts) THEN t ELSE ts

\* and what it makes of it if it flushes
NextFlush(t, ts) ==
    LET next == Plus(Anchor(t, ts), INTERVAL)
    IN  IF Diff(t, next) >= 0 THEN Plus(t, INTERVAL) ELSE next

Flushes(t, ts) == Diff(t, Anchor(t, ts)) >= 0

\* the call at time t, d after the last one, the clock set back by b meanwhile
UpdateAt(t, ts, d, b) ==
    /\ current' = t
    /\ \/ /\ Flushes(t, ts)
          /\ ts_flush' = NextFlush(t, ts)
          /\ \E fresh \in SUBSET Unsent :
                /\ FlushSegments(fresh, t)
                /\ \A s \in Segs : snd_buf'[s].xmit <= MaxXmit
                /\ waited' = [s \in Segs |->
                        IF s \in fresh \/ Overdue(s, t) THEN Zero
                        ELSE IF InBuf(s) THEN Later(waited[s], d, b) ELSE Zero]
          /\ FlushProbe(t)
          /\ probed' = IF ProbeDue(t) \/ ~shut THEN Zero ELSE Later(probed, d, b)
          /\ flushed' = Zero
       \/ /\ ~Flushes(t, ts)
          /\ ts_flush' = ts
          /\ waited' = [s \in Segs |->
                IF InBuf(s) THEN Later(waited[s], d, b) ELSE Zero]
          /\ probed' = Later(probed, IF shut THEN d ELSE 0, b)
          /\ flushed' = Later(flushed, d, b)
          /\ UNCHANGED <<snd_buf, probeVars>>
    /\ UNCHANGED <<rttVars, shut>>

FirstUpdate(t) ==
    /\ ~updated
    /\ updated' = TRUE
    /\ UpdateAt(t, t, 0, 0)
    /\ UNCHANGED setback

Update(d) ==
    /\ updated
    /\ UpdateAt(Plus(current, d), ts_flush, d, 0)
    /\ UNCHANGED <<updated, setback>>

UpdateSetBack(d, b) ==
    /\ updated
    /\ ~setback
    /\ setback' = TRUE
    /\ UpdateAt(Plus(current, d - b), ts_flush, d, b)
    /\ UNCHANGED updated

(***************************************************************************)
(* ikcp_check: when to call ikcp_update next.  The samples do not ask.     *)
(***************************************************************************)
\* mutant: the flush timer is left to the interval
WaitNoFlush(t) ==
    LET packets == {Diff(snd_buf[s].resendts, t) : s \in {s \in Segs : InBuf(s)}}
    IN  CHOOSE m \in packets \union {INTERVAL} :
            \A n \in packets \union {INTERVAL} : m <= n

\* the least of the times to the flush and the resends, and the interval
Wait(t) ==
    LET packets == {Diff(snd_buf[s].resendts, t) : s \in {s \in Segs : InBuf(s)}}
        all == packets \union {Diff(ts_flush, t), INTERVAL}
    IN  CHOOSE m \in all : \A n \in all : m <= n

Check(t) ==
    IF ~updated \/ Jumped(t, ts_flush) \/ Diff(t, ts_flush) >= 0 THEN t
    ELSE IF \E s \in Segs : InBuf(s) /\ Diff(snd_buf[s].resendts, t) <= 0 THEN t
    ELSE Plus(t, Wait(t))

\* (an acknowledgement that also changes the window is an Input first)
Next ==
    \/ \E t \in Phases : FirstUpdate(t)
    \/ \E d \in Ticks : Update(d) \/ \E b \in Backs : UpdateSetBack(d, b)
    \/ \E acked \in SUBSET {s \in Segs : InBuf(s)} :
        \/ \E closed \in BOOLEAN : Input(closed, acked)
        \/ \E age \in Ages : InputAck(shut, acked, age)

Spec == Init /\ [][Next]_vars

-------------------------------------------------------------------------------
(***************************************************************************)
(* Properties                                                              *)
(***************************************************************************)
Times == 0..(W - 1)
Span == [for : Nat, back : Nat]

\* Every variable has its type; the only invariant that says just that.  The
\* timeout keeps its bounds.
ClockTypeOK ==
    /\ current \in Times /\ ts_flush \in Times /\ ts_probe \in Times
    /\ updated \in BOOLEAN /\ shut \in BOOLEAN /\ setback \in BOOLEAN
    /\ rx_srtt \in Nat /\ rx_rttval \in Nat
    /\ rx_rto \in RTO_MIN..RTO_MAX
    /\ snd_buf \in [Segs -> [xmit : 0..MaxXmit, rto : Nat, resendts : Times]]
    /\ probe_wait \in 0..PROBE_LIMIT
    /\ flushed \in Span /\ probed \in Span
    /\ waited \in [Segs -> Span]

\* The first ikcp_update that comes INTERVAL or more after the last flush
\* flushes again, across the wrap of the counter.  A set-back delays it by as
\* much, but by no more than JUMP (ikcp.c:1151-1164).
FlushedInTime ==
    flushed.for < INTERVAL + imin(flushed.back, JUMP + Gap)

\* No flush passes over a segment whose timeout, by a clock that was not set
\* back, has run out; a set-back holds it up by as much, however long that is
\* (ikcp.c:1048-1063).
ResentInTime ==
    \A s \in Segs :
        InBuf(s) =>
            waited[s].for - flushed.for
                < snd_buf[s].rto + RTO_MAX \div SLACK + waited[s].back - flushed.back

\* A segment is not sent again too early, and less often each time: n
\* transmissions are followed by a pause of n minimal timeouts whatever the
\* acknowledgements of other segments do to the estimate (ikcp.c:1048-1063).
BacksOff ==
    [][\A s \in Segs :
        snd_buf'[s].xmit > snd_buf[s].xmit /\ InBuf(s) =>
            waited[s].for + Diff(current', current) >= snd_buf[s].xmit * RTO_MIN]_vars

\* As long as the window is shut the other end is asked again and again, at
\* least every PROBE_LIMIT as flushes permit, or as much later as the clock was
\* set back while the probe timer ran (ikcp.c:967-986).
ProbedInTime ==
    shut /\ updated =>
        probed.for - flushed.for < PROBE_LIMIT + INTERVAL + Gap + probed.back

\* Who calls ikcp_update only when ikcp_check says so misses no flush: at no
\* time before it would ikcp_update have flushed, and it is not more than
\* INTERVAL away (ikcp.c:1177-1213 beside 1151-1164).
CheckNeverLate ==
    updated =>
        LET wait == Diff(Check(current), current)
        IN  /\ wait \in 0..INTERVAL
            /\ \A d \in 0..(wait - 1) : ~Flushes(Plus(current, d), ts_flush)
=============================================================================
