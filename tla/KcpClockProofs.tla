---------------------------- MODULE KcpClockProofs ----------------------------
(***************************************************************************)
(* Theorems about KcpClock: for every width of the counter, every interval *)
(* and every set-back, a flush is not missed (FlushedInTime) and what      *)
(* ikcp_check answers is never too late (CheckNeverLate).                  *)
(*                                                                         *)
(* The argument never looks at a time, only at differences: Diff is the    *)
(* one number between -W/2 and W/2 that is the true difference modulo W    *)
(* (DiffTrue, DiffUnique).                                                 *)
(***************************************************************************)
EXTENDS KcpClock, WellFoundedInduction, TLAPS

\* equal modulo W
Same(x, y) == \E k \in Int : x = y + k * W

Half == -(W \div 2)..(W \div 2 - 1)

-------------------------------------------------------------------------------
(***************************************************************************)
(* Arithmetic                                                              *)
(***************************************************************************)
LEMMA Width == W \in Nat /\ W > 0 /\ W \div 2 \in Nat /\ W = 2 * (W \div 2)
BY ClockAssumption, SMT

LEMMA ModTrue ==
    ASSUME NEW x \in Int
    PROVE  x % W \in 0..(W - 1) /\ Same(x % W, x)
<1>1. x % W \in 0..(W - 1)
    BY ClockAssumption, SMT
<1> DEFINE q == x \div W
           r == x % W
<1>2. q \in Int
    BY ClockAssumption, SMT
<1>3. x = W * q + r
    BY ClockAssumption, SMTT(20)
<1> HIDE DEF q, r
<1>4. r \in Int
    BY <1>1 DEF r
<1>5. -q \in Int /\ r = x + (-q) * W
    BY <1>2, <1>3, <1>4, Width, SMT
<1>6. Same(r, x)
    BY <1>5, Zenon DEF Same
<1> QED
    BY <1>1, <1>6 DEF r

LEMMA SameSum ==
    ASSUME NEW a \in Int, NEW b \in Int, NEW c \in Int, NEW d \in Int,
           Same(a, b), Same(c, d)
    PROVE  Same(a + c, b + d) /\ Same(a - c, b - d)
<1>1. PICK k \in Int : a = b + k * W
    BY DEF Same
<1>2. PICK l \in Int : c = d + l * W
    BY DEF Same
<1>3. k + l \in Int /\ a + c = b + d + (k + l) * W
    BY <1>1, <1>2, Width, SMT
<1>4. k - l \in Int /\ a - c = b - d + (k - l) * W
    BY <1>1, <1>2, Width, SMT
<1> QED
    BY <1>3, <1>4, Zenon DEF Same

LEMMA SameItself == ASSUME NEW a \in Int PROVE Same(a, a)
<1>1. a = a + 0 * W
    BY Width, SMT
<1> QED
    BY <1>1, SMT DEF Same

LEMMA SameTrans ==
    ASSUME NEW a \in Int, NEW b \in Int, NEW c \in Int, Same(a, b), Same(b, c)
    PROVE  Same(a, c)
<1>1. PICK k \in Int : a = b + k * W
    BY DEF Same
<1>2. PICK l \in Int : b = c + l * W
    BY DEF Same
<1>3. k + l \in Int /\ a = c + (k + l) * W
    BY <1>1, <1>2, Width, SMT
<1> QED
    BY <1>3, Zenon DEF Same

LEMMA SameSym ==
    ASSUME NEW a \in Int, NEW b \in Int, Same(a, b)
    PROVE  Same(b, a)
<1>1. PICK k \in Int : a = b + k * W
    BY DEF Same
<1>2. -k \in Int /\ b = a + (-k) * W
    BY <1>1, Width, SMT
<1> QED
    BY <1>2, Zenon DEF Same

\* Two numbers of one half-range that are equal modulo W are equal.
LEMMA SameInHalf ==
    ASSUME NEW a \in Half, NEW b \in Half, Same(a, b)
    PROVE  a = b
<1>1. PICK k \in Int : a = b + k * W
    BY DEF Same
<1> DEFINE w == W
<1>2. w \in Nat /\ w > 0
    BY Width
<1>3. a \in Int /\ b \in Int /\ a - b < w /\ b - a < w
    BY Width, SMT DEF Half
<1>4. a = b + k * w
    BY <1>1
<1> HIDE DEF w
<1>5. ~(k >= 1)
    <2> SUFFICES ASSUME k >= 1 PROVE FALSE
        OBVIOUS
    <2>1. (k - 1) * w >= 0
        BY <1>2, SMT
    <2> QED
        BY <2>1, <1>2, <1>3, <1>4, SMT
<1>6. ~(k <= -1)
    <2> SUFFICES ASSUME k <= -1 PROVE FALSE
        OBVIOUS
    <2>1. (-k - 1) * w >= 0
        BY <1>2, SMT
    <2> QED
        BY <2>1, <1>2, <1>3, <1>4, SMT
<1>7. k = 0
    BY <1>5, <1>6, SMT
<1> QED
    BY <1>2, <1>3, <1>4, <1>7, SMT

LEMMA DiffTrue ==
    ASSUME NEW a \in Int, NEW b \in Int
    PROVE  Diff(a, b) \in Half /\ Same(Diff(a, b), a - b)
<1> DEFINE d == (a - b) % W
<1>1. a - b \in Int
    OBVIOUS
<1>2. d \in 0..(W - 1) /\ Same(d, a - b)
    BY <1>1, ModTrue
<1>3. Diff(a, b) = IF d < W \div 2 THEN d ELSE d - W
    BY DEF Diff
<1> HIDE DEF d
<1>4. d \in Int /\ Same(d - W, a - b)
    <2>1. PICK k \in Int : d = a - b + k * W
        BY <1>2 DEF Same
    <2>2. d \in Int /\ k - 1 \in Int /\ d - W = a - b + (k - 1) * W
        BY <1>2, <2>1, Width, SMT
    <2> QED
        BY <2>2, Zenon DEF Same
<1>5. Diff(a, b) \in Half
    BY <1>2, <1>3, Width, SMT DEF Half
<1>6. Same(Diff(a, b), a - b)
    BY <1>2, <1>3, <1>4, Zenon
<1> QED
    BY <1>5, <1>6

LEMMA DiffUnique ==
    ASSUME NEW a \in Int, NEW b \in Int, NEW e \in Half, Same(e, a - b)
    PROVE  Diff(a, b) = e
<1>1. Diff(a, b) \in Half /\ Same(Diff(a, b), a - b)
    BY DiffTrue
<1>2. Diff(a, b) \in Int /\ e \in Int /\ a - b \in Int
    BY <1>1, Width, SMT DEF Half
<1>3. Same(a - b, e)
    BY <1>1, <1>2, SameSym
<1>4. Same(Diff(a, b), e)
    BY <1>1, <1>2, <1>3, SameTrans
<1> QED
    BY <1>1, <1>4, SameInHalf

LEMMA DiffItself == ASSUME NEW a \in Int PROVE Diff(a, a) = 0
<1>1. a - a = 0 /\ 0 \in Half
    BY Width, SMT DEF Half
<1>2. Same(0, a - a)
    BY <1>1, SameItself
<1> QED
    BY <1>1, <1>2, DiffUnique

LEMMA PlusTrue ==
    ASSUME NEW t \in Int, NEW d \in Int
    PROVE  Plus(t, d) \in Times /\ Plus(t, d) \in Int /\ Same(Plus(t, d), t + d)
<1>1. t + d \in Int
    OBVIOUS
<1>2. (t + d) % W \in 0..(W - 1) /\ Same((t + d) % W, t + d)
    BY <1>1, ModTrue
<1> QED
    BY <1>2, Width DEF Plus, Times

\* What a difference becomes when its subtrahend moves on by d.
LEMMA DiffMoves ==
    ASSUME NEW ts \in Int, NEW t \in Int, NEW d \in Int
    PROVE  Same(Diff(ts, Plus(t, d)), Diff(ts, t) - d)
<1> DEFINE p == Plus(t, d)
           e == Diff(ts, t)
           f == Diff(ts, p)
<1>1. p \in Int /\ Same(p, t + d)
    BY PlusTrue
<1>2. e \in Half /\ Same(e, ts - t)
    BY DiffTrue
<1>3. f \in Half /\ Same(f, ts - p)
    BY <1>1, DiffTrue
<1> HIDE DEF p, e, f
<1>4. e \in Int /\ f \in Int /\ t + d \in Int /\ ts - t \in Int /\ ts - p \in Int
    BY <1>1, <1>2, <1>3, Width, SMT DEF Half
<1>5. Same(ts - p, ts - (t + d))
    BY <1>1, <1>4, SameItself, SameSum
<1> DEFINE g == ts - (t + d)
           h == e - d
<1>6. Same(h, (ts - t) - d)
    BY <1>2, <1>4, SameItself, SameSum
<1>7. g = (ts - t) - d /\ g \in Int /\ h \in Int
    BY <1>4, SMT
<1>8. Same(f, g)
    BY <1>3, <1>4, <1>5, <1>7, SameTrans
<1> HIDE DEF g, h
<1>9. Same(h, g)
    BY <1>6, <1>7, Zenon
<1>10. Same(g, h)
    BY <1>7, <1>9, SameSym
<1>11. Same(f, h)
    BY <1>4, <1>7, <1>8, <1>10, SameTrans
<1> QED
    BY <1>11 DEF e, f, h, p

LEMMA DiffMovesTo ==
    ASSUME NEW ts \in Int, NEW t \in Int, NEW d \in Int, Diff(ts, t) - d \in Half
    PROVE  Diff(ts, Plus(t, d)) = Diff(ts, t) - d
<1>1. Same(Diff(ts, Plus(t, d)), Diff(ts, t) - d)
    BY DiffMoves
<1>2. Plus(t, d) \in Int
    BY PlusTrue
<1>3. Diff(ts, Plus(t, d)) \in Half
    BY <1>2, DiffTrue
<1> QED
    BY <1>1, <1>3, SameInHalf

\* The difference to a time e later is e.
LEMMA DiffAhead ==
    ASSUME NEW t \in Int, NEW e \in Half
    PROVE  Diff(Plus(t, e), t) = e
<1>1. e \in Int
    BY Width, SMT DEF Half
<1>2. Plus(t, e) \in Int /\ Same(Plus(t, e), t + e)
    BY <1>1, PlusTrue
<1>3. Same(Plus(t, e) - t, (t + e) - t)
    BY <1>1, <1>2, SameItself, SameSum
<1>4. (t + e) - t = e /\ Plus(t, e) - t \in Int
    BY <1>1, <1>2, SMT
<1> DEFINE f == Plus(t, e) - t
<1>5. Same(f, e)
    BY <1>3, <1>4, Zenon
<1>6. f \in Int
    BY <1>4
<1> HIDE DEF f
<1>7. Same(e, f)
    BY <1>1, <1>5, <1>6, SameSym
<1> QED
    BY <1>2, <1>7, DiffUnique DEF f

LEMMA DiffReversed ==
    ASSUME NEW a \in Int, NEW b \in Int
    PROVE  /\ Diff(a, b) # -(W \div 2) => Diff(b, a) = -Diff(a, b)
           /\ Diff(a, b) = -(W \div 2) => Diff(b, a) = -(W \div 2)
<1> DEFINE e == Diff(a, b)
           f == Diff(b, a)
<1>1. e \in Half /\ Same(e, a - b)
    BY DiffTrue
<1>2. f \in Half /\ Same(f, b - a)
    BY DiffTrue
<1> HIDE DEF e, f
<1>3. e \in Int /\ f \in Int /\ a - b \in Int /\ b - a \in Int
    BY <1>1, <1>2, Width, SMT DEF Half
<1>4. Same(e + f, a - b + (b - a))
    BY <1>1, <1>2, <1>3, SameSum
<1>5. Same(e + f, 0)
    BY <1>3, <1>4, SMT
<1>6. CASE e # -(W \div 2)
    <2>1. -e \in Half
        BY <1>1, <1>3, <1>6, Width, SMT DEF Half
    <2>2. Same(e + f - e, 0 - e)
        BY <1>3, <1>5, SameItself, SameSum
    <2>3. e + f - e = f /\ 0 - e = -e
        BY <1>3, SMT
    <2>4. f = -e
        BY <1>2, <2>1, <2>2, <2>3, SameInHalf
    <2> QED
        BY <1>6, <2>4 DEF e, f
<1>7. CASE e = -(W \div 2)
    <2>1. PICK k \in Int : e + f = 0 + k * W
        BY <1>5 DEF Same
    <2>2. k - 1 \in Int /\ k + 1 \in Int /\ f - e = 0 + (k + 1) * W
        BY <1>3, <1>7, <2>1, Width, SMT
    <2>3. Same(f - e, 0)
        BY <2>2, Zenon DEF Same
    <2>4. Same(f - e + e, 0 + e)
        BY <1>3, <2>3, SameItself, SameSum
    <2>5. f - e + e = f /\ 0 + e = e
        BY <1>3, SMT
    <2>6. f = e
        BY <1>1, <1>2, <2>4, <2>5, SameInHalf
    <2> QED
        BY <1>7, <2>6 DEF e, f
<1> QED
    BY <1>6, <1>7 DEF e

LEMMA LeastExists ==
    ASSUME NEW S, S \subseteq Nat, S # {}
    PROVE  \E m \in S : \A n \in S : m <= n
<1>1. PICK m \in S : \A n \in S : ~(<<n, m>> \in OpToRel(<, Nat))
    BY NatLessThanWellFounded, WFMin
<1>2. ASSUME NEW n \in S PROVE m <= n
    <2>1. m \in Nat /\ n \in Nat
        OBVIOUS
    <2>2. <<n, m>> \notin {ss \in Nat \X Nat : ss[1] < ss[2]}
        BY <1>1, Zenon DEF OpToRel
    <2>3. ~(n < m)
        BY <2>1, <2>2, SMT
    <2> QED
        BY <2>1, <2>3, SMT
<1> QED
    BY <1>2

LEMMA Bounds ==
    /\ INTERVAL \in Nat /\ JUMP \in Nat /\ Gap \in Nat
    /\ 0 < INTERVAL /\ INTERVAL <= JUMP
    /\ INTERVAL + JUMP + 2 * Gap < W \div 2
    /\ \A d \in Ticks : d \in Nat /\ 1 <= d /\ d <= Gap
    /\ \A b \in Backs : b \in Nat /\ 1 <= b
BY ClockAssumption, SMT

-------------------------------------------------------------------------------
(***************************************************************************)
(* ikcp_check                                                              *)
(***************************************************************************)
\* If a time ts lies less than JUMP ahead of t, ikcp_update at t does not
\* flush before ts.
LEMMA NotYet ==
    ASSUME NEW t \in Int, NEW ts \in Int, Diff(ts, t) > 0, Diff(ts, t) <= JUMP
    PROVE  ~Jumped(t, ts) /\ ~Flushes(t, ts)
<1>1. Diff(ts, t) \in Half /\ Diff(ts, t) # -(W \div 2)
    BY DiffTrue, Width, SMT DEF Half
<1>2. Diff(t, ts) = -Diff(ts, t)
    BY <1>1, DiffReversed
<1> DEFINE e == Diff(t, ts)
           f == Diff(ts, t)
<1>3. e = -f /\ f \in Int /\ f > 0 /\ f <= JUMP
    BY <1>1, <1>2, Width, SMT DEF Half
<1> HIDE DEF e, f
<1>4. e < 0 /\ ~(e >= JUMP) /\ ~(e < -JUMP) /\ ~(e >= 0)
    BY <1>3, Bounds, SMT
<1>5. ~Jumped(t, ts)
    BY <1>4 DEF Jumped, e
<1> QED
    BY <1>4, <1>5 DEF Flushes, Anchor, e

LEMMA CheckSound == ClockTypeOK => CheckNeverLate
<1> SUFFICES ASSUME ClockTypeOK, updated
             PROVE  LET wait == Diff(Check(current), current)
                    IN  /\ wait \in 0..INTERVAL
                        /\ \A d \in 0..(wait - 1) :
                               ~Flushes(Plus(current, d), ts_flush)
    BY DEF CheckNeverLate
<1>1. /\ current \in Int /\ ts_flush \in Int
      /\ \A s \in Segs : snd_buf[s].resendts \in Int
    BY Width, SMT DEF ClockTypeOK, Times
<1> DEFINE overdue == \E s \in Segs :
                        InBuf(s) /\ Diff(snd_buf[s].resendts, current) <= 0
           now == Jumped(current, ts_flush) \/ Diff(current, ts_flush) >= 0 \/ overdue
<1>2. CASE now
    <2>1. Check(current) = current
        BY <1>2 DEF Check
    <2>2. Diff(Check(current), current) = 0
        BY <1>1, <2>1, DiffItself
    <2> QED
        BY <2>2, Bounds, SMT
<1>3. CASE ~now
    <2> DEFINE D == Diff(ts_flush, current)
               e == Diff(current, ts_flush)
               packets == {Diff(snd_buf[s].resendts, current) :
                            s \in {s \in Segs : InBuf(s)}}
               all == packets \union {D, INTERVAL}
               m == CHOOSE m \in all : \A n \in all : m <= n
    <2>1. Check(current) = Plus(current, m)
        BY <1>3 DEF Check, Wait
    <2>2. D > 0 /\ D <= JUMP /\ D \in Int
        <3>1. e \in Half /\ D \in Half
            BY <1>1, DiffTrue
        <3>2. e < 0 /\ ~(e >= JUMP) /\ ~(e < -JUMP)
            BY <1>1, <1>3, <3>1, Width, SMT DEF Jumped, Half
        <3>3. e # -(W \div 2)
            BY <3>1, <3>2, Bounds, Width, SMT DEF Half
        <3>4. D = -e
            BY <1>1, <3>3, DiffReversed
        <3> HIDE DEF D, e
        <3> QED
            BY <3>1, <3>2, <3>4, Width, Bounds, SMT DEF Half
    <2>3. \A n \in packets : n \in Nat \ {0}
        <3> SUFFICES ASSUME NEW s \in Segs, InBuf(s)
                     PROVE  Diff(snd_buf[s].resendts, current) \in Nat \ {0}
            OBVIOUS
        <3> DEFINE n == Diff(snd_buf[s].resendts, current)
        <3>1. n \in Half
            BY <1>1, DiffTrue
        <3>2. ~(n <= 0)
            BY <1>3
        <3> HIDE DEF n
        <3>3. n \in Nat \ {0}
            BY <3>1, <3>2, Width, SMT DEF Half
        <3> QED
            BY <3>3 DEF n
    <2> HIDE DEF D, packets
    <2>4. \A n \in all : n \in Nat \ {0}
        BY <2>2, <2>3, Bounds, SMT
    <2>5. \E k \in all : \A n \in all : k <= n
        BY <2>4, LeastExists
    <2>6. m \in all /\ \A n \in all : m <= n
        BY <2>5
    <2>7. m <= D /\ m <= INTERVAL /\ m \in Nat \ {0}
        BY <2>4, <2>6
    <2> HIDE DEF m
    <2>8. m \in Half /\ m \in Int
        BY <2>7, Bounds, Width, SMT DEF Half
    <2>9. Diff(Check(current), current) = m
        BY <1>1, <2>1, <2>8, DiffAhead
    <2>10. ASSUME NEW d \in 0..(m - 1)
           PROVE  ~Flushes(Plus(current, d), ts_flush)
        <3>1. d \in Int /\ D - d > 0 /\ D - d <= JUMP /\ D - d \in Half
            BY <2>2, <2>7, <2>10, Bounds, Width, SMT DEF Half
        <3>2. Diff(ts_flush, Plus(current, d)) = D - d
            BY <1>1, <3>1, DiffMovesTo DEF D
        <3>3. Plus(current, d) \in Int
            BY <1>1, <3>1, PlusTrue
        <3> QED
            BY <1>1, <3>1, <3>2, <3>3, NotYet
    <2>11. m \in 0..INTERVAL
        BY <2>7, Bounds, SMT
    <2> QED
        BY <2>9, <2>10, <2>11
<1> QED
    BY <1>2, <1>3

-------------------------------------------------------------------------------
(***************************************************************************)
(* Types                                                                   *)
(***************************************************************************)
Segment == [xmit : 0..MaxXmit, rto : Nat, resendts : Times]

LEMMA Rtos ==
    /\ RTO_MIN \in Nat /\ RTO_DEF \in Nat /\ RTO_MAX \in Nat /\ SLACK \in Nat
    /\ 0 < RTO_MIN /\ RTO_MIN <= RTO_DEF /\ RTO_DEF <= RTO_MAX /\ 0 < SLACK
    /\ MaxXmit \in Nat /\ MaxXmit >= 2
    /\ PROBE_INIT \in Nat /\ PROBE_LIMIT \in Nat
    /\ 0 < PROBE_INIT /\ PROBE_INIT <= PROBE_LIMIT
BY ClockAssumption, SMT

LEMMA RtoInBounds ==
    ASSUME NEW a \in Nat, NEW b \in Nat
    PROVE  Rto(a, b) \in RTO_MIN..RTO_MAX
BY Rtos, Bounds, SMT DEF Rto, imin, imax

LEMMA TimesZero == 0 \in Times /\ Times \subseteq Int
BY Width, SMT DEF Times

LEMMA InitTypes == Init => ClockTypeOK
<1> SUFFICES ASSUME Init PROVE ClockTypeOK
    OBVIOUS
<1>1. INTERVAL \in Times /\ RTO_DEF \in RTO_MIN..RTO_MAX /\ probe_wait \in 0..PROBE_LIMIT
    BY Bounds, Width, Rtos, SMT DEF Times, Init
<1>2. Zero \in Span
    BY DEF Zero, Span
<1>3. Absent \in Segment
    BY Rtos, TimesZero, SMT DEF Absent, Segment
<1>4. snd_buf \in [Segs -> Segment]
    BY <1>3 DEF Init
<1> QED
    BY <1>1, <1>2, <1>4, TimesZero DEF Init, ClockTypeOK, Segment

LEMMA HeaderTypes ==
    ASSUME ClockTypeOK, NEW closed \in BOOLEAN, NEW acked, Header(closed, acked),
           rx_srtt' \in Nat, rx_rttval' \in Nat, rx_rto' \in RTO_MIN..RTO_MAX
    PROVE  ClockTypeOK'
<1>1. Zero \in Span /\ Absent \in Segment
    BY Rtos, TimesZero, SMT DEF Zero, Span, Absent, Segment
<1>2. snd_buf' \in [Segs -> Segment]
    BY <1>1, Zenon DEF ClockTypeOK, Header, Segment
<1>3. waited' \in [Segs -> Span]
    BY <1>1, Zenon DEF ClockTypeOK, Header
<1>4. probed' \in Span
    <2>1. probed \in Span
        BY DEF ClockTypeOK
    <2>2. [probed EXCEPT !.for = 0] \in Span
        BY <2>1 DEF Span
    <2> QED
        BY <2>1, <2>2, Zenon DEF Header
<1> QED
    BY <1>2, <1>3, <1>4 DEF ClockTypeOK, Header, Segment, probeVars

LEMMA InputAckTypes ==
    ASSUME ClockTypeOK, NEW closed \in BOOLEAN, NEW acked, NEW age \in Ages,
           InputAck(closed, acked, age)
    PROVE  ClockTypeOK'
<1> DEFINE rtt == Diff(current, Plus(current, -age))
<1>1. rtt \in Int
    <2>1. current \in Int /\ age \in Int /\ -age \in Int
        BY ClockAssumption, TimesZero, SMT DEF ClockTypeOK
    <2>2. Plus(current, -age) \in Int
        BY <2>1, PlusTrue
    <2> QED
        BY <2>1, <2>2, DiffTrue, Width, SMT DEF Half
<1>2. Header(closed, acked)
    BY DEF InputAck
<1>3. rx_srtt' \in Nat /\ rx_rttval' \in Nat /\ rx_rto' \in RTO_MIN..RTO_MAX
    <2>1. CASE rtt >= 0
        <3>1. /\ rx_srtt' = Srtt(rtt)
              /\ rx_rttval' = Rttval(rtt)
              /\ rx_rto' = Rto(Srtt(rtt), Rttval(rtt))
            BY <2>1 DEF InputAck
        <3> HIDE DEF rtt
        <3>2. rtt \in Nat
            BY <1>1, <2>1, SMT
        <3>3. rx_srtt \in Nat /\ rx_rttval \in Nat
            BY DEF ClockTypeOK
        <3>4. Srtt(rtt) \in Nat
            BY <3>2, <3>3, SMT DEF Srtt, imax
        <3>5. Abs(rtt - rx_srtt) \in Nat
            BY <3>2, <3>3, SMT DEF Abs
        <3>6. Rttval(rtt) \in Nat
            BY <3>2, <3>3, <3>5, SMT DEF Rttval
        <3> QED
            BY <3>1, <3>4, <3>6, RtoInBounds
    <2>2. CASE ~(rtt >= 0)
        <3>1. UNCHANGED rttVars
            BY <2>2 DEF InputAck
        <3> QED
            BY <3>1 DEF rttVars, ClockTypeOK
    <2> QED
        BY <2>1, <2>2
<1> QED
    BY <1>2, <1>3, HeaderTypes

LEMMA LaterSpan ==
    ASSUME NEW w \in Span, NEW d \in Nat, NEW b \in Nat
    PROVE  /\ Later(w, d, b) \in Span
           /\ Later(w, d, b).for = w.for + d
           /\ Later(w, d, b).back = w.back + b
BY SMT DEF Later, Span

\* What a call of ikcp_update at time t changes, whatever the history says.
LEMMA FlushTypes ==
    ASSUME ClockTypeOK, NEW t \in Times, NEW fresh \in SUBSET Segs,
           FlushSegments(fresh, t), FlushProbe(t),
           \A s \in Segs : snd_buf'[s].xmit <= MaxXmit
    PROVE  /\ snd_buf' \in [Segs -> Segment]
           /\ probe_wait' \in 0..PROBE_LIMIT
           /\ ts_probe' \in Times
<1>1. t \in Int /\ rx_rto \in Nat
    <2>1. rx_rto \in RTO_MIN..RTO_MAX
        BY DEF ClockTypeOK
    <2>2. rx_rto \in Nat
        BY <2>1, Rtos, SMT
    <2> QED
        BY <2>2, TimesZero
<1>2. ASSUME NEW s \in Segs
      PROVE  /\ snd_buf'[s].xmit \in Nat
             /\ snd_buf'[s] \in [xmit : Nat, rto : Nat, resendts : Times]
    <2>1. snd_buf[s] \in Segment
        BY DEF ClockTypeOK, Segment
    <2>2. /\ rx_rto + rx_rto \div SLACK \in Int
          /\ snd_buf[s].rto + rx_rto \in Nat
          /\ snd_buf[s].rto + rx_rto \in Int
          /\ snd_buf[s].xmit \in Nat /\ snd_buf[s].xmit + 1 \in Nat
        BY <1>1, <2>1, Rtos, SMT DEF Segment
    <2>3. First(t) \in [xmit : Nat, rto : Nat, resendts : Times]
        BY <1>1, <2>2, PlusTrue DEF First
    <2>4. Again(snd_buf[s], t) \in [xmit : Nat, rto : Nat, resendts : Times]
        <3>1. Plus(t, snd_buf[s].rto + rx_rto) \in Times
            BY <1>1, <2>2, PlusTrue
        <3> QED
            BY <2>2, <3>1 DEF Again
    <2>5. snd_buf[s] \in [xmit : Nat, rto : Nat, resendts : Times]
        BY <2>1, <2>2 DEF Segment
    <2>6. snd_buf'[s] \in {First(t), Again(snd_buf[s], t), snd_buf[s]}
        BY DEF FlushSegments
    <2> HIDE DEF First, Again
    <2> QED
        BY <2>3, <2>4, <2>5, <2>6
<1>3. snd_buf' \in [Segs -> Segment]
    <2>1. ASSUME NEW s \in Segs PROVE snd_buf'[s] \in Segment
        BY <1>2, Rtos, SMT DEF Segment
    <2>2. snd_buf' = [s \in Segs |-> snd_buf'[s]]
        BY DEF FlushSegments
    <2> QED
        BY <2>1, <2>2
<1>4. probe_wait' \in 0..PROBE_LIMIT
    <2>1. probe_wait \in Nat /\ probe_wait <= PROBE_LIMIT
        BY Rtos, SMT DEF ClockTypeOK
    <2>2. LongerWait \in 0..PROBE_LIMIT
        BY <2>1, Rtos, SMT DEF LongerWait, imin, imax
    <2> QED
        BY <2>1, <2>2, Rtos, SMT DEF FlushProbe
<1>5. ts_probe' \in Times
    <2>1. probe_wait' \in Int
        BY <1>4, Rtos, SMT
    <2>2. Plus(t, probe_wait') \in Times
        BY <1>1, <2>1, PlusTrue
    <2>3. ts_probe' \in {0, Plus(t, probe_wait'), ts_probe}
        BY DEF FlushProbe
    <2> QED
        BY <2>2, <2>3, TimesZero DEF ClockTypeOK
<1> QED
    BY <1>3, <1>4, <1>5

LEMMA UpdateTypes ==
    ASSUME ClockTypeOK, NEW t \in Times, NEW ts \in Times, NEW d \in Nat,
           NEW b \in Nat, UpdateAt(t, ts, d, b),
           updated' \in BOOLEAN, setback' \in BOOLEAN
    PROVE  ClockTypeOK'
<1>1. t \in Int /\ ts \in Int /\ INTERVAL \in Int
    BY TimesZero, Bounds
<1>2. Zero \in Span
    BY DEF Zero, Span
<1>3. flushed \in Span /\ probed \in Span /\ waited \in [Segs -> Span]
    BY DEF ClockTypeOK
<1>4. /\ Later(flushed, d, b) \in Span /\ Later(probed, d, b) \in Span
      /\ Later(probed, IF shut THEN d ELSE 0, b) \in Span
    BY <1>3, LaterSpan
<1>5. ts_flush' \in Times
    <2>1. Anchor(t, ts) \in Int
        BY <1>1 DEF Anchor
    <2>2. NextFlush(t, ts) \in Times
        BY <1>1, <2>1, PlusTrue DEF NextFlush
    <2> QED
        BY <2>2 DEF UpdateAt
<1>6. waited' \in [Segs -> Span]
    <2>1. \A s \in Segs : Later(waited[s], d, b) \in Span
        BY <1>3, LaterSpan
    <2> QED
        BY <1>2, <2>1, Zenon DEF UpdateAt
<1>7. probed' \in Span /\ flushed' \in Span
    BY <1>2, <1>3, <1>4 DEF UpdateAt
<1>8. /\ snd_buf' \in [Segs -> Segment]
      /\ probe_wait' \in 0..PROBE_LIMIT
      /\ ts_probe' \in Times
    <2>1. CASE UNCHANGED <<snd_buf, probeVars>>
        BY <2>1 DEF ClockTypeOK, probeVars, Segment
    <2>2. CASE Flushes(t, ts)
        <3>1. PICK fresh \in SUBSET Unsent :
                /\ FlushSegments(fresh, t)
                /\ \A s \in Segs : snd_buf'[s].xmit <= MaxXmit
            BY <2>2, Zenon DEF UpdateAt
        <3>2. FlushProbe(t)
            BY <2>2 DEF UpdateAt
        <3>3. fresh \in SUBSET Segs
            BY DEF Unsent
        <3> QED
            BY <3>1, <3>2, <3>3, FlushTypes, Zenon
    <2> QED
        BY <2>1, <2>2 DEF UpdateAt
<1>9. current' \in Times /\ UNCHANGED rttVars /\ shut' = shut
    BY DEF UpdateAt
<1> QED
    BY <1>5, <1>6, <1>7, <1>8, <1>9 DEF ClockTypeOK, Segment, rttVars

LEMMA NextTypes == ClockTypeOK /\ [Next]_vars => ClockTypeOK'
<1> SUFFICES ASSUME ClockTypeOK, [Next]_vars PROVE ClockTypeOK'
    OBVIOUS
<1>1. current \in Int /\ current \in Times /\ ts_flush \in Times
    BY TimesZero DEF ClockTypeOK
<1>2. ASSUME NEW t \in Phases, FirstUpdate(t) PROVE ClockTypeOK'
    <2>1. t \in Times
        BY ClockAssumption DEF Times
    <2>2. UpdateAt(t, t, 0, 0) /\ updated' \in BOOLEAN /\ setback' \in BOOLEAN
        BY <1>2 DEF FirstUpdate, ClockTypeOK
    <2> QED
        BY <2>1, <2>2, UpdateTypes
<1>3. ASSUME NEW d \in Ticks, Update(d) PROVE ClockTypeOK'
    <2>1. d \in Nat /\ d \in Int
        BY Bounds
    <2>2. Plus(current, d) \in Times
        BY <1>1, <2>1, PlusTrue
    <2>3. /\ UpdateAt(Plus(current, d), ts_flush, d, 0)
          /\ updated' \in BOOLEAN /\ setback' \in BOOLEAN
        BY <1>3 DEF Update, ClockTypeOK
    <2> QED
        BY <1>1, <2>1, <2>2, <2>3, UpdateTypes
<1>4. ASSUME NEW d \in Ticks, NEW b \in Backs, UpdateSetBack(d, b) PROVE ClockTypeOK'
    <2>1. d \in Nat /\ b \in Nat /\ d - b \in Int
        BY Bounds
    <2>2. Plus(current, d - b) \in Times
        BY <1>1, <2>1, PlusTrue
    <2>3. /\ UpdateAt(Plus(current, d - b), ts_flush, d, b)
          /\ updated' \in BOOLEAN /\ setback' \in BOOLEAN
        BY <1>4 DEF UpdateSetBack, ClockTypeOK
    <2> QED
        BY <1>1, <2>1, <2>2, <2>3, UpdateTypes
<1>5. ASSUME NEW closed \in BOOLEAN, NEW acked, Input(closed, acked)
      PROVE  ClockTypeOK'
    BY <1>5, HeaderTypes DEF Input, rttVars, ClockTypeOK
<1>6. ASSUME NEW acked, NEW age \in Ages, InputAck(shut, acked, age)
      PROVE  ClockTypeOK'
    BY <1>6, InputAckTypes DEF ClockTypeOK
<1>7. CASE UNCHANGED vars
    BY <1>7 DEF vars, ClockTypeOK, rttVars, probeVars, histVars
<1> QED
    BY <1>2, <1>3, <1>4, <1>5, <1>6, <1>7 DEF Next

\* Every variable keeps its type, and the timeout its bounds (ikcp.c:622-648,
\* 1048-1063), for a counter of any width and any clock.
THEOREM ClockTypes == Spec => []ClockTypeOK
<1>1. Init => ClockTypeOK
    BY InitTypes
<1>2. ClockTypeOK /\ [Next]_vars => ClockTypeOK'
    BY NextTypes
<1> QED
    BY <1>1, <1>2, PTL DEF Spec

\* Who calls ikcp_update when ikcp_check says so misses no flush, for a counter
\* of any width (ikcp.c:1177-1213 beside 1151-1164).
THEOREM CheckInTime == Spec => []CheckNeverLate
<1>1. ClockTypeOK => CheckNeverLate
    BY CheckSound
<1> QED
    BY <1>1, ClockTypes, PTL

-------------------------------------------------------------------------------
(***************************************************************************)
(* ikcp_update: the flush timer.  FlushedInTime is not inductive: OnTime   *)
(* adds that the flush is due in at most JUMP, and that the time waited    *)
(* for so far and the time left together are within the bound.             *)
(***************************************************************************)
Left == Diff(ts_flush, current)

OnTime ==
    /\ ~updated => flushed = Zero
    /\ ~setback => flushed.back = 0
    /\ updated =>
        /\ Left \in 1..JUMP
        /\ flushed.for + Left <= INTERVAL + imin(flushed.back, JUMP + Gap)

LEMMA AfterFlush ==
    ASSUME NEW t \in Int, NEW ts \in Int, Flushes(t, ts)
    PROVE  Diff(NextFlush(t, ts), t) \in 1..INTERVAL
<1> DEFINE a == Anchor(t, ts)
           e == Diff(t, a)
           next == Plus(a, INTERVAL)
<1>1. a \in Int /\ INTERVAL \in Int /\ INTERVAL \in Half
    BY Bounds, Width, SMT DEF Anchor, Half
<1>2. e \in Half /\ e >= 0
    BY <1>1, DiffTrue DEF Flushes
<1>3. next \in Int
    BY <1>1, PlusTrue
<1>4. NextFlush(t, ts) = IF Diff(t, next) >= 0 THEN Plus(t, INTERVAL) ELSE next
    BY DEF NextFlush
<1>5. CASE Diff(t, next) >= 0
    <2>1. Diff(Plus(t, INTERVAL), t) = INTERVAL
        BY <1>1, DiffAhead
    <2> QED
        BY <1>4, <1>5, <2>1, Bounds, SMT
<1>6. CASE ~(Diff(t, next) >= 0)
    <2>1. e - INTERVAL \in Half /\ e - INTERVAL # -(W \div 2)
        BY <1>2, Bounds, Width, SMT DEF Half
    <2>2. Diff(t, next) = e - INTERVAL
        BY <1>1, <2>1, DiffMovesTo
    <2>3. Diff(next, t) = -(e - INTERVAL)
        BY <1>3, <2>1, <2>2, DiffReversed
    <2> HIDE DEF next, e
    <2>4. -(e - INTERVAL) \in 1..INTERVAL
        BY <1>2, <1>6, <2>2, Bounds, Width, SMT DEF Half
    <2> QED
        BY <1>4, <1>6, <2>3, <2>4
<1> QED
    BY <1>5, <1>6

LEMMA NoFlush ==
    ASSUME NEW t \in Int, NEW ts \in Int, ~Flushes(t, ts)
    PROVE  Diff(ts, t) \in 1..JUMP
<1> DEFINE e == Diff(t, ts)
<1>1. ~Jumped(t, ts)
    <2> SUFFICES ASSUME Jumped(t, ts) PROVE FALSE
        OBVIOUS
    <2>1. Diff(t, t) = 0
        BY DiffItself
    <2> QED
        BY <2>1, SMT DEF Flushes, Anchor
<1>2. ~(e >= 0) /\ ~(e < -JUMP)
    BY <1>1 DEF Flushes, Anchor, Jumped
<1>3. e \in Half
    BY DiffTrue
<1>4. e # -(W \div 2)
    BY <1>2, <1>3, Bounds, Width, SMT DEF Half
<1>5. Diff(ts, t) = -e
    BY <1>4, DiffReversed
<1> HIDE DEF e
<1>6. -e \in 1..JUMP
    BY <1>2, <1>3, Bounds, Width, SMT DEF Half
<1> QED
    BY <1>5, <1>6

\* One call of ikcp_update that flushes restarts the wait.
LEMMA FlushOnTime ==
    ASSUME NEW t \in Int, NEW ts \in Int, NEW d, NEW b,
           UpdateAt(t, ts, d, b), Flushes(t, ts), updated'
    PROVE  OnTime'
<1>1. current' = t /\ ts_flush' = NextFlush(t, ts) /\ flushed' = Zero
    BY DEF UpdateAt
<1>2. Left' \in 1..INTERVAL
    BY <1>1, AfterFlush DEF Left
<1>3. flushed'.for = 0 /\ flushed'.back = 0
    BY <1>1 DEF Zero
<1> HIDE DEF Left
<1>4. imin(0, JUMP + Gap) = 0
    BY Bounds, SMT DEF imin
<1>5. Left' \in 1..JUMP /\ 0 + Left' <= INTERVAL + imin(0, JUMP + Gap)
    BY <1>2, <1>4, Bounds, SMT
<1> QED
    BY <1>1, <1>3, <1>5, Zenon DEF OnTime

LEMMA UpdateOnTime ==
    ASSUME ClockTypeOK, OnTime, NEW d \in Ticks, Update(d)
    PROVE  OnTime'
<1> DEFINE t == Plus(current, d)
<1>1. d \in Int /\ d \in Nat /\ 1 <= d /\ d <= Gap
    BY Bounds
<1>2. current \in Int /\ ts_flush \in Int /\ flushed \in Span
    BY TimesZero DEF ClockTypeOK
<1>3. t \in Int
    BY <1>1, <1>2, PlusTrue
<1>4. UpdateAt(t, ts_flush, d, 0) /\ updated /\ updated' /\ setback' = setback
    BY DEF Update
<1>5. CASE Flushes(t, ts_flush)
    BY <1>2, <1>3, <1>4, <1>5, FlushOnTime
<1>6. CASE ~Flushes(t, ts_flush)
    <2>1. /\ current' = t /\ ts_flush' = ts_flush
          /\ flushed' = Later(flushed, d, 0)
        BY <1>4, <1>6 DEF UpdateAt
    <2>2. /\ Left \in 1..JUMP
          /\ flushed.for + Left <= INTERVAL + imin(flushed.back, JUMP + Gap)
          /\ ~setback => flushed.back = 0
        BY <1>4 DEF OnTime
    <2>3. flushed'.for = flushed.for + d /\ flushed'.back = flushed.back
        BY <1>1, <1>2, <2>1, LaterSpan, SMT DEF Span
    <2>4. Left - d \in Half /\ Left \in Int
        BY <1>1, <2>2, Bounds, Width, SMT DEF Half
    <2>5. Left' = Left - d
        BY <1>1, <1>2, <2>1, <2>4, DiffMovesTo DEF Left
    <2>6. Left' \in 1..JUMP
        BY <1>2, <1>3, <1>6, <2>1, NoFlush DEF Left
    <2> HIDE DEF Left
    <2> DEFINE m == imin(flushed.back, JUMP + Gap)
    <2>7. (flushed.for + d) + (Left - d) = flushed.for + Left
        BY <1>1, <1>2, <2>4, SMT DEF Span
    <2>8. flushed'.for + Left' <= INTERVAL + m
        BY <2>2, <2>3, <2>5, <2>7, Zenon
    <2>9. flushed'.for + Left' <= INTERVAL + imin(flushed'.back, JUMP + Gap)
        BY <2>3, <2>8, Zenon
    <2> QED
        BY <1>4, <2>2, <2>3, <2>6, <2>9, Zenon DEF OnTime
<1> QED
    BY <1>5, <1>6

LEMMA SetBackOnTime ==
    ASSUME ClockTypeOK, OnTime, NEW d \in Ticks, NEW b \in Backs, UpdateSetBack(d, b)
    PROVE  OnTime'
<1> DEFINE t == Plus(current, d - b)
<1>1. /\ d \in Int /\ d \in Nat /\ 1 <= d /\ d <= Gap
      /\ b \in Nat /\ 1 <= b /\ d - b \in Int
    BY Bounds
<1>2. current \in Int /\ ts_flush \in Int /\ flushed \in Span
    BY TimesZero DEF ClockTypeOK
<1>3. t \in Int
    BY <1>1, <1>2, PlusTrue
<1>4. UpdateAt(t, ts_flush, d, b) /\ updated /\ updated' /\ ~setback /\ setback'
    BY DEF UpdateSetBack
<1>5. CASE Flushes(t, ts_flush)
    BY <1>2, <1>3, <1>4, <1>5, FlushOnTime
<1>6. CASE ~Flushes(t, ts_flush)
    <2>1. /\ current' = t /\ ts_flush' = ts_flush
          /\ flushed' = Later(flushed, d, b)
        BY <1>4, <1>6 DEF UpdateAt
    <2>2. /\ Left \in 1..JUMP
          /\ flushed.for + Left <= INTERVAL + imin(flushed.back, JUMP + Gap)
          /\ flushed.back = 0
        BY <1>4 DEF OnTime
    <2>3. flushed'.for = flushed.for + d /\ flushed'.back = b
        BY <1>1, <1>2, <2>1, <2>2, LaterSpan, SMT DEF Span
    <2>4. Same(Left', Left - (d - b))
        BY <1>1, <1>2, <2>1, DiffMoves DEF Left
    <2>5. Left' \in 1..JUMP
        BY <1>2, <1>3, <1>6, <2>1, NoFlush DEF Left
    <2> HIDE DEF Left
    <2> DEFINE u == Left
               v == Left'
               f == flushed.for
    <2>6. u \in Int /\ v \in Int /\ f \in Nat
        BY <1>2, <2>2, <2>5, Bounds, SMT DEF Span
    <2>7. imin(0, JUMP + Gap) = 0
        BY Bounds, SMT DEF imin
    <2>8. f + u <= INTERVAL
        BY <2>2, <2>7, Bounds, SMT
    <2>9. PICK k \in Int : v = u - (d - b) + k * W
        BY <2>4 DEF Same
    <2> HIDE DEF u, v, f
    <2> DEFINE w == W
    <2>10. w \in Nat /\ v = u - (d - b) + k * w /\ v >= 1 /\ v <= JUMP
        BY <2>5, <2>9, Width, SMT DEF v
    <2>11. JUMP + Gap < w /\ u >= 1
        BY <2>2, Bounds, Width, SMT DEF u
    <2> HIDE DEF w
    \* the true distance u - (d - b) is at least v, or the clock would have
    \* passed ts_flush
    <2>12. ~(k >= 1)
        <3> SUFFICES ASSUME k >= 1 PROVE FALSE
            OBVIOUS
        <3>1. (k - 1) * w >= 0
            BY <2>10, SMT
        <3>2. v >= u - (d - b) + w
            BY <1>1, <2>6, <2>10, <3>1, SMT
        <3> QED
            BY <1>1, <2>6, <2>10, <2>11, <3>2, Bounds, SMT
    <2>13. v <= u - (d - b)
        <3>1. k <= 0
            BY <2>12, SMT
        <3>2. k * w <= 0
            BY <2>10, <3>1, SMT
        <3> QED
            BY <1>1, <2>6, <2>10, <3>2, SMT
    <2>14. (f + d) + v <= INTERVAL + imin(b, JUMP + Gap)
        BY <1>1, <2>6, <2>8, <2>10, <2>11, <2>13, Bounds, SMT DEF imin
    <2>15. flushed'.for + Left' <= INTERVAL + imin(flushed'.back, JUMP + Gap)
        BY <2>3, <2>14, Zenon DEF f, v
    <2> QED
        BY <1>4, <2>5, <2>15, Zenon DEF OnTime
<1> QED
    BY <1>5, <1>6

LEMMA NextOnTime == ClockTypeOK /\ OnTime /\ [Next]_vars => OnTime'
<1> SUFFICES ASSUME ClockTypeOK, OnTime, [Next]_vars PROVE OnTime'
    OBVIOUS
<1>1. ASSUME NEW t \in Phases, FirstUpdate(t) PROVE OnTime'
    <2>1. t \in Int
        BY ClockAssumption
    <2>2. UpdateAt(t, t, 0, 0) /\ updated'
        BY <1>1 DEF FirstUpdate
    <2>3. Flushes(t, t)
        <3>1. Anchor(t, t) = t
            BY DEF Anchor
        <3>2. Diff(t, t) = 0
            BY <2>1, DiffItself
        <3> QED
            BY <3>1, <3>2, SMT DEF Flushes
    <2> QED
        BY <2>1, <2>2, <2>3, FlushOnTime
<1>2. ASSUME NEW closed, NEW acked, Header(closed, acked) PROVE OnTime'
    BY <1>2 DEF Header, OnTime, Left
<1>3. CASE UNCHANGED vars
    BY <1>3 DEF vars, OnTime, Left, histVars
<1> QED
    BY <1>1, <1>2, <1>3, UpdateOnTime, SetBackOnTime DEF Next, Input, InputAck

LEMMA OnTimeEnough == ClockTypeOK /\ OnTime => FlushedInTime
<1> SUFFICES ASSUME ClockTypeOK, OnTime PROVE FlushedInTime
    OBVIOUS
<1>1. flushed.for \in Nat /\ flushed.back \in Nat
    BY DEF ClockTypeOK, Span
<1> DEFINE m == imin(flushed.back, JUMP + Gap)
<1>2. m \in Nat
    BY <1>1, Bounds, SMT DEF imin
<1>3. flushed.for < INTERVAL + m
    <2>1. CASE updated
        <3>1. Left \in 1..JUMP /\ flushed.for + Left <= INTERVAL + m
            BY <2>1 DEF OnTime
        <3> HIDE DEF Left, m
        <3> QED
            BY <1>1, <1>2, <3>1, Bounds, SMT
    <2>2. CASE ~updated
        <3>1. flushed.for = 0
            BY <2>2 DEF OnTime, Zero
        <3> HIDE DEF m
        <3> QED
            BY <1>2, <3>1, Bounds, SMT
    <2> QED
        BY <2>1, <2>2 DEF ClockTypeOK
<1> QED
    BY <1>3 DEF FlushedInTime

\* The first ikcp_update INTERVAL or more after a flush flushes again, across
\* the wrap of the counter; a set-back, however far, delays it by no more than
\* JUMP and one call (ikcp.c:1151-1164).
THEOREM FlushNotMissed == Spec => []FlushedInTime
<1>1. Init => OnTime
    BY DEF Init, OnTime, Zero
<1>2. ClockTypeOK /\ OnTime /\ [Next]_vars => OnTime'
    BY NextOnTime
<1>3. ClockTypeOK /\ OnTime => FlushedInTime
    BY OnTimeEnough
<1> QED
    BY <1>1, <1>2, <1>3, ClockTypes, PTL DEF Spec

-------------------------------------------------------------------------------
(***************************************************************************)
(* ikcp_flush: the timeout of a segment.  What a segment has waited for    *)
(* and what it has left before it is resent make its timeout together,     *)
(* but for a set-back (Timed); and it is never overdue for longer than the *)
(* last flush is past.                                                     *)
(***************************************************************************)
Longest == MaxXmit * RTO_MAX

Due(s) == Diff(snd_buf[s].resendts, current)

Extra(xmit) == IF xmit = 1 THEN RTO_MAX \div SLACK ELSE 0

Timed(s) ==
    /\ snd_buf[s].rto >= snd_buf[s].xmit * RTO_MIN
    /\ snd_buf[s].rto <= snd_buf[s].xmit * RTO_MAX
    /\ waited[s].for - waited[s].back + Due(s) >= snd_buf[s].rto
    /\ waited[s].for - waited[s].back + Due(s)
            <= snd_buf[s].rto + Extra(snd_buf[s].xmit)
    /\ Due(s) + flushed.for - flushed.back >= 1

AllTimed ==
    \A s \in Segs :
        /\ ~updated => ~InBuf(s)
        /\ waited[s].back \in Backs \union {0}
        /\ ~setback => waited[s].back = 0
        /\ InBuf(s) => Timed(s)

LEMMA Product ==
    ASSUME NEW x \in Nat, NEW y \in Nat, NEW z \in Nat, x <= y
    PROVE  /\ x * z \in Nat /\ y * z \in Nat
           /\ x * z <= y * z
           /\ (x + 1) * z = x * z + z
BY SMT

LEMMA Quotient ==
    ASSUME NEW x \in Nat, NEW y \in Nat, NEW z \in Nat, z > 0, x <= y
    PROVE  /\ x \div z \in Nat /\ y \div z \in Nat
           /\ x \div z <= y \div z
           /\ x \div z <= x
<1> DEFINE p == x \div z
           q == y \div z
           r == x % z
           u == y % z
<1>1. p \in Nat /\ q \in Nat /\ r \in Nat /\ u \in Nat /\ r < z /\ u < z
    BY SMT
<1>2. x = z * p + r
    BY SMTT(20)
<1>3. y = z * q + u
    BY SMTT(20)
<1> HIDE DEF p, q, r, u
<1>4. ~(p >= q + 1)
    <2> SUFFICES ASSUME p >= q + 1 PROVE FALSE
        OBVIOUS
    <2>1. z * (p - (q + 1)) >= 0
        BY <1>1, SMT
    <2>2. z * (p - (q + 1)) = z * p - z * q - z
        BY <1>1, SMT
    <2> QED
        BY <1>1, <1>2, <1>3, <2>1, <2>2, SMT
<1>5. p <= x
    <2>1. (z - 1) * p >= 0
        BY <1>1, SMT
    <2>2. (z - 1) * p = z * p - p
        BY <1>1, SMT
    <2> QED
        BY <1>1, <1>2, <2>1, <2>2, SMT
<1>6. p <= q
    BY <1>1, <1>4, SMT
<1> QED
    BY <1>1, <1>5, <1>6 DEF p, q

LEMMA ExtraBound ==
    /\ Longest \in Nat /\ RTO_MAX \div SLACK \in Nat
    /\ \A b \in Backs \union {0} : b \in Nat /\ Longest + b < W \div 2
    /\ \A x \in 1..MaxXmit :
        /\ Extra(x) \in Nat /\ Extra(x) <= RTO_MAX \div SLACK
        /\ x * RTO_MIN \in Nat /\ x * RTO_MAX \in Nat
        /\ x * RTO_MAX + Extra(x) <= Longest
        /\ x * RTO_MAX <= Longest
<1>1. Longest \in Nat
    BY Rtos, Product DEF Longest
<1>2. RTO_MAX \div SLACK \in Nat /\ RTO_MAX \div SLACK <= RTO_MAX
    BY Rtos, Quotient
<1>3. \A b \in Backs \union {0} : b \in Nat /\ Longest + b < W \div 2
    BY ClockAssumption DEF Longest
<1>4. ASSUME NEW x \in 1..MaxXmit
      PROVE  /\ Extra(x) \in Nat /\ Extra(x) <= RTO_MAX \div SLACK
             /\ x * RTO_MIN \in Nat /\ x * RTO_MAX \in Nat
             /\ x * RTO_MAX + Extra(x) <= Longest
             /\ x * RTO_MAX <= Longest
    <2>1. x \in Nat /\ x <= MaxXmit
        BY Rtos, SMT
    <2>2. x * RTO_MIN \in Nat /\ x * RTO_MAX \in Nat /\ x * RTO_MAX <= Longest
        BY <2>1, Rtos, Product DEF Longest
    <2> DEFINE e == RTO_MAX \div SLACK
               l == Longest
    <2>3. e \in Nat /\ e <= RTO_MAX /\ l \in Nat
        BY <1>1, <1>2
    <2>4. 2 * RTO_MAX <= l
        BY Rtos, Product DEF Longest
    <2>5. Extra(x) = IF x = 1 THEN e ELSE 0
        BY DEF Extra
    <2> HIDE DEF e, l
    <2>6. Extra(x) \in Nat /\ Extra(x) <= e
        BY <2>3, <2>5, SMT
    <2>7. x * RTO_MAX + Extra(x) <= l
        <3>1. CASE x = 1
            BY <2>3, <2>4, <2>5, <3>1, Rtos, SMT
        <3>2. CASE x # 1
            BY <2>2, <2>5, <3>2, SMT DEF l
        <3> QED
            BY <3>1, <3>2
    <2> QED
        BY <2>2, <2>6, <2>7 DEF e, l
<1> QED
    BY <1>1, <1>2, <1>3, <1>4

\* What a call of ikcp_update d later finds of a segment, the clock set back
\* by b meanwhile.
LEMMA DueMoves ==
    ASSUME ClockTypeOK, OnTime, AllTimed, updated, NEW s \in Segs, InBuf(s),
           NEW d \in Ticks, NEW b \in Backs \union {0}, b # 0 => ~setback
    PROVE  LET r == Diff(snd_buf[s].resendts, Plus(current, d - b))
           IN  /\ r = Due(s) - d + b
               /\ r \in Half /\ -r \in Half
               /\ Diff(Plus(current, d - b), snd_buf[s].resendts) = -r
               /\ waited[s].back + b \in Backs \union {0}
<1> DEFINE seg == snd_buf[s]
           R == Due(s)
           x == seg.xmit
           rto == seg.rto
           wf == waited[s].for
           wb == waited[s].back
           ff == flushed.for
           fb == flushed.back
           n == x * RTO_MAX
<1>1. /\ current \in Int /\ seg.resendts \in Int /\ rto \in Nat
      /\ x \in 0..MaxXmit /\ x > 0 /\ wf \in Nat /\ wb \in Nat
      /\ ff \in Nat /\ fb \in Nat
    BY TimesZero DEF ClockTypeOK, Span, InBuf
<1>2. d \in Nat /\ d >= 1 /\ d <= Gap /\ b \in Nat /\ d - b \in Int
    BY Bounds, ExtraBound, SMT
<1>3. /\ rto <= n
      /\ wf - wb + R <= rto + Extra(x)
      /\ R + ff - fb >= 1
    BY DEF AllTimed, Timed
<1>4. wb + b \in Backs \union {0}
    <2>1. CASE b = 0
        <3>1. wb + b = wb
            BY <1>1, <2>1, SMT
        <3> QED
            BY <3>1, Zenon DEF AllTimed
    <2>2. CASE b # 0
        <3>1. wb = 0
            BY <2>2 DEF AllTimed
        <3>2. wb + b = b
            BY <1>2, <3>1, SMT
        <3> QED
            BY <3>2, Zenon
    <2> QED
        BY <2>1, <2>2
<1>5. /\ Longest \in Nat /\ Longest + (wb + b) < W \div 2
      /\ n \in Nat /\ Extra(x) \in Nat /\ n + Extra(x) <= Longest
    <2>1. x \in 1..MaxXmit
        BY <1>1, Rtos, SMT
    <2> QED
        BY <1>4, <2>1, ExtraBound
<1>6. R \in Int
    <2>1. R \in Half
        BY <1>1, DiffTrue DEF Due
    <2> HIDE DEF R
    <2> QED
        BY <2>1, Width, SMT DEF Half
<1>7. FlushedInTime
    BY OnTimeEnough
<1>8. ff < INTERVAL + JUMP + Gap
    <2>1. ff < INTERVAL + imin(fb, JUMP + Gap)
        BY <1>7 DEF FlushedInTime
    <2> HIDE DEF ff, fb
    <2> QED
        BY <1>1, <2>1, Bounds, SMT DEF imin
<1> DEFINE e == Extra(x)
           l == Longest
           r == R - d + b
<1> HIDE DEF R, x, rto, wf, wb, ff, fb, n, e, l
<1>9. r < W \div 2
    <2>1. r <= n + e + (wb + b) - wf - d
        BY <1>1, <1>2, <1>3, <1>5, <1>6, SMT DEF e
    <2> QED
        BY <1>1, <1>2, <1>5, <1>6, <2>1, Width, SMT DEF e, l
<1>10. r > -(W \div 2)
    <2>1. r >= 1 - ff + fb - d + b
        BY <1>1, <1>2, <1>3, <1>6, SMT
    <2> QED
        BY <1>1, <1>2, <1>6, <1>8, <2>1, Bounds, Width, SMT
<1>11. r \in Half /\ -r \in Half /\ r # -(W \div 2) /\ R - (d - b) = r
    BY <1>2, <1>6, <1>9, <1>10, Width, SMT DEF Half
<1>12. Diff(seg.resendts, Plus(current, d - b)) = r
    <2>1. R - (d - b) \in Half
        BY <1>11
    <2> QED
        BY <1>1, <1>2, <1>11, <2>1, DiffMovesTo DEF R, Due
<1>13. Plus(current, d - b) \in Int
    BY <1>1, <1>2, PlusTrue
<1>14. Diff(Plus(current, d - b), seg.resendts) = -r
    BY <1>1, <1>11, <1>12, <1>13, DiffReversed
<1> QED
    BY <1>4, <1>11, <1>12, <1>14 DEF R, wb

\* A segment a flush leaves alone or that no flush looks at.
LEMMA StillTimed ==
    ASSUME ClockTypeOK, OnTime, AllTimed, updated, NEW s \in Segs, InBuf(s),
           NEW d \in Ticks, NEW b \in Backs \union {0}, b # 0 => ~setback,
           current' = Plus(current, d - b),
           snd_buf'[s] = snd_buf[s],
           waited'[s] = Later(waited[s], d, b),
           \/ flushed' = Later(flushed, d, b)
           \/ flushed' = Zero /\ ~Overdue(s, Plus(current, d - b))
    PROVE  Timed(s)'
<1> DEFINE seg == snd_buf[s]
           R == Due(s)
           rto == seg.rto
           wf == waited[s].for
           wb == waited[s].back
           ff == flushed.for
           fb == flushed.back
           r == R - d + b
           e == Extra(seg.xmit)
<1>1. d \in Nat /\ b \in Nat
    BY Bounds, ExtraBound, SMT
<1>2. waited[s] \in Span /\ flushed \in Span /\ rto \in Nat /\ seg.xmit \in 0..MaxXmit
    BY DEF ClockTypeOK
<1>3. wf \in Nat /\ wb \in Nat /\ ff \in Nat /\ fb \in Nat
    BY <1>2 DEF Span
<1>4. R \in Int
    <2>1. current \in Int /\ seg.resendts \in Int
        BY TimesZero DEF ClockTypeOK
    <2>2. R \in Half
        BY <2>1, DiffTrue DEF Due
    <2> HIDE DEF R
    <2> QED
        BY <2>2, Width, SMT DEF Half
<1>5. /\ Diff(snd_buf[s].resendts, Plus(current, d - b)) = r
      /\ Diff(Plus(current, d - b), snd_buf[s].resendts) = -r
    BY DueMoves
<1>6. Due(s)' = r
    BY <1>5 DEF Due
<1>7. waited'[s].for = wf + d /\ waited'[s].back = wb + b
    <2>1. /\ Later(waited[s], d, b).for = wf + d
          /\ Later(waited[s], d, b).back = wb + b
        BY <1>1, <1>2, LaterSpan
    <2> QED
        BY <2>1, Zenon
<1>8. Timed(s)
    BY DEF AllTimed
<1>9. seg.xmit \in 1..MaxXmit
    BY <1>2, Rtos, SMT DEF InBuf
<1>10. e \in Nat
    BY <1>9, ExtraBound
<1>11. /\ wf - wb + R >= rto
       /\ wf - wb + R <= rto + e
       /\ R + ff - fb >= 1
    BY <1>8 DEF Timed
<1> HIDE DEF R, rto, wf, wb, ff, fb, e
<1>12. /\ (wf + d) - (wb + b) + r >= rto
       /\ (wf + d) - (wb + b) + r <= rto + e
    BY <1>1, <1>2, <1>3, <1>4, <1>10, <1>11, SMT
<1>13. r + flushed'.for - flushed'.back >= 1
    <2>1. CASE flushed' = Later(flushed, d, b)
        <3>1. flushed'.for = ff + d /\ flushed'.back = fb + b
            BY <1>1, <1>2, <2>1, LaterSpan DEF ff, fb
        <3>2. r + (ff + d) - (fb + b) >= 1
            BY <1>1, <1>3, <1>4, <1>11, SMT
        <3> QED
            BY <3>1, <3>2, Zenon
    <2>2. CASE flushed' = Zero /\ ~Overdue(s, Plus(current, d - b))
        <3>1. ~(-r >= 0)
            BY <1>5, <2>2, Zenon DEF Overdue
        <3>2. flushed'.for = 0 /\ flushed'.back = 0
            BY <2>2 DEF Zero
        <3>3. r + 0 - 0 >= 1
            BY <1>1, <1>4, <3>1, SMT
        <3> QED
            BY <3>2, <3>3, Zenon
    <2> QED
        BY <2>1, <2>2
<1>14. rto >= snd_buf[s].xmit * RTO_MIN /\ rto <= snd_buf[s].xmit * RTO_MAX
    BY <1>8 DEF Timed, rto
<1> QED
    BY <1>6, <1>7, <1>12, <1>13, <1>14, Zenon DEF Timed, rto, e

\* A segment just sent, for the first time or once more.
LEMMA NewlyTimed ==
    ASSUME NEW s \in Segs, NEW t \in Int, current' = t, flushed' = Zero,
           waited'[s] = Zero,
           snd_buf'[s].xmit \in 1..MaxXmit, snd_buf'[s].rto \in Nat,
           snd_buf'[s].rto >= snd_buf'[s].xmit * RTO_MIN,
           snd_buf'[s].rto <= snd_buf'[s].xmit * RTO_MAX,
           NEW more \in Nat, more <= Extra(snd_buf'[s].xmit),
           snd_buf'[s].resendts = Plus(t, snd_buf'[s].rto + more)
    PROVE  Timed(s)'
<1> DEFINE rto == snd_buf'[s].rto
           x == snd_buf'[s].xmit
           e == Extra(x)
           l == Longest
           m == x * RTO_MAX
           n == x * RTO_MIN
<1>1. /\ l \in Nat /\ e \in Nat /\ m \in Nat /\ n \in Nat /\ m + e <= l
      /\ l < W \div 2
    BY ExtraBound
<1>2. n >= 1
    BY Rtos, Product, SMT
<1> DEFINE r == rto + more
<1> HIDE DEF e, l, m, n
<1>3. r \in Half
    BY <1>1, Width, SMT DEF Half, m, e
<1>4. Diff(Plus(t, r), t) = r
    BY <1>3, DiffAhead
<1>5. Due(s)' = r
    BY <1>4 DEF Due
<1>6. waited'[s].for = 0 /\ waited'[s].back = 0 /\ flushed'.for = 0 /\ flushed'.back = 0
    BY DEF Zero
<1>7. 0 - 0 + r >= rto /\ 0 - 0 + r <= rto + e
    BY <1>1, SMT DEF e
<1>8. r + 0 - 0 >= 1
    BY <1>1, <1>2, SMT DEF n
<1>9. Extra(snd_buf[s].xmit)' = e
    BY DEF Extra, e
<1> QED
    BY <1>5, <1>6, <1>7, <1>8, <1>9, Zenon DEF Timed

LEMMA FlushTimed ==
    ASSUME ClockTypeOK, ClockTypeOK', NEW s \in Segs, NEW t \in Int,
           NEW fresh \in SUBSET Unsent, FlushSegments(fresh, t),
           current' = t, flushed' = Zero, waited'[s] = Zero,
           \/ s \in fresh
           \/ s \notin fresh /\ Overdue(s, t) /\ Timed(s)
    PROVE  Timed(s)'
<1>1. rx_rto \in Nat /\ rx_rto >= RTO_MIN /\ rx_rto <= RTO_MAX
    <2>1. rx_rto \in RTO_MIN..RTO_MAX
        BY DEF ClockTypeOK
    <2> QED
        BY <2>1, Rtos, SMT
<1>2. snd_buf'[s].xmit \in 0..MaxXmit /\ snd_buf'[s].rto \in Nat
    BY DEF ClockTypeOK
<1>3. CASE s \in fresh
    <2> DEFINE more == rx_rto \div SLACK
    <2>1. snd_buf'[s] = First(t)
        BY <1>3 DEF FlushSegments
    <2>2. /\ snd_buf'[s].xmit = 1 /\ snd_buf'[s].rto = rx_rto
          /\ snd_buf'[s].resendts = Plus(t, rx_rto + more)
        BY <2>1 DEF First
    <2>3. more \in Nat /\ more <= RTO_MAX \div SLACK
        BY <1>1, Rtos, Quotient
    <2>4. more <= Extra(1)
        BY <2>3 DEF Extra
    <2> HIDE DEF more
    <2>5. 1 \in 1..MaxXmit /\ rx_rto >= 1 * RTO_MIN /\ rx_rto <= 1 * RTO_MAX
        BY <1>1, Rtos, SMT
    <2>6. /\ snd_buf'[s].xmit \in 1..MaxXmit
          /\ snd_buf'[s].rto >= snd_buf'[s].xmit * RTO_MIN
          /\ snd_buf'[s].rto <= snd_buf'[s].xmit * RTO_MAX
          /\ more <= Extra(snd_buf'[s].xmit)
          /\ snd_buf'[s].resendts = Plus(t, snd_buf'[s].rto + more)
        BY <2>2, <2>4, <2>5, Zenon
    <2> QED
        BY <1>2, <2>3, <2>6, NewlyTimed
<1>4. CASE s \notin fresh /\ Overdue(s, t) /\ Timed(s)
    <2> DEFINE x == snd_buf[s].xmit
               rto == snd_buf[s].rto
    <2>1. snd_buf'[s] = Again(snd_buf[s], t)
        BY <1>4 DEF FlushSegments
    <2>2. /\ snd_buf'[s].xmit = x + 1 /\ snd_buf'[s].rto = rto + rx_rto
          /\ snd_buf'[s].resendts = Plus(t, rto + rx_rto)
        BY <2>1 DEF Again
    <2>3. x \in Nat /\ rto \in Nat /\ x + 1 <= MaxXmit
        BY <1>2, <2>2, Rtos, SMT DEF ClockTypeOK
    <2>4. rto >= x * RTO_MIN /\ rto <= x * RTO_MAX
        BY <1>4 DEF Timed
    <2>5. /\ (x + 1) * RTO_MIN = x * RTO_MIN + RTO_MIN /\ x * RTO_MIN \in Nat
          /\ (x + 1) * RTO_MAX = x * RTO_MAX + RTO_MAX /\ x * RTO_MAX \in Nat
        BY <2>3, Rtos, Product
    <2> HIDE DEF x, rto
    <2> DEFINE m == x * RTO_MIN
               n == x * RTO_MAX
    <2>6. rto + rx_rto >= m + RTO_MIN /\ rto + rx_rto <= n + RTO_MAX
        <3>1. rto >= m /\ rto <= n /\ m \in Nat /\ n \in Nat
            BY <2>4, <2>5
        <3> HIDE DEF m, n
        <3> QED
            BY <1>1, <2>3, <3>1, Rtos, SMT
    <2>7. x + 1 \in 1..MaxXmit
        BY <2>3, Rtos, SMT
    <2>8. Extra(x + 1) \in Nat
        BY <2>7, ExtraBound
    <2>9. 0 \in Nat /\ 0 <= Extra(x + 1) /\ rto + rx_rto + 0 = rto + rx_rto
        BY <1>1, <2>3, <2>8, SMT
    <2>10. /\ snd_buf'[s].xmit \in 1..MaxXmit
           /\ snd_buf'[s].rto >= snd_buf'[s].xmit * RTO_MIN
           /\ snd_buf'[s].rto <= snd_buf'[s].xmit * RTO_MAX
           /\ 0 <= Extra(snd_buf'[s].xmit)
           /\ snd_buf'[s].resendts = Plus(t, snd_buf'[s].rto + 0)
        BY <2>2, <2>5, <2>6, <2>7, <2>9, Zenon DEF x, rto
    <2> QED
        BY <1>2, <2>9, <2>10, NewlyTimed
<1> QED
    BY <1>3, <1>4

\* One later call of ikcp_update, the clock set back by b or not.
LEMMA UpdateTimed ==
    ASSUME ClockTypeOK, ClockTypeOK', OnTime, AllTimed, updated, updated',
           NEW d \in Ticks, NEW b \in Backs \union {0}, b # 0 => ~setback,
           setback' <=> setback \/ b # 0,
           UpdateAt(Plus(current, d - b), ts_flush, d, b)
    PROVE  AllTimed'
<1> SUFFICES ASSUME NEW s \in Segs
             PROVE  /\ waited'[s].back \in Backs \union {0}
                    /\ ~setback' => waited'[s].back = 0
                    /\ InBuf(s)' => Timed(s)'
    BY Zenon DEF AllTimed
<1> DEFINE t == Plus(current, d - b)
<1>1. current \in Int /\ d \in Nat /\ b \in Nat /\ d - b \in Int /\ ts_flush \in Int
    BY TimesZero, Bounds, ExtraBound, SMT DEF ClockTypeOK
<1>2. t \in Int
    BY <1>1, PlusTrue
<1>3. current' = t
    BY DEF UpdateAt
<1>4. /\ waited[s] \in Span /\ waited[s].back \in Backs \union {0}
      /\ ~setback => waited[s].back = 0
    BY DEF AllTimed, ClockTypeOK
<1> HIDE DEF t
\* what becomes of a set-back in the history of s
<1>5. ASSUME InBuf(s), waited'[s] = Later(waited[s], d, b)
      PROVE  /\ waited'[s].back \in Backs \union {0}
             /\ ~setback' => waited'[s].back = 0
    <2>1. waited'[s].back = waited[s].back + b
        <3>1. Later(waited[s], d, b).back = waited[s].back + b
            BY <1>1, <1>4, LaterSpan
        <3> QED
            BY <1>5, <3>1, Zenon
    <2>2. waited[s].back + b \in Backs \union {0}
        BY <1>5, DueMoves
    <2>3. ASSUME ~setback' PROVE waited'[s].back = 0
        <3>1. b = 0 /\ waited[s].back = 0
            BY <1>4, <2>3
        <3> QED
            BY <2>1, <3>1, SMT
    <2> QED
        BY <2>1, <2>2, <2>3
<1>6. ASSUME waited'[s] = Zero
      PROVE  /\ waited'[s].back \in Backs \union {0}
             /\ ~setback' => waited'[s].back = 0
    BY <1>6 DEF Zero
<1>7. CASE Flushes(t, ts_flush)
    <2>1. PICK fresh \in SUBSET Unsent :
            /\ FlushSegments(fresh, t)
            /\ waited' = [z \in Segs |->
                    IF z \in fresh \/ Overdue(z, t) THEN Zero
                    ELSE IF InBuf(z) THEN Later(waited[z], d, b) ELSE Zero]
        BY <1>7, Zenon DEF UpdateAt, t
    <2>2. flushed' = Zero
        BY <1>7 DEF UpdateAt, t
    <2>3. CASE s \in fresh \/ Overdue(s, t)
        <3>1. waited'[s] = Zero
            BY <2>1, <2>3
        <3>2. Overdue(s, t) => InBuf(s)
            BY DEF Overdue
        <3>3. Timed(s)'
            <4>1. CASE s \in fresh
                BY <1>2, <1>3, <2>1, <2>2, <3>1, <4>1, FlushTimed
            <4>2. CASE s \notin fresh /\ Overdue(s, t)
                <5>1. Timed(s)
                    BY <3>2, <4>2 DEF AllTimed
                <5> QED
                    BY <1>2, <1>3, <2>1, <2>2, <3>1, <4>2, <5>1, FlushTimed
            <4> QED
                BY <2>3, <4>1, <4>2
        <3> QED
            BY <1>6, <3>1, <3>3
    <2>4. CASE ~(s \in fresh \/ Overdue(s, t))
        <3>1. snd_buf'[s] = snd_buf[s]
            BY <2>1, <2>4 DEF FlushSegments
        <3>2. InBuf(s)' <=> InBuf(s)
            BY <3>1 DEF InBuf
        <3>3. CASE InBuf(s)
            <4>1. waited'[s] = Later(waited[s], d, b)
                BY <2>1, <2>4, <3>3
            <4>2. ~Overdue(s, Plus(current, d - b))
                BY <2>4 DEF t
            <4>3. current' = Plus(current, d - b)
                BY <1>3 DEF t
            <4>4. Timed(s)'
                BY <2>2, <3>1, <3>3, <4>1, <4>2, <4>3, StillTimed
            <4> QED
                BY <1>5, <3>3, <4>1, <4>4
        <3>4. CASE ~InBuf(s)
            <4>1. waited'[s] = Zero
                BY <2>1, <2>4, <3>4
            <4> QED
                BY <1>6, <3>2, <3>4, <4>1
        <3> QED
            BY <3>3, <3>4
    <2> QED
        BY <2>3, <2>4
<1>8. CASE ~Flushes(t, ts_flush)
    <2>1. /\ waited' = [z \in Segs |->
                    IF InBuf(z) THEN Later(waited[z], d, b) ELSE Zero]
          /\ snd_buf' = snd_buf
          /\ flushed' = Later(flushed, d, b)
        BY <1>8 DEF UpdateAt, t
    <2>2. InBuf(s)' <=> InBuf(s)
        BY <2>1 DEF InBuf
    <2>3. CASE InBuf(s)
        <3>1. waited'[s] = Later(waited[s], d, b) /\ snd_buf'[s] = snd_buf[s]
            BY <2>1, <2>3
        <3>2. current' = Plus(current, d - b)
            BY <1>3 DEF t
        <3>3. Timed(s)'
            BY <2>1, <2>3, <3>1, <3>2, StillTimed
        <3> QED
            BY <1>5, <2>3, <3>1, <3>3
    <2>4. CASE ~InBuf(s)
        <3>1. waited'[s] = Zero
            BY <2>1, <2>4
        <3> QED
            BY <1>6, <2>2, <2>4, <3>1
    <2> QED
        BY <2>3, <2>4
<1> QED
    BY <1>7, <1>8

LEMMA NextTimed ==
    ClockTypeOK /\ ClockTypeOK' /\ OnTime /\ AllTimed /\ [Next]_vars => AllTimed'
<1> SUFFICES ASSUME ClockTypeOK, ClockTypeOK', OnTime, AllTimed, [Next]_vars
             PROVE  AllTimed'
    OBVIOUS
<1>1. current \in Int
    BY TimesZero DEF ClockTypeOK
<1>2. ASSUME NEW t \in Phases, FirstUpdate(t) PROVE AllTimed'
    <2>1. t \in Int /\ current' = t /\ updated' /\ UpdateAt(t, t, 0, 0)
        BY <1>2, ClockAssumption DEF FirstUpdate, UpdateAt
    <2>2. \A s \in Segs : ~InBuf(s)
        BY <1>2 DEF FirstUpdate, AllTimed
    <2>3. Flushes(t, t)
        <3>1. Anchor(t, t) = t
            BY DEF Anchor
        <3>2. Diff(t, t) = 0
            BY <2>1, DiffItself
        <3> QED
            BY <3>1, <3>2, SMT DEF Flushes
    <2>4. PICK fresh \in SUBSET Unsent :
            /\ FlushSegments(fresh, t)
            /\ waited' = [z \in Segs |->
                    IF z \in fresh \/ Overdue(z, t) THEN Zero
                    ELSE IF InBuf(z) THEN Later(waited[z], 0, 0) ELSE Zero]
        BY <2>1, <2>3, Zenon DEF UpdateAt
    <2>5. flushed' = Zero
        BY <2>1, <2>3 DEF UpdateAt
    <2>6. ASSUME NEW s \in Segs
          PROVE  /\ waited'[s] = Zero
                 /\ InBuf(s)' => Timed(s)'
        <3>1. ~Overdue(s, t)
            BY <2>2 DEF Overdue
        <3>2. waited'[s] = Zero
            BY <2>2, <2>4
        <3>3. CASE s \in fresh
            BY <2>1, <2>4, <2>5, <3>2, <3>3, FlushTimed
        <3>4. CASE s \notin fresh
            <4>1. snd_buf'[s] = snd_buf[s]
                BY <2>4, <3>1, <3>4 DEF FlushSegments
            <4> QED
                BY <2>2, <3>2, <4>1 DEF InBuf
        <3> QED
            BY <3>2, <3>3, <3>4
    <2>7. Zero.back = 0
        BY DEF Zero
    <2> QED
        BY <2>1, <2>6, <2>7, Zenon DEF AllTimed
<1>3. ASSUME NEW d \in Ticks, Update(d) PROVE AllTimed'
    <2>1. d \in Int /\ d - 0 = d
        BY Bounds
    <2>2. UpdateAt(Plus(current, d - 0), ts_flush, d, 0) /\ 0 \in Backs \union {0}
        BY <1>3, <2>1 DEF Update
    <2>3. updated /\ updated' /\ (setback' <=> setback \/ 0 # 0)
        BY <1>3 DEF Update
    <2> QED
        BY <2>2, <2>3, UpdateTimed
<1>4. ASSUME NEW d \in Ticks, NEW b \in Backs, UpdateSetBack(d, b) PROVE AllTimed'
    <2>1. UpdateAt(Plus(current, d - b), ts_flush, d, b) /\ b \in Backs \union {0}
        BY <1>4 DEF UpdateSetBack
    <2>2. b # 0
        BY Bounds, SMT
    <2>3. updated /\ updated' /\ ~setback /\ (setback' <=> setback \/ b # 0)
        BY <1>4, <2>2 DEF UpdateSetBack
    <2> QED
        BY <2>1, <2>3, UpdateTimed
<1>5. ASSUME NEW closed, NEW acked, Header(closed, acked) PROVE AllTimed'
    <2> SUFFICES ASSUME NEW s \in Segs
                 PROVE  /\ ~updated' => ~InBuf(s)'
                        /\ waited'[s].back \in Backs \union {0}
                        /\ ~setback' => waited'[s].back = 0
                        /\ InBuf(s)' => Timed(s)'
        BY Zenon DEF AllTimed
    <2>1. /\ updated' = updated /\ setback' = setback /\ flushed' = flushed
          /\ current' = current
        BY <1>5 DEF Header
    <2>2. CASE s \in acked
        <3>1. snd_buf'[s] = Absent /\ waited'[s] = Zero
            BY <1>5, <2>2 DEF Header
        <3>2. ~InBuf(s)'
            BY <3>1, SMT DEF InBuf, Absent
        <3>3. waited'[s].back = 0
            BY <3>1 DEF Zero
        <3> QED
            BY <3>2, <3>3
    <2>3. CASE s \notin acked
        <3>1. snd_buf'[s] = snd_buf[s] /\ waited'[s] = waited[s]
            BY <1>5, <2>3 DEF Header
        <3>2. (InBuf(s)' <=> InBuf(s)) /\ (Timed(s)' <=> Timed(s))
            BY <2>1, <3>1, Zenon DEF InBuf, Timed, Due
        <3> QED
            BY <2>1, <3>1, <3>2 DEF AllTimed
    <2> QED
        BY <2>2, <2>3
<1>6. CASE UNCHANGED vars
    BY <1>6 DEF vars, AllTimed, Timed, Due, InBuf, histVars
<1> QED
    BY <1>2, <1>3, <1>4, <1>5, <1>6 DEF Next, Input, InputAck

LEMMA TimedEnough == ClockTypeOK /\ AllTimed => ResentInTime
<1> SUFFICES ASSUME ClockTypeOK, AllTimed, NEW s \in Segs, InBuf(s)
             PROVE  waited[s].for - flushed.for
                        < snd_buf[s].rto + RTO_MAX \div SLACK
                            + waited[s].back - flushed.back
    BY DEF ResentInTime
<1> DEFINE R == Due(s)
           rto == snd_buf[s].rto
           wf == waited[s].for
           wb == waited[s].back
           ff == flushed.for
           fb == flushed.back
           e == Extra(snd_buf[s].xmit)
           f == RTO_MAX \div SLACK
<1>1. /\ wf \in Nat /\ wb \in Nat /\ ff \in Nat /\ fb \in Nat /\ rto \in Nat
      /\ snd_buf[s].xmit \in 0..MaxXmit
    BY DEF ClockTypeOK, Span
<1>2. e \in Nat /\ e <= f /\ f \in Nat
    <2>1. snd_buf[s].xmit \in 1..MaxXmit
        BY <1>1, Rtos, SMT DEF InBuf
    <2> QED
        BY <2>1, ExtraBound
<1>3. R \in Int
    <2>1. current \in Int /\ snd_buf[s].resendts \in Int
        BY TimesZero DEF ClockTypeOK
    <2>2. R \in Half
        BY <2>1, DiffTrue DEF Due
    <2> HIDE DEF R
    <2> QED
        BY <2>2, Width, SMT DEF Half
<1>4. wf - wb + R <= rto + e /\ R + ff - fb >= 1
    BY DEF AllTimed, Timed
<1> HIDE DEF R, rto, wf, wb, ff, fb, e, f
<1>5. wf - ff < rto + f + wb - fb
    BY <1>1, <1>2, <1>3, <1>4, SMT
<1> QED
    BY <1>5 DEF rto, wf, wb, ff, fb, f

LEMMA TimedBacksOff ==
    ASSUME ClockTypeOK, OnTime, AllTimed, [Next]_vars, NEW s \in Segs, InBuf(s),
           snd_buf'[s].xmit > snd_buf[s].xmit
    PROVE  waited[s].for + Diff(current', current) >= snd_buf[s].xmit * RTO_MIN
<1> DEFINE x == snd_buf[s].xmit
           rto == snd_buf[s].rto
           wf == waited[s].for
           wb == waited[s].back
           R == Due(s)
           n == x * RTO_MIN
<1>1. x \in 1..MaxXmit /\ x \in Nat /\ rto \in Nat /\ wf \in Nat /\ wb \in Nat
    <2>1. x \in 0..MaxXmit /\ rto \in Nat /\ waited[s] \in Span
        BY DEF ClockTypeOK
    <2>2. x \in 1..MaxXmit /\ x \in Nat
        BY <2>1, Rtos, SMT DEF InBuf
    <2> QED
        BY <2>1, <2>2 DEF Span
<1>2. current \in Int
    BY TimesZero DEF ClockTypeOK
<1>3. R \in Int
    <2>1. snd_buf[s].resendts \in Int
        BY TimesZero DEF ClockTypeOK
    <2>2. R \in Half
        BY <1>2, <2>1, DiffTrue DEF Due
    <2> HIDE DEF R
    <2> QED
        BY <2>2, Width, SMT DEF Half
<1>4. updated /\ Timed(s)
    BY DEF AllTimed, ClockTypeOK
<1>5. ASSUME NEW d \in Ticks, NEW b \in Backs \union {0}, b # 0 => ~setback,
             UpdateAt(Plus(current, d - b), ts_flush, d, b)
      PROVE  wf + Diff(current', current) >= n
    <2> DEFINE t == Plus(current, d - b)
    <2>1. d \in Nat /\ d <= Gap /\ b \in Nat /\ Longest + b < W \div 2 /\ Longest \in Nat
        BY Bounds, ExtraBound
    <2>2. d - b \in Half /\ d - b \in Int
        BY <2>1, Bounds, Width, SMT DEF Half
    <2>3. current' = t
        BY <1>5 DEF UpdateAt
    <2>4. Diff(current', current) = d - b
        BY <1>2, <2>2, <2>3, DiffAhead
    <2>5. Diff(t, snd_buf[s].resendts) = -(R - d + b)
        BY <1>4, <1>5, DueMoves
    <2>6. Overdue(s, t)
        <3>1. snd_buf' # snd_buf
            <4> SUFFICES ASSUME snd_buf' = snd_buf PROVE FALSE
                OBVIOUS
            <4>1. x > x
                OBVIOUS
            <4> HIDE DEF x
            <4> QED
                BY <1>1, <4>1, SMT
        <3>2. PICK fresh \in SUBSET Unsent : FlushSegments(fresh, t)
            BY <1>5, <3>1, Zenon DEF UpdateAt
        <3>3. s \notin fresh
            BY DEF Unsent
        <3> SUFFICES ASSUME ~Overdue(s, t) PROVE FALSE
            OBVIOUS
        <3>4. snd_buf'[s] = snd_buf[s]
            BY <3>2, <3>3 DEF FlushSegments
        <3>5. x > x
            BY <3>4
        <3> HIDE DEF x
        <3> QED
            BY <1>1, <3>5, SMT
    <2>7. -(R - d + b) >= 0
        BY <2>5, <2>6 DEF Overdue
    <2>8. n \in Nat
        BY <1>1, ExtraBound
    <2>9. rto >= n /\ wf - wb + R >= rto
        BY <1>4 DEF Timed
    <2> HIDE DEF R, rto, wf, wb, n
    <2>10. wf + (d - b) >= n
        BY <1>1, <1>3, <2>1, <2>7, <2>8, <2>9, SMT DEF rto, wf, wb
    <2> QED
        BY <2>4, <2>10, Zenon
<1>6. ASSUME NEW closed, NEW acked, Header(closed, acked) PROVE FALSE
    <2>1. snd_buf'[s] \in {Absent, snd_buf[s]}
        BY <1>6 DEF Header
    <2>2. Absent.xmit = 0
        BY DEF Absent
    <2>3. x < 0 \/ x < x
        BY <2>1, <2>2, SMT
    <2> HIDE DEF x
    <2> QED
        BY <1>1, <2>3, SMT
<1>7. CASE UNCHANGED vars
    <2>1. x > x
        BY <1>7 DEF vars
    <2> HIDE DEF x
    <2> QED
        BY <1>1, <2>1, SMT
<1>8. ASSUME NEW d \in Ticks, Update(d) PROVE wf + Diff(current', current) >= n
    <2>1. d - 0 = d
        BY Bounds
    <2>2. UpdateAt(Plus(current, d - 0), ts_flush, d, 0) /\ 0 \in Backs \union {0}
        BY <1>8, <2>1 DEF Update
    <2> QED
        BY <1>5, <2>2
<1>9. ASSUME NEW d \in Ticks, NEW b \in Backs, UpdateSetBack(d, b)
      PROVE  wf + Diff(current', current) >= n
    BY <1>5, <1>9 DEF UpdateSetBack
<1>10. ASSUME NEW t \in Phases, FirstUpdate(t) PROVE FALSE
    BY <1>4, <1>10 DEF FirstUpdate
<1> QED
    BY <1>6, <1>7, <1>8, <1>9, <1>10 DEF Next, Input, InputAck

LEMMA InitTimed == Init => AllTimed
BY SMT DEF Init, AllTimed, InBuf, Absent, Zero

\* No flush passes over a segment whose timeout has run out by a clock that was
\* not set back, across the wrap of the counter; a set-back delays it by as
\* much (ikcp.c:1048-1063).
THEOREM ResendNotMissed == Spec => []ResentInTime
<1>1. Init => OnTime /\ AllTimed
    BY InitTimed DEF Init, OnTime, Zero
<1>2. /\ ClockTypeOK /\ ClockTypeOK' /\ OnTime /\ AllTimed /\ [Next]_vars
      => OnTime' /\ AllTimed'
    BY NextOnTime, NextTimed
<1>3. ClockTypeOK /\ AllTimed => ResentInTime
    BY TimedEnough
<1> QED
    BY <1>1, <1>2, <1>3, ClockTypes, PTL DEF Spec

\* A segment that was sent n times waits at least n minimal timeouts before it
\* is sent again, a wrap of the counter or a set-back between or not
\* (ikcp.c:1048-1063).
THEOREM PausesGrow == Spec => BacksOff
<1>1. Init => OnTime /\ AllTimed
    BY InitTimed DEF Init, OnTime, Zero
<1>2. /\ ClockTypeOK /\ ClockTypeOK' /\ OnTime /\ AllTimed /\ [Next]_vars
      => OnTime' /\ AllTimed'
    BY NextOnTime, NextTimed
<1>3. ClockTypeOK /\ OnTime /\ AllTimed /\ [Next]_vars =>
        [\A s \in Segs :
            snd_buf'[s].xmit > snd_buf[s].xmit /\ InBuf(s) =>
                waited[s].for + Diff(current', current)
                    >= snd_buf[s].xmit * RTO_MIN]_vars
    BY TimedBacksOff
<1> QED
    BY <1>1, <1>2, <1>3, ClockTypes, PTL DEF Spec, BacksOff

-------------------------------------------------------------------------------
(***************************************************************************)
(* ikcp_flush: the probe timer.  As for segments: what was waited for and  *)
(* what is left until the next probe make no more than the bound together, *)
(* and a probe is not overdue for longer than the last flush is past.      *)
(***************************************************************************)
ProbeLeft == Diff(ts_probe, current)

ProbeBound == PROBE_LIMIT + INTERVAL + Gap

ProbeTimed ==
    /\ probed.for + ProbeLeft <= ProbeBound + probed.back
    /\ ProbeLeft + flushed.for - flushed.back >= 1

Probing ==
    /\ probed.back \in Backs \union {0}
    /\ ~setback => probed.back = 0
    /\ flushed.back <= probed.back
    /\ ~shut => probed.for = 0
    /\ ~updated => probe_wait = 0 /\ probed.for = 0
    /\ probe_wait = 0 => probed.for <= flushed.for
    /\ probe_wait # 0 => ProbeTimed

LEMMA ProbeFacts ==
    /\ ProbeBound \in Nat /\ PROBE_LIMIT + INTERVAL + Gap = ProbeBound
    /\ \A b \in Backs \union {0} : b \in Nat /\ ProbeBound + b < W \div 2
<1>1. ProbeBound \in Nat
    BY Rtos, Bounds, SMT DEF ProbeBound
<1>2. \A b \in Backs \union {0} : ProbeBound + b < W \div 2
    BY ClockAssumption DEF ProbeBound
<1> QED
    BY <1>1, <1>2, ExtraBound DEF ProbeBound

LEMMA ProbeTypes ==
    ASSUME ClockTypeOK
    PROVE  /\ current \in Int /\ ts_probe \in Int /\ probe_wait \in Nat
           /\ probed \in Span /\ flushed \in Span
           /\ probed.for \in Nat /\ probed.back \in Nat
           /\ flushed.for \in Nat /\ flushed.back \in Nat
           /\ ProbeLeft \in Int
<1>1. /\ current \in Int /\ ts_probe \in Int /\ probe_wait \in 0..PROBE_LIMIT
      /\ probed \in Span /\ flushed \in Span
    BY TimesZero DEF ClockTypeOK
<1>2. probe_wait \in Nat
    BY <1>1, Rtos, SMT
<1>3. ProbeLeft \in Half
    BY <1>1, DiffTrue DEF ProbeLeft
<1> HIDE DEF ProbeLeft
<1>4. ProbeLeft \in Int
    BY <1>3, Width, SMT DEF Half
<1> QED
    BY <1>1, <1>2, <1>4 DEF Span

\* What a call of ikcp_update d later finds of the probe timer.
LEMMA ProbeMoves ==
    ASSUME ClockTypeOK, OnTime, Probing, probe_wait # 0,
           NEW d \in Ticks, NEW b \in Backs \union {0}, b # 0 => ~setback
    PROVE  LET r == ProbeLeft - d + b
           IN  /\ r \in Int
               /\ Diff(ts_probe, Plus(current, d - b)) = r
               /\ Diff(Plus(current, d - b), ts_probe) = -r
<1> DEFINE R == ProbeLeft
           pf == probed.for
           pb == probed.back
           ff == flushed.for
           fb == flushed.back
           r == R - d + b
<1>1. /\ current \in Int /\ ts_probe \in Int /\ pf \in Nat /\ pb \in Nat
      /\ ff \in Nat /\ fb \in Nat /\ R \in Int
    BY ProbeTypes
<1>2. d \in Nat /\ d >= 1 /\ d <= Gap /\ b \in Nat /\ d - b \in Int
    BY Bounds, ExtraBound, SMT
<1>3. pf + R <= ProbeBound + pb /\ R + ff - fb >= 1
    BY DEF Probing, ProbeTimed
<1>4. pb + b \in Backs \union {0}
    <2>1. CASE b = 0
        <3>1. pb + b = pb
            BY <1>1, <2>1, SMT
        <3> QED
            BY <3>1, Zenon DEF Probing
    <2>2. CASE b # 0
        <3>1. pb = 0
            BY <2>2 DEF Probing
        <3>2. pb + b = b
            BY <1>2, <3>1, SMT
        <3> QED
            BY <3>2, Zenon
    <2> QED
        BY <2>1, <2>2
<1>5. ProbeBound \in Nat /\ ProbeBound + (pb + b) < W \div 2
    BY <1>4, ProbeFacts
<1>6. ff < INTERVAL + JUMP + Gap
    <2>1. ff < INTERVAL + imin(fb, JUMP + Gap)
        BY OnTimeEnough DEF FlushedInTime
    <2> HIDE DEF ff, fb
    <2> QED
        BY <1>1, <2>1, Bounds, SMT DEF imin
<1> HIDE DEF R, pf, pb, ff, fb
<1>7. r < W \div 2
    BY <1>1, <1>2, <1>3, <1>5, Width, SMT
<1>8. r > -(W \div 2)
    <2>1. r >= 1 - ff + fb - d + b
        BY <1>1, <1>2, <1>3, SMT
    <2> QED
        BY <1>1, <1>2, <1>6, <2>1, Bounds, Width, SMT
<1>9. r \in Half /\ -r \in Half /\ r # -(W \div 2) /\ R - (d - b) = r /\ r \in Int
    BY <1>1, <1>2, <1>7, <1>8, Width, SMT DEF Half
<1>10. Diff(ts_probe, Plus(current, d - b)) = r
    <2>1. R - (d - b) \in Half
        BY <1>9
    <2> QED
        BY <1>1, <1>2, <1>9, <2>1, DiffMovesTo DEF R, ProbeLeft
<1>11. Plus(current, d - b) \in Int
    BY <1>1, <1>2, PlusTrue
<1>12. Diff(Plus(current, d - b), ts_probe) = -r
    BY <1>1, <1>9, <1>10, <1>11, DiffReversed
<1> QED
    BY <1>9, <1>10, <1>12 DEF R

\* A probe timer just started, with wait n.
LEMMA ProbeStarted ==
    ASSUME ClockTypeOK', NEW t \in Int, current' = t, flushed' = Zero,
           NEW n \in Nat, n >= 1, n <= PROBE_LIMIT, ts_probe' = Plus(t, n),
           probed'.for <= INTERVAL + Gap + probed'.back
    PROVE  ProbeTimed'
<1>1. n \in Half /\ PROBE_LIMIT + INTERVAL + Gap = ProbeBound
    <2>1. ProbeBound + 0 < W \div 2 /\ ProbeBound \in Nat
        BY ProbeFacts
    <2> QED
        BY <2>1, Rtos, Bounds, Width, SMT DEF Half, ProbeBound
<1>2. ProbeLeft' = n
    BY <1>1, DiffAhead DEF ProbeLeft
<1>3. flushed'.for = 0 /\ flushed'.back = 0
    BY DEF Zero
<1>4. probed'.for \in Nat /\ probed'.back \in Nat
    BY DEF ClockTypeOK, Span
<1> DEFINE f == probed'.for
           b == probed'.back
<1>5. f \in Nat /\ b \in Nat /\ f <= INTERVAL + Gap + b
    BY <1>4
<1> HIDE DEF f, b
<1>6. f + n <= ProbeBound + b /\ n + 0 - 0 >= 1
    BY <1>1, <1>5, Rtos, Bounds, ProbeFacts, SMT
<1>7. ProbeBound' = ProbeBound
    BY DEF ProbeBound
<1> QED
    BY <1>2, <1>3, <1>6, <1>7, Zenon DEF ProbeTimed, f, b

\* A call that leaves the probe timer as it is.
LEMMA ProbeRuns ==
    ASSUME ClockTypeOK, OnTime, Probing, probe_wait # 0,
           NEW d \in Ticks, NEW b \in Backs \union {0}, b # 0 => ~setback,
           current' = Plus(current, d - b), ts_probe' = ts_probe,
           NEW n \in Nat, n <= d,
           probed'.for = probed.for + n, probed'.back = probed.back + b,
           \/ flushed' = Later(flushed, d, b)
           \/ flushed' = Zero /\ ~(Diff(Plus(current, d - b), ts_probe) >= 0)
    PROVE  ProbeTimed'
<1> DEFINE R == ProbeLeft
           pf == probed.for
           pb == probed.back
           ff == flushed.for
           fb == flushed.back
           r == R - d + b
           u == Diff(Plus(current, d - b), ts_probe)
<1>1. /\ pf \in Nat /\ pb \in Nat /\ ff \in Nat /\ fb \in Nat /\ R \in Int
      /\ flushed \in Span
    BY ProbeTypes
<1>2. d \in Nat /\ b \in Nat
    BY Bounds, ExtraBound, SMT
<1>3. pf + R <= ProbeBound + pb /\ R + ff - fb >= 1
    BY DEF Probing, ProbeTimed
<1>4. Diff(ts_probe, Plus(current, d - b)) = r /\ u = -r /\ r \in Int
    BY ProbeMoves
<1>5. ProbeLeft' = r
    BY <1>4 DEF ProbeLeft
<1>6. ProbeBound' = ProbeBound /\ ProbeBound \in Nat
    BY ProbeFacts DEF ProbeBound
<1> HIDE DEF R, pf, pb, ff, fb, u
<1>7. (pf + n) + r <= ProbeBound + (pb + b)
    BY <1>1, <1>2, <1>3, <1>6, SMT
<1>8. r + flushed'.for - flushed'.back >= 1
    <2>1. CASE flushed' = Later(flushed, d, b)
        <3>1. Later(flushed, d, b).for = ff + d /\ Later(flushed, d, b).back = fb + b
            BY <1>1, <1>2, LaterSpan DEF ff, fb
        <3>2. r + (ff + d) - (fb + b) >= 1
            BY <1>1, <1>2, <1>3, SMT
        <3> QED
            BY <2>1, <3>1, <3>2, Zenon
    <2>2. CASE flushed' = Zero /\ ~(u >= 0)
        <3>1. flushed'.for = 0 /\ flushed'.back = 0
            BY <2>2 DEF Zero
        <3>2. r + 0 - 0 >= 1
            <4>1. ~(-r >= 0)
                BY <1>4, <2>2, Zenon
            <4> HIDE DEF r
            <4> QED
                BY <1>4, <4>1, SMT
        <3> QED
            BY <3>1, <3>2, Zenon
    <2> QED
        BY <2>1, <2>2 DEF u
<1> QED
    BY <1>5, <1>6, <1>7, <1>8, Zenon DEF ProbeTimed, pf, pb

LEMMA UpdateProbing ==
    ASSUME ClockTypeOK, ClockTypeOK', OnTime, Probing, updated, updated',
           NEW d \in Ticks, NEW b \in Backs \union {0}, b # 0 => ~setback,
           setback' <=> setback \/ b # 0,
           UpdateAt(Plus(current, d - b), ts_flush, d, b)
    PROVE  Probing'
<1> DEFINE t == Plus(current, d - b)
           pf == probed.for
           pb == probed.back
           ff == flushed.for
           fb == flushed.back
           n == IF shut THEN d ELSE 0
<1>1. /\ current \in Int /\ d \in Nat /\ d <= Gap /\ b \in Nat /\ d - b \in Int
      /\ b \in Backs \union {0} /\ n \in Nat /\ n <= d
    BY ProbeTypes, Bounds, ExtraBound, SMT
<1>2. /\ t \in Int /\ current' = t /\ current' = Plus(current, d - b)
    BY <1>1, PlusTrue DEF UpdateAt
<1>3. /\ pf \in Nat /\ pb \in Nat /\ ff \in Nat /\ fb \in Nat
      /\ probed \in Span /\ flushed \in Span
    BY ProbeTypes
<1>4. /\ pb \in Backs \union {0} /\ (~setback => pb = 0) /\ fb <= pb
      /\ (~shut => pf = 0) /\ (probe_wait = 0 => pf <= ff)
    BY DEF Probing
<1>5. pb + b \in Backs \union {0} /\ (~setback' => pb + b = 0)
    <2>1. CASE b = 0
        <3>1. pb + b = pb
            BY <1>3, <2>1, SMT
        <3> QED
            BY <1>4, <2>1, <3>1, Zenon
    <2>2. CASE b # 0
        <3>1. pb = 0
            BY <1>4, <2>2
        <3>2. pb + b = b
            BY <1>1, <3>1, SMT
        <3> QED
            BY <1>1, <2>2, <3>2, Zenon
    <2> QED
        BY <2>1, <2>2
<1>6. shut' = shut
    BY DEF UpdateAt
<1>7. Zero.for = 0 /\ Zero.back = 0 /\ 0 \in Backs \union {0} /\ 0 <= 0
    BY DEF Zero
<1> HIDE DEF t, pf, pb, ff, fb
<1>8. CASE Flushes(t, ts_flush)
    <2>1. /\ flushed' = Zero /\ FlushProbe(t)
          /\ probed' = IF ProbeDue(t) \/ ~shut THEN Zero ELSE Later(probed, d, b)
        BY <1>8 DEF UpdateAt, t
    <2>2. CASE ~shut
        <3>1. probed' = Zero /\ probe_wait' = 0
            BY <2>1, <2>2 DEF FlushProbe
        <3> QED
            BY <1>7, <2>1, <3>1, Zenon DEF Probing
    <2>3. CASE shut /\ ProbeDue(t)
        <3>1. probed' = Zero
            BY <2>1, <2>3
        <3>2. /\ probe_wait # 0 /\ probe_wait' = LongerWait
              /\ ts_probe' = Plus(t, probe_wait')
            BY <2>1, <2>3 DEF FlushProbe, ProbeDue
        <3>3. LongerWait \in Nat /\ LongerWait >= 1 /\ LongerWait <= PROBE_LIMIT
            BY ProbeTypes, Rtos, SMT DEF LongerWait, imin, imax
        <3>4. probed'.for <= INTERVAL + Gap + probed'.back
            <4>1. 0 <= INTERVAL + Gap + 0
                BY Bounds, SMT
            <4> QED
                BY <1>7, <3>1, <4>1, Zenon
        <3>5. ProbeTimed'
            <4>1. /\ probe_wait' \in Nat /\ probe_wait' >= 1
                  /\ probe_wait' <= PROBE_LIMIT
                BY <3>2, <3>3, Zenon
            <4> QED
                BY <1>2, <2>1, <3>2, <3>4, <4>1, ProbeStarted
        <3>6. probe_wait' # 0
            BY <3>2, <3>3, SMT
        <3> QED
            BY <1>6, <1>7, <2>1, <2>3, <3>1, <3>5, <3>6, Zenon DEF Probing
    <2>4. CASE shut /\ ~ProbeDue(t)
        <3>1. /\ probed' = Later(probed, d, b)
              /\ probed'.for = pf + d /\ probed'.back = pb + b
            <4>1. probed' = Later(probed, d, b)
                BY <2>1, <2>4
            <4>2. Later(probed, d, b).for = pf + d /\ Later(probed, d, b).back = pb + b
                BY <1>1, <1>3, LaterSpan, ZenonT(60) DEF pf, pb
            <4> QED
                BY <4>1, <4>2, Zenon
        <3>2. flushed'.back <= probed'.back
            <4>1. 0 <= pb + b
                BY <1>1, <1>3, SMT
            <4> QED
                BY <1>7, <2>1, <3>1, <4>1, Zenon
        <3>3. probe_wait' # 0 /\ ProbeTimed'
            <4>1. CASE probe_wait = 0
                <5>1. /\ probe_wait' = PROBE_INIT /\ ts_probe' = Plus(t, PROBE_INIT)
                    BY <2>1, <2>4, <4>1, Zenon DEF FlushProbe
                <5>2. pf + d <= INTERVAL + Gap + (pb + b)
                    <6>1. ff < INTERVAL + imin(fb, JUMP + Gap)
                        BY OnTimeEnough DEF FlushedInTime, ff, fb
                    <6>2. ff < INTERVAL + fb
                        BY <1>3, <6>1, Bounds, SMT DEF imin
                    <6> QED
                        BY <1>1, <1>3, <1>4, <4>1, <6>2, Bounds, SMT
                <5>3. probed'.for <= INTERVAL + Gap + probed'.back
                    BY <3>1, <5>2, Zenon
                <5>4. /\ PROBE_INIT \in Nat /\ PROBE_INIT >= 1
                      /\ PROBE_INIT <= PROBE_LIMIT
                    BY Rtos, SMT
                <5>5. ProbeTimed'
                    BY <1>2, <2>1, <5>1, <5>3, <5>4, ProbeStarted
                <5> QED
                    BY <5>1, <5>4, <5>5, SMT
            <4>2. CASE probe_wait # 0
                <5>1. probe_wait' = probe_wait /\ ts_probe' = ts_probe
                    BY <2>1, <2>4, <4>2, Zenon DEF FlushProbe
                <5>2. ~(Diff(Plus(current, d - b), ts_probe) >= 0)
                    BY <2>4, <4>2 DEF ProbeDue, t
                <5>3. d \in Nat /\ d <= d
                    BY <1>1, SMT
                <5>4. ProbeTimed'
                    BY <1>2, <2>1, <3>1, <4>2, <5>1, <5>2, <5>3, ProbeRuns DEF pf, pb
                <5> QED
                    BY <4>2, <5>1, <5>4
            <4> QED
                BY <4>1, <4>2
        <3> QED
            BY <1>5, <1>6, <2>4, <3>1, <3>2, <3>3, Zenon DEF Probing
    <2> QED
        BY <2>2, <2>3, <2>4
<1>9. CASE ~Flushes(t, ts_flush)
    <2>1. /\ flushed' = Later(flushed, d, b) /\ probed' = Later(probed, n, b)
          /\ probe_wait' = probe_wait /\ ts_probe' = ts_probe
        BY <1>9 DEF UpdateAt, probeVars, t
    <2>2. /\ probed'.for = pf + n /\ probed'.back = pb + b
          /\ flushed'.for = ff + d /\ flushed'.back = fb + b
        <3>1. Later(probed, n, b).for = pf + n /\ Later(probed, n, b).back = pb + b
            BY <1>1, <1>3, LaterSpan, ZenonT(60) DEF pf, pb
        <3>2. Later(flushed, d, b).for = ff + d /\ Later(flushed, d, b).back = fb + b
            BY <1>1, <1>3, LaterSpan DEF ff, fb
        <3> QED
            BY <2>1, <3>1, <3>2, Zenon
    <2> HIDE DEF n
    <2>3. /\ fb + b <= pb + b
          /\ probe_wait = 0 => pf + n <= ff + d
        BY <1>1, <1>3, <1>4, SMT
    <2>4. ~shut => pf + n = 0
        BY <1>4, SMT DEF n
    <2>5. probe_wait # 0 => ProbeTimed'
        <3> SUFFICES ASSUME probe_wait # 0 PROVE ProbeTimed'
            OBVIOUS
        <3> QED
            BY <1>1, <1>2, <2>1, <2>2, ProbeRuns DEF pf, pb
    <2> QED
        BY <1>5, <1>6, <2>1, <2>2, <2>3, <2>4, <2>5, Zenon DEF Probing
<1> QED
    BY <1>8, <1>9

LEMMA NextProbing ==
    ClockTypeOK /\ ClockTypeOK' /\ OnTime /\ Probing /\ [Next]_vars => Probing'
<1> SUFFICES ASSUME ClockTypeOK, ClockTypeOK', OnTime, Probing, [Next]_vars
             PROVE  Probing'
    OBVIOUS
<1>1. ASSUME NEW t \in Phases, FirstUpdate(t) PROVE Probing'
    <2>1. /\ t \in Int /\ current' = t /\ updated' /\ UpdateAt(t, t, 0, 0)
          /\ shut' = shut /\ setback' = setback
        BY <1>1, ClockAssumption DEF FirstUpdate, UpdateAt
    <2>2. /\ probe_wait = 0 /\ probed.for = 0 /\ probed.back \in Backs \union {0}
          /\ ~setback => probed.back = 0
        BY <1>1 DEF FirstUpdate, Probing
    <2>3. Flushes(t, t)
        <3>1. Anchor(t, t) = t
            BY DEF Anchor
        <3>2. Diff(t, t) = 0
            BY <2>1, DiffItself
        <3> QED
            BY <3>1, <3>2, SMT DEF Flushes
    <2>4. ~ProbeDue(t)
        BY <2>2 DEF ProbeDue
    <2>5. /\ flushed' = Zero /\ FlushProbe(t)
          /\ probed' = IF ~shut THEN Zero ELSE Later(probed, 0, 0)
        BY <2>1, <2>3, <2>4 DEF UpdateAt
    <2>6. Zero.for = 0 /\ Zero.back = 0 /\ 0 \in Backs \union {0} /\ 0 <= 0
        BY DEF Zero
    <2>7. CASE ~shut
        <3>1. probed' = Zero /\ probe_wait' = 0
            BY <2>5, <2>7 DEF FlushProbe
        <3> QED
            BY <2>1, <2>5, <2>6, <3>1, Zenon DEF Probing
    <2>8. CASE shut
        <3>1. probed'.for = 0 /\ probed'.back = probed.back
            <4>1. probed \in Span /\ probed.back \in Nat
                BY ProbeTypes
            <4>2. /\ Later(probed, 0, 0).for = probed.for + 0
                  /\ Later(probed, 0, 0).back = probed.back + 0
                BY <4>1, LaterSpan
            <4>3. probed.for + 0 = 0 /\ probed.back + 0 = probed.back
                BY <2>2, <4>1, SMT
            <4> QED
                BY <2>5, <2>8, <4>2, <4>3, Zenon
        <3>2. probe_wait' = PROBE_INIT /\ ts_probe' = Plus(t, PROBE_INIT)
            BY <2>2, <2>5, <2>8, Zenon DEF FlushProbe
        <3>3. PROBE_INIT \in Nat /\ PROBE_INIT >= 1 /\ PROBE_INIT <= PROBE_LIMIT
            BY Rtos, SMT
        <3>4. 0 <= INTERVAL + Gap + probed.back /\ 0 <= probed.back
            BY ProbeTypes, Bounds, SMT
        <3>5. probed'.for <= INTERVAL + Gap + probed'.back
            BY <3>1, <3>4, Zenon
        <3>6. ProbeTimed'
            BY <2>1, <2>5, <3>2, <3>3, <3>5, ProbeStarted
        <3>7. probe_wait' # 0
            BY <3>2, <3>3, SMT
        <3> QED
            BY <2>1, <2>2, <2>5, <2>6, <2>8, <3>1, <3>4, <3>6, <3>7, Zenon DEF Probing
    <2> QED
        BY <2>7, <2>8
<1>2. ASSUME NEW d \in Ticks, Update(d) PROVE Probing'
    <2>1. d - 0 = d
        BY Bounds
    <2>2. UpdateAt(Plus(current, d - 0), ts_flush, d, 0) /\ 0 \in Backs \union {0}
        BY <1>2, <2>1 DEF Update
    <2>3. updated /\ updated' /\ (setback' <=> setback \/ 0 # 0)
        BY <1>2 DEF Update
    <2> QED
        BY <2>2, <2>3, UpdateProbing
<1>3. ASSUME NEW d \in Ticks, NEW b \in Backs, UpdateSetBack(d, b) PROVE Probing'
    <2>1. UpdateAt(Plus(current, d - b), ts_flush, d, b) /\ b \in Backs \union {0}
        BY <1>3 DEF UpdateSetBack
    <2>2. b # 0
        BY Bounds, SMT
    <2>3. updated /\ updated' /\ ~setback /\ (setback' <=> setback \/ b # 0)
        BY <1>3, <2>2 DEF UpdateSetBack
    <2> QED
        BY <2>1, <2>3, UpdateProbing
<1>4. ASSUME NEW closed, NEW acked, Header(closed, acked) PROVE Probing'
    <2>1. /\ updated' = updated /\ setback' = setback /\ flushed' = flushed
          /\ current' = current /\ probe_wait' = probe_wait /\ ts_probe' = ts_probe
          /\ shut' = closed
        BY <1>4 DEF Header, probeVars
    <2>2. CASE shut /\ closed
        <3>1. probed' = probed /\ shut'
            BY <1>4, <2>1, <2>2 DEF Header
        <3> QED
            BY <2>1, <3>1, Zenon DEF Probing, ProbeTimed, ProbeLeft, ProbeBound
    <2>3. CASE ~(shut /\ closed)
        <3>1. probed'.for = 0 /\ probed'.back = probed.back
            <4>1. probed \in Span
                BY ProbeTypes
            <4>2. probed' = [probed EXCEPT !.for = 0]
                BY <1>4, <2>3 DEF Header
            <4> QED
                BY <4>1, <4>2 DEF Span
        <3>2. probe_wait # 0 => ProbeTimed'
            <4> SUFFICES ASSUME probe_wait # 0 PROVE ProbeTimed'
                OBVIOUS
            <4>1. /\ probed.for + ProbeLeft <= ProbeBound + probed.back
                  /\ ProbeLeft + flushed.for - flushed.back >= 1
                BY DEF Probing, ProbeTimed
            <4>2. ProbeLeft' = ProbeLeft /\ ProbeBound' = ProbeBound
                BY <2>1 DEF ProbeLeft, ProbeBound
            <4>3. 0 + ProbeLeft <= ProbeBound + probed.back
                BY <4>1, ProbeTypes, ProbeFacts, SMT
            <4> QED
                BY <2>1, <3>1, <4>1, <4>2, <4>3, Zenon DEF ProbeTimed
        <3>3. 0 <= flushed.for
            BY ProbeTypes, SMT
        <3> QED
            BY <2>1, <3>1, <3>2, <3>3, Zenon DEF Probing
    <2> QED
        BY <2>2, <2>3
<1>5. CASE UNCHANGED vars
    BY <1>5 DEF vars, Probing, ProbeTimed, ProbeLeft, ProbeBound, histVars, probeVars
<1> QED
    BY <1>1, <1>2, <1>3, <1>4, <1>5 DEF Next, Input, InputAck

LEMMA InitProbing == Init => Probing
BY SMT DEF Init, Probing, Zero

LEMMA ProbingEnough == ClockTypeOK /\ Probing => ProbedInTime
<1> SUFFICES ASSUME ClockTypeOK, Probing
             PROVE  probed.for - flushed.for < PROBE_LIMIT + INTERVAL + Gap + probed.back
    BY DEF ProbedInTime
<1> DEFINE R == ProbeLeft
           pf == probed.for
           pb == probed.back
           ff == flushed.for
           fb == flushed.back
<1>1. /\ pf \in Nat /\ pb \in Nat /\ ff \in Nat /\ fb \in Nat /\ R \in Int
    BY ProbeTypes
<1>2. CASE probe_wait = 0
    <2>1. pf <= ff
        BY <1>2 DEF Probing
    <2> HIDE DEF R, pf, pb, ff, fb
    <2>2. pf - ff < PROBE_LIMIT + INTERVAL + Gap + pb
        BY <1>1, <2>1, Rtos, Bounds, SMT
    <2> QED
        BY <2>2 DEF pf, pb, ff
<1>3. CASE probe_wait # 0
    <2>1. pf + R <= PROBE_LIMIT + INTERVAL + Gap + pb /\ R + ff - fb >= 1
        BY <1>3 DEF Probing, ProbeTimed, ProbeBound
    <2> HIDE DEF R, pf, pb, ff, fb
    <2>2. pf - ff < PROBE_LIMIT + INTERVAL + Gap + pb
        BY <1>1, <2>1, Rtos, Bounds, SMT
    <2> QED
        BY <2>2 DEF pf, pb, ff
<1> QED
    BY <1>2, <1>3

\* While the window is shut no flush passes over a probe that is due, and probes
\* are never further apart than PROBE_LIMIT, but for a set-back
\* (ikcp.c:967-986).
THEOREM ProbeNotMissed == Spec => []ProbedInTime
<1>1. Init => OnTime /\ Probing
    BY InitProbing DEF Init, OnTime, Zero
<1>2. /\ ClockTypeOK /\ ClockTypeOK' /\ OnTime /\ Probing /\ [Next]_vars
      => OnTime' /\ Probing'
    BY NextOnTime, NextProbing
<1>3. ClockTypeOK /\ Probing => ProbedInTime
    BY ProbingEnough
<1> QED
    BY <1>1, <1>2, <1>3, ClockTypes, PTL DEF Spec

===============================================================================
