--------------------------- MODULE KcpBufferProofs ---------------------------
(***************************************************************************)
(* Proofs about KcpLink, for every window, MTU, message length, bound and  *)
(* network, of what stays within bounds: the buffers of both ends, though  *)
(* windows arrive late and out of order; rcv_buf keeps nothing rcv_queue   *)
(* has room for; the congestion window in segments and in bytes agree; no  *)
(* datagram exceeds the MTU.                                               *)
(***************************************************************************)
EXTENDS KcpLinkProofs, FiniteSetTheorems

USE DEF sndVars, congVars, probeVars, rcvVars, histVars

\* A window, known or still on its way, was once the room of a receive queue.
WindowsTrue ==
    /\ \A e \in Ends : rmt_wnd[e] <= WND_RCV
    /\ \A d \in net : d.wnd <= WND_RCV

\* snd_una, snd_nxt and snd_buf of one end
SndBounded(una, nxt, buf) ==
    /\ una <= nxt
    /\ nxt <= una + imin(WND_SND, WND_RCV)
    /\ \A s \in buf : una <= s.sn /\ s.sn < nxt

\* rcv_nxt and rcv_buf of one end
RcvBounded(nxt, buf) ==
    /\ \A s \in buf : nxt <= s.sn /\ s.sn < nxt + WND_RCV
    /\ \A s, t \in buf : s.sn = t.sn => s = t

\* rcv_queue beside them
RcvDrained(nxt, buf, queue) ==
    /\ Len(queue) <= WND_RCV
    /\ (\E s \in buf : s.sn = nxt) => Len(queue) >= WND_RCV

Bounds ==
    \A e \in Ends :
        /\ SndBounded(snd_una[e], snd_nxt[e], snd_buf[e])
        /\ RcvBounded(rcv_nxt[e], rcv_buf[e])
        /\ RcvDrained(rcv_nxt[e], rcv_buf[e], rcv_queue[e])

BufferInv == TypeOK /\ WindowsTrue /\ Bounds

\* The moving loop takes what comes next as long as there is room, so that
\* afterwards there is none left of either.
LEMMA MoveBounds ==
    ASSUME TypeOK, NEW e \in Ends, NEW buf \in SUBSET Seg,
           NEW queue \in Seq(Frag), NEW m \in Nat,
           Len(queue) <= WND_RCV, RcvBounded(rcv_nxt[e], buf),
           MoveAvailable(e, buf, queue, m)
    PROVE  /\ RcvBounded(rcv_nxt'[e], rcv_buf'[e])
           /\ RcvDrained(rcv_nxt'[e], rcv_buf'[e], rcv_queue'[e])
           /\ \A f \in Ends \ {e} :
                 /\ rcv_nxt'[f] = rcv_nxt[f] /\ rcv_queue'[f] = rcv_queue[f]
                 /\ rcv_buf'[f] = rcv_buf[f]
<1> DEFINE nxt == rcv_nxt[e]
           moved == [i \in 1..m |-> SegAt(buf, nxt + i - 1).frag]
<1>1. /\ nxt \in Nat /\ Len(queue) \in Nat /\ WND_RCV \in Nat
      /\ \A s \in buf : s.sn \in Nat
  BY KcpAssumption, LenProperties DEF TypeOK, Seg
<1>2. /\ rcv_queue' = [rcv_queue EXCEPT ![e] = queue \o moved]
      /\ rcv_buf' = [rcv_buf EXCEPT ![e] = {s \in buf : s.sn >= nxt + m}]
      /\ rcv_nxt' = [rcv_nxt EXCEPT ![e] = nxt + m]
      /\ m <= WND_RCV - Len(queue)
      /\ \A i \in 1..m : nxt + i - 1 \in Sns(buf)
      /\ m = WND_RCV - Len(queue) \/ nxt + m \notin Sns(buf)
  BY DEF MoveAvailable, Movable
<1>3. moved \in Seq(Frag) /\ Len(moved) = m
  <2>1. ASSUME NEW i \in 1..m PROVE SegAt(buf, nxt + i - 1).frag \in Frag
    <3>1. SegAt(buf, nxt + i - 1) \in buf
      BY <1>2 DEF Sns, SegAt
    <3> QED BY <3>1 DEF Seg
  <2>2. moved \in Seq(Frag)
    BY <2>1, IsASeq
  <2>3. DOMAIN moved = 1..m
    OBVIOUS
  <2>4. Len(moved) \in Nat /\ DOMAIN moved = 1..Len(moved)
    BY <2>2, LenProperties
  <2> HIDE DEF moved
  <2> QED BY <2>2, <2>3, <2>4, SMT
<1>4. /\ rcv_queue'[e] = queue \o moved
      /\ rcv_buf'[e] = {s \in buf : s.sn >= nxt + m}
      /\ rcv_nxt'[e] = nxt + m
      /\ \A f \in Ends \ {e} :
            /\ rcv_nxt'[f] = rcv_nxt[f] /\ rcv_queue'[f] = rcv_queue[f]
            /\ rcv_buf'[f] = rcv_buf[f]
  BY <1>2 DEF TypeOK
<1> HIDE DEF moved
<1>5. Len(rcv_queue'[e]) = Len(queue) + m
  BY <1>3, <1>4, ConcatProperties
<1>6. RcvBounded(nxt + m, rcv_buf'[e])
  <2>1. ASSUME NEW s \in rcv_buf'[e]
        PROVE  nxt + m <= s.sn /\ s.sn < nxt + m + WND_RCV
    <3>1. s \in buf /\ s.sn >= nxt + m
      BY <1>4
    <3>2. s.sn < nxt + WND_RCV /\ s.sn \in Nat
      BY <1>1, <3>1 DEF RcvBounded
    <3> HIDE DEF nxt
    <3> QED BY <1>1, <3>1, <3>2, SMT
  <2>2. rcv_buf'[e] \subseteq buf
    BY <1>4
  <2> QED BY <2>1, <2>2 DEF RcvBounded
<1>7. RcvDrained(nxt + m, rcv_buf'[e], rcv_queue'[e])
  <2>1. (\E s \in rcv_buf'[e] : s.sn = nxt + m) => m = WND_RCV - Len(queue)
    BY <1>2, <1>4 DEF Sns
  <2>2. m <= WND_RCV - Len(queue)
    BY <1>2
  <2>3. Len(queue) + m <= WND_RCV
    BY <1>1, <2>2, SMT
  <2>4. m = WND_RCV - Len(queue) => Len(queue) + m >= WND_RCV
    BY <1>1, SMT
  <2> QED BY <1>5, <2>1, <2>3, <2>4 DEF RcvDrained
<1> QED BY <1>4, <1>6, <1>7

\* ikcp_recv shortens the queue before it fills it up again.
LEMMA RecvBounds ==
    ASSUME BufferInv, NEW e \in Ends, Recv(e)
    PROVE  Bounds'
<1> DEFINE q == rcv_queue[e]
<1>1. PICK k \in 1..Len(q), m \in 0..WND_RCV :
        MoveAvailable(e, rcv_buf[e], SubSeq(q, k + 1, Len(q)), m)
  BY DEF Recv
<1> DEFINE rest == SubSeq(q, k + 1, Len(q))
<1>2. /\ TypeOK /\ q \in Seq(Frag) /\ Len(q) \in Nat /\ k \in Nat /\ m \in Nat
      /\ rcv_buf[e] \in SUBSET Seg /\ WND_RCV \in Nat
  <2>1. TypeOK /\ WND_RCV \in Nat
    BY KcpAssumption DEF BufferInv
  <2>2. q \in Seq(Frag) /\ rcv_buf[e] \in SUBSET Seg
    BY <2>1 DEF TypeOK
  <2> HIDE DEF q, rest
  <2>3. Len(q) \in Nat
    BY <2>2, LenProperties
  <2>4. k \in Nat /\ m \in Nat
    BY <2>1, <2>3
  <2> QED BY <2>1, <2>2, <2>3, <2>4
<1>3. rest \in Seq(Frag) /\ Len(rest) <= Len(q)
  <2> HIDE DEF q
  <2>1. \A i \in (k + 1)..Len(q) : i \in 1..Len(q)
    BY <1>2, SMT
  <2>2. \A i \in (k + 1)..Len(q) : q[i] \in Frag
    BY <1>2, <2>1, ElementOfSeq
  <2>3. /\ rest \in Seq(Frag)
        /\ Len(rest) = IF k + 1 <= Len(q) THEN Len(q) - (k + 1) + 1 ELSE 0
    BY <1>2, <2>2, SubSeqProperties, k + 1 \in Int, Len(q) \in Int
  <2> HIDE DEF rest
  <2> QED BY <1>2, <2>3, SMT
<1>4. Len(q) <= WND_RCV /\ RcvBounded(rcv_nxt[e], rcv_buf[e])
  BY DEF BufferInv, Bounds, RcvDrained
<1>5. MoveAvailable(e, rcv_buf[e], rest, m)
  BY <1>1
<1> HIDE DEF rest
<1>6. Len(rest) <= WND_RCV
  <2> HIDE DEF q
  <2>1. Len(rest) \in Nat
    BY <1>3, LenProperties
  <2> QED BY <1>2, <1>3, <1>4, <2>1, SMT
<1>7. /\ RcvBounded(rcv_nxt'[e], rcv_buf'[e])
      /\ RcvDrained(rcv_nxt'[e], rcv_buf'[e], rcv_queue'[e])
      /\ \A f \in Ends \ {e} :
            /\ rcv_nxt'[f] = rcv_nxt[f] /\ rcv_queue'[f] = rcv_queue[f]
            /\ rcv_buf'[f] = rcv_buf[f]
  BY <1>2, <1>3, <1>4, <1>5, <1>6, MoveBounds
<1>8. UNCHANGED <<snd_una, snd_nxt, snd_buf>>
  BY DEF Recv
<1>9. ASSUME NEW f \in Ends
      PROVE  /\ SndBounded(snd_una'[f], snd_nxt'[f], snd_buf'[f])
             /\ RcvBounded(rcv_nxt'[f], rcv_buf'[f])
             /\ RcvDrained(rcv_nxt'[f], rcv_buf'[f], rcv_queue'[f])
  BY <1>7, <1>8 DEF BufferInv, Bounds
<1> QED BY <1>9, Zenon DEF Bounds

LEMMA InputPushBounds ==
    ASSUME BufferInv, NEW e \in Ends, InputPush(e)
    PROVE  Bounds'
<1>1. PICK s \in rx[e] :
        /\ rx' = [rx EXCEPT ![e] = @ \ {s}]
        /\ acklist' = IF Accepts(e, s)
                      THEN [acklist EXCEPT ![e] = Append(@, s.sn)]
                      ELSE acklist
        /\ \/ /\ Keeps(e, s)
              /\ LET buf == IF s.sn \in Sns(rcv_buf[e]) THEN rcv_buf[e]
                            ELSE rcv_buf[e] \union {s}
                 IN  \E m \in 0..WND_RCV :
                        MoveAvailable(e, buf, rcv_queue[e], m)
           \/ /\ ~Keeps(e, s)
              /\ UNCHANGED rcvVars
  BY Zenon DEF InputPush
<1>2. /\ TypeOK /\ s \in Seg /\ s.sn \in Nat /\ rcv_queue[e] \in Seq(Frag)
      /\ rcv_buf[e] \in SUBSET Seg /\ rcv_nxt[e] \in Nat /\ WND_RCV \in Nat
  <2>1. TypeOK
    BY DEF BufferInv
  <2>2. s \in Seg
    BY <2>1 DEF TypeOK
  <2>3. s.sn \in Nat
    BY <2>2 DEF Seg
  <2> QED BY <2>1, <2>2, <2>3, KcpAssumption DEF TypeOK
<1>3. UNCHANGED <<snd_una, snd_nxt, snd_buf>>
  BY DEF InputPush
<1>4. CASE ~Keeps(e, s)
  <2>1. UNCHANGED <<rcv_nxt, rcv_buf, rcv_queue>>
    BY <1>1, <1>4
  <2> QED BY <1>3, <2>1 DEF BufferInv, Bounds
<1>5. CASE Keeps(e, s)
  <2> DEFINE buf == IF s.sn \in Sns(rcv_buf[e]) THEN rcv_buf[e]
                    ELSE rcv_buf[e] \union {s}
  <2>1. PICK m \in 0..WND_RCV : MoveAvailable(e, buf, rcv_queue[e], m)
    BY <1>1, <1>5
  <2>2. /\ RcvBounded(rcv_nxt[e], rcv_buf[e])
        /\ Len(rcv_queue[e]) <= WND_RCV
    BY DEF BufferInv, Bounds, RcvDrained
  <2>3. RcvBounded(rcv_nxt[e], buf)
    <3>1. CASE s.sn \in Sns(rcv_buf[e])
      BY <2>2, <3>1
    <3>2. CASE s.sn \notin Sns(rcv_buf[e])
      <4>1. rcv_nxt[e] <= s.sn /\ s.sn < rcv_nxt[e] + WND_RCV
        BY <1>2, <1>5, SMT DEF Keeps
      <4>2. \A t \in rcv_buf[e] : t.sn # s.sn
        BY <3>2 DEF Sns
      <4>3. buf = rcv_buf[e] \union {s}
        BY <3>2
      <4> HIDE DEF buf
      <4> QED BY <2>2, <4>1, <4>2, <4>3 DEF RcvBounded
    <3> QED BY <3>1, <3>2
  <2>4. buf \in SUBSET Seg /\ m \in Nat
    BY <1>2
  <2> HIDE DEF buf
  <2>5. /\ RcvBounded(rcv_nxt'[e], rcv_buf'[e])
        /\ RcvDrained(rcv_nxt'[e], rcv_buf'[e], rcv_queue'[e])
        /\ \A f \in Ends \ {e} :
              /\ rcv_nxt'[f] = rcv_nxt[f] /\ rcv_queue'[f] = rcv_queue[f]
              /\ rcv_buf'[f] = rcv_buf[f]
    BY <1>2, <2>1, <2>2, <2>3, <2>4, MoveBounds
  <2>6. ASSUME NEW f \in Ends
        PROVE  /\ SndBounded(snd_una'[f], snd_nxt'[f], snd_buf'[f])
               /\ RcvBounded(rcv_nxt'[f], rcv_buf'[f])
               /\ RcvDrained(rcv_nxt'[f], rcv_buf'[f], rcv_queue'[f])
    BY <1>3, <2>5 DEF BufferInv, Bounds
  <2> QED BY <2>6, Zenon DEF Bounds
<1> QED BY <1>4, <1>5

\* A flush numbers no more than the smaller of the two windows lets it.
LEMMA FlushBounds ==
    ASSUME BufferInv, NEW e \in Ends, NEW overdue \in SUBSET snd_buf[e],
           NEW due \in BOOLEAN, Flush(e, overdue, due)
    PROVE  Bounds'
<1> DEFINE win == imin(cwnd[e], imin(WND_SND, rmt_wnd[e]))
           n == Moved(e, win)
           fresh == Numbered(e, n)
           una == snd_una[e]
           nxt == snd_nxt[e]
<1>1. /\ TypeOK /\ cwnd[e] \in Nat /\ rmt_wnd[e] \in Nat /\ una \in Nat
      /\ nxt \in Nat /\ Len(snd_queue[e]) \in Nat
      /\ WND_SND \in Nat /\ WND_RCV \in Nat
      /\ \A s \in snd_buf[e] : s.sn \in Nat
  <2>1. TypeOK /\ WND_SND \in Nat /\ WND_RCV \in Nat
    BY KcpAssumption DEF BufferInv
  <2>2. /\ cwnd[e] \in Nat /\ rmt_wnd[e] \in Nat /\ una \in Nat /\ nxt \in Nat
        /\ snd_queue[e] \in Seq(Frag) /\ snd_buf[e] \in SUBSET Seg
    BY <2>1 DEF TypeOK
  <2>3. Len(snd_queue[e]) \in Nat
    BY <2>2, LenProperties
  <2>4. \A s \in snd_buf[e] : s.sn \in Nat
    BY <2>2 DEF Seg
  <2> QED BY <2>1, <2>2, <2>3, <2>4
<1>2. /\ snd_buf' = [snd_buf EXCEPT ![e] = @ \union fresh]
      /\ snd_nxt' = [snd_nxt EXCEPT ![e] = @ + n]
      /\ UNCHANGED <<snd_una, rcv_nxt, rcv_buf, rcv_queue>>
  BY DEF Flush
<1>3. rmt_wnd[e] <= WND_RCV /\ SndBounded(una, nxt, snd_buf[e])
  BY DEF BufferInv, WindowsTrue, Bounds
<1>4. win \in Nat /\ win <= imin(WND_SND, WND_RCV)
  BY <1>1, <1>3, SMT DEF imin
<1>5. n \in 0..Len(snd_queue[e])
  BY <1>1, <1>4, MovedType
<1>6. n = 0 \/ nxt + n <= una + win
  BY <1>1, <1>4, SMT DEF Moved, imin
<1>7. \A s \in fresh : \E i \in 1..n : s.sn = nxt + i - 1
  BY DEF Numbered
<1> HIDE DEF win, n, una, nxt, fresh
<1>8. SndBounded(una, nxt + n, snd_buf[e] \union fresh)
  <2>1. una <= nxt + n /\ nxt + n <= una + imin(WND_SND, WND_RCV)
    BY <1>1, <1>3, <1>4, <1>5, <1>6, SMT DEF SndBounded, imin
  <2>2. ASSUME NEW s \in snd_buf[e] PROVE una <= s.sn /\ s.sn < nxt + n
    BY <1>1, <1>3, <1>5, SMT DEF SndBounded
  <2>3. ASSUME NEW s \in fresh PROVE una <= s.sn /\ s.sn < nxt + n
    <3>1. PICK i \in 1..n : s.sn = nxt + i - 1
      BY <1>7
    <3>2. una <= nxt
      BY <1>3 DEF SndBounded
    <3> QED BY <1>1, <1>5, <3>1, <3>2, SMT
  <2> QED BY <2>1, <2>2, <2>3 DEF SndBounded
<1>9. ASSUME NEW f \in Ends
      PROVE  /\ SndBounded(snd_una'[f], snd_nxt'[f], snd_buf'[f])
             /\ RcvBounded(rcv_nxt'[f], rcv_buf'[f])
             /\ RcvDrained(rcv_nxt'[f], rcv_buf'[f], rcv_queue'[f])
  <2>1. /\ snd_una'[f] = snd_una[f] /\ rcv_nxt'[f] = rcv_nxt[f]
        /\ rcv_buf'[f] = rcv_buf[f] /\ rcv_queue'[f] = rcv_queue[f]
    BY <1>2
  <2>2. CASE f = e
    <3>1. snd_buf'[f] = snd_buf[e] \union fresh /\ snd_nxt'[f] = nxt + n
          /\ snd_una'[f] = una
      BY <1>1, <1>2, <2>2 DEF TypeOK, una, nxt
    <3> QED BY <1>8, <2>1, <3>1 DEF BufferInv, Bounds
  <2>3. CASE f # e
    <3>1. snd_buf'[f] = snd_buf[f] /\ snd_nxt'[f] = snd_nxt[f]
      BY <1>1, <1>2, <2>3 DEF TypeOK
    <3> QED BY <2>1, <3>1 DEF BufferInv, Bounds
  <2> QED BY <2>2, <2>3
<1> QED BY <1>9, Zenon DEF Bounds

\* The windows a flush writes are those of its receive queue.
LEMMA FlushWindows ==
    ASSUME BufferInv, NEW e \in Ends, NEW overdue \in SUBSET snd_buf[e],
           NEW due \in BOOLEAN, Flush(e, overdue, due)
    PROVE  WindowsTrue'
<1>1. PICK push, last : net' = net \union
        Packed(e, acklist[e], Asked(e, due), snd_una[e], push, last)
  BY DEF Flush
<1>2. ASSUME NEW d \in Packed(e, acklist[e], Asked(e, due), snd_una[e],
                              push, last)
      PROVE  d.wnd = WndUnused(e)
  <2> DEFINE fill == Filled(acklist[e], Asked(e, due), snd_una[e], push, last)
             Here(k, j) == fill[j].dg = k
             n == Len(acklist[e])
  <2>1. PICK k : d =
          [to |-> Peer(e), wnd |-> WndUnused(e), una |-> rcv_nxt[e],
           acks |-> {acklist[e][i] : i \in {i \in 1..n : Here(k, i)}},
           wask |-> "send" \in Asked(e, due) /\ Here(k, n + 1),
           wins |-> "tell" \in Asked(e, due) /\ Here(k, n + 2),
           push |-> {s \in push : Here(k, n + 3 + s.sn - snd_una[e])}]
    BY <1>2, Zenon DEF Packed
  <2> QED BY <2>1
<1>3. WndUnused(e) <= WND_RCV
  <2>1. Len(rcv_queue[e]) \in Nat /\ WND_RCV \in Nat
    BY KcpAssumption, LenProperties DEF BufferInv, TypeOK
  <2> QED BY <2>1, SMT DEF WndUnused
<1>4. rmt_wnd' = rmt_wnd
  BY DEF Flush
<1> QED BY <1>1, <1>2, <1>3, <1>4 DEF BufferInv, WindowsTrue

\* snd_una moves to the lowest segment left, never back.
LEMMA InputBounds ==
    ASSUME BufferInv, NEW e \in Ends, NEW d \in net, NEW padded \in BOOLEAN,
           Input(e, d, padded), net' \subseteq net
    PROVE  Bounds' /\ WindowsTrue'
<1> DEFINE left == Unacked(e, d)
<1>1. PICK una \in Sns(left) \union {snd_nxt[e]} :
        /\ IsLowest(una, left, snd_nxt[e])
        /\ snd_una' = [snd_una EXCEPT ![e] = una]
  BY DEF Input
<1>2. /\ snd_buf' = [snd_buf EXCEPT ![e] = left]
      /\ rmt_wnd' = [rmt_wnd EXCEPT ![e] = d.wnd]
      /\ UNCHANGED <<snd_nxt, rcv_nxt, rcv_buf, rcv_queue>>
  BY DEF Input
<1>3. /\ TypeOK /\ snd_una[e] \in Nat /\ snd_nxt[e] \in Nat
      /\ WND_SND \in Nat /\ WND_RCV \in Nat
      /\ left \subseteq snd_buf[e] /\ \A s \in left : s.sn \in Nat
  <2>1. TypeOK /\ WND_SND \in Nat /\ WND_RCV \in Nat
    BY KcpAssumption DEF BufferInv
  <2>2. snd_una[e] \in Nat /\ snd_nxt[e] \in Nat /\ snd_buf[e] \in SUBSET Seg
    BY <2>1 DEF TypeOK
  <2>3. left \subseteq snd_buf[e]
    BY DEF Unacked
  <2>4. \A s \in left : s.sn \in Nat
    BY <2>2, <2>3 DEF Seg
  <2> QED BY <2>1, <2>2, <2>3, <2>4
<1>4. SndBounded(snd_una[e], snd_nxt[e], snd_buf[e])
  BY DEF BufferInv, Bounds
<1> HIDE DEF left
<1>5. una \in Nat
  BY <1>1, <1>3 DEF Sns
<1>6. snd_una[e] <= una /\ una <= snd_nxt[e]
  <2>1. CASE una = snd_nxt[e]
    BY <1>3, <1>4, <2>1, SMT DEF SndBounded
  <2>2. CASE una \in Sns(left)
    <3>1. PICK s \in left : una = s.sn
      BY <2>2 DEF Sns
    <3>2. snd_una[e] <= s.sn /\ s.sn < snd_nxt[e]
      BY <1>3, <1>4 DEF SndBounded
    <3> QED BY <1>3, <1>5, <3>1, <3>2, SMT
  <2> QED BY <1>1, <2>1, <2>2
<1>7. SndBounded(una, snd_nxt[e], left)
  <2>1. snd_nxt[e] <= una + imin(WND_SND, WND_RCV)
    BY <1>3, <1>4, <1>5, <1>6, SMT DEF SndBounded, imin
  <2>2. \A s \in left : una <= s.sn
    BY <1>1 DEF IsLowest
  <2>3. \A s \in left : s.sn < snd_nxt[e]
    BY <1>3, <1>4 DEF SndBounded
  <2> QED BY <1>6, <2>1, <2>2, <2>3 DEF SndBounded
<1>8. ASSUME NEW f \in Ends
      PROVE  /\ SndBounded(snd_una'[f], snd_nxt'[f], snd_buf'[f])
             /\ RcvBounded(rcv_nxt'[f], rcv_buf'[f])
             /\ RcvDrained(rcv_nxt'[f], rcv_buf'[f], rcv_queue'[f])
  <2>1. /\ snd_nxt'[f] = snd_nxt[f] /\ rcv_nxt'[f] = rcv_nxt[f]
        /\ rcv_buf'[f] = rcv_buf[f] /\ rcv_queue'[f] = rcv_queue[f]
    BY <1>2
  <2>2. CASE f = e
    <3>1. snd_buf'[f] = left /\ snd_una'[f] = una
      BY <1>1, <1>2, <1>3, <2>2 DEF TypeOK
    <3> QED BY <1>7, <2>1, <2>2, <3>1 DEF BufferInv, Bounds
  <2>3. CASE f # e
    <3>1. snd_buf'[f] = snd_buf[f] /\ snd_una'[f] = snd_una[f]
      BY <1>1, <1>2, <1>3, <2>3 DEF TypeOK
    <3> QED BY <2>1, <3>1 DEF BufferInv, Bounds
  <2> QED BY <2>2, <2>3
<1>9. Bounds'
  BY <1>8, Zenon DEF Bounds
<1>10. WindowsTrue'
  BY <1>2, <1>3 DEF BufferInv, WindowsTrue, TypeOK
<1> QED BY <1>9, <1>10

LEMMA InitBuffers == Init => BufferInv
<1> SUFFICES ASSUME Init PROVE WindowsTrue /\ Bounds
  BY InitType DEF BufferInv
<1>1. WindowsTrue
  BY KcpAssumption, SMT DEF Init, WindowsTrue
<1>2. ASSUME NEW e \in Ends
      PROVE  /\ SndBounded(snd_una[e], snd_nxt[e], snd_buf[e])
             /\ RcvBounded(rcv_nxt[e], rcv_buf[e])
             /\ RcvDrained(rcv_nxt[e], rcv_buf[e], rcv_queue[e])
  <2>1. Len(<<>>) = 0 /\ rcv_queue[e] = <<>>
    BY EmptySeq DEF Init
  <2>2. /\ snd_una[e] = 0 /\ snd_nxt[e] = 0 /\ snd_buf[e] = {}
        /\ rcv_buf[e] = {}
    BY DEF Init
  <2>3. 0 <= 0 + imin(WND_SND, WND_RCV) /\ 0 <= WND_RCV
    BY KcpAssumption, SMT DEF imin
  <2> QED BY <2>1, <2>2, <2>3 DEF SndBounded, RcvBounded, RcvDrained
<1> QED BY <1>1, <1>2 DEF Bounds

LEMMA StepBuffers == BufferInv /\ [Next]_vars => BufferInv'
<1> SUFFICES ASSUME BufferInv, [Next]_vars PROVE Bounds' /\ WindowsTrue'
  BY StepType DEF BufferInv
<1>1. ASSUME NEW e \in Ends, NEW len \in MsgLens, Send(e, len)
      PROVE  Bounds' /\ WindowsTrue'
  BY <1>1 DEF Send, BufferInv, Bounds, WindowsTrue
<1>2. ASSUME NEW e \in Ends, Recv(e) PROVE Bounds' /\ WindowsTrue'
  <2>1. rmt_wnd' = rmt_wnd /\ net' = net
    BY <1>2 DEF Recv
  <2> QED BY <1>2, <2>1, RecvBounds DEF BufferInv, WindowsTrue
<1>3. ASSUME NEW e \in Ends, NEW overdue \in SUBSET snd_buf[e],
             NEW due \in BOOLEAN, Flush(e, overdue, due)
      PROVE  Bounds' /\ WindowsTrue'
  BY <1>3, FlushBounds, FlushWindows
<1>4. ASSUME NEW e \in Ends, NEW d \in net, NEW padded \in BOOLEAN,
             Deliver(e, d, padded) \/ Duplicate(e, d, padded)
      PROVE  Bounds' /\ WindowsTrue'
  <2>1. Input(e, d, padded) /\ net' \subseteq net
    BY <1>4 DEF Deliver, Duplicate
  <2> QED BY <2>1, InputBounds
<1>5. ASSUME NEW e \in Ends, InputPush(e) PROVE Bounds' /\ WindowsTrue'
  <2>1. rmt_wnd' = rmt_wnd /\ net' = net
    BY <1>5 DEF InputPush
  <2> QED BY <1>5, <2>1, InputPushBounds DEF BufferInv, WindowsTrue
<1>6. CASE (\E d \in net : Lose(d)) \/ UNCHANGED vars
  <2>1. /\ UNCHANGED <<snd_una, snd_nxt, snd_buf, rcv_nxt, rcv_buf, rcv_queue,
                       rmt_wnd>>
        /\ net' \subseteq net
    BY <1>6 DEF Lose, vars
  <2> QED BY <2>1 DEF BufferInv, Bounds, WindowsTrue
<1> QED BY <1>1, <1>2, <1>3, <1>4, <1>5, <1>6 DEF Next, Step, Again

LEMMA BuffersInvariant == Spec => []BufferInv
BY InitBuffers, StepBuffers, PTL DEF Spec

\* Neither buffer outgrows its window, however stale the window is that the
\* sender acts on (ikcp.c:689-693, 788, 1012-1019).
THEOREM MemoryBounded == Spec => []BuffersBounded
<1>1. BufferInv => BuffersBounded
  <2> SUFFICES ASSUME BufferInv, NEW e \in Ends
               PROVE  /\ snd_una[e] <= snd_nxt[e]
                      /\ snd_nxt[e] <= snd_una[e] + imin(WND_SND, WND_RCV)
                      /\ Sns(snd_buf[e]) \subseteq snd_una[e]..(snd_nxt[e] - 1)
                      /\ Len(rcv_queue[e]) <= WND_RCV
                      /\ Sns(rcv_buf[e]) \subseteq
                            rcv_nxt[e]..(rcv_nxt[e] + WND_RCV - 1)
                      /\ \A s, t \in rcv_buf[e] : s.sn = t.sn => s = t
    BY DEF BuffersBounded
  <2>1. /\ SndBounded(snd_una[e], snd_nxt[e], snd_buf[e])
        /\ RcvBounded(rcv_nxt[e], rcv_buf[e]) /\ Len(rcv_queue[e]) <= WND_RCV
    BY DEF BufferInv, Bounds, RcvDrained
  <2>2. /\ snd_una[e] \in Nat /\ snd_nxt[e] \in Nat /\ rcv_nxt[e] \in Nat
        /\ WND_RCV \in Nat
        /\ \A s \in snd_buf[e] : s.sn \in Nat
        /\ \A s \in rcv_buf[e] : s.sn \in Nat
    BY KcpAssumption DEF BufferInv, TypeOK, Seg
  <2>3. ASSUME NEW s \in snd_buf[e]
        PROVE  s.sn \in snd_una[e]..(snd_nxt[e] - 1)
    BY <2>1, <2>2, SMT DEF SndBounded
  <2>4. ASSUME NEW s \in rcv_buf[e]
        PROVE  s.sn \in rcv_nxt[e]..(rcv_nxt[e] + WND_RCV - 1)
    BY <2>1, <2>2, SMT DEF RcvBounded
  <2>5. /\ Sns(snd_buf[e]) \subseteq snd_una[e]..(snd_nxt[e] - 1)
        /\ Sns(rcv_buf[e]) \subseteq rcv_nxt[e]..(rcv_nxt[e] + WND_RCV - 1)
    BY <2>3, <2>4 DEF Sns
  <2> QED BY <2>1, <2>5 DEF SndBounded, RcvBounded
<1> QED BY <1>1, BuffersInvariant, PTL

\* Whatever comes next in the stream is in rcv_queue as long as that has room,
\* for any window and network (ikcp.c:413-425, 720-732).
THEOREM NothingHeld == Spec => []NothingDeliverableHeld
<1>1. BufferInv => NothingDeliverableHeld
  BY DEF BufferInv, Bounds, RcvDrained, NothingDeliverableHeld, Sns
<1> QED BY <1>1, BuffersInvariant, PTL

-----------------------------------------------------------------------------
(***************************************************************************)
(* The congestion window: cwnd counts segments, incr bytes.                *)
(***************************************************************************)
\* seg whole segments are in byt bytes, by multiplication alone
Whole(seg, byt) == seg * MSS <= byt /\ byt < (seg + 1) * MSS

CwndInv ==
    /\ TypeOK
    /\ \A e \in Ends : ssthresh[e] >= 2 /\ Whole(cwnd[e], incr[e])

LEMMA WholeMultiple ==
    ASSUME NEW seg \in Nat
    PROVE  Whole(seg, seg * MSS) /\ Whole(1, MSS)
<1>1. \A m \in Nat \ {0} : seg * m <= seg * m /\ seg * m < (seg + 1) * m
  BY SMT
<1>2. \A m \in Nat \ {0} : 1 * m <= m /\ m < (1 + 1) * m
  BY SMT
<1> QED BY <1>1, <1>2, MssType DEF Whole

\* One datagram that moves snd_una lets cwnd grow by no more than incr: above
\* the threshold, at least 2, a step of incr is less than a segment.
LEMMA GrownWhole ==
    ASSUME NEW cw \in Nat, NEW ss \in Nat, NEW inc \in Nat, NEW wnd \in Nat,
           ss >= 2, Whole(cw, inc)
    PROVE  Whole(Grown(cw, ss, inc, wnd).cwnd, Grown(cw, ss, inc, wnd).incr)
<1> DEFINE base == IF inc < MSS THEN MSS ELSE inc
           more == base + (MSS * MSS) \div base + MSS \div 16
           next == IF cw < ss THEN [cwnd |-> cw + 1, incr |-> inc + MSS]
                   ELSE [cwnd |-> IF (cw + 1) * MSS <= more THEN cw + 1 ELSE cw,
                         incr |-> more]
<1>1. Grown(cw, ss, inc, wnd) =
        IF cw >= wnd THEN [cwnd |-> cw, incr |-> inc]
        ELSE IF next.cwnd > wnd THEN [cwnd |-> wnd, incr |-> wnd * MSS]
        ELSE next
  BY Zenon DEF Grown, next, more, base
<1>2. CASE cw < ss
  <2>1. next = [cwnd |-> cw + 1, incr |-> inc + MSS]
    BY <1>2
  <2>2. (cw + 1) * MSS = cw * MSS + MSS /\ (cw + 1 + 1) * MSS = (cw + 1) * MSS + MSS
    BY MssType, SMT
  <2>3. /\ cw * MSS \in Int /\ (cw + 1) * MSS \in Int /\ MSS \in Int
        /\ (cw + 1 + 1) * MSS \in Int
    BY MssType, SMT
  <2>4. Whole(cw + 1, inc + MSS)
    BY <2>2, <2>3, SMT DEF Whole
  <2> HIDE DEF next
  <2> QED BY <1>1, <2>1, <2>4, WholeMultiple
<1>3. CASE ~(cw < ss)
  <2> DEFINE q == (MSS * MSS) \div base
             r == MSS \div 16
  <2>1. cw >= 2 /\ MSS \in Nat \ {0}
    BY <1>3, MssType
  <2>2. 2 * MSS <= cw * MSS /\ cw * MSS \in Nat /\ MSS * MSS \in Nat
    BY <2>1, SMT
  <2>3. base = inc /\ 2 * MSS <= inc /\ inc \in Nat \ {0}
    BY <2>1, <2>2, SMT DEF Whole
  <2>4. q \in Nat /\ inc * q <= MSS * MSS
    <3>1. (MSS * MSS) \div inc \in Nat /\ inc * ((MSS * MSS) \div inc) <= MSS * MSS
      BY <2>2, <2>3, Quotient
    <3> QED BY <2>3, <3>1
  <2> HIDE DEF q, base
  <2>5. 2 * q <= MSS
    <3>1. \A m \in Nat \ {0}, i, k \in Nat :
             2 * m <= i /\ i * k <= m * m => 2 * k <= m
      <4> SUFFICES ASSUME NEW m \in Nat \ {0}, NEW i \in Nat, NEW k \in Nat,
                          2 * m <= i, i * k <= m * m, 2 * k > m
                   PROVE  FALSE
        BY SMT
      <4>1. (2 * m) * k <= i * k
        BY SMT
      <4>2. m * (2 * k) > m * m
        BY SMT
      <4>3. (2 * m) * k = m * (2 * k)
        BY SMT
      <4> QED BY <4>1, <4>2, <4>3, SMT
    <3> QED BY <2>1, <2>3, <2>4, <3>1
  <2>6. r \in Nat /\ 16 * r <= MSS
    BY <2>1, SMT
  <2> HIDE DEF r
  <2>7. more = inc + q + r
    BY <2>3 DEF q, r
  <2>8. more \in Nat /\ inc <= more /\ more < inc + MSS
    BY <2>1, <2>3, <2>4, <2>5, <2>6, <2>7, SMT
  <2> HIDE DEF more
  <2>9. next = [cwnd |-> IF (cw + 1) * MSS <= more THEN cw + 1 ELSE cw,
                incr |-> more]
    BY <1>3
  <2>10. /\ (cw + 1) * MSS = cw * MSS + MSS
         /\ (cw + 1 + 1) * MSS = (cw + 1) * MSS + MSS
         /\ (cw + 1) * MSS \in Int /\ (cw + 1 + 1) * MSS \in Int
    BY <2>1, SMT
  <2>11. CASE (cw + 1) * MSS <= more
    <3>1. Whole(cw + 1, more)
      BY <2>1, <2>2, <2>8, <2>10, <2>11, SMT DEF Whole
    <3> HIDE DEF next
    <3> QED BY <1>1, <2>9, <2>11, <3>1, WholeMultiple
  <2>12. CASE ~((cw + 1) * MSS <= more)
    <3>1. Whole(cw, more)
      BY <2>1, <2>2, <2>8, <2>10, <2>12, SMT DEF Whole
    <3> HIDE DEF next
    <3> QED BY <1>1, <2>9, <2>12, <3>1, WholeMultiple
  <2> QED BY <2>11, <2>12
<1> QED BY <1>2, <1>3

LEMMA StepCwnd == CwndInv /\ [Next]_vars => CwndInv'
<1> SUFFICES ASSUME CwndInv, [Next]_vars,
                    NEW f \in Ends
             PROVE  ssthresh'[f] >= 2 /\ Whole(cwnd'[f], incr'[f])
  BY StepType DEF CwndInv
<1> DEFINE Same == UNCHANGED <<cwnd, ssthresh, incr>>
<1>1. CASE Same
  BY <1>1 DEF CwndInv
<1>2. ASSUME NEW e \in Ends, NEW overdue \in SUBSET snd_buf[e],
             NEW due \in BOOLEAN, Flush(e, overdue, due)
      PROVE  ssthresh'[f] >= 2 /\ Whole(cwnd'[f], incr'[f])
  <2> DEFINE half == imin(cwnd[e], imin(WND_SND, rmt_wnd[e])) \div 2
             cut == IF overdue # {} THEN 1 ELSE cwnd[e]
  <2>1. /\ ssthresh' = [ssthresh EXCEPT ![e] =
              IF overdue = {} THEN @
              ELSE IF half < THRESH_MIN THEN THRESH_MIN ELSE half]
        /\ cwnd' = [cwnd EXCEPT ![e] = IF cut < 1 THEN 1 ELSE cut]
        /\ incr' = [incr EXCEPT ![e] =
              IF overdue # {} \/ cut < 1 THEN MSS ELSE @]
    BY <1>2 DEF Flush
  <2>2. half \in Nat /\ MSS \in Nat
    <3>1. imin(cwnd[e], imin(WND_SND, rmt_wnd[e])) \in Nat
      BY KcpAssumption, SMT DEF CwndInv, TypeOK, imin
    <3> HIDE DEF half
    <3>2. \A w \in Nat : w \div 2 \in Nat
      BY SMT
    <3> QED BY <3>1, <3>2, MssType DEF half
  <2> HIDE DEF half
  <2>3. CASE e = f /\ overdue # {}
    BY <2>1, <2>2, <2>3, WholeMultiple, SMT DEF CwndInv, TypeOK, THRESH_MIN
  <2>4. CASE e = f /\ overdue = {}
    <3>1. ssthresh'[f] = ssthresh[f] /\ cwnd[e] \in Nat
      BY <2>1, <2>4 DEF CwndInv, TypeOK
    <3>2. CASE cwnd[e] < 1
      BY <2>1, <2>4, <3>1, <3>2, WholeMultiple DEF CwndInv, TypeOK
    <3>3. CASE ~(cwnd[e] < 1)
      BY <2>1, <2>4, <3>1, <3>3 DEF CwndInv, TypeOK
    <3> QED BY <3>2, <3>3
  <2>5. CASE e # f
    BY <2>1, <2>5 DEF CwndInv, TypeOK
  <2> QED BY <2>3, <2>4, <2>5
<1>3. ASSUME NEW e \in Ends, NEW d \in net, NEW padded \in BOOLEAN,
             Input(e, d, padded)
      PROVE  ssthresh'[f] >= 2 /\ Whole(cwnd'[f], incr'[f])
  <2>1. PICK una \in Sns(Unacked(e, d)) \union {snd_nxt[e]} :
          LET grown == Grown(cwnd[e], ssthresh[e], incr[e], d.wnd)
              grows == una > snd_una[e] /\ ~padded
          IN  /\ cwnd' = [cwnd EXCEPT ![e] = IF grows THEN grown.cwnd ELSE @]
              /\ incr' = [incr EXCEPT ![e] = IF grows THEN grown.incr ELSE @]
    BY <1>3 DEF Input
  <2>2. /\ ssthresh' = ssthresh /\ d.wnd \in Nat
        /\ cwnd[e] \in Nat /\ ssthresh[e] \in Nat /\ incr[e] \in Nat
        /\ ssthresh[e] >= 2 /\ Whole(cwnd[e], incr[e])
    BY <1>3 DEF Input, CwndInv, TypeOK, Datagram
  <2>3. Whole(Grown(cwnd[e], ssthresh[e], incr[e], d.wnd).cwnd,
              Grown(cwnd[e], ssthresh[e], incr[e], d.wnd).incr)
    BY <2>2, GrownWhole
  <2> QED BY <2>1, <2>2, <2>3 DEF CwndInv, TypeOK
<1>4. CASE UNCHANGED vars
  BY <1>1, <1>4 DEF vars
<1> QED
  BY <1>1, <1>2, <1>3, <1>4
     DEF Next, Step, Again, Send, Recv, InputPush, Lose, Deliver, Duplicate

\* The congestion window in segments is always the one in bytes, divided by
\* MSS, although the two are computed apart at five places (ikcp.c:876-892,
\* 1110-1131) and the division truncates.
THEOREM CwndIsIncr == Spec => []CwndTracksIncr
<1>1. Init => CwndInv
  <2>1. ASSUME Init, NEW e \in Ends
        PROVE  ssthresh[e] >= 2 /\ Whole(cwnd[e], incr[e])
    <3>1. 0 * MSS <= 0 /\ 0 < (0 + 1) * MSS
      BY MssType, SMT
    <3> QED BY <2>1, <3>1 DEF Init, Whole, THRESH_MIN
  <2> QED BY <2>1, InitType DEF CwndInv
<1>2. CwndInv => CwndTracksIncr
  <2>1. \A m \in Nat \ {0}, c, i \in Nat :
           c * m <= i /\ i < (c + 1) * m => c = i \div m
    BY SMT
  <2>2. ASSUME CwndInv, NEW e \in Ends PROVE cwnd[e] = incr[e] \div MSS
    BY <2>1, <2>2, MssType DEF CwndInv, TypeOK, Whole
  <2> QED BY <2>2 DEF CwndTracksIncr
<1> QED BY <1>1, <1>2, StepCwnd, PTL DEF Spec

-----------------------------------------------------------------------------
(***************************************************************************)
(* The size of a datagram.                                                 *)
(***************************************************************************)
\* one of segs with its header
Chosen(segs) == CHOOSE s \in segs : TRUE
Size(s) == OVERHEAD + s.frag.len

\* the recursion of DatagramBytes over the sets of a family
SumOver(family, f) ==
    f = [segs \in family |->
            IF segs = {} THEN 0
            ELSE LET s == CHOOSE s \in segs : TRUE
                 IN  OVERHEAD + s.frag.len + f[segs \ {s}]]

\* the subsets of push with n elements at most
UpTo(push, n) == {segs \in SUBSET push : Cardinality(segs) <= n}

\* Facts about these subsets.
LEMMA UpToFacts ==
    ASSUME NEW push, IsFiniteSet(push)
    PROVE  /\ \A segs \in UpTo(push, 0) : segs = {}
           /\ \A segs \in SUBSET push :
                 Cardinality(segs) \in Nat /\ segs \in UpTo(push, Cardinality(segs))
           /\ \A n \in Nat : UpTo(push, n) \subseteq UpTo(push, n + 1)
           /\ \A n \in Nat : \A segs \in UpTo(push, n + 1) :
                 \A s \in segs : segs \ {s} \in UpTo(push, n)
<1>1. ASSUME NEW segs \in SUBSET push
      PROVE  IsFiniteSet(segs) /\ Cardinality(segs) \in Nat
  <2>1. IsFiniteSet(segs)
    BY FS_Subset
  <2> QED BY <2>1, FS_CardinalityType
<1>2. /\ \A a \in Nat : a <= a /\ (a <= 0 => a = 0)
      /\ \A a, n \in Nat : (a <= n => a <= n + 1) /\ (a <= n + 1 => a - 1 <= n)
  BY SMT
<1>3. ASSUME NEW segs \in UpTo(push, 0) PROVE segs = {}
  <2>1. segs \in SUBSET push /\ Cardinality(segs) <= 0
    BY DEF UpTo
  <2>2. Cardinality(segs) = 0
    BY <1>1, <1>2, <2>1
  <2> QED BY <1>1, <2>1, <2>2, FS_EmptySet
<1>4. ASSUME NEW n \in Nat, NEW segs \in UpTo(push, n)
      PROVE  segs \in UpTo(push, n + 1)
  <2>1. segs \in SUBSET push /\ Cardinality(segs) <= n
    BY DEF UpTo
  <2>2. Cardinality(segs) <= n + 1
    BY <1>1, <1>2, <2>1
  <2> QED BY <2>1, <2>2 DEF UpTo
<1>5. ASSUME NEW n \in Nat, NEW segs \in UpTo(push, n + 1), NEW s \in segs
      PROVE  segs \ {s} \in UpTo(push, n)
  <2>1. segs \in SUBSET push /\ Cardinality(segs) <= n + 1
    BY DEF UpTo
  <2>2. IsFiniteSet(segs) /\ Cardinality(segs) \in Nat
    BY <1>1, <2>1
  <2>3. Cardinality(segs \ {s}) = Cardinality(segs) - 1
    BY <2>2, FS_RemoveElement
  <2>4. Cardinality(segs \ {s}) <= n
    BY <1>2, <2>1, <2>2, <2>3
  <2> QED BY <2>1, <2>4 DEF UpTo
<1>6. \A segs \in SUBSET push : segs \in UpTo(push, Cardinality(segs))
  BY <1>1, <1>2 DEF UpTo
<1> QED BY <1>1, <1>3, <1>4, <1>5, <1>6

\* One step of that recursion.
LEMMA SumStep ==
    ASSUME NEW family, NEW f, SumOver(family, f), NEW segs \in family
    PROVE  f[segs] = IF segs = {} THEN 0
                     ELSE Size(Chosen(segs)) + f[segs \ {Chosen(segs)}]
BY Zenon DEF SumOver, Size, Chosen

\* It has a value for every finite set.
LEMMA SumExists ==
    ASSUME NEW push, IsFiniteSet(push)
    PROVE  \E f : SumOver(SUBSET push, f)
<1> DEFINE S == {n \in Nat : \E f : SumOver(UpTo(push, n), f)}
<1>1. Cardinality(push) \in Nat
  BY FS_CardinalityType
<1>2. 0 \in S
  <2> DEFINE f == [segs \in UpTo(push, 0) |-> 0]
  <2>1. \A segs \in UpTo(push, 0) : segs = {}
    BY UpToFacts
  <2>2. SumOver(UpTo(push, 0), f)
    BY <2>1, Zenon DEF SumOver
  <2> QED BY <2>2
<1>3. ASSUME NEW n \in S PROVE n + 1 \in S
  <2>1. PICK f : SumOver(UpTo(push, n), f)
    OBVIOUS
  <2> DEFINE g == [segs \in UpTo(push, n + 1) |->
                      IF segs = {} THEN 0
                      ELSE Size(Chosen(segs)) + f[segs \ {Chosen(segs)}]]
  <2>2. n \in Nat /\ n + 1 \in Nat
    OBVIOUS
  <2>3. ASSUME NEW segs \in UpTo(push, n + 1), segs # {}
        PROVE  /\ segs \ {Chosen(segs)} \in UpTo(push, n)
               /\ segs \ {Chosen(segs)} \in UpTo(push, n + 1)
    <3>1. Chosen(segs) \in segs
      BY <2>3 DEF Chosen
    <3> QED BY <2>2, <3>1, UpToFacts
  <2>4. ASSUME NEW segs \in UpTo(push, n) PROVE f[segs] = g[segs]
    <3>1. segs \in UpTo(push, n + 1)
      BY <2>2, UpToFacts
    <3>2. f[segs] = IF segs = {} THEN 0
                    ELSE Size(Chosen(segs)) + f[segs \ {Chosen(segs)}]
      BY <2>1, SumStep
    <3> QED BY <3>1, <3>2
  <2>5. ASSUME NEW segs \in UpTo(push, n + 1)
        PROVE  g[segs] = IF segs = {} THEN 0
                         ELSE Size(Chosen(segs)) + g[segs \ {Chosen(segs)}]
    BY <2>3, <2>4
  <2>6. SumOver(UpTo(push, n + 1), g)
    <3>1. g = [segs \in UpTo(push, n + 1) |-> g[segs]]
      OBVIOUS
    <3> HIDE DEF g
    <3> QED BY <2>5, <3>1, Zenon DEF SumOver, Size, Chosen
  <2> HIDE DEF g
  <2> QED BY <2>2, <2>6
<1>4. S \in SUBSET Nat
  OBVIOUS
<1> HIDE DEF S
<1>5. Cardinality(push) \in S
  BY <1>1, <1>2, <1>3, <1>4, Induct, Zenon
<1>6. UpTo(push, Cardinality(push)) = SUBSET push
  BY FS_Subset DEF UpTo
<1> QED BY <1>5, <1>6 DEF S

\* f adds the sizes of the segments in each subset of push
Adds(push, f) ==
    \A segs \in SUBSET push :
        f[segs] \in Nat /\ \A s \in segs : f[segs] = Size(s) + f[segs \ {s}]

\* The order in which CHOOSE takes the segments does not matter: leaving out
\* any of them leaves out its size.
LEMMA SumAny ==
    ASSUME NEW push \in SUBSET Seg, IsFiniteSet(push),
           NEW f, SumOver(SUBSET push, f)
    PROVE  Adds(push, f)
<1> DEFINE Good(segs) == /\ f[segs] \in Nat
                         /\ \A s \in segs : f[segs] = Size(s) + f[segs \ {s}]
           S == {n \in Nat : \A segs \in UpTo(push, n) : Good(segs)}
<1>1. \A segs \in SUBSET push :
        f[segs] = IF segs = {} THEN 0
                  ELSE Size(Chosen(segs)) + f[segs \ {Chosen(segs)}]
  BY SumStep
<1>2. \A s \in push : Size(s) \in Nat
  BY KcpAssumption DEF Size, Seg, Frag
<1>4. 0 \in S
  <2>1. ASSUME NEW segs \in UpTo(push, 0) PROVE Good(segs)
    <3>1. segs = {} /\ segs \in SUBSET push
      BY UpToFacts DEF UpTo
    <3>2. f[segs] = 0
      BY <1>1, <3>1
    <3> QED BY <3>1, <3>2
  <2> QED BY <2>1
<1>5. ASSUME NEW n \in S PROVE n + 1 \in S
  <2>1. n \in Nat /\ n + 1 \in Nat /\ \A segs \in UpTo(push, n) : Good(segs)
    OBVIOUS
  <2> HIDE DEF S, Good
  <2>2. ASSUME NEW segs \in UpTo(push, n + 1), NEW s \in segs
        PROVE  segs \ {s} \in UpTo(push, n)
    BY <2>1, UpToFacts
  <2>3. ASSUME NEW segs \in UpTo(push, n + 1) PROVE Good(segs)
    <3>1. segs \in SUBSET push
      BY DEF UpTo
    <3>2. CASE segs = {}
      <4>1. f[segs] = 0
        BY <1>1, <3>1, <3>2
      <4> QED BY <3>2, <4>1 DEF Good
    <3>3. CASE segs # {}
      <4> DEFINE t == Chosen(segs)
      <4>1. t \in segs /\ t \in push
        BY <3>1, <3>3 DEF Chosen
      <4>2. f[segs] = Size(t) + f[segs \ {t}]
        BY <1>1, <3>1, <3>3
      <4> HIDE DEF t
      <4>3. Good(segs \ {t})
        BY <2>1, <2>2, <4>1
      <4>4. f[segs \ {t}] \in Nat /\ Size(t) \in Nat
        BY <1>2, <4>1, <4>3 DEF Good
      <4>5. f[segs] \in Nat
        BY <4>2, <4>4
      <4>6. ASSUME NEW s \in segs, s # t
            PROVE  f[segs] = Size(s) + f[segs \ {s}]
        <5>1. s \in segs \ {t} /\ t \in segs \ {s} /\ s \in push
              /\ (segs \ {t}) \ {s} = (segs \ {s}) \ {t}
          BY <3>1, <4>1, <4>6
        <5>2. f[segs \ {t}] = Size(s) + f[(segs \ {t}) \ {s}]
          BY <4>3, <5>1 DEF Good
        <5>3. Good(segs \ {s})
          BY <2>1, <2>2
        <5>4. f[segs \ {s}] = Size(t) + f[(segs \ {s}) \ {t}]
          BY <5>1, <5>3 DEF Good
        <5>5. Good((segs \ {s}) \ {t})
          <6>1. segs \ {s} \in UpTo(push, n + 1)
            BY <2>1, <2>2, UpToFacts
          <6>2. (segs \ {s}) \ {t} \in UpTo(push, n)
            BY <2>1, <5>1, <6>1, UpToFacts
          <6> QED BY <2>1, <6>2
        <5> DEFINE left == f[(segs \ {s}) \ {t}]
        <5>6. left \in Nat /\ Size(s) \in Nat
          BY <1>2, <5>1, <5>5 DEF Good
        <5>7. f[segs \ {t}] = Size(s) + left /\ f[segs \ {s}] = Size(t) + left
          BY <5>1, <5>2, <5>4
        <5> HIDE DEF left
        <5> QED BY <4>2, <4>4, <5>6, <5>7
      <4> QED BY <4>2, <4>5, <4>6 DEF Good
    <3> QED BY <3>2, <3>3
  <2> QED BY <2>1, <2>3 DEF S
<1>6. S \in SUBSET Nat
  OBVIOUS
<1> HIDE DEF S, Good
<1>7. ASSUME NEW segs \in SUBSET push PROVE Good(segs)
  <2>1. Cardinality(segs) \in Nat /\ segs \in UpTo(push, Cardinality(segs))
    BY UpToFacts
  <2>2. Cardinality(segs) \in S
    BY <1>4, <1>5, <1>6, <2>1, Induct, Zenon
  <2> QED BY <2>1, <2>2 DEF S
<1> QED BY <1>7 DEF Good, Adds

\* The sum over a part of the segments is the sum DatagramBytes computes of it.
LEMMA SumPart ==
    ASSUME NEW push \in SUBSET Seg, IsFiniteSet(push),
           NEW f, SumOver(SUBSET push, f),
           NEW part \in SUBSET push, NEW g, SumOver(SUBSET part, g)
    PROVE  g[part] = f[part]
<1> DEFINE S == {n \in Nat : \A segs \in UpTo(part, n) : g[segs] = f[segs]}
<1>1. IsFiniteSet(part)
  BY FS_Subset
<1>2. \A segs \in SUBSET part :
        /\ f[segs] = IF segs = {} THEN 0
                     ELSE Size(Chosen(segs)) + f[segs \ {Chosen(segs)}]
        /\ g[segs] = IF segs = {} THEN 0
                     ELSE Size(Chosen(segs)) + g[segs \ {Chosen(segs)}]
  <2>1. ASSUME NEW segs \in SUBSET part PROVE segs \in SUBSET push
    OBVIOUS
  <2> QED BY <2>1, SumStep
<1>3. 0 \in S /\ \A n \in S : n + 1 \in S
  <2>1. ASSUME NEW segs \in UpTo(part, 0) PROVE g[segs] = f[segs]
    <3>1. segs = {} /\ segs \in SUBSET part
      BY <1>1, UpToFacts DEF UpTo
    <3> QED BY <1>2, <3>1
  <2>2. ASSUME NEW n \in S, NEW segs \in UpTo(part, n + 1)
        PROVE  g[segs] = f[segs]
    <3>1. n \in Nat /\ \A left \in UpTo(part, n) : g[left] = f[left]
      OBVIOUS
    <3>2. segs \in SUBSET part
      BY DEF UpTo
    <3>3. CASE segs # {}
      <4>1. Chosen(segs) \in segs
        BY <3>3 DEF Chosen
      <4>2. segs \ {Chosen(segs)} \in UpTo(part, n)
        BY <1>1, <3>1, <4>1, UpToFacts
      <4> QED BY <1>2, <3>1, <3>2, <3>3, <4>2
    <3> QED BY <1>2, <3>2, <3>3
  <2> QED BY <2>1, <2>2
<1>4. S \in SUBSET Nat
  OBVIOUS
<1> HIDE DEF S
<1>5. Cardinality(part) \in Nat /\ part \in UpTo(part, Cardinality(part))
  BY <1>1, UpToFacts
<1>6. Cardinality(part) \in S
  BY <1>3, <1>4, <1>5, Induct, Zenon
<1> QED BY <1>5, <1>6 DEF S

\* DatagramBytes of a datagram that carries part of push.
LEMMA BytesOfPart ==
    ASSUME NEW push \in SUBSET Seg, IsFiniteSet(push),
           NEW f, SumOver(SUBSET push, f),
           NEW d, d.push \in SUBSET push
    PROVE  DatagramBytes(d) =
              f[d.push] + OVERHEAD * (Cardinality(d.acks)
                 + ((IF d.wask THEN 1 ELSE 0) + (IF d.wins THEN 1 ELSE 0)))
<1> DEFINE g == CHOOSE g : SumOver(SUBSET d.push, g)
<1>1. SumOver(SUBSET d.push, g)
  <2>1. IsFiniteSet(d.push)
    BY FS_Subset
  <2> QED BY <2>1, SumExists, Zenon
<1>2. DatagramBytes(d) =
          g[d.push] + OVERHEAD * (Cardinality(d.acks)
             + ((IF d.wask THEN 1 ELSE 0) + (IF d.wins THEN 1 ELSE 0)))
  BY Zenon DEF DatagramBytes, SumOver
<1> HIDE DEF g
<1>3. g[d.push] = f[d.push]
  <2> DEFINE part == d.push
  <2>1. part \in SUBSET push /\ SumOver(SUBSET part, g)
    BY <1>1
  <2> HIDE DEF part
  <2>2. g[part] = f[part]
    BY <2>1, SumPart
  <2> QED BY <2>2 DEF part
<1> QED BY <1>2, <1>3

\* the recursion of Filled
IsFill(acks, ask, una, push, last, f) ==
    f = [j \in 0..last |->
            IF j = 0 THEN [dg |-> 1, used |-> 0]
            ELSE LET before == f[j - 1]
                     cost == Cost(acks, ask, una, push, j)
                 IN  IF before.used + cost > MTU
                     THEN [dg |-> before.dg + 1, used |-> cost]
                     ELSE [before EXCEPT !.used = @ + cost]]

\* One step of that recursion.
LEMMA FillStep ==
    ASSUME NEW acks, NEW ask, NEW una, NEW push, NEW last,
           NEW f, IsFill(acks, ask, una, push, last, f), NEW j \in 0..last
    PROVE  f[j] = IF j = 0 THEN [dg |-> 1, used |-> 0]
                  ELSE IF f[j - 1].used + Cost(acks, ask, una, push, j) > MTU
                  THEN [dg |-> f[j - 1].dg + 1,
                        used |-> Cost(acks, ask, una, push, j)]
                  ELSE [f[j - 1] EXCEPT !.used = @ + Cost(acks, ask, una, push, j)]
BY Zenon DEF IsFill

\* It has a value for any number of places.
LEMMA FilledDef ==
    ASSUME NEW acks, NEW ask, NEW una, NEW push, NEW last \in Nat
    PROVE  IsFill(acks, ask, una, push, last, Filled(acks, ask, una, push, last))
<1> DEFINE Fill(n, f) == IsFill(acks, ask, una, push, n, f)
           After(before, j) ==
              IF before.used + Cost(acks, ask, una, push, j) > MTU
              THEN [dg |-> before.dg + 1, used |-> Cost(acks, ask, una, push, j)]
              ELSE [before EXCEPT !.used = @ + Cost(acks, ask, una, push, j)]
           S == {n \in Nat : \E f : Fill(n, f)}
<1>1. 0 \in S
  <2> DEFINE f == [j \in 0..0 |-> [dg |-> 1, used |-> 0]]
  <2>1. Fill(0, f)
    BY \A j \in 0..0 : j = 0, Zenon DEF IsFill
  <2> QED BY <2>1
<1>2. ASSUME NEW n \in S PROVE n + 1 \in S
  <2>1. PICK f : Fill(n, f)
    OBVIOUS
  <2>2. \A j \in 0..n : f[j] = IF j = 0 THEN [dg |-> 1, used |-> 0]
                               ELSE After(f[j - 1], j)
    BY <2>1, FillStep
  <2> DEFINE g == [j \in 0..(n + 1) |->
                      IF j = n + 1 THEN After(f[n], n + 1) ELSE f[j]]
  <2>3. n \in Nat /\ n + 1 \in Nat
    OBVIOUS
  <2> HIDE DEF After
  <2>4. ASSUME NEW j \in 0..(n + 1)
        PROVE  g[j] = IF j = 0 THEN [dg |-> 1, used |-> 0] ELSE After(g[j - 1], j)
    <3>1. CASE j = n + 1
      <4>1. j # 0 /\ j - 1 = n /\ n # n + 1 /\ n \in 0..(n + 1)
        BY <2>3, <3>1, SMT
      <4> QED BY <3>1, <4>1
    <3>2. CASE j # n + 1 /\ j # 0
      <4>1. j \in 0..n /\ j - 1 # n + 1 /\ j - 1 \in 0..(n + 1)
        BY <2>3, <3>2, SMT
      <4> QED BY <2>2, <3>2, <4>1
    <3>3. CASE j # n + 1 /\ j = 0
      <4>1. j \in 0..n
        BY <2>3, <3>3, SMT
      <4> QED BY <2>2, <3>3, <4>1
    <3> QED BY <3>1, <3>2, <3>3
  <2>5. Fill(n + 1, g)
    <3>1. g = [j \in 0..(n + 1) |-> g[j]]
      OBVIOUS
    <3> HIDE DEF g
    <3> QED BY <2>4, <3>1, Zenon DEF IsFill, After
  <2> HIDE DEF g, Fill
  <2> QED BY <2>3, <2>5
<1>3. S \in SUBSET Nat
  OBVIOUS
<1> HIDE DEF S
<1>4. last \in S
  BY <1>1, <1>2, <1>3, Induct, Zenon
<1> DEFINE f == CHOOSE f : IsFill(acks, ask, una, push, last, f)
<1>5. IsFill(acks, ask, una, push, last, f)
  BY <1>4, Zenon DEF S
<1>6. Filled(acks, ask, una, push, last) = f
  BY Zenon DEF Filled, IsFill
<1> HIDE DEF f
<1> QED BY <1>5, <1>6

\* what flush may have to write: each serial number at most once, each
\* segment with its header within the MTU and at one of the places up to last
Writable(acks, una, push, last) ==
    /\ acks \in Seq(Nat) /\ una \in Nat /\ last \in Nat
    /\ Len(acks) + 2 <= last
    /\ push \in SUBSET Seg /\ IsFiniteSet(push)
    /\ \A s, t \in push : s.sn = t.sn => s = t
    /\ \A s \in push : /\ una <= s.sn
                       /\ Len(acks) + 3 + s.sn - una <= last
                       /\ Size(s) <= MTU

\* the bytes of place j if it holds data
DataCost(acks, una, push, j) ==
    LET sn == una + j - (Len(acks) + 3)
    IN  IF sn \in Sns(push) THEN Size(SegAt(push, sn)) ELSE 0

\* what a place costs, by what stands there
CostOK(acks, ask, una, push, j) ==
    /\ Cost(acks, ask, una, push, j) \in Nat
    /\ Cost(acks, ask, una, push, j) <= MTU
    /\ j <= Len(acks) => Cost(acks, ask, una, push, j) = OVERHEAD
    /\ j = Len(acks) + 1 =>
          Cost(acks, ask, una, push, j) = IF "send" \in ask THEN OVERHEAD ELSE 0
    /\ j = Len(acks) + 2 =>
          Cost(acks, ask, una, push, j) = IF "tell" \in ask THEN OVERHEAD ELSE 0
    /\ j >= Len(acks) + 3 =>
          Cost(acks, ask, una, push, j) = DataCost(acks, una, push, j)
    /\ DataCost(acks, una, push, j) \in Nat

\* What stands at a place, by the kind of place; never more than the MTU.
LEMMA CostCases ==
    ASSUME NEW acks, NEW ask, NEW una, NEW push, NEW last,
           Writable(acks, una, push, last), NEW j \in Nat \ {0}
    PROVE  CostOK(acks, ask, una, push, j)
<1> DEFINE n == Len(acks)
           sn == una + j - (n + 3)
<1>1. n \in Nat /\ OVERHEAD \in Nat /\ MTU \in Nat /\ OVERHEAD <= MTU
  BY KcpAssumption, LenProperties DEF Writable
<1>2. ASSUME sn \in Sns(push)
      PROVE  SegAt(push, sn) \in push /\ SegAt(push, sn) \in Seg
  BY <1>2 DEF Sns, SegAt, Writable
<1>3. /\ DataCost(acks, una, push, j) \in Nat
      /\ DataCost(acks, una, push, j) <= MTU
  <2>1. CASE sn \in Sns(push)
    <3>1. DataCost(acks, una, push, j) = Size(SegAt(push, sn))
      BY <2>1 DEF DataCost
    <3>2. \A s \in Seg : Size(s) \in Nat
      BY <1>1 DEF Size, Seg, Frag
    <3> QED BY <1>2, <2>1, <3>1, <3>2 DEF Writable
  <2>2. CASE sn \notin Sns(push)
    BY <1>1, <2>2 DEF DataCost
  <2> QED BY <2>1, <2>2
<1>4. CASE j <= n
  <2>1. ~(j = n + 1) /\ ~(j = n + 2) /\ ~(j >= n + 3)
    BY <1>1, <1>4, SMT
  <2>2. Cost(acks, ask, una, push, j) = OVERHEAD
    BY <1>4, <2>1, SMT DEF Cost
  <2> QED BY <1>1, <1>3, <2>1, <2>2 DEF CostOK
<1>5. CASE j = n + 1
  <2>1. ~(j <= n) /\ ~(j = n + 2) /\ ~(j >= n + 3)
    BY <1>1, <1>5, SMT
  <2>2. Cost(acks, ask, una, push, j) = IF "send" \in ask THEN OVERHEAD ELSE 0
    BY <1>5, <2>1, SMT DEF Cost
  <2> QED BY <1>1, <1>3, <1>5, <2>1, <2>2 DEF CostOK
<1>6. CASE j = n + 2
  <2>1. ~(j <= n) /\ ~(j = n + 1) /\ ~(j >= n + 3)
    BY <1>1, <1>6, SMT
  <2>2. Cost(acks, ask, una, push, j) = IF "tell" \in ask THEN OVERHEAD ELSE 0
    BY <1>6, <2>1, SMT DEF Cost
  <2> QED BY <1>1, <1>3, <1>6, <2>1, <2>2 DEF CostOK
<1>7. CASE j >= n + 3
  <2>1. ~(j <= n) /\ ~(j = n + 1) /\ ~(j = n + 2)
    BY <1>1, <1>7, SMT
  <2>2. Cost(acks, ask, una, push, j) = DataCost(acks, una, push, j)
    BY <2>1, SMT DEF Cost, DataCost, Size
  <2> QED BY <1>3, <2>1, <2>2 DEF CostOK
<1>8. j <= n \/ j = n + 1 \/ j = n + 2 \/ j >= n + 3
  BY <1>1, SMT
<1> QED BY <1>4, <1>5, <1>6, <1>7, <1>8

\* the datagram and the bytes used in it, place by place
FillOK(acks, ask, una, push, last, f) ==
    /\ f[0] = [dg |-> 1, used |-> 0]
    /\ \A j \in 0..last : f[j] \in [dg : Nat \ {0}, used : 0..MTU]
    /\ \A j \in Nat : j + 1 <= last =>
         \/ /\ f[j + 1].dg = f[j].dg + 1
            /\ f[j + 1].used = Cost(acks, ask, una, push, j + 1)
         \/ /\ f[j + 1].dg = f[j].dg
            /\ f[j + 1].used = f[j].used + Cost(acks, ask, una, push, j + 1)

\* used never passes the MTU, since no place alone does.
LEMMA FillTypes ==
    ASSUME NEW acks, NEW ask, NEW una, NEW push, NEW last,
           Writable(acks, una, push, last),
           NEW f, IsFill(acks, ask, una, push, last, f)
    PROVE  FillOK(acks, ask, una, push, last, f)
<1> DEFINE Ty == [dg : Nat \ {0}, used : 0..MTU]
           cost(j) == Cost(acks, ask, una, push, j)
           S == {j \in Nat : j <= last => f[j] \in Ty}
<1>1. last \in Nat /\ MTU \in Nat
  BY KcpAssumption DEF Writable
<1>2. \A j \in Nat \ {0} : cost(j) \in Nat /\ cost(j) <= MTU
  BY CostCases DEF CostOK
<1>3. f[0] = [dg |-> 1, used |-> 0]
  <2>1. 0 \in 0..last
    BY <1>1, SMT
  <2>2. ASSUME NEW j \in 0..last, j = 0 PROVE f[j] = [dg |-> 1, used |-> 0]
    BY <2>2, Zenon DEF IsFill
  <2> QED BY <2>1, <2>2
<1>4. ASSUME NEW j \in Nat, j + 1 <= last
      PROVE  f[j + 1] = IF f[j].used + cost(j + 1) > MTU
                        THEN [dg |-> f[j].dg + 1, used |-> cost(j + 1)]
                        ELSE [f[j] EXCEPT !.used = @ + cost(j + 1)]
  <2>1. j + 1 \in 0..last /\ j + 1 # 0 /\ j + 1 - 1 = j
    BY <1>1, <1>4, SMT
  <2> HIDE DEF cost
  <2> QED BY <2>1, FillStep DEF cost
<1> HIDE DEF cost
<1>5. ASSUME NEW j \in Nat, j + 1 <= last, f[j] \in Ty
      PROVE  /\ f[j + 1] \in Ty
             /\ \/ f[j + 1].dg = f[j].dg + 1 /\ f[j + 1].used = cost(j + 1)
                \/ f[j + 1].dg = f[j].dg /\ f[j + 1].used = f[j].used + cost(j + 1)
  <2>1. /\ f[j].dg \in Nat \ {0} /\ f[j].used \in 0..MTU
        /\ f[j] = [dg |-> f[j].dg, used |-> f[j].used]
    BY <1>5
  <2>2. cost(j + 1) \in Nat /\ cost(j + 1) <= MTU
    BY <1>2, <1>5
  <2>3. CASE f[j].used + cost(j + 1) > MTU
    <3>1. f[j + 1] = [dg |-> f[j].dg + 1, used |-> cost(j + 1)]
      BY <1>4, <1>5, <2>3
    <3>2. f[j].dg + 1 \in Nat \ {0} /\ cost(j + 1) \in 0..MTU
      BY <1>1, <2>1, <2>2, SMT
    <3> QED BY <3>1, <3>2
  <2>4. CASE ~(f[j].used + cost(j + 1) > MTU)
    <3>1. f[j + 1] = [f[j] EXCEPT !.used = @ + cost(j + 1)]
      BY <1>4, <1>5, <2>4
    <3>2. f[j + 1] = [dg |-> f[j].dg, used |-> f[j].used + cost(j + 1)]
      BY <2>1, <3>1
    <3>3. f[j].used + cost(j + 1) \in 0..MTU
      BY <1>1, <2>1, <2>2, <2>4, SMT
    <3> QED BY <2>1, <3>2, <3>3
  <2> QED BY <2>3, <2>4
<1> HIDE DEF Ty
<1>6. \A j \in Nat : j \in S
  <2>1. 0 \in S
    BY <1>1, <1>3 DEF Ty
  <2>2. ASSUME NEW j \in S PROVE j + 1 \in S
    <3>1. j + 1 <= last => j <= last
      BY <1>1, SMT
    <3> QED BY <1>5, <3>1
  <2>3. S \in SUBSET Nat
    OBVIOUS
  <2> HIDE DEF S
  <2> QED BY <2>1, <2>2, <2>3, Induct, Zenon
<1>7. ASSUME NEW j \in 0..last PROVE f[j] \in Ty
  <2>1. j \in Nat /\ j <= last
    BY <1>1, SMT
  <2> QED BY <1>6, <2>1
<1>8. ASSUME NEW j \in Nat, j + 1 <= last
      PROVE  \/ f[j + 1].dg = f[j].dg + 1 /\ f[j + 1].used = cost(j + 1)
             \/ f[j + 1].dg = f[j].dg /\ f[j + 1].used = f[j].used + cost(j + 1)
  <2>1. j \in 0..last
    BY <1>1, <1>8, SMT
  <2> QED BY <1>5, <1>7, <1>8, <2>1
<1> QED BY <1>3, <1>7, <1>8 DEF FillOK, Ty, cost

\* of what flush writes, the part at the first j places in datagram k
AckPart(acks, f, k, j) ==
    {acks[i] : i \in {i \in 1..Len(acks) : i <= j /\ f[i].dg = k}}
OnePart(place, f, k, j) == IF place <= j /\ f[place].dg = k THEN 1 ELSE 0
PushPart(acks, una, push, f, k, j) ==
    {s \in push : /\ Len(acks) + 3 + s.sn - una <= j
                  /\ f[Len(acks) + 3 + s.sn - una].dg = k}

\* Place j + 1 adds nothing to other datagrams than its own, and there at
\* most what stands in it.
LEMMA AckPartGrows ==
    ASSUME NEW acks \in Seq(Nat), NEW f, NEW k \in Nat, NEW j \in Nat,
           IsFiniteSet(AckPart(acks, f, k, j))
    PROVE  /\ IsFiniteSet(AckPart(acks, f, k, j + 1))
           /\ Cardinality(AckPart(acks, f, k, j + 1)) <=
                 Cardinality(AckPart(acks, f, k, j))
                 + (IF j + 1 <= Len(acks) /\ f[j + 1].dg = k THEN 1 ELSE 0)
<1> DEFINE A == AckPart(acks, f, k, j)
           B == AckPart(acks, f, k, j + 1)
<1>1. Len(acks) \in Nat
  BY LenProperties
<1>2. \A i \in 1..Len(acks) : i <= j + 1 <=> i <= j \/ i = j + 1
  BY <1>1, SMT
<1>3. Cardinality(A) \in Nat
  BY FS_CardinalityType
<1>4. CASE j + 1 <= Len(acks) /\ f[j + 1].dg = k
  <2>1. j + 1 \in 1..Len(acks)
    BY <1>1, <1>4, SMT
  <2>2. B = A \cup {acks[j + 1]}
    BY <1>2, <1>4, <2>1 DEF AckPart
  <2> HIDE DEF A, B
  <2>3. /\ IsFiniteSet(B)
        /\ Cardinality(B) = Cardinality(A) \/ Cardinality(B) = Cardinality(A) + 1
    BY <2>2, FS_AddElement DEF A
  <2>4. Cardinality(B) <= Cardinality(A) + 1
    BY <1>3, <2>3, SMT
  <2> QED BY <1>4, <2>3, <2>4 DEF A, B
<1>5. CASE ~(j + 1 <= Len(acks) /\ f[j + 1].dg = k)
  <2>1. \A i \in 1..Len(acks) : i = j + 1 => f[i].dg # k
    BY <1>1, <1>5, SMT
  <2>2. B = A
    BY <1>2, <2>1 DEF AckPart
  <2> QED BY <1>3, <1>5, <2>2
<1> QED BY <1>4, <1>5

\* The same of a window command.
LEMMA OnePartGrows ==
    ASSUME NEW place \in Nat, NEW f, NEW k \in Nat, NEW j \in Nat
    PROVE  /\ OnePart(place, f, k, j) \in Nat
           /\ OnePart(place, f, k, j + 1) = OnePart(place, f, k, j)
                 + (IF j + 1 = place /\ f[j + 1].dg = k THEN 1 ELSE 0)
<1>1. place <= j + 1 <=> place <= j \/ place = j + 1
  BY SMT
<1>2. ~(place <= j /\ place = j + 1)
  BY SMT
<1> QED BY <1>1, <1>2 DEF OnePart

\* The same of the data.
LEMMA PushPartGrows ==
    ASSUME NEW acks, NEW una, NEW push, NEW last,
           Writable(acks, una, push, last),
           NEW f, NEW k \in Nat, NEW j \in Nat,
           NEW sum, SumOver(SUBSET push, sum)
    PROVE  /\ sum[PushPart(acks, una, push, f, k, j)] \in Nat
           /\ sum[PushPart(acks, una, push, f, k, j + 1)] =
                 sum[PushPart(acks, una, push, f, k, j)]
                 + (IF j + 1 >= Len(acks) + 3 /\ f[j + 1].dg = k
                    THEN DataCost(acks, una, push, j + 1) ELSE 0)
<1> DEFINE n == Len(acks)
           P == PushPart(acks, una, push, f, k, j)
           Q == PushPart(acks, una, push, f, k, j + 1)
           sn == una + (j + 1) - (n + 3)
<1>1. /\ n \in Nat /\ una \in Nat
      /\ \A s \in push : s.sn \in Nat /\ s \in Seg /\ una <= s.sn
      /\ \A s, t \in push : s.sn = t.sn => s = t
      /\ push \in SUBSET Seg /\ IsFiniteSet(push)
  BY LenProperties DEF Writable, Seg
<1>2. \A m, u, x \in Nat :
        /\ m + 3 + x - u <= j + 1 <=> (m + 3 + x - u <= j \/ m + 3 + x - u = j + 1)
        /\ m + 3 + x - u = j + 1 <=> x = u + (j + 1) - (m + 3)
        /\ m + 3 + x - u = j + 1 => ~(m + 3 + x - u <= j)
        /\ u <= x /\ m + 3 + x - u = j + 1 => j + 1 >= m + 3
  BY SMT
<1>3. P \in SUBSET push /\ Q \in SUBSET push
  BY DEF PushPart
<1>4. /\ \A segs \in SUBSET push : sum[segs] \in Nat
      /\ \A segs \in SUBSET push : \A s \in segs :
            sum[segs] = Size(s) + sum[segs \ {s}]
  <2>1. Adds(push, sum)
    BY <1>1, SumAny
  <2> QED BY <2>1 DEF Adds
<1>5. \A s \in push : n + 3 + s.sn - una = j + 1 <=> s.sn = sn
  BY <1>1, <1>2
<1>6. \A s \in push : s \in Q <=> s \in P \/ (s.sn = sn /\ f[j + 1].dg = k)
  <2>1. ASSUME NEW s \in push
        PROVE  s \in Q <=> s \in P \/ (s.sn = sn /\ f[j + 1].dg = k)
    <3>1. s \in Q <=> (n + 3 + s.sn - una <= j + 1 /\ f[n + 3 + s.sn - una].dg = k)
      BY DEF PushPart
    <3>2. s \in P <=> (n + 3 + s.sn - una <= j /\ f[n + 3 + s.sn - una].dg = k)
      BY DEF PushPart
    <3>3. n + 3 + s.sn - una <= j + 1
             <=> (n + 3 + s.sn - una <= j \/ n + 3 + s.sn - una = j + 1)
      BY <1>1, <1>2
    <3>4. n + 3 + s.sn - una = j + 1 <=> s.sn = sn
      BY <1>5
    <3> HIDE DEF P, Q, sn, n
    <3> QED BY <3>1, <3>2, <3>3, <3>4
  <2> QED BY <2>1
<1>7. \A s \in push : s.sn = sn => s \notin P /\ j + 1 >= n + 3
  <2>1. ASSUME NEW s \in push, s.sn = sn PROVE s \notin P /\ j + 1 >= n + 3
    <3>1. n + 3 + s.sn - una = j + 1
      BY <1>5, <2>1
    <3>2. ~(n + 3 + s.sn - una <= j) /\ j + 1 >= n + 3
      BY <1>1, <1>2, <3>1
    <3> QED BY <3>2 DEF PushPart
  <2> QED BY <2>1
<1> HIDE DEF P, Q, sn
<1>8. CASE sn \in Sns(push) /\ f[j + 1].dg = k
  <2> DEFINE t == SegAt(push, sn)
  <2>1. t \in push /\ t.sn = sn
    BY <1>8 DEF Sns, SegAt
  <2>2. DataCost(acks, una, push, j + 1) = Size(t)
    BY <1>8 DEF DataCost, sn, n
  <2> HIDE DEF t
  <2>3. Q \ {t} = P /\ t \in Q
    <3>1. \A s \in push : s.sn = sn <=> s = t
      BY <1>1, <2>1
    <3> QED BY <1>3, <1>6, <1>7, <1>8, <2>1, <3>1
  <2>4. sum[Q] = Size(t) + sum[P]
    BY <1>3, <1>4, <2>3
  <2>5. Size(t) \in Nat /\ sum[P] \in Nat /\ j + 1 >= n + 3
    BY <1>1, <1>3, <1>4, <1>7, <2>1, KcpAssumption DEF Size, Seg, Frag
  <2> QED BY <1>8, <2>2, <2>4, <2>5 DEF P, Q, n
<1>9. CASE sn \notin Sns(push)
  <2>1. Q = P
    BY <1>3, <1>6, <1>9 DEF Sns
  <2>2. DataCost(acks, una, push, j + 1) = 0
    BY <1>9 DEF DataCost, sn, n
  <2> QED BY <1>3, <1>4, <2>1, <2>2 DEF P, Q, n
<1>10. CASE f[j + 1].dg # k
  <2>1. Q = P
    BY <1>3, <1>6, <1>10
  <2> QED BY <1>3, <1>4, <1>10, <2>1 DEF P, Q, n
<1> QED BY <1>8, <1>9, <1>10

\* the bytes of that part
PartBytes(acks, ask, una, push, f, sum, k, j) ==
    sum[PushPart(acks, una, push, f, k, j)]
    + OVERHEAD * (Cardinality(AckPart(acks, f, k, j))
       + ((IF "send" \in ask THEN OnePart(Len(acks) + 1, f, k, j) ELSE 0)
          + (IF "tell" \in ask THEN OnePart(Len(acks) + 2, f, k, j) ELSE 0)))

\* A place adds to its own datagram what Cost says, and to no other.
LEMMA BytesGrow ==
    ASSUME NEW acks, NEW ask, NEW una, NEW push, NEW last,
           Writable(acks, una, push, last),
           NEW f, NEW k \in Nat, NEW j \in Nat,
           NEW sum, SumOver(SUBSET push, sum),
           IsFiniteSet(AckPart(acks, f, k, j))
    PROVE  /\ IsFiniteSet(AckPart(acks, f, k, j + 1))
           /\ PartBytes(acks, ask, una, push, f, sum, k, j) \in Nat
           /\ PartBytes(acks, ask, una, push, f, sum, k, j + 1) \in Nat
           /\ PartBytes(acks, ask, una, push, f, sum, k, j + 1) <=
                 PartBytes(acks, ask, una, push, f, sum, k, j)
                 + (IF f[j + 1].dg = k THEN Cost(acks, ask, una, push, j + 1) ELSE 0)
<1> DEFINE n == Len(acks)
           A == Cardinality(AckPart(acks, f, k, j))
           B == Cardinality(AckPart(acks, f, k, j + 1))
           W(i) == IF "send" \in ask THEN OnePart(n + 1, f, k, i) ELSE 0
           T(i) == IF "tell" \in ask THEN OnePart(n + 2, f, k, i) ELSE 0
           P == sum[PushPart(acks, una, push, f, k, j)]
           Q == sum[PushPart(acks, una, push, f, k, j + 1)]
           cost == Cost(acks, ask, una, push, j + 1)
           data == DataCost(acks, una, push, j + 1)
           own == f[j + 1].dg = k
<1>1. acks \in Seq(Nat) /\ n \in Nat /\ OVERHEAD \in Nat
  BY LenProperties, KcpAssumption DEF Writable
<1>2. /\ IsFiniteSet(AckPart(acks, f, k, j + 1))
      /\ A \in Nat /\ B \in Nat
      /\ B <= A + (IF j + 1 <= n /\ own THEN 1 ELSE 0)
  BY <1>1, AckPartGrows, FS_CardinalityType
<1>3. /\ W(j) \in Nat /\ T(j) \in Nat
      /\ W(j + 1) = W(j) + (IF j + 1 = n + 1 /\ own /\ "send" \in ask THEN 1 ELSE 0)
      /\ T(j + 1) = T(j) + (IF j + 1 = n + 2 /\ own /\ "tell" \in ask THEN 1 ELSE 0)
  <2>1. n + 1 \in Nat /\ n + 2 \in Nat
    BY <1>1
  <2>2. \A place \in Nat :
          /\ OnePart(place, f, k, j) \in Nat
          /\ OnePart(place, f, k, j + 1) = OnePart(place, f, k, j)
                + (IF j + 1 = place /\ f[j + 1].dg = k THEN 1 ELSE 0)
    BY OnePartGrows, ZenonT(60)
  <2>3. /\ OnePart(n + 1, f, k, j) \in Nat /\ OnePart(n + 2, f, k, j) \in Nat
        /\ OnePart(n + 1, f, k, j + 1) = OnePart(n + 1, f, k, j)
              + (IF j + 1 = n + 1 /\ own THEN 1 ELSE 0)
        /\ OnePart(n + 2, f, k, j + 1) = OnePart(n + 2, f, k, j)
              + (IF j + 1 = n + 2 /\ own THEN 1 ELSE 0)
    BY <2>1, <2>2, Zenon
  <2> HIDE DEF n, own
  <2>4. W(j) \in Nat /\ T(j) \in Nat
    BY <2>3
  <2>5. W(j + 1) = W(j) + (IF j + 1 = n + 1 /\ own /\ "send" \in ask THEN 1 ELSE 0)
    BY <2>3
  <2>6. T(j + 1) = T(j) + (IF j + 1 = n + 2 /\ own /\ "tell" \in ask THEN 1 ELSE 0)
    BY <2>3
  <2> QED BY <2>4, <2>5, <2>6
<1>4. P \in Nat /\ Q = P + (IF j + 1 >= n + 3 /\ own THEN data ELSE 0)
  BY PushPartGrows
<1>5. j + 1 \in Nat \ {0}
  BY SMT
<1>6. /\ cost \in Nat /\ data \in Nat
      /\ j + 1 <= n => cost = OVERHEAD
      /\ j + 1 = n + 1 => cost = IF "send" \in ask THEN OVERHEAD ELSE 0
      /\ j + 1 = n + 2 => cost = IF "tell" \in ask THEN OVERHEAD ELSE 0
      /\ j + 1 >= n + 3 => cost = data
  <2> DEFINE i == j + 1
  <2>1. i \in Nat \ {0}
    BY <1>5
  <2> HIDE DEF i
  <2>2. CostOK(acks, ask, una, push, i)
    BY <2>1, CostCases
  <2> QED BY <2>2 DEF i, CostOK
<1>7. /\ PartBytes(acks, ask, una, push, f, sum, k, j)
            = P + OVERHEAD * (A + (W(j) + T(j)))
      /\ PartBytes(acks, ask, una, push, f, sum, k, j + 1)
            = Q + OVERHEAD * (B + (W(j + 1) + T(j + 1)))
  BY DEF PartBytes
<1> HIDE DEF n, A, B, W, T, P, Q, cost, data, own
<1>8. /\ W(j + 1) \in Nat /\ T(j + 1) \in Nat /\ Q \in Nat
  BY <1>3, <1>4, <1>6
<1>9. \A o, x, y \in Nat : /\ o * x \in Nat
                           /\ x <= y => o * x <= o * y
                           /\ o * (x + 1) = o * x + o
  <2>1. ASSUME NEW o \in Nat, NEW x \in Nat, NEW y \in Nat
        PROVE  o * x \in Nat /\ o * (x + 1) = o * x + o
    BY SMT
  <2>2. ASSUME NEW o \in Nat, NEW x \in Nat, NEW y \in Nat, x <= y
        PROVE  o * x <= o * y
    BY <2>2, SMT
  <2> QED BY <2>1, <2>2
<1> DEFINE X == A + (W(j) + T(j))
           Y == B + (W(j + 1) + T(j + 1))
<1>10. /\ X \in Nat /\ Y \in Nat
       /\ OVERHEAD * X \in Nat /\ OVERHEAD * Y \in Nat
       /\ OVERHEAD * (X + 1) = OVERHEAD * X + OVERHEAD
  <2>1. X \in Nat /\ Y \in Nat
    BY <1>2, <1>3, <1>8
  <2> HIDE DEF X, Y
  <2> QED BY <1>1, <1>9, <2>1
<1>11. \/ Y <= X /\ Q = P
       \/ Y <= X + 1 /\ own /\ cost = OVERHEAD /\ Q = P
       \/ Y <= X /\ own /\ cost = data /\ Q = P + data
  <2>1. CASE ~own
    BY <1>2, <1>3, <1>4, <1>8, <2>1, SMT
  <2>2. CASE own /\ j + 1 <= n
    BY <1>1, <1>2, <1>3, <1>4, <1>6, <1>8, <2>2, SMT
  <2>3. CASE own /\ j + 1 = n + 1
    BY <1>1, <1>2, <1>3, <1>4, <1>6, <1>8, <2>3, SMT
  <2>4. CASE own /\ j + 1 = n + 2
    BY <1>1, <1>2, <1>3, <1>4, <1>6, <1>8, <2>4, SMT
  <2>5. CASE own /\ j + 1 >= n + 3
    BY <1>1, <1>2, <1>3, <1>4, <1>6, <1>8, <2>5, SMT
  <2>6. j + 1 <= n \/ j + 1 = n + 1 \/ j + 1 = n + 2 \/ j + 1 >= n + 3
    BY <1>1, SMT
  <2> HIDE DEF X, Y
  <2> QED BY <2>1, <2>2, <2>3, <2>4, <2>5, <2>6
<1> HIDE DEF X, Y
<1>12. Q + OVERHEAD * Y <= P + OVERHEAD * X + (IF own THEN cost ELSE 0)
  <2>1. CASE Y <= X /\ Q = P
    <3>1. OVERHEAD * Y <= OVERHEAD * X
      BY <1>1, <1>9, <1>10, <2>1
    <3> QED BY <1>4, <1>6, <1>10, <2>1, <3>1
  <2>2. CASE Y <= X + 1 /\ own /\ cost = OVERHEAD /\ Q = P
    <3>1. OVERHEAD * Y <= OVERHEAD * X + OVERHEAD
      <4>1. X + 1 \in Nat
        BY <1>10
      <4>2. OVERHEAD * Y <= OVERHEAD * (X + 1)
        BY <1>1, <1>9, <1>10, <2>2, <4>1
      <4> QED BY <1>10, <4>2
    <3> QED BY <1>1, <1>4, <1>6, <1>10, <2>2, <3>1
  <2>3. CASE Y <= X /\ own /\ cost = data /\ Q = P + data
    <3>1. OVERHEAD * Y <= OVERHEAD * X
      BY <1>1, <1>9, <1>10, <2>3
    <3> QED BY <1>4, <1>6, <1>10, <2>3, <3>1
  <2> QED BY <1>11, <2>1, <2>2, <2>3
<1>13. P + OVERHEAD * X \in Nat /\ Q + OVERHEAD * Y \in Nat
  BY <1>4, <1>8, <1>10
<1> QED BY <1>2, <1>7, <1>12, <1>13 DEF X, Y, own, cost

\* Place by place: what is in a datagram is what used says, and used never
\* passes the MTU.
LEMMA PackedFits ==
    ASSUME NEW e, NEW acks, NEW ask, NEW una, NEW push, NEW last,
           Writable(acks, una, push, last),
           NEW d \in Packed(e, acks, ask, una, push, last)
    PROVE  DatagramBytes(d) <= MTU
<1> DEFINE n == Len(acks)
           f == Filled(acks, ask, una, push, last)
<1>1. /\ acks \in Seq(Nat) /\ n \in Nat /\ una \in Nat /\ last \in Nat
      /\ n + 2 <= last /\ push \in SUBSET Seg /\ IsFiniteSet(push)
      /\ \A s \in push : s.sn \in Nat /\ una <= s.sn /\ n + 3 + s.sn - una <= last
      /\ MTU \in Nat
  BY LenProperties, KcpAssumption DEF Writable, Seg
<1>2. PICK sum : SumOver(SUBSET push, sum)
  BY <1>1, SumExists
<1>3. IsFill(acks, ask, una, push, last, f)
  BY <1>1, FilledDef
<1>4. PICK k \in 1..f[last].dg :
        d = [to |-> Peer(e),
             wnd |-> WndUnused(e),
             una |-> rcv_nxt[e],
             acks |-> {acks[i] : i \in {i \in 1..n : f[i].dg = k}},
             wask |-> "send" \in ask /\ f[n + 1].dg = k,
             wins |-> "tell" \in ask /\ f[n + 2].dg = k,
             push |-> {s \in push : f[n + 3 + s.sn - una].dg = k}]
  BY Zenon DEF Packed
<1> HIDE DEF f
<1>5. /\ f[0] = [dg |-> 1, used |-> 0]
      /\ \A j \in 0..last : f[j] \in [dg : Nat \ {0}, used : 0..MTU]
      /\ \A j \in Nat : j + 1 <= last =>
           \/ /\ f[j + 1].dg = f[j].dg + 1
              /\ f[j + 1].used = Cost(acks, ask, una, push, j + 1)
           \/ /\ f[j + 1].dg = f[j].dg
              /\ f[j + 1].used = f[j].used + Cost(acks, ask, una, push, j + 1)
  <2>1. FillOK(acks, ask, una, push, last, f)
    BY <1>3, FillTypes
  <2> QED BY <2>1 DEF FillOK
<1>6. k \in Nat /\ k <= f[last].dg /\ last \in 0..last
  <2>1. last \in 0..last
    BY <1>1, SMT
  <2>2. f[last].dg \in Nat
    BY <1>5, <2>1
  <2> QED BY <2>1, <2>2, SMT
<1> DEFINE bytes(j) == PartBytes(acks, ask, una, push, f, sum, k, j)
           room(j) == IF k < f[j].dg THEN MTU
                      ELSE IF k = f[j].dg THEN f[j].used ELSE 0
           S == {j \in Nat : j <= last =>
                    /\ IsFiniteSet(AckPart(acks, f, k, j))
                    /\ bytes(j) \in Nat
                    /\ bytes(j) <= room(j)}
<1>7. 0 \in S
  <2>1. /\ AckPart(acks, f, k, 0) = {}
        /\ PushPart(acks, una, push, f, k, 0) = {}
        /\ OnePart(n + 1, f, k, 0) = 0 /\ OnePart(n + 2, f, k, 0) = 0
    <3>1. \A i \in 1..n : ~(i <= 0)
      BY <1>1, SMT
    <3>2. ~(n + 1 <= 0) /\ ~(n + 2 <= 0)
      BY <1>1, SMT
    <3>3. \A m, u, x \in Nat : u <= x => ~(m + 3 + x - u <= 0)
      BY SMT
    <3>4. \A s \in push : ~(n + 3 + s.sn - una <= 0)
      BY <1>1, <3>3
    <3> QED BY <3>1, <3>2, <3>4 DEF AckPart, PushPart, OnePart
  <2>2. sum[{}] = 0
    <3>1. {} \in SUBSET push
      OBVIOUS
    <3> QED BY <1>2, <3>1, Zenon DEF SumOver
  <2>3. bytes(0) = 0
    <3>1. bytes(0) = 0 + OVERHEAD * (0 + (0 + 0))
      BY <2>1, <2>2, FS_EmptySet DEF PartBytes
    <3> HIDE DEF bytes
    <3> QED BY <3>1, KcpAssumption, SMT
  <2>4. 0 <= room(0)
    BY <1>1, <1>5
  <2>5. IsFiniteSet(AckPart(acks, f, k, 0))
    BY <2>1, FS_EmptySet
  <2> HIDE DEF bytes, room
  <2> QED BY <2>3, <2>4, <2>5
<1>8. ASSUME NEW j \in S PROVE j + 1 \in S
  <2>1. SUFFICES ASSUME j + 1 <= last
                 PROVE  /\ IsFiniteSet(AckPart(acks, f, k, j + 1))
                        /\ bytes(j + 1) \in Nat /\ bytes(j + 1) <= room(j + 1)
    OBVIOUS
  <2> DEFINE cost == Cost(acks, ask, una, push, j + 1)
  <2>2. j \in Nat /\ j <= last /\ j \in 0..last /\ j + 1 \in 0..last
        /\ j + 1 \in Nat \ {0}
    BY <1>1, <2>1, SMT
  <2>3. /\ IsFiniteSet(AckPart(acks, f, k, j))
        /\ bytes(j) \in Nat /\ bytes(j) <= room(j)
    BY <2>2
  <2>4. /\ IsFiniteSet(AckPart(acks, f, k, j + 1))
        /\ bytes(j + 1) \in Nat
        /\ bytes(j + 1) <= bytes(j) + (IF f[j + 1].dg = k THEN cost ELSE 0)
    BY <1>2, <1>6, <2>2, <2>3, BytesGrow
  <2>5. cost \in Nat /\ cost <= MTU
    BY <2>2, CostCases DEF CostOK
  <2>6. /\ f[j].dg \in Nat /\ f[j].used \in 0..MTU
        /\ f[j + 1].dg \in Nat /\ f[j + 1].used \in 0..MTU
        /\ \/ f[j + 1].dg = f[j].dg + 1 /\ f[j + 1].used = cost
           \/ f[j + 1].dg = f[j].dg /\ f[j + 1].used = f[j].used + cost
    BY <1>5, <2>1, <2>2
  <2> HIDE DEF bytes, cost
  <2>7. bytes(j + 1) <= room(j + 1)
    <3> DEFINE a == bytes(j)
               b == bytes(j + 1)
               g == f[j].dg
               h == f[j + 1].dg
               u == f[j].used
               v == f[j + 1].used
    <3>2. /\ a \in Nat /\ b \in Nat /\ cost \in Nat /\ MTU \in Nat
          /\ g \in Nat /\ h \in Nat /\ u \in 0..MTU /\ v \in 0..MTU /\ k \in Nat
          /\ a <= IF k < g THEN MTU ELSE IF k = g THEN u ELSE 0
          /\ b <= a + (IF h = k THEN cost ELSE 0)
          /\ (h = g + 1 /\ v = cost) \/ (h = g /\ v = u + cost)
      BY <1>1, <1>6, <2>3, <2>4, <2>5, <2>6
    <3> HIDE DEF a, b, g, h, u, v
    <3>3. b <= IF k < h THEN MTU ELSE IF k = h THEN v ELSE 0
      BY <3>2, SMT
    <3> QED BY <3>3 DEF b, h, v
  <2> QED BY <2>4, <2>7
<1>9. S \in SUBSET Nat
  OBVIOUS
<1> HIDE DEF S
<1>10. last \in S
  BY <1>1, <1>7, <1>8, <1>9, Induct, Zenon
<1>11. bytes(last) <= MTU
  <2>1. bytes(last) \in Nat /\ bytes(last) <= room(last) /\ room(last) \in Nat
        /\ room(last) <= MTU
    <3>1. f[last].used \in 0..MTU
      BY <1>5, <1>6
    <3>2. room(last) \in Nat /\ room(last) <= MTU
      BY <1>1, <3>1
    <3>3. bytes(last) \in Nat /\ bytes(last) <= room(last)
      BY <1>1, <1>10 DEF S
    <3> QED BY <3>2, <3>3
  <2> HIDE DEF bytes, room
  <2> QED BY <1>1, <2>1, SMT
<1>12. DatagramBytes(d) = bytes(last)
  <2>1. /\ d.acks = AckPart(acks, f, k, last)
        /\ d.push = PushPart(acks, una, push, f, k, last)
    <3>1. \A i \in 1..n : i <= last
      BY <1>1, SMT
    <3> QED BY <1>1, <1>4, <3>1 DEF AckPart, PushPart
  <2>2. /\ (IF d.wask THEN 1 ELSE 0) =
              IF "send" \in ask THEN OnePart(n + 1, f, k, last) ELSE 0
        /\ (IF d.wins THEN 1 ELSE 0) =
              IF "tell" \in ask THEN OnePart(n + 2, f, k, last) ELSE 0
    <3>1. n + 1 <= last /\ n + 2 <= last
      BY <1>1, SMT
    <3>2. /\ d.wask <=> "send" \in ask /\ f[n + 1].dg = k
          /\ d.wins <=> "tell" \in ask /\ f[n + 2].dg = k
      BY <1>4
    <3> QED BY <3>1, <3>2 DEF OnePart
  <2>3. d.push \in SUBSET push
    BY <2>1 DEF PushPart
  <2>4. DatagramBytes(d) =
          sum[d.push] + OVERHEAD * (Cardinality(d.acks)
             + ((IF d.wask THEN 1 ELSE 0) + (IF d.wins THEN 1 ELSE 0)))
    BY <1>1, <1>2, <2>3, BytesOfPart
  <2> QED BY <2>1, <2>2, <2>4 DEF PartBytes
<1> HIDE DEF bytes
<1> QED BY <1>11, <1>12

\* No fragment is longer than MSS.
LEMMA FragmentFits ==
    ASSUME NEW m \in Nat, NEW len \in Nat, NEW i \in 1..FragCount(len)
    PROVE  Fragments(m, len)[i].len <= MSS
<1> DEFINE n == FragCount(len)
<1>1. n \in Nat \ {0}
  BY FragCountPositive
<1>2. len - (n - 1) * MSS <= MSS
  <2>1. CASE len <= MSS
    <3>1. n = 1
      BY <2>1 DEF FragCount
    <3> QED BY <2>1, <3>1, MssType, SMT
  <2>2. CASE ~(len <= MSS)
    <3>1. n = (len + MSS - 1) \div MSS
      BY <2>2 DEF FragCount
    <3>2. \A a \in Nat, b \in Nat \ {0} : a < b * (a \div b) + b
      BY SMT
    <3>3. len + MSS - 1 \in Nat /\ MSS \in Nat \ {0}
      BY MssType, SMT
    <3> HIDE DEF n
    <3>4. len + MSS - 1 < MSS * n + MSS
      BY <3>1, <3>2, <3>3
    <3>5. (n - 1) * MSS = MSS * n - MSS /\ MSS * n \in Int
      BY <1>1, <3>3, SMT
    <3> QED BY <1>1, <3>3, <3>4, <3>5, SMT
  <2> QED BY <2>1, <2>2
<1>3. Fragments(m, len)[i].len = IF i < n THEN MSS ELSE len - (n - 1) * MSS
  BY FragmentFields
<1> HIDE DEF n
<1> QED BY <1>2, <1>3, MssType

\* Nor is a fragment of the stream, wherever ikcp_send cut it.
LEMMA StreamFits ==
    ASSUME QueueInv, NEW e \in Ends, NEW i \in 1..Len(stream[e])
    PROVE  stream[e][i].len <= MSS
<1>1. PICK m \in Nat, len \in MsgLens : InMessage(e, i, m, len)
  BY DEF QueueInv, WholeMessages
<1>2. len \in Nat
  BY KcpAssumption
<1>3. i - m \in 1..FragCount(len) /\ m + (i - m) = i
  <2>1. /\ FragCount(len) \in Nat /\ i \in (m + 1)..(m + FragCount(len))
    BY <1>1, <1>2, FragCountPositive DEF InMessage
  <2> QED BY <2>1, SMT
<1>4. stream[e][i] = Fragments(m, len)[i - m]
  BY <1>1, <1>3 DEF InMessage
<1> QED BY <1>2, <1>3, <1>4, FragmentFits

\* Numbered segments of one end whose numbers are between una and to.
LEMMA CarriedFinite ==
    ASSUME QueueInv, NEW e \in Ends, NEW push \in SUBSET Seg,
           NEW una \in Nat, NEW to \in Nat, to <= Len(stream[e]),
           \A s \in push : /\ una <= s.sn /\ s.sn < to
                           /\ s.frag = stream[e][s.sn + 1]
    PROVE  /\ IsFiniteSet(push)
           /\ \A s, t \in push : s.sn = t.sn => s = t
           /\ \A s \in push : Size(s) <= MTU
<1>1. \A s, t \in push : s.sn = t.sn => s = t
  <2>1. \A s \in push : s = [sn |-> s.sn, frag |-> s.frag]
    BY DEF Seg
  <2> QED BY <2>1
<1>2. IsFiniteSet(push)
  <2> DEFINE num == [s \in push |-> s.sn]
  <2>1. \A s \in push : s.sn \in una..to
    <3>1. \A s \in push : s.sn \in Nat
      BY DEF Seg
    <3> QED BY <3>1, SMT
  <2>2. num \in Injection(push, una..to)
    BY <1>1, <2>1 DEF Injection, IsInjective
  <2>3. IsFiniteSet(una..to)
    BY FS_Interval
  <2> QED BY <2>2, <2>3, FS_Injection
<1>3. ASSUME NEW s \in push PROVE Size(s) <= MTU
  <2>1. s.sn \in Nat /\ s.frag.len \in Nat /\ s.sn < to
    BY DEF Seg, Frag
  <2>2. Len(stream[e]) \in Nat
    BY LenProperties DEF QueueInv, StreamInv, TypeOK
  <2>3. s.sn + 1 \in 1..Len(stream[e])
    BY <2>1, <2>2, SMT
  <2>4. s.frag.len <= MSS
    BY <2>3, StreamFits
  <2> QED BY <2>1, <2>4, KcpAssumption, SMT DEF Size, MSS
<1> QED BY <1>1, <1>2, <1>3

\* What ikcp_flush writes is such a collection.
LEMMA FlushWritable ==
    ASSUME BufferInv, QueueInv, NEW e \in Ends, NEW overdue \in SUBSET snd_buf[e],
           NEW n \in 0..Len(snd_queue[e])
    PROVE  Writable(acklist[e], snd_una[e], Numbered(e, n) \union overdue,
                    Len(acklist[e]) + 2 + (snd_nxt[e] + n - snd_una[e]))
<1> DEFINE a == Len(acklist[e])
           una == snd_una[e]
           nxt == snd_nxt[e]
           fresh == Numbered(e, n)
           push == fresh \union overdue
           last == a + 2 + (nxt + n - una)
<1>1. /\ acklist[e] \in Seq(Nat) /\ a \in Nat /\ una \in Nat /\ nxt \in Nat
      /\ n \in Nat /\ Len(snd_queue[e]) \in Nat /\ n <= Len(snd_queue[e])
      /\ snd_buf[e] \in SUBSET Seg /\ Len(stream[e]) \in Nat
  <2>1. /\ acklist[e] \in Seq(Nat) /\ una \in Nat /\ nxt \in Nat
        /\ snd_queue[e] \in Seq(Frag) /\ snd_buf[e] \in SUBSET Seg
        /\ stream[e] \in Seq(Frag)
    BY DEF BufferInv, TypeOK
  <2>2. Len(snd_queue[e]) \in Nat /\ a \in Nat /\ Len(stream[e]) \in Nat
    BY <2>1, LenProperties
  <2> QED BY <2>1, <2>2, SMT
<1>2. una <= nxt /\ \A s \in overdue : una <= s.sn /\ s.sn < nxt
  BY DEF BufferInv, Bounds, SndBounded
<1>3. /\ \A s \in overdue : s.sn < nxt /\ s.frag = stream[e][s.sn + 1]
      /\ Len(stream[e]) = nxt + Len(snd_queue[e])
      /\ \A i \in 1..Len(snd_queue[e]) : snd_queue[e][i] = stream[e][nxt + i]
  BY DEF QueueInv, StreamInv, SegmentsGenuine, Carries, StreamSplit
<1>4. push \in SUBSET Seg
  BY <1>1, NumberedType DEF BufferInv
<1>5. nxt + n \in Nat /\ nxt + n <= Len(stream[e])
  <2>1. nxt + n \in Nat
    BY <1>1
  <2>2. \A x \in Nat : x = nxt + Len(snd_queue[e]) => nxt + n <= x
    BY <1>1, SMT
  <2> QED BY <1>1, <1>3, <2>1, <2>2
<1>6. ASSUME NEW s \in push
      PROVE  una <= s.sn /\ s.sn < nxt + n /\ s.frag = stream[e][s.sn + 1]
  <2>1. s.sn \in Nat
    BY <1>4 DEF Seg
  <2>2. CASE s \in overdue
    <3>1. una <= s.sn /\ s.sn < nxt
      BY <1>2, <2>2
    <3>2. s.sn < nxt + n
      BY <1>1, <2>1, <3>1, SMT
    <3> QED BY <1>3, <2>2, <3>1, <3>2
  <2>3. CASE s \in fresh
    <3>1. PICK i \in 1..n : s = [sn |-> nxt + i - 1, frag |-> snd_queue[e][i]]
      BY <2>3 DEF Numbered
    <3>2. /\ s.sn = nxt + i - 1 /\ s.frag = snd_queue[e][i]
      BY <3>1
    <3>3. i \in 1..Len(snd_queue[e]) /\ i \in Nat
      BY <1>1, SMT
    <3>4. s.frag = stream[e][nxt + i]
      BY <1>3, <3>2, <3>3
    <3>5. nxt + i = s.sn + 1
      <4>1. \A x, y, z \in Nat : x = y + z - 1 => y + z = x + 1
        BY SMT
      <4> QED BY <1>1, <2>1, <3>2, <3>3, <4>1
    <3>6. una <= s.sn /\ s.sn < nxt + n
      BY <1>1, <1>2, <3>2, <3>3, SMT
    <3> QED BY <3>4, <3>5, <3>6
  <2> QED BY <2>2, <2>3
<1> HIDE DEF push, fresh
<1>7. /\ IsFiniteSet(push)
      /\ \A s, t \in push : s.sn = t.sn => s = t
      /\ \A s \in push : Size(s) <= MTU
  <2> DEFINE to == nxt + n
  <2>1. to \in Nat /\ to <= Len(stream[e])
    BY <1>5
  <2>2. \A s \in push : /\ una <= s.sn /\ s.sn < to
                        /\ s.frag = stream[e][s.sn + 1]
    BY <1>6
  <2> HIDE DEF to
  <2> QED BY <1>1, <1>4, <2>1, <2>2, CarriedFinite, ZenonT(60)
<1>8. /\ last \in Nat /\ a + 2 <= last
      /\ \A s \in push : a + 3 + s.sn - una <= last
  <2>1. last \in Nat /\ a + 2 <= last
    <3>1. \A x, y, z, w \in Nat :
            z <= y => /\ x + 2 + (y + w - z) \in Nat
                      /\ x + 2 <= x + 2 + (y + w - z)
      BY SMT
    <3> QED BY <1>1, <1>2, <3>1, Zenon
  <2>2. ASSUME NEW s \in push PROVE a + 3 + s.sn - una <= last
    <3>1. s.sn \in Nat /\ s.sn < nxt + n
      BY <1>4, <1>6 DEF Seg
    <3> QED BY <1>1, <3>1, SMT
  <2> QED BY <2>1, <2>2
<1> HIDE DEF last
<1>9. Writable(acklist[e], una, push, last)
  BY <1>1, <1>4, <1>6, <1>7, <1>8 DEF Writable
<1> QED BY <1>9 DEF push, fresh, last

MtuInv == BufferInv /\ QueueInv /\ DatagramFitsMtu

\* What is sent fits; the datagrams in flight are as they were.
LEMMA FlushFits ==
    ASSUME MtuInv, NEW e \in Ends, NEW overdue \in SUBSET snd_buf[e],
           NEW due \in BOOLEAN, Flush(e, overdue, due)
    PROVE  DatagramFitsMtu'
<1> DEFINE n == Moved(e, imin(cwnd[e], imin(WND_SND, rmt_wnd[e])))
           push == Numbered(e, n) \union overdue
           last == Len(acklist[e]) + 2 + (snd_nxt[e] + n - snd_una[e])
<1>1. net' = net \union Packed(e, acklist[e], Asked(e, due), snd_una[e], push, last)
  BY DEF Flush
<1>2. n \in 0..Len(snd_queue[e])
  <2>1. imin(cwnd[e], imin(WND_SND, rmt_wnd[e])) \in Nat
    BY KcpAssumption, SMT DEF MtuInv, BufferInv, TypeOK, imin
  <2> QED BY <2>1, MovedType DEF MtuInv, BufferInv
<1> HIDE DEF n
<1>3. Writable(acklist[e], snd_una[e], push, last)
  BY <1>2, FlushWritable DEF MtuInv
<1> HIDE DEF push, last
<1>4. \A d \in Packed(e, acklist[e], Asked(e, due), snd_una[e], push, last) :
        DatagramBytes(d) <= MTU
  BY <1>3, PackedFits
<1>5. \A d \in net' : DatagramBytes(d) <= MTU
  BY <1>1, <1>4 DEF MtuInv, DatagramFitsMtu
<1> QED BY <1>5, Zenon DEF DatagramFitsMtu

\* However acknowledgements, window commands and segments, new or resent, fall
\* together in one flush, no call of ikcp_output carries more than the MTU,
\* for any MTU and windows (ikcp.c:956, 992, 1003, 1086).
THEOREM NoDatagramTooLong == Spec => []DatagramFitsMtu
<1>1. Init => MtuInv
  <2>1. Init => DatagramFitsMtu
    BY DEF Init, DatagramFitsMtu
  <2> QED BY <2>1, InitBuffers, InitQueue DEF MtuInv
<1>2. MtuInv /\ [Next]_vars => MtuInv'
  <2> SUFFICES ASSUME MtuInv, [Next]_vars PROVE DatagramFitsMtu'
    BY StepBuffers, StepQueue DEF MtuInv
  <2>1. ASSUME net' \subseteq net PROVE DatagramFitsMtu'
    <3>1. \A d \in net' : DatagramBytes(d) <= MTU
      BY <2>1 DEF MtuInv, DatagramFitsMtu
    <3> QED BY <3>1, Zenon DEF DatagramFitsMtu
  <2>2. ASSUME NEW e \in Ends, NEW overdue \in SUBSET snd_buf[e],
               NEW due \in BOOLEAN, Flush(e, overdue, due)
        PROVE  DatagramFitsMtu'
    BY <2>2, FlushFits
  <2>3. CASE net' \subseteq net
    BY <2>1, <2>3
  <2> QED
    BY <2>2, <2>3
       DEF Next, Step, Again, Send, Recv, InputPush, Lose, Deliver, Duplicate, vars
<1> QED BY <1>1, <1>2, PTL DEF Spec, MtuInv
=============================================================================
