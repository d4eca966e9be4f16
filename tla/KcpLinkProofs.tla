---------------------------- MODULE KcpLinkProofs ----------------------------
(***************************************************************************)
(* Proofs about KcpLink, for every window, MTU, buffer, message length and *)
(* bound: the types, then that the segments in flight, in the buffers and  *)
(* in the queues carry what was numbered, hence that the applications get  *)
(* each other's stream in order, and that no segment is given up before    *)
(* the peer has it.                                                        *)
(***************************************************************************)
EXTENDS KcpLink, TLAPS, SequenceTheorems, WellFoundedInduction

\* The two ends are each other's peers.
LEMMA Peers ==
    \A e \in Ends : Peer(e) \in Ends /\ Peer(Peer(e)) = e /\ Peer(e) # e
BY DEF Ends, Peer

\* Induction over a set of naturals.
LEMMA Induct ==
    ASSUME NEW S \in SUBSET Nat, 0 \in S, \A n \in S : n + 1 \in S
    PROVE  \A n \in Nat : n \in S
<1> DEFINE T == Nat \ S
           R == OpToRel(<, Nat)
<1> SUFFICES ASSUME T # {} PROVE FALSE
  BY DEF T
<1>1. IsWellFoundedOn(R, Nat)
  BY NatLessThanWellFounded, Zenon
<1>2. R = {ss \in Nat \X Nat : ss[1] < ss[2]}
  BY Zenon DEF OpToRel
<1>3. T \subseteq Nat
  OBVIOUS
<1> HIDE DEF T, R
<1>4. PICK x \in T : \A y \in T : ~ (<<y, x>> \in R)
  BY <1>1, <1>3, WFMin, Zenon
<1>5. x # 0 /\ x \in Nat /\ x - 1 \in Nat /\ x - 1 < x /\ x = (x - 1) + 1
  BY <1>3, SMT DEF T
<1>6. <<x - 1, x>> \in R
  BY <1>2, <1>5
<1>7. x - 1 \notin T
  BY <1>4, <1>6
<1> QED BY <1>5, <1>7 DEF T

\* The segment size is positive.
LEMMA MssType == MSS \in Nat \ {0}
BY KcpAssumption, SMT DEF MSS

\* A quotient of naturals is a natural, and the divisor fits it that often.
LEMMA Quotient ==
    ASSUME NEW a \in Nat, NEW b \in Nat \ {0}
    PROVE  a \div b \in Nat /\ b * (a \div b) <= a
BY SMT

-----------------------------------------------------------------------------
(***************************************************************************)
(* Types                                                                   *)
(***************************************************************************)

\* ikcp_send cuts a message into fragments whose lengths are not negative.
LEMMA FragmentsType ==
    ASSUME NEW m \in Nat, NEW len \in Nat
    PROVE  Fragments(m, len) \in Seq(Frag)
<1> DEFINE count == FragCount(len)
<1>1. count \in Nat /\ (count - 1) * MSS <= len /\ count >= 1
  <2>1. CASE len <= MSS
    BY <2>1, MssType, SMT DEF FragCount
  <2>2. CASE ~(len <= MSS)
    <3>1. count = (len + MSS - 1) \div MSS
      BY <2>2 DEF FragCount
    <3>2. count \in Nat /\ MSS * count <= len + MSS - 1
      BY <3>1, MssType, Quotient, len + MSS - 1 \in Nat, SMT
    <3>3. count >= 1
      BY <2>2, <3>1, <3>2, MssType, SMT
    <3>4. (count - 1) * MSS = MSS * count - MSS
      BY <3>2, MssType, SMT
    <3> QED BY <3>2, <3>3, <3>4, MssType, SMT
  <2> QED BY <2>1, <2>2
<1>2. ASSUME NEW i \in 1..count
      PROVE  [msg |-> m, frg |-> count - i,
              len |-> IF i < count THEN MSS ELSE len - (count - 1) * MSS]
                 \in Frag
  <2>1. count - i \in Nat
    BY <1>1, <1>2, SMT
  <2>2. len - (count - 1) * MSS \in Nat
    BY <1>1, MssType, SMT
  <2> QED BY <2>1, <2>2, MssType DEF Frag
<1> QED BY <1>1, <1>2, IsASeq DEF Fragments

\* The moving loop keeps the types of what it moves between.
LEMMA MoveType ==
    ASSUME TypeOK, NEW e \in Ends, NEW buf \in SUBSET Seg,
           NEW queue \in Seq(Frag), NEW m \in Nat,
           MoveAvailable(e, buf, queue, m)
    PROVE  /\ rcv_queue' \in [Ends -> Seq(Frag)]
           /\ rcv_buf' \in [Ends -> SUBSET Seg]
           /\ rcv_nxt' \in [Ends -> Nat]
<1> DEFINE moved == [i \in 1..m |-> SegAt(buf, rcv_nxt[e] + i - 1).frag]
<1>1. moved \in Seq(Frag)
  <2>1. ASSUME NEW i \in 1..m
        PROVE  SegAt(buf, rcv_nxt[e] + i - 1).frag \in Frag
    <3>1. rcv_nxt[e] + i - 1 \in Sns(buf)
      BY DEF MoveAvailable, Movable
    <3>2. SegAt(buf, rcv_nxt[e] + i - 1) \in buf
      BY <3>1 DEF Sns, SegAt
    <3> QED BY <3>2 DEF Seg
  <2> QED BY <2>1, IsASeq
<1>2. queue \o moved \in Seq(Frag)
  BY <1>1, ConcatProperties
<1>3. rcv_queue' = [rcv_queue EXCEPT ![e] = queue \o moved]
  BY DEF MoveAvailable
<1> QED BY <1>2, <1>3 DEF MoveAvailable, TypeOK

\* A datagram ikcp_flush writes is one, and its segments are among those the
\* flush sends.
LEMMA PackedType ==
    ASSUME TypeOK, NEW e \in Ends, NEW acks \in Seq(Nat),
           NEW ask, NEW una, NEW push \in SUBSET Seg, NEW last,
           NEW d \in Packed(e, acks, ask, una, push, last)
    PROVE  /\ d \in Datagram
           /\ d.to = Peer(e) /\ d.una = rcv_nxt[e] /\ d.push \subseteq push
           /\ \A sn \in d.acks : \E i \in 1..Len(acks) : sn = acks[i]
<1>1. WndUnused(e) \in Nat
  <2>1. Len(rcv_queue[e]) \in Nat
    BY LenProperties DEF TypeOK
  <2> QED BY <2>1, KcpAssumption, SMT DEF WndUnused
<1>2. ASSUME NEW i \in 1..Len(acks) PROVE acks[i] \in Nat
  BY ElementOfSeq
<1>3. rcv_nxt[e] \in Nat
  BY DEF TypeOK
<1>4. Peer(e) \in Ends
  BY Peers
<1> DEFINE fill == Filled(acks, ask, una, push, last)
           Here(k, j) == fill[j].dg = k
           n == Len(acks)
<1>5. PICK k : d =
        [to |-> Peer(e), wnd |-> WndUnused(e), una |-> rcv_nxt[e],
         acks |-> {acks[i] : i \in {i \in 1..n : Here(k, i)}},
         wask |-> "send" \in ask /\ Here(k, n + 1),
         wins |-> "tell" \in ask /\ Here(k, n + 2),
         push |-> {s \in push : Here(k, n + 3 + s.sn - una)}]
  BY Zenon DEF Packed
<1>6. d.acks = {acks[i] : i \in {i \in 1..n : Here(k, i)}}
  BY <1>5
<1>7. \A sn \in d.acks : \E i \in 1..n : sn = acks[i]
  BY <1>6
<1>8. d.push \subseteq push /\ d.to = Peer(e) /\ d.una = rcv_nxt[e]
  BY <1>5
<1>9. d.wask \in BOOLEAN /\ d.wins \in BOOLEAN
  BY <1>5
<1>10. d \in Datagram
  <2>1. d.acks \subseteq Nat /\ d.push \subseteq Seg
    BY <1>2, <1>7, <1>8
  <2> HIDE DEF Here
  <2> QED BY <1>1, <1>3, <1>4, <1>5, <1>9, <2>1 DEF Datagram
<1> QED BY <1>7, <1>8, <1>10

USE DEF sndVars, congVars, probeVars, rcvVars, histVars

LEMMA SendType ==
    ASSUME TypeOK, NEW e \in Ends, NEW len \in MsgLens, Send(e, len)
    PROVE  TypeOK'
<1> DEFINE frags == Fragments(Len(stream[e]), len)
<1>1. frags \in Seq(Frag)
  <2>1. Len(stream[e]) \in Nat /\ len \in Nat
    BY KcpAssumption, LenProperties DEF TypeOK
  <2> QED BY <2>1, FragmentsType
<1>2. snd_queue[e] \o frags \in Seq(Frag) /\ stream[e] \o frags \in Seq(Frag)
  BY <1>1, ConcatProperties DEF TypeOK
<1>3. /\ snd_queue' = [snd_queue EXCEPT ![e] = snd_queue[e] \o frags]
      /\ stream' = [stream EXCEPT ![e] = stream[e] \o frags]
  BY DEF Send
<1> HIDE DEF frags
<1>4. snd_queue' \in [Ends -> Seq(Frag)] /\ stream' \in [Ends -> Seq(Frag)]
  BY <1>2, <1>3 DEF TypeOK
<1> QED BY <1>4 DEF Send, TypeOK

LEMMA RecvType ==
    ASSUME TypeOK, NEW e \in Ends, Recv(e)
    PROVE  TypeOK'
<1> DEFINE q == rcv_queue[e]
<1>1. PICK k \in 1..Len(q) :
        /\ consumed' = [consumed EXCEPT ![e] = @ \o SubSeq(q, 1, k)]
        /\ \E m \in 0..WND_RCV :
              MoveAvailable(e, rcv_buf[e], SubSeq(q, k + 1, Len(q)), m)
        /\ probe' = [probe EXCEPT ![e] =
                IF Len(q) >= WND_RCV /\ Len(rcv_queue'[e]) < WND_RCV
                THEN @ \union {"tell"} ELSE @]
  BY DEF Recv
<1>2. q \in Seq(Frag) /\ k \in Nat /\ Len(q) \in Nat
  BY LenProperties DEF TypeOK
<1>3. SubSeq(q, 1, k) \in Seq(Frag) /\ SubSeq(q, k + 1, Len(q)) \in Seq(Frag)
  <2> HIDE DEF q
  <2>1. /\ \A i \in 1..k : i \in 1..Len(q)
        /\ \A i \in (k + 1)..Len(q) : i \in 1..Len(q)
    BY <1>2, SMT
  <2> QED BY <1>2, <2>1, SubSeqProperties
<1>4. /\ rcv_queue' \in [Ends -> Seq(Frag)]
      /\ rcv_buf' \in [Ends -> SUBSET Seg]
      /\ rcv_nxt' \in [Ends -> Nat]
  <2>1. PICK m \in 0..WND_RCV :
          MoveAvailable(e, rcv_buf[e], SubSeq(q, k + 1, Len(q)), m)
    BY <1>1
  <2>2. m \in Nat /\ rcv_buf[e] \in SUBSET Seg
    BY KcpAssumption DEF TypeOK
  <2> QED BY <1>3, <2>1, <2>2, MoveType
<1>5. consumed' \in [Ends -> Seq(Frag)]
  BY <1>1, <1>3, ConcatProperties DEF TypeOK
<1>6. probe' \in [Ends -> SUBSET {"send", "tell"}]
  BY <1>1 DEF TypeOK
<1> QED BY <1>4, <1>5, <1>6 DEF Recv, TypeOK

\* The window functions stay in the naturals.
LEMMA GrownType ==
    ASSUME NEW cw \in Nat, NEW ss \in Nat, NEW inc \in Nat, NEW wnd \in Nat
    PROVE  /\ Grown(cw, ss, inc, wnd).cwnd \in Nat
           /\ Grown(cw, ss, inc, wnd).incr \in Nat
<1> DEFINE base == IF inc < MSS THEN MSS ELSE inc
           more == base + (MSS * MSS) \div base + MSS \div 16
<1>1. base \in Nat \ {0}
  BY MssType, SMT
<1>2. (MSS * MSS) \div base \in Nat
  <2>1. MSS * MSS \in Nat
    BY MssType, SMT
  <2> HIDE DEF base
  <2> QED BY <1>1, <2>1, Quotient
<1>3. more \in Nat
  BY <1>1, <1>2, MssType, SMT
<1>4. wnd * MSS \in Nat /\ inc + MSS \in Nat
  BY MssType, SMT
<1> HIDE DEF more
<1> DEFINE next == IF cw < ss THEN [cwnd |-> cw + 1, incr |-> inc + MSS]
                   ELSE [cwnd |-> IF (cw + 1) * MSS <= more THEN cw + 1 ELSE cw,
                         incr |-> more]
<1>5. next.cwnd \in Nat /\ next.incr \in Nat
  BY <1>3, <1>4
<1> HIDE DEF next
<1>6. Grown(cw, ss, inc, wnd) =
        IF cw >= wnd THEN [cwnd |-> cw, incr |-> inc]
        ELSE IF next.cwnd > wnd THEN [cwnd |-> wnd, incr |-> wnd * MSS]
        ELSE next
  BY Zenon DEF Grown, next, more, base
<1> QED BY <1>4, <1>5, <1>6

LEMMA MovedType ==
    ASSUME TypeOK, NEW e \in Ends, NEW win \in Nat
    PROVE  Moved(e, win) \in 0..Len(snd_queue[e])
<1>1. snd_una[e] \in Nat /\ snd_nxt[e] \in Nat /\ Len(snd_queue[e]) \in Nat
  BY LenProperties DEF TypeOK
<1> QED BY <1>1, SMT DEF Moved, imin

LEMMA NumberedType ==
    ASSUME TypeOK, NEW e \in Ends, NEW n \in 0..Len(snd_queue[e])
    PROVE  Numbered(e, n) \subseteq Seg
<1>1. ASSUME NEW i \in 1..n
      PROVE  snd_nxt[e] + i - 1 \in Nat /\ snd_queue[e][i] \in Frag
  <2>1. Len(snd_queue[e]) \in Nat /\ snd_nxt[e] \in Nat
    BY LenProperties DEF TypeOK
  <2>2. i \in 1..Len(snd_queue[e])
    BY <2>1, SMT
  <2> QED BY <2>1, <2>2, ElementOfSeq DEF TypeOK
<1> QED BY <1>1 DEF Numbered, Seg

LEMMA FlushType ==
    ASSUME TypeOK, NEW e \in Ends, NEW overdue \in SUBSET snd_buf[e],
           NEW due \in BOOLEAN, Flush(e, overdue, due)
    PROVE  TypeOK'
<1> DEFINE win == imin(cwnd[e], imin(WND_SND, rmt_wnd[e]))
           n == Moved(e, win)
           fresh == Numbered(e, n)
           last == Len(acklist[e]) + 2 + (snd_nxt[e] + n - snd_una[e])
           cut == IF overdue # {} THEN 1 ELSE cwnd[e]
<1>1. win \in Nat
  BY KcpAssumption, SMT DEF TypeOK, imin
<1>2. n \in 0..Len(snd_queue[e]) /\ Len(snd_queue[e]) \in Nat
  BY <1>1, MovedType, LenProperties DEF TypeOK
<1>3. fresh \subseteq Seg
  BY <1>2, NumberedType
<1> HIDE DEF n, win
<1>4. net' \subseteq Datagram
  <2>1. net' = net \union Packed(e, acklist[e], Asked(e, due), snd_una[e],
                                  fresh \union overdue, last)
    BY DEF Flush, n, win
  <2>2. fresh \union overdue \in SUBSET Seg /\ acklist[e] \in Seq(Nat)
    BY <1>3 DEF TypeOK
  <2>3. Packed(e, acklist[e], Asked(e, due), snd_una[e],
               fresh \union overdue, last) \subseteq Datagram
    <3> DEFINE push == fresh \union overdue
    <3> HIDE DEF push, last
    <3>1. \A d \in Packed(e, acklist[e], Asked(e, due), snd_una[e], push, last) :
              d \in Datagram
      BY <2>2, PackedType DEF push
    <3> QED BY <3>1 DEF push
  <2> QED BY <2>1, <2>3 DEF TypeOK
<1>5. /\ snd_queue' = [snd_queue EXCEPT ![e] = SubSeq(@, n + 1, Len(@))]
      /\ snd_buf' = [snd_buf EXCEPT ![e] = @ \union fresh]
      /\ snd_nxt' = [snd_nxt EXCEPT ![e] = @ + n]
      /\ acklist' = [acklist EXCEPT ![e] = <<>>]
      /\ probing' = [probing EXCEPT ![e] = (rmt_wnd[e] = 0)]
      /\ probe' = [probe EXCEPT ![e] = {}]
      /\ ssthresh' = [ssthresh EXCEPT ![e] =
              IF overdue = {} THEN @
              ELSE IF win \div 2 < THRESH_MIN THEN THRESH_MIN ELSE win \div 2]
      /\ cwnd' = [cwnd EXCEPT ![e] = IF cut < 1 THEN 1 ELSE cut]
      /\ incr' = [incr EXCEPT ![e] =
              IF overdue # {} \/ cut < 1 THEN MSS ELSE @]
      /\ UNCHANGED <<snd_una, rmt_wnd, rcvVars, rx, histVars>>
  BY DEF Flush, n, win
<1>6. snd_queue' \in [Ends -> Seq(Frag)]
  <2>1. SubSeq(snd_queue[e], n + 1, Len(snd_queue[e])) \in Seq(Frag)
    <3>1. snd_queue[e] \in Seq(Frag)
      BY DEF TypeOK
    <3>2. \A i \in (n + 1)..Len(snd_queue[e]) : snd_queue[e][i] \in Frag
      <4>1. \A i \in (n + 1)..Len(snd_queue[e]) : i \in 1..Len(snd_queue[e])
        BY <1>2, SMT
      <4> QED BY <3>1, <4>1, ElementOfSeq
    <3>3. n + 1 \in Int /\ Len(snd_queue[e]) \in Int
      BY <1>2
    <3> QED BY <3>2, <3>3, SubSeqProperties
  <2> QED BY <1>5, <2>1 DEF TypeOK
<1>7. snd_buf' \in [Ends -> SUBSET Seg] /\ snd_nxt' \in [Ends -> Nat]
  <2>1. snd_buf' \in [Ends -> SUBSET Seg]
    BY <1>3, <1>5 DEF TypeOK
  <2>2. snd_nxt[e] + n \in Nat /\ snd_nxt \in [Ends -> Nat]
    BY <1>2 DEF TypeOK
  <2> QED BY <1>5, <2>1, <2>2
<1>8. /\ ssthresh' \in [Ends -> Nat] /\ cwnd' \in [Ends -> Nat]
      /\ incr' \in [Ends -> Nat]
  BY <1>1, <1>5, MssType DEF TypeOK, THRESH_MIN
<1>9. /\ acklist' \in [Ends -> Seq(Nat)] /\ probing' \in [Ends -> BOOLEAN]
      /\ probe' \in [Ends -> SUBSET {"send", "tell"}]
  BY <1>5 DEF TypeOK
<1> QED BY <1>4, <1>5, <1>6, <1>7, <1>8, <1>9 DEF TypeOK

LEMMA InputType ==
    ASSUME TypeOK, NEW e \in Ends, NEW d \in net, NEW padded \in BOOLEAN,
           Input(e, d, padded), net' \subseteq net
    PROVE  TypeOK'
<1>1. d \in Datagram
  BY DEF TypeOK
<1>2. /\ rmt_wnd' \in [Ends -> Nat] /\ rx' \in [Ends -> SUBSET Seg]
      /\ snd_buf' \in [Ends -> SUBSET Seg]
      /\ probe' \in [Ends -> SUBSET {"send", "tell"}]
  BY <1>1 DEF Input, TypeOK, Datagram, Unacked
<1>3. PICK una \in Sns(Unacked(e, d)) \union {snd_nxt[e]} :
        LET grown == Grown(cwnd[e], ssthresh[e], incr[e], d.wnd)
            grows == una > snd_una[e] /\ ~padded
        IN  /\ snd_una' = [snd_una EXCEPT ![e] = una]
            /\ cwnd' = [cwnd EXCEPT ![e] = IF grows THEN grown.cwnd ELSE @]
            /\ incr' = [incr EXCEPT ![e] = IF grows THEN grown.incr ELSE @]
  BY DEF Input
<1>4. una \in Nat
  BY DEF Sns, Unacked, TypeOK, Seg
<1>5. /\ Grown(cwnd[e], ssthresh[e], incr[e], d.wnd).cwnd \in Nat
      /\ Grown(cwnd[e], ssthresh[e], incr[e], d.wnd).incr \in Nat
  BY <1>1, GrownType DEF TypeOK, Datagram
<1>6. /\ snd_una' \in [Ends -> Nat] /\ cwnd' \in [Ends -> Nat]
      /\ incr' \in [Ends -> Nat]
  BY <1>3, <1>4, <1>5 DEF TypeOK
<1> QED BY <1>2, <1>6 DEF Input, TypeOK

LEMMA InputPushType ==
    ASSUME TypeOK, NEW e \in Ends, InputPush(e)
    PROVE  TypeOK'
<1>1. PICK s \in rx[e] :
        /\ rx' = [rx EXCEPT ![e] = @ \ {s}]
        /\ acklist' = IF Accepts(e, s)
                      THEN [acklist EXCEPT ![e] = Append(@, s.sn)]
                      ELSE acklist
        /\ \/ /\ Keeps(e, s)
              /\ LET buf == IF s.sn \in Sns(rcv_buf[e]) THEN rcv_buf[e]
                            ELSE rcv_buf[e] \union {s}
                 IN  \E m \in 0..WND_RCV :
                        MoveAvailable(e, buf, rcv_queue[e], m)
           \/ /\ ~Keeps(e, s)
              /\ UNCHANGED rcvVars
  BY Zenon DEF InputPush
<1>2. s \in Seg /\ s.sn \in Nat
  BY DEF TypeOK, Seg
<1>3. rx' \in [Ends -> SUBSET Seg]
  BY <1>1 DEF TypeOK
<1>4. acklist' \in [Ends -> Seq(Nat)]
  <2>1. Append(acklist[e], s.sn) \in Seq(Nat)
    BY <1>2, AppendProperties DEF TypeOK
  <2> QED BY <1>1, <2>1 DEF TypeOK
<1>5. /\ rcv_queue' \in [Ends -> Seq(Frag)]
      /\ rcv_buf' \in [Ends -> SUBSET Seg]
      /\ rcv_nxt' \in [Ends -> Nat]
  <2>1. CASE ~Keeps(e, s)
    BY <1>1, <2>1 DEF TypeOK
  <2>2. CASE Keeps(e, s)
    <3> DEFINE buf == IF s.sn \in Sns(rcv_buf[e]) THEN rcv_buf[e]
                      ELSE rcv_buf[e] \union {s}
    <3>1. PICK m \in 0..WND_RCV : MoveAvailable(e, buf, rcv_queue[e], m)
      BY <1>1, <2>2
    <3>2. buf \in SUBSET Seg /\ rcv_queue[e] \in Seq(Frag) /\ m \in Nat
      BY <1>2, KcpAssumption DEF TypeOK
    <3> QED BY <3>1, <3>2, MoveType
  <2> QED BY <2>1, <2>2
<1> QED BY <1>3, <1>4, <1>5 DEF InputPush, TypeOK

LEMMA InitType == Init => TypeOK
BY KcpAssumption DEF Init, TypeOK, THRESH_MIN

\* Every step keeps the types (all of KcpLink's actions).
LEMMA StepType == TypeOK /\ [Next]_vars => TypeOK'
<1> SUFFICES ASSUME TypeOK, [Next]_vars PROVE TypeOK'
  OBVIOUS
<1>1. ASSUME NEW e \in Ends, NEW len \in MsgLens, Send(e, len) PROVE TypeOK'
  BY <1>1, SendType
<1>2. ASSUME NEW e \in Ends, Recv(e) PROVE TypeOK'
  BY <1>2, RecvType
<1>3. ASSUME NEW e \in Ends, NEW overdue \in SUBSET snd_buf[e],
             NEW due \in BOOLEAN, Flush(e, overdue, due)
      PROVE  TypeOK'
  BY <1>3, FlushType
<1>4. ASSUME NEW e \in Ends, NEW d \in net, NEW padded \in BOOLEAN,
             Deliver(e, d, padded) \/ Duplicate(e, d, padded)
      PROVE  TypeOK'
  <2>1. Input(e, d, padded) /\ net' \subseteq net
    BY <1>4 DEF Deliver, Duplicate
  <2> QED BY <2>1, InputType
<1>5. ASSUME NEW e \in Ends, InputPush(e) PROVE TypeOK'
  BY <1>5, InputPushType
<1>6. ASSUME NEW d \in net, Lose(d) PROVE TypeOK'
  BY <1>6 DEF Lose, TypeOK
<1>7. CASE UNCHANGED vars
  BY <1>7 DEF vars, TypeOK
<1> QED BY <1>1, <1>2, <1>3, <1>4, <1>5, <1>6, <1>7 DEF Next, Step, Again

\* The type invariant holds of every behaviour, for every value of the
\* constants.
THEOREM Types == Spec => []TypeOK
BY InitType, StepType, PTL DEF Spec

-----------------------------------------------------------------------------
(***************************************************************************)
(* The stream: StreamInv is inductive.                                     *)
(***************************************************************************)

\* A segment goes on carrying what was numbered while the stream only grows.
LEMMA CarriesStable ==
    ASSUME TypeOK, StreamSplit, NEW e \in Ends, NEW s \in Seg, Carries(e, s),
           \A i \in 1..Len(stream[e]) : stream'[e][i] = stream[e][i],
           snd_nxt'[e] \in Nat, snd_nxt'[e] >= snd_nxt[e]
    PROVE  Carries(e, s)'
<1>1. /\ s.sn \in Nat /\ snd_nxt[e] \in Nat /\ Len(stream[e]) \in Nat
      /\ Len(snd_queue[e]) \in Nat
  BY LenProperties DEF TypeOK, Seg
<1>2. s.sn + 1 \in 1..Len(stream[e])
  BY <1>1, SMT DEF Carries, StreamSplit
<1>3. s.sn < snd_nxt'[e]
  BY <1>1, SMT DEF Carries
<1> QED BY <1>2, <1>3 DEF Carries

\* q continues the stream of end e after its first base fragments
Continues(q, e, base) ==
    \A i \in 1..Len(q) : q[i] = stream[e][base + i]

\* all of segs were numbered by end e
AllCarry(e, segs) == \A s \in segs : Carries(e, s)

\* The moving loop appends the right fragments to the queue, whatever part
\* of the stream (the first base fragments) was handed out before.
LEMMA MoveStream ==
    ASSUME TypeOK, NEW e \in Ends, NEW buf \in SUBSET Seg,
           AllCarry(Peer(e), buf),
           NEW queue \in Seq(Frag), NEW base \in Nat,
           rcv_nxt[e] = base + Len(queue),
           rcv_nxt[e] <= snd_nxt[Peer(e)],
           Continues(queue, Peer(e), base),
           NEW m \in Nat, MoveAvailable(e, buf, queue, m)
    PROVE  /\ rcv_nxt'[e] = base + Len(rcv_queue'[e])
           /\ rcv_nxt'[e] <= snd_nxt[Peer(e)]
           /\ Continues(rcv_queue'[e], Peer(e), base)
           /\ rcv_buf'[e] \subseteq buf
           /\ \A f \in Ends \ {e} :
                /\ rcv_nxt'[f] = rcv_nxt[f] /\ rcv_queue'[f] = rcv_queue[f]
                /\ rcv_buf'[f] = rcv_buf[f]
<1> DEFINE moved == [i \in 1..m |-> SegAt(buf, rcv_nxt[e] + i - 1).frag]
           p == Peer(e)
<1>1. ASSUME NEW i \in 1..m
      PROVE  /\ moved[i] \in Frag
             /\ moved[i] = stream[p][rcv_nxt[e] + i]
             /\ rcv_nxt[e] + i <= snd_nxt[p]
  <2> DEFINE s == SegAt(buf, rcv_nxt[e] + i - 1)
  <2>1. rcv_nxt[e] + i - 1 \in Sns(buf)
    BY DEF MoveAvailable, Movable
  <2>2. s \in buf /\ s.sn = rcv_nxt[e] + i - 1
    BY <2>1 DEF Sns, SegAt
  <2>3. Carries(p, s) /\ s.frag \in Frag
    BY <2>2 DEF Seg, AllCarry
  <2>4. rcv_nxt[e] \in Nat /\ snd_nxt[p] \in Nat /\ i \in Nat
    BY Peers DEF TypeOK
  <2>5. s.sn + 1 = rcv_nxt[e] + i
    BY <2>2, <2>4, SMT
  <2>6. rcv_nxt[e] + i <= snd_nxt[p]
    BY <2>2, <2>3, <2>4, SMT DEF Carries
  <2> QED BY <2>3, <2>5, <2>6 DEF Carries
<1> HIDE DEF p
<1>2. moved \in Seq(Frag) /\ Len(moved) = m
  <2>1. moved \in [1..m -> Frag]
    BY <1>1
  <2> HIDE DEF moved
  <2>2. moved \in Seq(Frag) /\ DOMAIN moved = 1..m
    BY <2>1, SeqDef
  <2> QED BY <2>2, LenProperties, SMT
<1>3. /\ rcv_queue'[e] = queue \o moved
      /\ rcv_nxt'[e] = rcv_nxt[e] + m
      /\ rcv_buf'[e] \subseteq buf
      /\ \A f \in Ends \ {e} :
            /\ rcv_nxt'[f] = rcv_nxt[f] /\ rcv_queue'[f] = rcv_queue[f]
            /\ rcv_buf'[f] = rcv_buf[f]
  BY DEF MoveAvailable, TypeOK
<1>4. Len(queue) \in Nat /\ rcv_nxt[e] \in Nat /\ snd_nxt[p] \in Nat
  BY LenProperties, Peers DEF TypeOK, p
<1> HIDE DEF moved
<1>5. /\ Len(rcv_queue'[e]) = Len(queue) + m
      /\ \A i \in 1..(Len(queue) + m) :
            rcv_queue'[e][i] = IF i <= Len(queue) THEN queue[i]
                               ELSE moved[i - Len(queue)]
  <2>1. /\ Len(queue \o moved) = Len(queue) + Len(moved)
        /\ \A i \in 1..(Len(queue) + Len(moved)) :
              (queue \o moved)[i] = IF i <= Len(queue) THEN queue[i]
                                    ELSE moved[i - Len(queue)]
    <3>1. queue \in Seq(Frag) /\ moved \in Seq(Frag)
      BY <1>2
    <3> HIDE DEF moved
    <3> QED BY <3>1, ConcatProperties, ZenonT(60)
  <2> QED BY <1>2, <1>3, <2>1
<1>6. ASSUME NEW i \in 1..(Len(queue) + m)
      PROVE  rcv_queue'[e][i] = stream[p][base + i]
  <2>1. CASE i <= Len(queue)
    <3>1. i \in 1..Len(queue)
      BY <1>4, <2>1, SMT
    <3> QED BY <1>5, <2>1, <3>1 DEF p, Continues
  <2>2. CASE ~(i <= Len(queue))
    <3>1. i - Len(queue) \in 1..m /\ rcv_nxt[e] + (i - Len(queue)) = base + i
      BY <1>4, <2>2, SMT
    <3>2. moved[i - Len(queue)] = stream[p][rcv_nxt[e] + (i - Len(queue))]
      BY <1>1, <3>1
    <3> QED BY <1>5, <2>2, <3>1, <3>2
  <2> QED BY <2>1, <2>2
<1>7. rcv_nxt'[e] <= snd_nxt[p]
  <2>1. CASE m = 0
    BY <1>3, <1>4, <2>1, SMT DEF p
  <2>2. CASE m # 0
    <3>1. m \in 1..m
      BY <2>2, SMT
    <3>2. rcv_nxt[e] + m <= snd_nxt[p]
      BY <1>1, <3>1
    <3> QED BY <1>3, <3>2
  <2> QED BY <2>1, <2>2
<1>8. rcv_nxt'[e] = base + Len(rcv_queue'[e])
  BY <1>3, <1>4, <1>5, SMT
<1> QED BY <1>3, <1>5, <1>6, <1>7, <1>8 DEF p, Continues

StreamFacts == StreamSplit /\ SegmentsGenuine /\ ReceivedPrefix

\* Steps that leave the queues, the numbering and the stream of fragments
\* alone keep the facts if the segments they move were genuine before.
LEMMA OtherStream ==
    ASSUME StreamInv,
           UNCHANGED <<snd_queue, snd_nxt, rcvVars, histVars>>,
           \A e \in Ends : snd_buf'[e] \subseteq snd_buf[e],
           \A e \in Ends : \A s \in rx'[e] : Carries(Peer(e), s),
           net' \subseteq net
    PROVE  StreamFacts'
<1>1. StreamSplit' /\ ReceivedPrefix'
  BY DEF StreamInv, StreamSplit, ReceivedPrefix
<1>2. SegmentsGenuine'
  BY DEF StreamInv, SegmentsGenuine, Carries
<1> QED BY <1>1, <1>2 DEF StreamFacts

LEMMA SendStream ==
    ASSUME StreamInv, NEW e \in Ends, NEW len \in MsgLens, Send(e, len)
    PROVE  StreamFacts'
<1> DEFINE frags == Fragments(Len(stream[e]), len)
<1> USE DEF StreamInv
<1>1. /\ frags \in Seq(Frag) /\ stream[e] \in Seq(Frag)
      /\ snd_queue[e] \in Seq(Frag)
      /\ Len(stream[e]) \in Nat /\ Len(snd_queue[e]) \in Nat
      /\ Len(frags) \in Nat /\ snd_nxt[e] \in Nat
  <2>1. Len(stream[e]) \in Nat /\ len \in Nat
    BY KcpAssumption, LenProperties DEF TypeOK
  <2>2. frags \in Seq(Frag)
    BY <2>1, FragmentsType
  <2> HIDE DEF frags
  <2> QED BY <2>1, <2>2, LenProperties DEF TypeOK
<1>2. /\ snd_queue' = [snd_queue EXCEPT ![e] = snd_queue[e] \o frags]
      /\ stream' = [stream EXCEPT ![e] = stream[e] \o frags]
      /\ UNCHANGED <<snd_buf, snd_nxt, rcvVars, rx, net, consumed>>
  BY DEF Send
<1> HIDE DEF frags
<1>3. /\ Len(stream[e] \o frags) = Len(stream[e]) + Len(frags)
      /\ \A i \in 1..(Len(stream[e]) + Len(frags)) :
            (stream[e] \o frags)[i] =
                IF i <= Len(stream[e]) THEN stream[e][i]
                ELSE frags[i - Len(stream[e])]
  BY <1>1, ConcatProperties
<1>4. /\ Len(snd_queue[e] \o frags) = Len(snd_queue[e]) + Len(frags)
      /\ \A i \in 1..(Len(snd_queue[e]) + Len(frags)) :
            (snd_queue[e] \o frags)[i] =
                IF i <= Len(snd_queue[e]) THEN snd_queue[e][i]
                ELSE frags[i - Len(snd_queue[e])]
  BY <1>1, ConcatProperties
<1>5. /\ stream'[e] = stream[e] \o frags
      /\ snd_queue'[e] = snd_queue[e] \o frags
      /\ \A f \in Ends \ {e} :
            stream'[f] = stream[f] /\ snd_queue'[f] = snd_queue[f]
  BY <1>2 DEF TypeOK
<1>6. Len(stream[e]) = snd_nxt[e] + Len(snd_queue[e])
  BY DEF StreamSplit
<1>7. /\ Len(stream'[e]) = Len(stream[e]) + Len(frags)
       /\ \A i \in 1..(Len(stream[e]) + Len(frags)) :
             stream'[e][i] = IF i <= Len(stream[e]) THEN stream[e][i]
                             ELSE frags[i - Len(stream[e])]
  BY <1>3, <1>5, Zenon
<1>8. /\ Len(snd_queue'[e]) = Len(snd_queue[e]) + Len(frags)
       /\ \A i \in 1..(Len(snd_queue[e]) + Len(frags)) :
             snd_queue'[e][i] = IF i <= Len(snd_queue[e]) THEN snd_queue[e][i]
                                ELSE frags[i - Len(snd_queue[e])]
  BY <1>4, <1>5, Zenon
<1>9. \A f \in Ends \ {e} :
            stream'[f] = stream[f] /\ snd_queue'[f] = snd_queue[f]
  BY <1>5
<1>10. \A f \in Ends : \A i \in 1..Len(stream[f]) : stream'[f][i] = stream[f][i]
  <2>1. \A i \in 1..Len(stream[e]) : stream'[e][i] = stream[e][i]
    BY <1>1, <1>7, SMT
  <2> QED BY <1>9, <2>1
<1>11. StreamSplit'
  <2>1. Len(stream'[e]) = snd_nxt[e] + Len(snd_queue'[e])
    BY <1>1, <1>6, <1>7, <1>8, SMT
  <2>2. ASSUME NEW i \in 1..(Len(snd_queue[e]) + Len(frags))
        PROVE  snd_queue'[e][i] = stream'[e][snd_nxt[e] + i]
    <3>3. CASE i <= Len(snd_queue[e])
      <4>1. i \in 1..Len(snd_queue[e]) /\ snd_nxt[e] + i \in 1..Len(stream[e])
        BY <1>1, <1>6, <3>3, SMT
      <4>2. snd_queue[e][i] = stream[e][snd_nxt[e] + i]
        BY <4>1 DEF StreamSplit
      <4>3. snd_queue'[e][i] = snd_queue[e][i]
        BY <1>8, <3>3
      <4> QED BY <1>10, <4>1, <4>2, <4>3
    <3>4. CASE ~(i <= Len(snd_queue[e]))
      <4> DEFINE j == snd_nxt[e] + i
      <4>1. /\ j \in 1..(Len(stream[e]) + Len(frags))
            /\ ~(j <= Len(stream[e]))
            /\ j - Len(stream[e]) = i - Len(snd_queue[e])
        BY <1>1, <1>6, <3>4, SMTT(30)
      <4>2. snd_queue'[e][i] = frags[i - Len(snd_queue[e])]
        BY <1>8, <3>4
      <4> HIDE DEF j
      <4>3. stream'[e][j] = frags[j - Len(stream[e])]
        BY <1>7, <4>1
      <4>4. snd_queue'[e][i] = stream'[e][j]
        BY <4>1, <4>2, <4>3
      <4> QED BY <4>4 DEF j
    <3> QED BY <3>3, <3>4
  <2>3. ASSUME NEW f \in Ends
        PROVE  /\ Len(stream'[f]) = snd_nxt[f] + Len(snd_queue'[f])
               /\ \A i \in 1..Len(snd_queue'[f]) :
                     snd_queue'[f][i] = stream'[f][snd_nxt[f] + i]
    <3>1. CASE f = e
      BY <1>8, <2>1, <2>2, <3>1
    <3>2. CASE f # e
      BY <1>9, <3>2 DEF StreamSplit
    <3> QED BY <3>1, <3>2
  <2>4. snd_nxt' = snd_nxt
    BY <1>2
  <2> QED BY <2>3, <2>4, Zenon DEF StreamSplit
<1>12. ASSUME NEW f \in Ends, NEW s \in Seg, Carries(f, s)
      PROVE  Carries(f, s)'
  <2>1. snd_nxt'[f] \in Nat /\ snd_nxt'[f] >= snd_nxt[f]
    BY <1>2, SMT DEF TypeOK
  <2> QED BY <1>10, <1>12, <2>1, CarriesStable
<1>13. SegmentsGenuine'
  <2>1. \A f \in Ends : /\ snd_buf[f] \subseteq Seg /\ rx[f] \subseteq Seg
                        /\ rcv_buf[f] \subseteq Seg /\ Peer(f) \in Ends
    BY Peers DEF TypeOK
  <2>2. \A d \in net : d.push \subseteq Seg /\ Peer(d.to) \in Ends
    BY Peers DEF TypeOK, Datagram
  <2> QED BY <1>2, <1>12, <2>1, <2>2 DEF SegmentsGenuine
<1>14. ReceivedPrefix'
  <2>1. ASSUME NEW f \in Ends
        PROVE  /\ rcv_nxt[f] \in Nat /\ Len(consumed[f]) \in Nat
               /\ Len(rcv_queue[f]) \in Nat /\ Len(stream[Peer(f)]) \in Nat
               /\ rcv_nxt[f] <= Len(stream[Peer(f)])
    <3>1. /\ rcv_nxt[f] \in Nat /\ Len(consumed[f]) \in Nat
          /\ Len(rcv_queue[f]) \in Nat /\ Len(stream[Peer(f)]) \in Nat
          /\ Len(snd_queue[Peer(f)]) \in Nat /\ snd_nxt[Peer(f)] \in Nat
      BY Peers, LenProperties DEF TypeOK
    <3>2. /\ Len(stream[Peer(f)]) = snd_nxt[Peer(f)] + Len(snd_queue[Peer(f)])
          /\ rcv_nxt[f] <= snd_nxt[Peer(f)]
      BY Peers DEF StreamSplit, ReceivedPrefix
    <3> QED BY <3>1, <3>2, SMT
  <2>2. ASSUME NEW f \in Ends, NEW i \in 1..rcv_nxt[f]
        PROVE  stream'[Peer(f)][i] = stream[Peer(f)][i]
    <3>1. i \in 1..Len(stream[Peer(f)])
      BY <2>1, SMT
    <3> QED BY <1>10, <3>1, Peers
  <2>3. ASSUME NEW f \in Ends
        PROVE  /\ \A i \in 1..Len(consumed[f]) :
                    consumed[f][i] = stream'[Peer(f)][i]
               /\ \A i \in 1..Len(rcv_queue[f]) :
                    rcv_queue[f][i] = stream'[Peer(f)][Len(consumed[f]) + i]
    <3>1. rcv_nxt[f] = Len(consumed[f]) + Len(rcv_queue[f])
      BY DEF ReceivedPrefix
    <3> DEFINE c == Len(consumed[f])
               q == Len(rcv_queue[f])
    <3>2. /\ \A i \in 1..c : i \in 1..rcv_nxt[f]
          /\ \A i \in 1..q : c + i \in 1..rcv_nxt[f]
      <4>1. c \in Nat /\ q \in Nat /\ rcv_nxt[f] = c + q
        BY <2>1, <3>1
      <4> HIDE DEF c, q
      <4> QED BY <4>1, SMT
    <3>3. /\ \A i \in 1..Len(consumed[f]) :
                consumed[f][i] = stream[Peer(f)][i]
          /\ \A i \in 1..Len(rcv_queue[f]) :
                rcv_queue[f][i] = stream[Peer(f)][Len(consumed[f]) + i]
      BY DEF ReceivedPrefix
    <3> QED BY <2>2, <3>2, <3>3
  <2>4. UNCHANGED <<rcv_nxt, rcv_queue, consumed, snd_nxt>>
    BY <1>2
  <2>5. ReceivedPrefix
    OBVIOUS
  <2> QED BY <2>3, <2>4, <2>5, Zenon DEF ReceivedPrefix
<1> QED BY <1>11, <1>13, <1>14 DEF StreamFacts

LEMMA RecvStream ==
    ASSUME StreamInv, NEW e \in Ends, Recv(e)
    PROVE  StreamFacts'
<1> DEFINE q == rcv_queue[e]
           p == Peer(e)
           c == Len(consumed[e])
<1>1. TypeOK /\ StreamSplit /\ SegmentsGenuine /\ ReceivedPrefix
  BY DEF StreamInv
<1>2. PICK k \in 1..Len(q), m \in 0..WND_RCV :
        /\ consumed' = [consumed EXCEPT ![e] = @ \o SubSeq(q, 1, k)]
        /\ MoveAvailable(e, rcv_buf[e], SubSeq(q, k + 1, Len(q)), m)
  BY DEF Recv
<1> DEFINE head == SubSeq(q, 1, k)
           rest == SubSeq(q, k + 1, Len(q))
<1>3. /\ q \in Seq(Frag) /\ Len(q) \in Nat /\ k \in Nat /\ m \in Nat
      /\ c \in Nat /\ consumed[e] \in Seq(Frag) /\ rcv_buf[e] \in SUBSET Seg
      /\ p \in Ends
  BY <1>1, LenProperties, KcpAssumption, Peers DEF TypeOK
<1>4. /\ head \in Seq(Frag) /\ rest \in Seq(Frag)
      /\ Len(head) = k /\ Len(rest) = Len(q) - k
      /\ \A i \in 1..k : head[i] = q[i]
      /\ \A i \in 1..(Len(q) - k) : rest[i] = q[k + i]
  <2> HIDE DEF q
  <2>1. /\ \A i \in 1..k : i \in 1..Len(q)
        /\ \A i \in (k + 1)..Len(q) : i \in 1..Len(q)
    BY <1>3, SMT
  <2>2. \A i \in 1..Len(q) : q[i] \in Frag
    BY <1>3, ElementOfSeq
  <2>3. /\ head \in Seq(Frag)
        /\ Len(head) = IF 1 <= k THEN k - 1 + 1 ELSE 0
        /\ \A i \in 1..(k - 1 + 1) : head[i] = q[1 + i - 1]
    BY <1>3, <2>1, <2>2, SubSeqProperties, 1 \in Int, k \in Int
  <2>4. /\ rest \in Seq(Frag)
        /\ Len(rest) = IF k + 1 <= Len(q) THEN Len(q) - (k + 1) + 1 ELSE 0
        /\ \A i \in 1..(Len(q) - (k + 1) + 1) : rest[i] = q[k + 1 + i - 1]
    BY <1>3, <2>1, <2>2, SubSeqProperties, k + 1 \in Int, Len(q) \in Int
  <2> HIDE DEF head, rest
  <2>5. Len(head) = k /\ Len(rest) = Len(q) - k
    BY <1>3, <2>3, <2>4, SMT
  <2>6. ASSUME NEW i \in 1..k PROVE head[i] = q[i]
    <3>1. i \in 1..(k - 1 + 1) /\ 1 + i - 1 = i
      BY <1>3, SMT
    <3> QED BY <2>3, <3>1
  <2>7. ASSUME NEW i \in 1..(Len(q) - k) PROVE rest[i] = q[k + i]
    <3>1. i \in 1..(Len(q) - (k + 1) + 1) /\ k + 1 + i - 1 = k + i
      BY <1>3, SMT
    <3> QED BY <2>4, <3>1
  <2> QED BY <2>3, <2>4, <2>5, <2>6, <2>7
<1>5. /\ rcv_nxt[e] = c + Len(q) /\ rcv_nxt[e] <= snd_nxt[p]
      /\ \A i \in 1..c : consumed[e][i] = stream[p][i]
      /\ \A i \in 1..Len(q) : q[i] = stream[p][c + i]
  BY <1>1 DEF ReceivedPrefix
<1> HIDE DEF head, rest
<1>6. /\ rcv_nxt[e] = (c + k) + Len(rest)
      /\ \A i \in 1..Len(rest) : rest[i] = stream[p][(c + k) + i]
  <2>1. rcv_nxt[e] = (c + k) + Len(rest)
    <3> HIDE DEF c, q
    <3> QED BY <1>3, <1>4, <1>5, SMT
  <2>2. ASSUME NEW i \in 1..Len(rest)
        PROVE  rest[i] = stream[p][(c + k) + i]
    <3> HIDE DEF c, q
    <3>1. i \in 1..(Len(q) - k) /\ k + i \in 1..Len(q)
          /\ c + (k + i) = (c + k) + i
      BY <1>3, <1>4, SMT
    <3>2. q[k + i] = stream[p][c + (k + i)]
      BY <1>5, <3>1
    <3> QED BY <1>4, <3>1, <3>2
  <2> QED BY <2>1, <2>2
<1>7. /\ rcv_nxt'[e] = (c + k) + Len(rcv_queue'[e])
      /\ rcv_nxt'[e] <= snd_nxt[p]
      /\ \A i \in 1..Len(rcv_queue'[e]) :
            rcv_queue'[e][i] = stream[p][(c + k) + i]
      /\ rcv_buf'[e] \subseteq rcv_buf[e]
      /\ \A f \in Ends \ {e} :
            /\ rcv_nxt'[f] = rcv_nxt[f] /\ rcv_queue'[f] = rcv_queue[f]
            /\ rcv_buf'[f] = rcv_buf[f]
  <2>1. MoveAvailable(e, rcv_buf[e], rest, m)
    BY <1>2 DEF rest
  <2>2. AllCarry(Peer(e), rcv_buf[e])
    BY <1>1 DEF SegmentsGenuine, AllCarry
  <2> DEFINE base == c + k
  <2>3. base \in Nat
    BY <1>3, SMT
  <2>4. /\ rcv_nxt[e] = base + Len(rest)
        /\ rcv_nxt[e] <= snd_nxt[Peer(e)]
        /\ Continues(rest, Peer(e), base)
    BY <1>5, <1>6 DEF Continues
  <2> HIDE DEF base
  <2>5. TypeOK /\ rest \in Seq(Frag) /\ m \in Nat /\ rcv_buf[e] \in SUBSET Seg
    BY <1>1, <1>3, <1>4
  <2>6. /\ rcv_nxt'[e] = base + Len(rcv_queue'[e])
        /\ rcv_nxt'[e] <= snd_nxt[Peer(e)]
        /\ Continues(rcv_queue'[e], Peer(e), base)
        /\ rcv_buf'[e] \subseteq rcv_buf[e]
        /\ \A f \in Ends \ {e} :
              /\ rcv_nxt'[f] = rcv_nxt[f] /\ rcv_queue'[f] = rcv_queue[f]
              /\ rcv_buf'[f] = rcv_buf[f]
    BY <2>1, <2>2, <2>3, <2>4, <2>5, MoveStream
  <2> QED BY <2>6 DEF base, Continues
<1>8. /\ consumed'[e] = consumed[e] \o head
      /\ \A f \in Ends \ {e} : consumed'[f] = consumed[f]
      /\ UNCHANGED <<sndVars, rx, net, stream>>
  BY <1>1, <1>2 DEF Recv, TypeOK, head
<1>9. /\ Len(consumed'[e]) = c + k
      /\ \A i \in 1..(c + k) : consumed'[e][i] = stream[p][i]
  <2>1. /\ Len(consumed[e] \o head) = c + Len(head)
        /\ \A i \in 1..(c + Len(head)) :
              (consumed[e] \o head)[i] = IF i <= c THEN consumed[e][i]
                                         ELSE head[i - c]
    <3>1. consumed[e] \in Seq(Frag) /\ head \in Seq(Frag) /\ Len(consumed[e]) = c
      BY <1>3, <1>4
    <3> HIDE DEF head, c
    <3> QED BY <3>1, ConcatProperties, ZenonT(60)
  <2>2. /\ Len(consumed'[e]) = c + k
        /\ \A i \in 1..(c + k) :
              consumed'[e][i] = IF i <= c THEN consumed[e][i] ELSE head[i - c]
    BY <1>4, <1>8, <2>1
  <2> HIDE DEF c, q
  <2>3. ASSUME NEW i \in 1..(c + k) PROVE consumed'[e][i] = stream[p][i]
    <3>1. CASE i <= c
      <4>1. i \in 1..c
        BY <1>3, <3>1, SMT
      <4> QED BY <1>5, <2>2, <3>1, <4>1
    <3>2. CASE ~(i <= c)
      <4> DEFINE j == i - c
      <4>1. j \in 1..k /\ j \in 1..Len(q) /\ c + j = i
        BY <1>3, <3>2, SMT
      <4>2. consumed'[e][i] = head[j]
        BY <2>2, <3>2
      <4> HIDE DEF j
      <4>3. head[j] = q[j] /\ q[j] = stream[p][c + j]
        BY <1>4, <1>5, <4>1
      <4> QED BY <4>1, <4>2, <4>3
    <3> QED BY <3>1, <3>2
  <2> QED BY <2>2, <2>3
<1>10. StreamSplit'
  BY <1>1, <1>8 DEF StreamSplit
<1>11. SegmentsGenuine'
  <2>1. \A f \in Ends : rcv_buf'[f] \subseteq rcv_buf[f]
    BY <1>7
  <2> QED BY <1>1, <1>8, <2>1 DEF SegmentsGenuine, Carries
<1>12. ReceivedPrefix'
  <2>1. ASSUME NEW f \in Ends
        PROVE  /\ rcv_nxt'[f] = Len(consumed'[f]) + Len(rcv_queue'[f])
               /\ rcv_nxt'[f] <= snd_nxt[Peer(f)]
               /\ \A i \in 1..Len(consumed'[f]) :
                    consumed'[f][i] = stream[Peer(f)][i]
               /\ \A i \in 1..Len(rcv_queue'[f]) :
                    rcv_queue'[f][i] = stream[Peer(f)][Len(consumed'[f]) + i]
    <3>1. CASE f = e
      BY <1>7, <1>9, <3>1
    <3>2. CASE f # e
      <4>1. /\ rcv_nxt'[f] = rcv_nxt[f] /\ rcv_queue'[f] = rcv_queue[f]
            /\ consumed'[f] = consumed[f]
        BY <1>7, <1>8, <3>2
      <4> QED BY <1>1, <4>1, ZenonT(30) DEF ReceivedPrefix
    <3> QED BY <3>1, <3>2
  <2>2. stream' = stream /\ snd_nxt' = snd_nxt
    BY <1>8
  <2> QED BY <2>1, <2>2, Zenon DEF ReceivedPrefix
<1> QED BY <1>10, <1>11, <1>12 DEF StreamFacts

LEMMA FlushStream ==
    ASSUME StreamInv, NEW e \in Ends, NEW overdue \in SUBSET snd_buf[e],
           NEW due \in BOOLEAN, Flush(e, overdue, due)
    PROVE  StreamFacts'
<1> DEFINE win == imin(cwnd[e], imin(WND_SND, rmt_wnd[e]))
           n == Moved(e, win)
           fresh == Numbered(e, n)
           q == snd_queue[e]
           last == Len(acklist[e]) + 2 + (snd_nxt[e] + n - snd_una[e])
           dgs == Packed(e, acklist[e], Asked(e, due), snd_una[e],
                         fresh \union overdue, last)
<1>1. TypeOK /\ StreamSplit /\ SegmentsGenuine /\ ReceivedPrefix
  BY DEF StreamInv
<1>2. n \in 0..Len(q) /\ Len(q) \in Nat /\ snd_nxt[e] \in Nat /\ q \in Seq(Frag)
  <2>1. win \in Nat
    BY <1>1, KcpAssumption, SMT DEF TypeOK, imin
  <2> HIDE DEF win
  <2> QED BY <1>1, <2>1, MovedType, LenProperties DEF TypeOK
<1>3. fresh \subseteq Seg
  <2> HIDE DEF n
  <2> QED BY <1>1, <1>2, NumberedType
<1>4. /\ net' = net \union dgs
      /\ snd_queue' = [snd_queue EXCEPT ![e] = SubSeq(q, n + 1, Len(q))]
      /\ snd_buf' = [snd_buf EXCEPT ![e] = @ \union fresh]
      /\ snd_nxt' = [snd_nxt EXCEPT ![e] = @ + n]
      /\ UNCHANGED <<rcvVars, rx, histVars>>
  BY DEF Flush
<1> HIDE DEF n, win
<1>5. /\ Len(SubSeq(q, n + 1, Len(q))) = Len(q) - n
      /\ \A i \in 1..(Len(q) - n) : SubSeq(q, n + 1, Len(q))[i] = q[n + i]
  <2> HIDE DEF q
  <2>1. \A i \in (n + 1)..Len(q) : q[i] \in Frag
    <3>1. \A i \in (n + 1)..Len(q) : i \in 1..Len(q)
      BY <1>2, SMT
    <3> QED BY <1>2, <3>1, ElementOfSeq
  <2>2. /\ Len(SubSeq(q, n + 1, Len(q))) =
              IF n + 1 <= Len(q) THEN Len(q) - (n + 1) + 1 ELSE 0
        /\ \A i \in 1..(Len(q) - (n + 1) + 1) :
              SubSeq(q, n + 1, Len(q))[i] = q[n + 1 + i - 1]
    BY <1>2, <2>1, SubSeqProperties, n + 1 \in Int, Len(q) \in Int
  <2> DEFINE rest == SubSeq(q, n + 1, Len(q))
  <2> HIDE DEF rest
  <2>3. Len(rest) = Len(q) - n
    BY <1>2, <2>2, SMT DEF rest
  <2>4. ASSUME NEW i \in 1..(Len(q) - n) PROVE rest[i] = q[n + i]
    <3>1. i \in 1..(Len(q) - (n + 1) + 1) /\ n + 1 + i - 1 = n + i
      BY <1>2, SMT
    <3> QED BY <2>2, <3>1 DEF rest
  <2> QED BY <2>3, <2>4 DEF rest
<1>6. /\ snd_queue'[e] = SubSeq(q, n + 1, Len(q))
      /\ snd_nxt'[e] = snd_nxt[e] + n
      /\ \A f \in Ends \ {e} :
            snd_queue'[f] = snd_queue[f] /\ snd_nxt'[f] = snd_nxt[f]
      /\ stream' = stream
  BY <1>1, <1>4 DEF TypeOK
<1>7. /\ Len(stream[e]) = snd_nxt[e] + Len(q)
      /\ \A i \in 1..Len(q) : q[i] = stream[e][snd_nxt[e] + i]
  BY <1>1 DEF StreamSplit
<1> DEFINE x == snd_nxt[e]
<1>8. StreamSplit'
  <2>1. ASSUME NEW i \in 1..(Len(q) - n)
        PROVE  snd_queue'[e][i] = stream[e][(x + n) + i]
    <3> HIDE DEF q, x
    <3>1. n + i \in 1..Len(q) /\ x + (n + i) = (x + n) + i
      BY <1>2, SMT DEF x
    <3>2. snd_queue'[e][i] = q[n + i]
      BY <1>5, <1>6
    <3>3. q[n + i] = stream[e][x + (n + i)]
      BY <1>7, <3>1 DEF x
    <3> QED BY <3>1, <3>2, <3>3
  <2>2. Len(stream[e]) = (x + n) + (Len(q) - n)
    <3> HIDE DEF q
    <3> QED BY <1>2, <1>7, SMT
  <2>3. ASSUME NEW f \in Ends
        PROVE  /\ Len(stream[f]) = snd_nxt'[f] + Len(snd_queue'[f])
               /\ \A i \in 1..Len(snd_queue'[f]) :
                     snd_queue'[f][i] = stream[f][snd_nxt'[f] + i]
    <3>1. CASE f = e
      BY <1>5, <1>6, <2>1, <2>2, <3>1
    <3>2. CASE f # e
      <4>1. snd_queue'[f] = snd_queue[f] /\ snd_nxt'[f] = snd_nxt[f]
        BY <1>6, <3>2
      <4> QED BY <1>1, <4>1, Zenon DEF StreamSplit
    <3> QED BY <3>1, <3>2
  <2> QED BY <1>6, <2>3, Zenon DEF StreamSplit
<1>9. ASSUME NEW f \in Ends
      PROVE  snd_nxt[f] \in Nat /\ snd_nxt'[f] \in Nat /\ snd_nxt[f] <= snd_nxt'[f]
  <2>1. snd_nxt[f] \in Nat
    BY <1>1 DEF TypeOK
  <2> QED BY <1>2, <1>6, <2>1, SMT
<1>10. ASSUME NEW f \in Ends, NEW s \in Seg, Carries(f, s)
       PROVE  Carries(f, s)'
  <2>1. s.sn \in Nat
    BY DEF Seg
  <2>2. s.sn < snd_nxt'[f]
    BY <1>9, <1>10, <2>1, SMT DEF Carries
  <2> QED BY <1>6, <1>10, <2>2 DEF Carries
<1>11. ASSUME NEW s \in fresh
       PROVE  Carries(e, s)'
  <2>1. PICK i \in 1..n : s = [sn |-> x + i - 1, frag |-> q[i]]
    BY DEF Numbered
  <2>2. i \in 1..Len(q) /\ x + i - 1 < x + n /\ (x + i - 1) + 1 = x + i
    BY <1>2, SMT
  <2>3. s.sn = x + i - 1 /\ s.frag = q[i]
    BY <2>1
  <2> QED BY <1>6, <1>7, <2>2, <2>3 DEF Carries
<1>12. SegmentsGenuine'
  <2>1. \A f \in Ends : /\ snd_buf[f] \subseteq Seg /\ rx[f] \subseteq Seg
                        /\ rcv_buf[f] \subseteq Seg /\ Peer(f) \in Ends
    BY <1>1, Peers DEF TypeOK
  <2>2. \A d \in net : d.push \subseteq Seg /\ Peer(d.to) \in Ends
    BY <1>1, Peers DEF TypeOK, Datagram
  <2>3. ASSUME NEW f \in Ends, NEW s \in snd_buf'[f] PROVE Carries(f, s)'
    <3>1. s \in snd_buf[f] \/ (f = e /\ s \in fresh)
      BY <1>1, <1>4 DEF TypeOK
    <3> QED BY <1>1, <1>10, <1>11, <2>1, <3>1 DEF SegmentsGenuine
  <2>4. ASSUME NEW f \in Ends
        PROVE  /\ \A s \in rx[f] : Carries(Peer(f), s)'
               /\ \A s \in rcv_buf[f] : Carries(Peer(f), s)'
    BY <1>1, <1>10, <2>1 DEF SegmentsGenuine
  <2>5. ASSUME NEW d \in net' PROVE \A s \in d.push : Carries(Peer(d.to), s)'
    <3>1. CASE d \in net
      BY <1>1, <1>10, <2>2, <3>1 DEF SegmentsGenuine
    <3>2. CASE d \in dgs
      <4>1. d.to = Peer(e) /\ d.push \subseteq fresh \union overdue
        <5>1. acklist[e] \in Seq(Nat) /\ fresh \union overdue \in SUBSET Seg
          BY <1>1, <1>3, <2>1 DEF TypeOK
        <5> DEFINE push == fresh \union overdue
        <5>2. d \in Packed(e, acklist[e], Asked(e, due), snd_una[e], push, last)
          BY <3>2
        <5>3. push \in SUBSET Seg
          BY <5>1
        <5>4. /\ snd_una[e] \in Nat /\ rcv_nxt[e] \in Nat
              /\ Len(rcv_queue[e]) \in Nat
          BY <1>1, LenProperties DEF TypeOK
        <5> HIDE DEF push, last
        <5>5. d.to = Peer(e) /\ d.push \subseteq push
          BY <5>1, <5>2, <5>3, <5>4 DEF Packed
        <5> QED BY <5>5 DEF push
      <4>2. Peer(d.to) = e
        BY <4>1, Peers
      <4>3. ASSUME NEW s \in overdue PROVE Carries(e, s)'
        BY <1>1, <1>10, <2>1 DEF SegmentsGenuine
      <4> HIDE DEF fresh
      <4> QED BY <1>11, <4>1, <4>2, <4>3
    <3> QED BY <1>4, <3>1, <3>2
  <2>6. rx' = rx /\ rcv_buf' = rcv_buf
    BY <1>4
  <2> QED BY <2>3, <2>4, <2>5, <2>6, Zenon DEF SegmentsGenuine
<1>13. ReceivedPrefix'
  <2>1. ASSUME NEW f \in Ends
        PROVE  rcv_nxt[f] <= snd_nxt'[Peer(f)]
    <3>1. /\ rcv_nxt[f] \in Nat /\ Peer(f) \in Ends
          /\ rcv_nxt[f] <= snd_nxt[Peer(f)]
      BY <1>1, Peers DEF TypeOK, ReceivedPrefix
    <3>2. /\ snd_nxt[Peer(f)] \in Nat /\ snd_nxt'[Peer(f)] \in Nat
          /\ snd_nxt[Peer(f)] <= snd_nxt'[Peer(f)]
      BY <1>9, <3>1
    <3> QED BY <3>1, <3>2, SMT
  <2>2. UNCHANGED <<rcv_nxt, rcv_queue, consumed, stream>>
    BY <1>4
  <2> QED BY <1>1, <2>1, <2>2, Zenon DEF ReceivedPrefix
<1> QED BY <1>8, <1>12, <1>13 DEF StreamFacts

LEMMA InputStream ==
    ASSUME StreamInv, NEW e \in Ends, NEW d \in net, NEW padded \in BOOLEAN,
           Input(e, d, padded), net' \subseteq net
    PROVE  StreamFacts'
<1>1. TypeOK /\ SegmentsGenuine
  BY DEF StreamInv
<1>2. /\ UNCHANGED <<snd_queue, snd_nxt, rcvVars, histVars>>
      /\ rx' = [rx EXCEPT ![e] = d.push]
      /\ snd_buf' = [snd_buf EXCEPT ![e] = Unacked(e, d)]
      /\ d.to = e
  BY DEF Input
<1>3. \A f \in Ends : snd_buf'[f] \subseteq snd_buf[f]
  BY <1>1, <1>2 DEF TypeOK, Unacked
<1>4. \A f \in Ends : \A s \in rx'[f] : Carries(Peer(f), s)
  BY <1>1, <1>2 DEF TypeOK, SegmentsGenuine
<1> QED BY <1>2, <1>3, <1>4, OtherStream

LEMMA InputPushStream ==
    ASSUME StreamInv, NEW e \in Ends, InputPush(e)
    PROVE  StreamFacts'
<1>1. TypeOK /\ StreamSplit /\ SegmentsGenuine /\ ReceivedPrefix
  BY DEF StreamInv
<1>2. PICK s \in rx[e] :
        /\ rx' = [rx EXCEPT ![e] = @ \ {s}]
        /\ \/ /\ Keeps(e, s)
              /\ LET buf == IF s.sn \in Sns(rcv_buf[e]) THEN rcv_buf[e]
                            ELSE rcv_buf[e] \union {s}
                 IN  \E m \in 0..WND_RCV :
                        MoveAvailable(e, buf, rcv_queue[e], m)
           \/ /\ ~Keeps(e, s)
              /\ UNCHANGED rcvVars
  BY Zenon DEF InputPush
<1>3. UNCHANGED <<sndVars, net, histVars>>
  BY DEF InputPush
<1>4. \A f \in Ends : rx'[f] \subseteq rx[f]
  BY <1>1, <1>2 DEF TypeOK
<1>5. CASE UNCHANGED rcvVars
  <2>1. \A f \in Ends : \A t \in rx'[f] : Carries(Peer(f), t)
    BY <1>1, <1>4 DEF SegmentsGenuine
  <2> QED BY <1>3, <1>5, <2>1, OtherStream
<1>6. CASE Keeps(e, s)
  <2> DEFINE buf == IF s.sn \in Sns(rcv_buf[e]) THEN rcv_buf[e]
                    ELSE rcv_buf[e] \union {s}
             base == Len(consumed[e])
  <2>1. PICK m \in 0..WND_RCV : MoveAvailable(e, buf, rcv_queue[e], m)
    BY <1>2, <1>6
  <2>2. /\ buf \in SUBSET Seg /\ rcv_queue[e] \in Seq(Frag) /\ m \in Nat
        /\ base \in Nat
    BY <1>1, KcpAssumption, LenProperties DEF TypeOK
  <2>3. AllCarry(Peer(e), buf)
    BY <1>1 DEF SegmentsGenuine, AllCarry
  <2>4. /\ rcv_nxt[e] = base + Len(rcv_queue[e])
        /\ rcv_nxt[e] <= snd_nxt[Peer(e)]
        /\ Continues(rcv_queue[e], Peer(e), base)
    BY <1>1 DEF ReceivedPrefix, Continues
  <2> HIDE DEF buf, base
  <2>5. /\ rcv_nxt'[e] = base + Len(rcv_queue'[e])
        /\ rcv_nxt'[e] <= snd_nxt[Peer(e)]
        /\ Continues(rcv_queue'[e], Peer(e), base)
        /\ rcv_buf'[e] \subseteq buf
        /\ \A f \in Ends \ {e} :
              /\ rcv_nxt'[f] = rcv_nxt[f] /\ rcv_queue'[f] = rcv_queue[f]
              /\ rcv_buf'[f] = rcv_buf[f]
    BY <1>1, <2>1, <2>2, <2>3, <2>4, MoveStream
  <2>6. StreamSplit'
    BY <1>1, <1>3 DEF StreamSplit
  <2>7. SegmentsGenuine'
    <3>1. \A f \in Ends : \A t \in rcv_buf'[f] : Carries(Peer(f), t)
      <4>1. \A t \in rcv_buf'[e] : Carries(Peer(e), t)
        BY <2>3, <2>5 DEF AllCarry
      <4> QED BY <1>1, <2>5, <4>1 DEF SegmentsGenuine
    <3> QED BY <1>1, <1>3, <1>4, <3>1 DEF SegmentsGenuine, Carries
  <2>8. ReceivedPrefix'
    <3>1. ASSUME NEW f \in Ends
          PROVE  /\ rcv_nxt'[f] = Len(consumed[f]) + Len(rcv_queue'[f])
                 /\ rcv_nxt'[f] <= snd_nxt[Peer(f)]
                 /\ \A i \in 1..Len(consumed[f]) :
                       consumed[f][i] = stream[Peer(f)][i]
                 /\ \A i \in 1..Len(rcv_queue'[f]) :
                       rcv_queue'[f][i] = stream[Peer(f)][Len(consumed[f]) + i]
      <4>1. CASE f = e
        BY <1>1, <2>5, <4>1 DEF ReceivedPrefix, Continues, base
      <4>2. CASE f # e
        <5>1. rcv_nxt'[f] = rcv_nxt[f] /\ rcv_queue'[f] = rcv_queue[f]
          BY <2>5, <4>2
        <5> QED BY <1>1, <5>1, Zenon DEF ReceivedPrefix
      <4> QED BY <4>1, <4>2
    <3>2. UNCHANGED <<consumed, stream, snd_nxt>>
      BY <1>3
    <3> QED BY <3>1, <3>2, Zenon DEF ReceivedPrefix
  <2> QED BY <2>6, <2>7, <2>8 DEF StreamFacts
<1> QED BY <1>2, <1>5, <1>6

LEMMA InitStream == Init => StreamFacts
BY KcpAssumption DEF Init, StreamFacts, StreamSplit, SegmentsGenuine,
                     ReceivedPrefix, Ends, Peer

\* Every step keeps what is said of the stream.
LEMMA StepStream == StreamInv /\ [Next]_vars => StreamFacts'
<1> SUFFICES ASSUME StreamInv, [Next]_vars PROVE StreamFacts'
  OBVIOUS
<1>1. ASSUME NEW e \in Ends, NEW len \in MsgLens, Send(e, len)
      PROVE  StreamFacts'
  BY <1>1, SendStream
<1>2. ASSUME NEW e \in Ends, Recv(e) PROVE StreamFacts'
  BY <1>2, RecvStream
<1>3. ASSUME NEW e \in Ends, NEW overdue \in SUBSET snd_buf[e],
             NEW due \in BOOLEAN, Flush(e, overdue, due)
      PROVE  StreamFacts'
  BY <1>3, FlushStream
<1>4. ASSUME NEW e \in Ends, NEW d \in net, NEW padded \in BOOLEAN,
             Deliver(e, d, padded) \/ Duplicate(e, d, padded)
      PROVE  StreamFacts'
  <2>1. Input(e, d, padded) /\ net' \subseteq net
    BY <1>4 DEF Deliver, Duplicate
  <2> QED BY <2>1, InputStream
<1>5. ASSUME NEW e \in Ends, InputPush(e) PROVE StreamFacts'
  BY <1>5, InputPushStream
<1>6. CASE \/ \E d \in net : Lose(d)
           \/ UNCHANGED vars
  <2>1. /\ UNCHANGED <<sndVars, rcvVars, rx, histVars>>
        /\ net' \subseteq net
    BY <1>6 DEF Lose, vars
  <2>2. \A e \in Ends : \A s \in rx'[e] : Carries(Peer(e), s)
    BY <2>1 DEF StreamInv, SegmentsGenuine
  <2> QED BY <2>1, <2>2, OtherStream
<1> QED BY <1>1, <1>2, <1>3, <1>4, <1>5, <1>6 DEF Next, Step, Again

THEOREM StreamInvariant == Spec => []StreamInv
<1>1. Init => StreamInv
  BY InitType, InitStream DEF StreamInv, StreamFacts
<1>2. StreamInv /\ [Next]_vars => StreamInv'
  BY StepType, StepStream DEF StreamInv, StreamFacts
<1> QED BY <1>1, <1>2, PTL DEF Spec

\* The applications get each other's stream, in order and unaltered, for any
\* windows, MTU, message lengths and network.
THEOREM StreamInOrder == Spec => []InOrder
<1>1. StreamInv => InOrder
  <2> SUFFICES ASSUME StreamInv, NEW e \in Ends
               PROVE  /\ Len(consumed[e]) <= Len(stream[Peer(e)])
                      /\ \A i \in 1..Len(consumed[e]) :
                            consumed[e][i] = stream[Peer(e)][i]
    BY DEF InOrder
  <2>1. /\ Len(consumed[e]) \in Nat /\ Len(rcv_queue[e]) \in Nat
        /\ Len(stream[Peer(e)]) \in Nat /\ snd_nxt[Peer(e)] \in Nat
        /\ Len(snd_queue[Peer(e)]) \in Nat /\ rcv_nxt[e] \in Nat
    BY Peers, LenProperties DEF StreamInv, TypeOK
  <2>2. /\ rcv_nxt[e] = Len(consumed[e]) + Len(rcv_queue[e])
        /\ rcv_nxt[e] <= snd_nxt[Peer(e)]
        /\ Len(stream[Peer(e)]) = snd_nxt[Peer(e)] + Len(snd_queue[Peer(e)])
        /\ \A i \in 1..Len(consumed[e]) : consumed[e][i] = stream[Peer(e)][i]
    BY Peers DEF StreamInv, ReceivedPrefix, StreamSplit
  <2>3. ASSUME NEW c \in Nat, NEW q \in Nat, NEW nxt \in Nat, NEW num \in Nat,
               NEW left \in Nat, NEW len \in Nat,
               nxt = c + q, nxt <= num, len = num + left
        PROVE  c <= len
    BY <2>3, SMT
  <2>4. Len(consumed[e]) <= Len(stream[Peer(e)])
    BY <2>1, <2>2, <2>3
  <2> QED BY <2>2, <2>4
<1> QED BY <1>1, StreamInvariant, PTL

-------------------------------------------------------------------------------
(***************************************************************************)
(* An acknowledgement is never given for a segment its end does not have,  *)
(* so a segment leaves snd_buf only when the peer has it.  Both facts need *)
(* each other's help: AckInv is their conjunction with StreamInv.          *)
(***************************************************************************)
\* end e has the segment sn after the step
GotNext(e, sn) == sn < rcv_nxt'[e] \/ sn \in Sns(rcv_buf'[e])

\* No end loses a segment it has.
GotKept == \A e \in Ends : \A sn \in Nat : Got(e, sn) => GotNext(e, sn)

\* The moving loop loses nothing of what was below rcv_nxt or in the buffer.
LEMMA MoveGot ==
    ASSUME TypeOK, NEW e \in Ends, NEW buf \in SUBSET Seg,
           NEW queue \in Seq(Frag), NEW m \in Nat,
           MoveAvailable(e, buf, queue, m)
    PROVE  /\ \A sn \in Nat :
                sn < rcv_nxt[e] \/ sn \in Sns(buf) => GotNext(e, sn)
           /\ \A f \in Ends \ {e} : \A sn \in Nat : Got(f, sn) => GotNext(f, sn)
<1>1. /\ rcv_nxt'[e] = rcv_nxt[e] + m
      /\ rcv_buf'[e] = {s \in buf : s.sn >= rcv_nxt[e] + m}
      /\ \A f \in Ends \ {e} :
            rcv_nxt'[f] = rcv_nxt[f] /\ rcv_buf'[f] = rcv_buf[f]
  BY DEF MoveAvailable, TypeOK
<1>2. rcv_nxt[e] \in Nat
  BY DEF TypeOK
<1>3. ASSUME NEW sn \in Nat, sn < rcv_nxt[e] \/ sn \in Sns(buf)
      PROVE  GotNext(e, sn)
  <2>1. CASE sn < rcv_nxt[e] + m
    BY <1>1, <2>1 DEF Got, GotNext
  <2>2. CASE ~(sn < rcv_nxt[e] + m)
    <3>1. sn >= rcv_nxt[e] + m /\ ~(sn < rcv_nxt[e])
      BY <1>2, <2>2, SMT
    <3>2. PICK s \in buf : s.sn = sn
      BY <1>3, <3>1 DEF Sns
    <3>3. s \in rcv_buf'[e]
      BY <1>1, <3>1, <3>2
    <3> QED BY <3>2, <3>3 DEF Got, GotNext, Sns
  <2> QED BY <2>1, <2>2
<1>4. ASSUME NEW f \in Ends \ {e}, NEW sn \in Nat, Got(f, sn)
      PROVE  GotNext(f, sn)
  BY <1>1, <1>4 DEF Got, GotNext, Sns
<1> QED BY <1>3, <1>4

LEMMA RecvGot ==
    ASSUME TypeOK, NEW e \in Ends, Recv(e)
    PROVE  GotKept
<1> DEFINE q == rcv_queue[e]
<1>1. PICK k \in 1..Len(q), m \in 0..WND_RCV :
        MoveAvailable(e, rcv_buf[e], SubSeq(q, k + 1, Len(q)), m)
  BY DEF Recv
<1>2. q \in Seq(Frag) /\ Len(q) \in Nat /\ k \in Nat /\ m \in Nat
  BY LenProperties, KcpAssumption DEF TypeOK
<1>3. SubSeq(q, k + 1, Len(q)) \in Seq(Frag)
  <2> HIDE DEF q
  <2>1. \A i \in (k + 1)..Len(q) : q[i] \in Frag
    <3>1. \A i \in (k + 1)..Len(q) : i \in 1..Len(q)
      BY <1>2, SMT
    <3> QED BY <1>2, <3>1, ElementOfSeq
  <2> QED BY <1>2, <2>1, SubSeqProperties, k + 1 \in Int
<1>4. rcv_buf[e] \in SUBSET Seg
  BY DEF TypeOK
<1> HIDE DEF q
<1>5. /\ \A sn \in Nat :
            sn < rcv_nxt[e] \/ sn \in Sns(rcv_buf[e]) => GotNext(e, sn)
      /\ \A f \in Ends \ {e} : \A sn \in Nat : Got(f, sn) => GotNext(f, sn)
  BY <1>1, <1>2, <1>3, <1>4, MoveGot
<1> QED BY <1>5 DEF GotKept, Got, GotNext

\* Parsing a PUSH segment loses nothing, and the end has a segment it keeps.
LEMMA InputPushGot ==
    ASSUME TypeOK, NEW e \in Ends, NEW s \in rx[e],
           NEW m \in Nat,
           MoveAvailable(e, IF s.sn \in Sns(rcv_buf[e]) THEN rcv_buf[e]
                            ELSE rcv_buf[e] \union {s}, rcv_queue[e], m)
    PROVE  GotKept /\ GotNext(e, s.sn)
<1> DEFINE buf == IF s.sn \in Sns(rcv_buf[e]) THEN rcv_buf[e]
                  ELSE rcv_buf[e] \union {s}
<1>1. /\ buf \in SUBSET Seg /\ rcv_queue[e] \in Seq(Frag) /\ s.sn \in Nat
      /\ Sns(rcv_buf[e]) \subseteq Sns(buf) /\ s.sn \in Sns(buf)
  BY DEF TypeOK, Sns, Seg
<1> HIDE DEF buf
<1>2. MoveAvailable(e, buf, rcv_queue[e], m)
  BY DEF buf
<1>3. /\ \A sn \in Nat : sn < rcv_nxt[e] \/ sn \in Sns(buf) => GotNext(e, sn)
      /\ \A f \in Ends \ {e} : \A sn \in Nat : Got(f, sn) => GotNext(f, sn)
  BY <1>1, <1>2, MoveGot
<1> QED BY <1>1, <1>3 DEF GotKept, Got, GotNext

-----------------------------------------------------------------------------
AckFacts == AcksTrue /\ NoSegmentAbandoned

\* Steps that touch neither the numbering, the sender's buffer, the pending
\* acknowledgements nor, but to remove from it, the network.
LEMMA OtherAcks ==
    ASSUME AckInv, GotKept, UNCHANGED <<snd_buf, snd_nxt, acklist>>,
           net' \subseteq net, \A e \in Ends : rcv_nxt[e] <= rcv_nxt'[e],
           TypeOK'
    PROVE  AckFacts'
<1>1. TypeOK /\ AcksTrue /\ NoSegmentAbandoned
  BY DEF AckInv, StreamInv
<1>2. AcksTrue'
  <2>1. ASSUME NEW e \in Ends, NEW i \in 1..Len(acklist[e])
        PROVE  GotNext(e, acklist[e][i])
    <3>1. Got(e, acklist[e][i]) /\ acklist[e][i] \in Nat
      BY <1>1, ElementOfSeq DEF AcksTrue, TypeOK
    <3>2. UNCHANGED acklist
      OBVIOUS
    <3> QED BY <3>1, <3>2 DEF GotKept, Got, GotNext
  <2>2. ASSUME NEW d \in net'
        PROVE  /\ d.una <= rcv_nxt'[Peer(d.to)]
               /\ \A sn \in d.acks : GotNext(Peer(d.to), sn)
    <3>1. /\ d \in net /\ d.una \in Nat /\ d.acks \subseteq Nat
          /\ Peer(d.to) \in Ends
      BY <1>1, Peers DEF TypeOK, Datagram
    <3>2. /\ d.una <= rcv_nxt[Peer(d.to)]
          /\ \A sn \in d.acks : Got(Peer(d.to), sn)
      BY <1>1, <3>1 DEF AcksTrue
    <3>3. rcv_nxt[Peer(d.to)] \in Nat /\ rcv_nxt'[Peer(d.to)] \in Nat
      BY <1>1, <3>1 DEF TypeOK
    <3>4. rcv_nxt[Peer(d.to)] <= rcv_nxt'[Peer(d.to)]
      BY <3>1
    <3>5. d.una <= rcv_nxt'[Peer(d.to)]
      BY <3>1, <3>2, <3>3, <3>4, SMT
    <3> QED BY <3>1, <3>2, <3>5 DEF GotKept
  <2> QED BY <2>1, <2>2, Zenon DEF AcksTrue, Got, GotNext
<1>3. NoSegmentAbandoned'
  <2>1. ASSUME NEW e \in Ends, NEW sn \in 0..(snd_nxt[e] - 1),
               sn \notin Sns(snd_buf[e])
        PROVE  GotNext(Peer(e), sn)
    <3>1. Got(Peer(e), sn) /\ sn \in Nat /\ Peer(e) \in Ends
      BY <1>1, <2>1, Peers DEF NoSegmentAbandoned, Got, GotNext
    <3> QED BY <3>1 DEF GotKept
  <2> QED BY <2>1 DEF NoSegmentAbandoned, Got, GotNext
<1> QED BY <1>2, <1>3 DEF AckFacts

LEMMA FlushAcks ==
    ASSUME AckInv, TypeOK', NEW e \in Ends, NEW overdue \in SUBSET snd_buf[e],
           NEW due \in BOOLEAN, Flush(e, overdue, due)
    PROVE  AckFacts'
<1> DEFINE n == Moved(e, imin(cwnd[e], imin(WND_SND, rmt_wnd[e])))
           fresh == Numbered(e, n)
           last == Len(acklist[e]) + 2 + (snd_nxt[e] + n - snd_una[e])
           dgs == Packed(e, acklist[e], Asked(e, due), snd_una[e],
                         fresh \union overdue, last)
<1>1. TypeOK /\ AcksTrue /\ NoSegmentAbandoned
  BY DEF AckInv, StreamInv
<1>2. /\ net' = net \union dgs
      /\ snd_buf' = [snd_buf EXCEPT ![e] = snd_buf[e] \union fresh]
      /\ snd_nxt' = [snd_nxt EXCEPT ![e] = snd_nxt[e] + n]
      /\ acklist' = [acklist EXCEPT ![e] = <<>>]
      /\ UNCHANGED rcvVars
  BY DEF Flush
<1>3. n \in Nat /\ fresh \in SUBSET Seg
  <2> DEFINE win == imin(cwnd[e], imin(WND_SND, rmt_wnd[e]))
  <2>1. win \in Nat
    BY <1>1, KcpAssumption DEF TypeOK, imin
  <2> HIDE DEF win
  <2>2. Moved(e, win) \in 0..Len(snd_queue[e])
    BY <1>1, <2>1, MovedType
  <2>3. n = Moved(e, win)
    BY DEF win
  <2> HIDE DEF n
  <2>4. n \in 0..Len(snd_queue[e]) /\ Len(snd_queue[e]) \in Nat
    BY <1>1, <2>2, <2>3, LenProperties DEF TypeOK
  <2> QED BY <1>1, <2>4, NumberedType
<1>4. \A f \in Ends : \A sn : Got(f, sn) <=> GotNext(f, sn)
  BY <1>2 DEF Got, GotNext, rcvVars
<1>5. ASSUME NEW d \in dgs
      PROVE  /\ Peer(d.to) = e /\ d.una = rcv_nxt[e]
             /\ \A sn \in d.acks : \E i \in 1..Len(acklist[e]) : sn = acklist[e][i]
  <2>1. acklist[e] \in Seq(Nat) /\ fresh \union overdue \in SUBSET Seg
    BY <1>1, <1>3 DEF TypeOK
  <2>2. /\ d.to = Peer(e) /\ d.una = rcv_nxt[e]
        /\ \A sn \in d.acks : \E i \in 1..Len(acklist[e]) : sn = acklist[e][i]
    <3> DEFINE push == fresh \union overdue
    <3>1. push \in SUBSET Seg
      BY <2>1
    <3>2. d \in Packed(e, acklist[e], Asked(e, due), snd_una[e], push, last)
      BY <1>5
    <3> HIDE DEF push, last, dgs
    <3>3. \A dd \in Packed(e, acklist[e], Asked(e, due), snd_una[e], push, last) :
            /\ dd.to = Peer(e) /\ dd.una = rcv_nxt[e]
            /\ \A sn \in dd.acks :
                  \E i \in 1..Len(acklist[e]) : sn = acklist[e][i]
      <4> DEFINE acks == acklist[e]
                 ask == Asked(e, due)
                 una == snd_una[e]
      <4>1. TypeOK /\ acks \in Seq(Nat)
        BY <1>1, <2>1
      <4> HIDE DEF acks, ask, una
      <4>2. ASSUME NEW dd \in Packed(e, acks, ask, una, push, last)
            PROVE  /\ dd.to = Peer(e) /\ dd.una = rcv_nxt[e]
                   /\ \A sn \in dd.acks : \E i \in 1..Len(acks) : sn = acks[i]
        <5>1. dd.to = Peer(e) /\ dd.una = rcv_nxt[e]
          BY <3>1, <4>1, <1>1, LenProperties DEF Packed
        <5>2. \A sn \in dd.acks : \E i \in 1..Len(acks) : sn = acks[i]
          BY <3>1, <4>1, PackedType
        <5> QED BY <5>1, <5>2
      <4> QED BY <4>2 DEF acks, ask, una
    <3> QED BY <3>2, <3>3
  <2> QED BY <2>2, Peers
<1> HIDE DEF n, fresh, last, dgs
<1>6. AcksTrue'
  <2>1. ASSUME NEW f \in Ends, NEW i \in 1..Len(acklist'[f])
        PROVE  GotNext(f, acklist'[f][i])
    <3>1. CASE f = e
      BY <1>1, <1>2, <2>1, <3>1 DEF TypeOK
    <3>2. CASE f # e
      <4>1. acklist'[f] = acklist[f]
        BY <1>1, <1>2, <3>2 DEF TypeOK
      <4>2. i \in 1..Len(acklist[f])
        BY <2>1, <4>1
      <4>3. Got(f, acklist[f][i])
        BY <1>1, <4>2 DEF AcksTrue
      <4>4. rcv_nxt' = rcv_nxt /\ rcv_buf' = rcv_buf
        BY <1>2 DEF rcvVars
      <4> QED BY <4>1, <4>3, <4>4 DEF Got, GotNext
    <3> QED BY <3>1, <3>2
  <2>2. ASSUME NEW d \in net'
        PROVE  /\ d.una <= rcv_nxt'[Peer(d.to)]
               /\ \A sn \in d.acks : GotNext(Peer(d.to), sn)
    <3>1. CASE d \in net
      BY <1>1, <1>2, <3>1 DEF AcksTrue, Got, GotNext, rcvVars
    <3>2. CASE d \in dgs
      <4>1. d.una <= rcv_nxt'[Peer(d.to)]
        <5>1. rcv_nxt[e] \in Nat /\ rcv_nxt' = rcv_nxt
          BY <1>1, <1>2 DEF TypeOK, rcvVars
        <5> QED BY <1>5, <3>2, <5>1
      <4>2. \A sn \in d.acks : Got(Peer(d.to), sn)
        BY <1>1, <1>5, <3>2 DEF AcksTrue
      <4> QED BY <1>2, <4>1, <4>2 DEF Got, GotNext, rcvVars
    <3> QED BY <1>2, <3>1, <3>2
  <2> QED BY <2>1, <2>2, Zenon DEF AcksTrue, Got, GotNext
<1>7. NoSegmentAbandoned'
  <2>1. ASSUME NEW sn \in 0..(snd_nxt[e] + n - 1), ~(sn < snd_nxt[e])
        PROVE  sn \in Sns(fresh)
    <3>1. snd_nxt[e] \in Nat
      BY <1>1 DEF TypeOK
    <3> DEFINE i == sn - snd_nxt[e] + 1
    <3>2. i \in 1..n /\ snd_nxt[e] + i - 1 = sn
      BY <1>3, <2>1, <3>1, SMT
    <3> HIDE DEF i
    <3>3. [sn |-> snd_nxt[e] + i - 1, frag |-> snd_queue[e][i]] \in fresh
      BY <3>2 DEF fresh, Numbered
    <3>4. [sn |-> sn, frag |-> snd_queue[e][i]] \in fresh
      BY <3>2, <3>3
    <3> QED BY <3>4 DEF Sns
  <2>2. ASSUME NEW f \in Ends, NEW sn \in 0..(snd_nxt'[f] - 1)
        PROVE  sn \in Sns(snd_buf'[f]) \/ Got(Peer(f), sn)
    <3>1. Sns(snd_buf[f]) \subseteq Sns(snd_buf'[f])
      BY <1>1, <1>2 DEF TypeOK, Sns
    <3>2. CASE sn \in 0..(snd_nxt[f] - 1)
      BY <1>1, <3>1, <3>2 DEF NoSegmentAbandoned, Got, GotNext
    <3>3. CASE sn \notin 0..(snd_nxt[f] - 1)
      <4>1. f = e
        BY <1>1, <1>2, <2>2, <3>3 DEF TypeOK
      <4>2. snd_nxt'[f] = snd_nxt[e] + n /\ snd_buf'[f] = snd_buf[e] \union fresh
        BY <1>1, <1>2, <4>1 DEF TypeOK
      <4>3. sn \in 0..(snd_nxt[e] + n - 1) /\ ~(sn < snd_nxt[e])
        <5>1. sn \in 0..(snd_nxt[e] + n - 1)
          <6>1. snd_nxt[e] \in Nat
            BY <1>1 DEF TypeOK
          <6> QED BY <1>3, <4>2, <6>1, SMT
        <5>2. snd_nxt[e] \in Nat
          BY <1>1 DEF TypeOK
        <5> QED BY <1>3, <3>3, <4>1, <5>1, <5>2, SMT
      <4>4. sn \in Sns(fresh)
        BY <2>1, <4>3
      <4> QED BY <4>2, <4>4 DEF Sns
    <3> QED BY <3>2, <3>3
  <2>3. UNCHANGED <<rcv_nxt, rcv_buf>>
    BY <1>2 DEF rcvVars
  <2> QED BY <2>2, <2>3, Zenon DEF NoSegmentAbandoned, Got, GotNext
<1> QED BY <1>6, <1>7 DEF AckFacts

\* An acknowledgement that comes in names a segment its sender has.
LEMMA InputAcks ==
    ASSUME AckInv, TypeOK', NEW e \in Ends, NEW d \in net,
           NEW padded \in BOOLEAN, Input(e, d, padded), net' \subseteq net
    PROVE  AckFacts'
<1>1. TypeOK /\ AcksTrue /\ NoSegmentAbandoned
  BY DEF AckInv, StreamInv
<1>2. /\ UNCHANGED <<snd_nxt, rcv_nxt, rcv_buf, acklist>>
      /\ snd_buf' = [snd_buf EXCEPT ![e] = Unacked(e, d)]
      /\ d.to = e
  BY DEF Input, rcvVars
<1>3. AcksTrue'
  BY <1>1, <1>2 DEF AcksTrue, Got, GotNext
<1>4. ASSUME NEW s \in snd_buf[e], s \notin Unacked(e, d)
      PROVE  Got(Peer(e), s.sn)
  <2>1. s.sn \in Nat /\ d.una \in Nat /\ rcv_nxt[Peer(e)] \in Nat
    <3>1. s \in Seg /\ d \in Datagram /\ rcv_nxt \in [Ends -> Nat]
      BY <1>1 DEF TypeOK
    <3> QED BY <3>1, Peers DEF Seg, Datagram
  <2>2. /\ d.una <= rcv_nxt[Peer(e)]
        /\ \A sn \in d.acks : Got(Peer(e), sn)
    BY <1>1, <1>2 DEF AcksTrue
  <2>3. CASE s.sn < d.una
    <3>1. s.sn < rcv_nxt[Peer(e)]
      BY <2>1, <2>2, <2>3, SMT
    <3> QED BY <3>1 DEF Got, GotNext
  <2>4. CASE s.sn \in d.acks
    BY <2>2, <2>4
  <2> QED BY <1>4, <2>3, <2>4 DEF Unacked
<1>5. NoSegmentAbandoned'
  <2>1. ASSUME NEW f \in Ends, NEW sn \in 0..(snd_nxt[f] - 1)
        PROVE  sn \in Sns(snd_buf'[f]) \/ Got(Peer(f), sn)
    <3>1. CASE sn \in Sns(snd_buf[f])
      <4>1. PICK s \in snd_buf[f] : s.sn = sn
        BY <3>1 DEF Sns
      <4>2. s \in snd_buf'[f] \/ (f = e /\ s \notin Unacked(e, d))
        BY <1>1, <1>2 DEF TypeOK
      <4> QED BY <1>4, <4>1, <4>2 DEF Sns
    <3>2. CASE sn \notin Sns(snd_buf[f])
      BY <1>1, <3>2 DEF NoSegmentAbandoned, Got, GotNext
    <3> QED BY <3>1, <3>2
  <2> QED BY <1>2, <2>1, Zenon DEF NoSegmentAbandoned, Got, GotNext
<1> QED BY <1>3, <1>5 DEF AckFacts

\* A segment that ikcp_input acknowledges came before, or is kept.
LEMMA InputPushAcks ==
    ASSUME AckInv, TypeOK', NEW e \in Ends, InputPush(e)
    PROVE  AckFacts'
<1>1. TypeOK /\ AcksTrue /\ NoSegmentAbandoned
  BY DEF AckInv, StreamInv
<1>2. PICK s \in rx[e] :
        /\ acklist' = IF Accepts(e, s)
                      THEN [acklist EXCEPT ![e] = Append(@, s.sn)]
                      ELSE acklist
        /\ \/ /\ Keeps(e, s)
              /\ LET buf == IF s.sn \in Sns(rcv_buf[e]) THEN rcv_buf[e]
                            ELSE rcv_buf[e] \union {s}
                 IN  \E m \in 0..WND_RCV :
                        MoveAvailable(e, buf, rcv_queue[e], m)
           \/ /\ ~Keeps(e, s)
              /\ UNCHANGED rcvVars
  BY Zenon DEF InputPush
<1>3. UNCHANGED <<snd_buf, snd_nxt, net>>
  BY DEF InputPush, sndVars
<1>4. s.sn \in Nat /\ rcv_nxt[e] \in Nat /\ WND_RCV \in Nat
  BY <1>1, KcpAssumption DEF TypeOK, Seg
<1>5. GotKept /\ (Accepts(e, s) => GotNext(e, s.sn))
  <2>1. CASE Keeps(e, s)
    <3>1. PICK m \in 0..WND_RCV :
            MoveAvailable(e, IF s.sn \in Sns(rcv_buf[e]) THEN rcv_buf[e]
                             ELSE rcv_buf[e] \union {s}, rcv_queue[e], m)
      BY <1>2, <2>1
    <3>2. m \in Nat
      BY <1>4
    <3> QED BY <1>1, <3>1, <3>2, InputPushGot
  <2>2. CASE ~Keeps(e, s)
    <3>1. UNCHANGED <<rcv_nxt, rcv_buf>>
      BY <1>2, <2>2 DEF rcvVars
    <3>2. Accepts(e, s) => s.sn < rcv_nxt[e]
      BY <1>4, <2>2, SMT DEF Accepts, Keeps
    <3> QED BY <3>1, <3>2 DEF GotKept, Got, GotNext
  <2> QED BY <2>1, <2>2
<1>6. \A f \in Ends : rcv_nxt[f] <= rcv_nxt'[f]
  <2>1. CASE Keeps(e, s)
    <3>1. PICK m \in 0..WND_RCV : rcv_nxt' = [rcv_nxt EXCEPT ![e] = @ + m]
      BY <1>2, <2>1 DEF MoveAvailable
    <3>2. m \in Nat /\ rcv_nxt \in [Ends -> Nat]
      BY <1>1, <1>4 DEF TypeOK
    <3> QED BY <3>1, <3>2
  <2>2. CASE ~Keeps(e, s)
    BY <1>1, <1>2, <2>2 DEF TypeOK, rcvVars
  <2> QED BY <2>1, <2>2
<1>7. CASE ~Accepts(e, s)
  BY <1>2, <1>3, <1>5, <1>6, <1>7, OtherAcks
<1>8. CASE Accepts(e, s)
  <2>1. acklist' = [acklist EXCEPT ![e] = Append(acklist[e], s.sn)]
    BY <1>2, <1>8
  <2>2. ASSUME NEW f \in Ends, NEW i \in 1..Len(acklist'[f])
        PROVE  GotNext(f, acklist'[f][i])
    <3>1. acklist[f] \in Seq(Nat) /\ Len(acklist[f]) \in Nat
      BY <1>1, LenProperties DEF TypeOK
    <3>2. ASSUME NEW j \in 1..Len(acklist[f]) PROVE GotNext(f, acklist[f][j])
      <4>1. Got(f, acklist[f][j]) /\ acklist[f][j] \in Nat
        BY <1>1, <3>1, ElementOfSeq DEF AcksTrue
      <4> QED BY <1>5, <4>1 DEF GotKept
    <3>3. CASE f = e
      <4>1. acklist'[f] = Append(acklist[e], s.sn)
        BY <1>1, <2>1, <3>3 DEF TypeOK
      <4>2. /\ Len(acklist'[f]) = Len(acklist[e]) + 1
            /\ \A j \in 1..Len(acklist[e]) : acklist'[f][j] = acklist[e][j]
            /\ acklist'[f][Len(acklist[e]) + 1] = s.sn
        BY <1>4, <3>1, <3>3, <4>1, AppendProperties
      <4>3. i \in 1..Len(acklist[e]) \/ i = Len(acklist[e]) + 1
        BY <2>2, <3>1, <3>3, <4>2, SMT
      <4>4. acklist'[f][i] = s.sn \/ (i \in 1..Len(acklist[e])
                                      /\ acklist'[f][i] = acklist[e][i])
        BY <4>2, <4>3
      <4> QED BY <1>5, <1>8, <3>2, <3>3, <4>4 DEF Got, GotNext
    <3>4. CASE f # e
      <4>1. acklist'[f] = acklist[f]
        BY <1>1, <2>1, <3>4 DEF TypeOK
      <4> QED BY <2>2, <3>2, <4>1
    <3> QED BY <3>3, <3>4
  <2>3. ASSUME NEW d \in net
        PROVE  /\ d.una <= rcv_nxt'[Peer(d.to)]
               /\ \A sn \in d.acks : GotNext(Peer(d.to), sn)
    <3>1. /\ d.una \in Nat /\ d.acks \subseteq Nat /\ Peer(d.to) \in Ends
      BY <1>1, Peers DEF TypeOK, Datagram
    <3>2. /\ d.una <= rcv_nxt[Peer(d.to)]
          /\ \A sn \in d.acks : Got(Peer(d.to), sn)
      BY <1>1 DEF AcksTrue
    <3>3. rcv_nxt[Peer(d.to)] \in Nat /\ rcv_nxt'[Peer(d.to)] \in Nat
      BY <1>1, <3>1 DEF TypeOK
    <3>4. rcv_nxt[Peer(d.to)] <= rcv_nxt'[Peer(d.to)]
      BY <1>6, <3>1
    <3>5. d.una <= rcv_nxt'[Peer(d.to)]
      BY <3>1, <3>2, <3>3, <3>4, SMT
    <3> QED BY <1>5, <3>1, <3>2, <3>5 DEF GotKept
  <2>4. AcksTrue'
    BY <1>3, <2>2, <2>3, Zenon DEF AcksTrue, Got, GotNext
  <2>5. NoSegmentAbandoned'
    <3>1. ASSUME NEW f \in Ends, NEW sn \in 0..(snd_nxt[f] - 1),
                 sn \notin Sns(snd_buf[f])
          PROVE  GotNext(Peer(f), sn)
      <4>1. Got(Peer(f), sn) /\ sn \in Nat /\ Peer(f) \in Ends
        BY <1>1, <3>1, Peers DEF NoSegmentAbandoned, Got, GotNext
      <4> QED BY <1>5, <4>1 DEF GotKept
    <3> QED BY <1>3, <3>1 DEF NoSegmentAbandoned, Got, GotNext
  <2> QED BY <2>4, <2>5 DEF AckFacts
<1> QED BY <1>7, <1>8

LEMMA InitAcks == Init => AckFacts
BY DEF Init, AckFacts, AcksTrue, NoSegmentAbandoned, Ends

\* Every step keeps what is said of the acknowledgements.
LEMMA StepAcks == AckInv /\ TypeOK' /\ [Next]_vars => AckFacts'
<1> SUFFICES ASSUME AckInv, TypeOK', [Next]_vars PROVE AckFacts'
  OBVIOUS
<1>1. TypeOK
  BY DEF AckInv, StreamInv
<1>2. ASSUME UNCHANGED <<snd_buf, snd_nxt, acklist, rcv_nxt, rcv_buf>>,
             net' \subseteq net
      PROVE  AckFacts'
  <2>1. GotKept
    BY <1>2 DEF GotKept, Got, GotNext
  <2>2. \A e \in Ends : rcv_nxt[e] <= rcv_nxt'[e]
    <3>1. rcv_nxt \in [Ends -> Nat] /\ rcv_nxt' = rcv_nxt
      BY <1>1, <1>2 DEF TypeOK
    <3> QED BY <3>1
  <2> QED BY <1>2, <2>1, <2>2, OtherAcks
<1>3. ASSUME NEW e \in Ends, NEW len \in MsgLens, Send(e, len)
      PROVE  AckFacts'
  BY <1>2, <1>3 DEF Send, rcvVars
<1>4. ASSUME NEW e \in Ends, Recv(e) PROVE AckFacts'
  <2>1. GotKept
    BY <1>1, <1>4, RecvGot
  <2>2. \A f \in Ends : rcv_nxt[f] <= rcv_nxt'[f]
    <3>1. PICK m \in 0..WND_RCV : rcv_nxt' = [rcv_nxt EXCEPT ![e] = @ + m]
      BY <1>4 DEF Recv, MoveAvailable
    <3>2. m \in Nat /\ rcv_nxt \in [Ends -> Nat]
      BY <1>1, KcpAssumption DEF TypeOK
    <3> QED BY <3>1, <3>2
  <2>3. UNCHANGED <<snd_buf, snd_nxt, acklist, net>>
    BY <1>4 DEF Recv, sndVars
  <2> QED BY <2>1, <2>2, <2>3, OtherAcks
<1>5. ASSUME NEW e \in Ends, NEW overdue \in SUBSET snd_buf[e],
             NEW due \in BOOLEAN, Flush(e, overdue, due)
      PROVE  AckFacts'
  BY <1>5, FlushAcks
<1>6. ASSUME NEW e \in Ends, NEW d \in net, NEW padded \in BOOLEAN,
             Deliver(e, d, padded) \/ Duplicate(e, d, padded)
      PROVE  AckFacts'
  <2>1. Input(e, d, padded) /\ net' \subseteq net
    BY <1>6 DEF Deliver, Duplicate
  <2> QED BY <2>1, InputAcks
<1>7. ASSUME NEW e \in Ends, InputPush(e) PROVE AckFacts'
  BY <1>7, InputPushAcks
<1>8. CASE \/ \E d \in net : Lose(d)
           \/ UNCHANGED vars
  BY <1>2, <1>8 DEF Lose, vars, sndVars, rcvVars
<1> QED BY <1>3, <1>4, <1>5, <1>6, <1>7, <1>8 DEF Next, Step, Again

\* Whatever is lost, repeated or reordered, no segment leaves the sender
\* before the receiver has it.
THEOREM SegmentsKept == Spec => []NoSegmentAbandoned
<1>1. Init => AckFacts
  BY InitAcks
<1>2. StreamInv /\ AckFacts /\ TypeOK' /\ [Next]_vars => AckFacts'
  BY StepAcks DEF AckInv, AckFacts
<1>3. AckFacts => NoSegmentAbandoned
  BY DEF AckFacts
<1> QED BY <1>1, <1>2, <1>3, Types, StreamInvariant, PTL DEF Spec

-------------------------------------------------------------------------------
(***************************************************************************)
(* KcpLink implements ReliableStream, for every window, MTU, buffer,       *)
(* message length, bound and network: ikcp_send accepts one message and    *)
(* ikcp_recv hands out the next one of the peer, whole; no other step is   *)
(* seen by the applications.                                               *)
(***************************************************************************)
USE DEF sndVars, congVars, probeVars, rcvVars, histVars

\* A message has at least one fragment.
LEMMA FragCountPositive ==
    ASSUME NEW len \in Nat
    PROVE  FragCount(len) \in Nat \ {0}
<1>1. CASE len <= MSS
  BY <1>1 DEF FragCount
<1>2. CASE ~(len <= MSS)
  <2>1. FragCount(len) = (len + MSS - 1) \div MSS
    BY <1>2 DEF FragCount
  <2>2. FragCount(len) \in Nat /\ MSS * FragCount(len) <= len + MSS - 1
    BY <2>1, MssType, Quotient, len + MSS - 1 \in Nat, SMT
  <2> QED BY <1>2, <2>1, <2>2, MssType, SMT
<1> QED BY <1>1, <1>2

\* The fragments of a message are numbered down to 0.
LEMMA FragmentsMessage ==
    ASSUME NEW m \in Nat, NEW len \in Nat
    PROVE  /\ Len(Fragments(m, len)) = FragCount(len)
           /\ \A i \in 1..FragCount(len) :
                 Fragments(m, len)[i].frg = FragCount(len) - i
<1> DEFINE count == FragCount(len)
           frags == Fragments(m, len)
<1>1. count \in Nat
  BY FragCountPositive
<1>2. frags = [i \in 1..count |->
            [msg |-> m, frg |-> count - i,
             len |-> IF i < count THEN MSS ELSE len - (count - 1) * MSS]]
  BY Zenon DEF Fragments
<1>3. frags \in Seq(Frag)
  BY FragmentsType
<1>4. DOMAIN frags = 1..count
  BY <1>2
<1>5. Len(frags) = count
  <2>1. Len(frags) \in Nat /\ DOMAIN frags = 1..Len(frags)
    BY <1>3, LenProperties
  <2> HIDE DEF frags, count
  <2> QED BY <1>1, <1>4, <2>1, SMT
<1>6. ASSUME NEW i \in 1..count PROVE frags[i].frg = count - i
  BY <1>2
<1> QED BY <1>5, <1>6

\* ikcp_send appends one message to the stream and to no other.
LEMMA SendAccepts ==
    ASSUME StreamInv, NEW e \in Ends, NEW len \in MsgLens, Send(e, len)
    PROVE  Stream!Accept(e)
<1> DEFINE s == stream[e]
           frags == Fragments(Len(s), len)
           count == FragCount(len)
<1>1. len \in Nat /\ s \in Seq(Frag) /\ Len(s) \in Nat
  BY KcpAssumption, LenProperties DEF StreamInv, TypeOK
<1>2. count \in Nat \ {0}
  BY <1>1, FragCountPositive
<1>3. /\ frags \in Seq(Frag) /\ Len(frags) = count
      /\ \A i \in 1..count : frags[i].frg = count - i
  BY <1>1, FragmentsType, FragmentsMessage
<1>4. /\ stream' = [stream EXCEPT ![e] = s \o frags]
      /\ consumed' = consumed
  BY DEF Send
<1>5. /\ stream'[e] = s \o frags
      /\ \A f \in Ends \ {e} : stream'[f] = stream[f]
  BY <1>4 DEF StreamInv, TypeOK
<1> HIDE DEF frags, count
<1>6. /\ Len(s \o frags) = Len(s) + count
      /\ s \o frags \in Seq(Frag)
      /\ \A i \in 1..(Len(s) + count) :
            (s \o frags)[i] = IF i <= Len(s) THEN s[i] ELSE frags[i - Len(s)]
  BY <1>1, <1>3, ConcatProperties
<1> HIDE DEF s
<1>7. SubSeq(s \o frags, 1, Len(s)) = s
  <2>1. /\ SubSeq(s \o frags, 1, Len(s)) \in Seq(Frag)
        /\ Len(SubSeq(s \o frags, 1, Len(s))) = IF 1 <= Len(s) THEN Len(s) - 1 + 1 ELSE 0
        /\ \A i \in 1..(Len(s) - 1 + 1) :
              SubSeq(s \o frags, 1, Len(s))[i] = (s \o frags)[1 + i - 1]
    <3>1. \A i \in 1..Len(s) : (s \o frags)[i] \in Frag
      <4>1. \A i \in 1..Len(s) : i \in 1..Len(s \o frags)
        BY <1>1, <1>2, <1>6, SMT
      <4> QED BY <1>6, <4>1, ElementOfSeq
    <3> QED BY <1>1, <3>1, SubSeqProperties, 1 \in Int, Len(s) \in Int
  <2>2. Len(SubSeq(s \o frags, 1, Len(s))) = Len(s)
    BY <1>1, <2>1, SMT
  <2>3. ASSUME NEW i \in 1..Len(s)
        PROVE  SubSeq(s \o frags, 1, Len(s))[i] = s[i]
    <3>1. /\ i \in 1..(Len(s) - 1 + 1) /\ 1 + i - 1 = i
          /\ i \in 1..(Len(s) + count) /\ i <= Len(s)
      BY <1>1, <1>2, SMT
    <3> QED BY <1>6, <2>1, <3>1
  <2> QED BY <1>1, <2>1, <2>2, <2>3, SeqEqual
<1>8. Stream!IsMessage(s \o frags, Len(s), Len(s \o frags))
  <2>1. Len(s) < Len(s) + count
    BY <1>1, <1>2, SMT
  <2>2. (s \o frags)[Len(s) + count].frg = 0
    <3>1. /\ Len(s) + count \in 1..(Len(s) + count)
          /\ ~(Len(s) + count <= Len(s)) /\ Len(s) + count - Len(s) = count
          /\ count \in 1..count /\ count - count = 0
      BY <1>1, <1>2, SMT
    <3> QED BY <1>3, <1>6, <3>1
  <2>3. ASSUME NEW i \in (Len(s) + 1)..(Len(s) + count - 1)
        PROVE  (s \o frags)[i].frg # 0
    <3>1. /\ i \in 1..(Len(s) + count) /\ ~(i <= Len(s))
          /\ i - Len(s) \in 1..count /\ count - (i - Len(s)) # 0
      BY <1>1, <1>2, SMT
    <3> QED BY <1>3, <1>6, <3>1
  <2> QED BY <1>1, <1>2, <1>6, <2>1, <2>2, <2>3, SMT DEF Stream!IsMessage
<1> QED BY <1>4, <1>5, <1>7, <1>8 DEF Stream!Accept, s

\* ikcp_recv hands out the next message of the peer.
LEMMA RecvHands ==
    ASSUME StreamInv, NEW e \in Ends, Recv(e)
    PROVE  Stream!Hand(e)
<1> DEFINE q == rcv_queue[e]
           p == Peer(e)
           c == consumed[e]
           s == stream[p]
<1>1. PICK k \in 1..Len(q) :
        /\ Peek(q, k)
        /\ consumed' = [consumed EXCEPT ![e] = c \o SubSeq(q, 1, k)]
        /\ stream' = stream
  BY DEF Recv
<1> DEFINE head == SubSeq(q, 1, k)
           to == Len(c) + k
<1>2. /\ q \in Seq(Frag) /\ c \in Seq(Frag) /\ s \in Seq(Frag) /\ p \in Ends
      /\ Len(q) \in Nat /\ Len(c) \in Nat /\ Len(s) \in Nat /\ k \in Nat
      /\ rcv_nxt[e] \in Nat /\ snd_nxt[p] \in Nat /\ Len(snd_queue[p]) \in Nat
  BY Peers, LenProperties DEF StreamInv, TypeOK
<1>3. /\ rcv_nxt[e] = Len(c) + Len(q) /\ rcv_nxt[e] <= snd_nxt[p]
      /\ Len(s) = snd_nxt[p] + Len(snd_queue[p])
      /\ \A i \in 1..Len(c) : c[i] = s[i]
      /\ \A i \in 1..Len(q) : q[i] = s[Len(c) + i]
  BY <1>2 DEF StreamInv, ReceivedPrefix, StreamSplit
<1>4. k <= Len(q) /\ 1 <= k
  BY <1>2, SMT
<1> HIDE DEF q, p, c, s
<1>5. to \in 1..Len(s) /\ Len(c) < to /\ to \in Nat
  BY <1>2, <1>3, <1>4, SMT
<1>6. Stream!IsMessage(s, Len(c), to)
  <2>1. q[k].frg = 0 /\ \A i \in 1..(k - 1) : q[i].frg # 0
    BY <1>1 DEF Peek, HeadMessage
  <2>2. s[to].frg = 0
    BY <1>3, <2>1
  <2>3. ASSUME NEW i \in (Len(c) + 1)..(to - 1) PROVE s[i].frg # 0
    <3> DEFINE j == i - Len(c)
    <3>1. j \in 1..(k - 1) /\ j \in 1..Len(q) /\ Len(c) + j = i
      BY <1>2, <1>4, SMT
    <3>2. q[j] = s[Len(c) + j] /\ q[j].frg # 0
      BY <1>3, <2>1, <3>1
    <3> HIDE DEF j
    <3> QED BY <3>1, <3>2
  <2>4. to <= Len(s)
    BY <1>2, <1>5, SMT
  <2> QED BY <1>5, <2>2, <2>3, <2>4 DEF Stream!IsMessage
<1>7. c \o head = SubSeq(s, 1, to)
  <2>1. /\ head \in Seq(Frag) /\ Len(head) = k
        /\ \A i \in 1..k : head[i] = q[i]
    <3>1. \A i \in 1..k : i \in 1..Len(q)
      BY <1>2, <1>4, SMT
    <3>2. \A i \in 1..k : q[i] \in Frag
      BY <1>2, <3>1, ElementOfSeq
    <3>3. /\ head \in Seq(Frag)
          /\ Len(head) = IF 1 <= k THEN k - 1 + 1 ELSE 0
          /\ \A i \in 1..(k - 1 + 1) : head[i] = q[1 + i - 1]
      BY <1>2, <3>2, SubSeqProperties, 1 \in Int, k \in Int
    <3> HIDE DEF head
    <3>4. Len(head) = k
      BY <1>2, <1>4, <3>3, SMT
    <3>5. ASSUME NEW i \in 1..k PROVE head[i] = q[i]
      <4>1. i \in 1..(k - 1 + 1) /\ 1 + i - 1 = i
        BY <1>2, SMT
      <4> QED BY <3>3, <4>1
    <3> QED BY <3>3, <3>4, <3>5
  <2> DEFINE up == SubSeq(s, 1, to)
  <2>2. /\ up \in Seq(Frag) /\ Len(up) = to
        /\ \A i \in 1..to : up[i] = s[i]
    <3> HIDE DEF to
    <3>1. \A i \in 1..to : i \in 1..Len(s)
      BY <1>2, <1>5, SMT
    <3>2. \A i \in 1..to : s[i] \in Frag
      BY <1>2, <3>1, ElementOfSeq
    <3>3. /\ up \in Seq(Frag)
          /\ Len(up) = IF 1 <= to THEN to - 1 + 1 ELSE 0
          /\ \A i \in 1..(to - 1 + 1) : up[i] = s[1 + i - 1]
      BY <1>5, <3>2, SubSeqProperties, 1 \in Int, to \in Int
    <3> HIDE DEF up
    <3>4. Len(up) = to
      BY <1>2, <1>5, <3>3, SMT
    <3>5. ASSUME NEW i \in 1..to PROVE up[i] = s[i]
      <4>1. i \in 1..(to - 1 + 1) /\ 1 + i - 1 = i
        BY <1>5, SMT
      <4> QED BY <3>3, <4>1
    <3> QED BY <3>3, <3>4, <3>5
  <2> HIDE DEF head, up
  <2>3. /\ c \o head \in Seq(Frag) /\ Len(c \o head) = to
        /\ \A i \in 1..to :
              (c \o head)[i] = IF i <= Len(c) THEN c[i] ELSE head[i - Len(c)]
    BY <1>2, <2>1, ConcatProperties
  <2>4. ASSUME NEW i \in 1..to PROVE (c \o head)[i] = up[i]
    <3>1. CASE i <= Len(c)
      <4>1. i \in 1..Len(c)
        BY <1>2, <1>5, <3>1, SMT
      <4> QED BY <1>3, <2>2, <2>3, <3>1, <4>1
    <3>2. CASE ~(i <= Len(c))
      <4> DEFINE j == i - Len(c)
      <4>1. j \in 1..k /\ j \in 1..Len(q) /\ Len(c) + j = i
        BY <1>2, <1>4, <3>2, SMT
      <4>2. (c \o head)[i] = head[j]
        BY <2>3, <3>2
      <4> HIDE DEF j
      <4> QED BY <1>3, <2>1, <2>2, <4>1, <4>2
    <3> QED BY <3>1, <3>2
  <2> HIDE DEF to
  <2>5. c \o head = up
    BY <2>2, <2>3, <2>4, SeqEqual
  <2> QED BY <2>5 DEF up
<1>8. consumed' = [consumed EXCEPT ![e] = SubSeq(stream[Peer(e)], 1, to)]
  BY <1>1, <1>7 DEF s, p
<1>9. Stream!IsMessage(stream[Peer(e)], Len(consumed[e]), to)
      /\ to \in 1..Len(stream[Peer(e)])
  BY <1>5, <1>6 DEF s, p, c
<1> HIDE DEF to
<1> QED BY <1>1, <1>8, <1>9 DEF Stream!Hand

\* A step is one of the stream's, or changes nothing of it.
LEMMA StepRefines == StreamInv /\ [Next]_vars => [Stream!Next]_(Stream!vars)
<1> SUFFICES ASSUME StreamInv, [Next]_vars
             PROVE  Stream!Next \/ UNCHANGED <<stream, consumed>>
  BY DEF Stream!vars
<1>1. ASSUME NEW e \in Ends, NEW len \in MsgLens, Send(e, len)
      PROVE  Stream!Next
  BY <1>1, SendAccepts DEF Stream!Next
<1>2. ASSUME NEW e \in Ends, Recv(e) PROVE Stream!Next
  BY <1>2, RecvHands DEF Stream!Next
<1>3. ASSUME NEW e \in Ends, NEW overdue \in SUBSET snd_buf[e],
             NEW due \in BOOLEAN, Flush(e, overdue, due)
      PROVE  UNCHANGED <<stream, consumed>>
  BY <1>3 DEF Flush
<1>4. ASSUME NEW e \in Ends, NEW d \in net, NEW padded \in BOOLEAN,
             Deliver(e, d, padded) \/ Duplicate(e, d, padded)
      PROVE  UNCHANGED <<stream, consumed>>
  BY <1>4 DEF Deliver, Duplicate, Input
<1>5. ASSUME NEW e \in Ends, InputPush(e) PROVE UNCHANGED <<stream, consumed>>
  BY <1>5 DEF InputPush
<1>6. CASE (\E d \in net : Lose(d)) \/ UNCHANGED vars
  BY <1>6 DEF Lose, vars
<1> QED BY <1>1, <1>2, <1>3, <1>4, <1>5, <1>6 DEF Next, Step, Again

\* Over any network the two control blocks are a reliable stream of messages
\* in each direction (ikcp.c:358-435, 469-537 and all between).
THEOREM ImplementsStream == Spec => ReliableStreamSpec
<1>1. Init => Stream!Init
  BY DEF Init, Stream!Init
<1> QED BY <1>1, StepRefines, StreamInvariant, PTL
        DEF Spec, ReliableStreamSpec, Stream!Spec

-----------------------------------------------------------------------------
(***************************************************************************)
(* A full receive queue.                                                   *)
(***************************************************************************)
\* fragment i of the stream of end e is in the message of len bytes that
\* follows fragment m, and that message is all there
InMessage(e, i, m, len) ==
    /\ FragCount(len) < WND_RCV
    /\ i \in (m + 1)..(m + FragCount(len))
    /\ m + FragCount(len) <= Len(stream[e])
    /\ \A j \in 1..FragCount(len) : stream[e][m + j] = Fragments(m, len)[j]

WholeMessages ==
    \A e \in Ends : \A i \in 1..Len(stream[e]) :
        \E m \in Nat, len \in MsgLens : InMessage(e, i, m, len)

\* what was handed out ends where a message ends
AtBoundary ==
    \A e \in Ends :
        Len(consumed[e]) < Len(stream[Peer(e)]) =>
            stream[Peer(e)][Len(consumed[e]) + 1].msg = Len(consumed[e])

QueueInv == StreamInv /\ WholeMessages /\ AtBoundary

\* The recursion of ikcp_peeksize has a value for any queue and any length.
LEMMA LengthExists ==
    ASSUME NEW q, NEW k \in Nat
    PROVE  \E f : f = [i \in 0..k |-> IF i = 0 THEN 0 ELSE f[i - 1] + q[i].len]
<1> DEFINE Good(f, n) == f = [i \in 0..n |-> IF i = 0 THEN 0 ELSE f[i - 1] + q[i].len]
           S == {n \in Nat : \E f : Good(f, n)}
<1>1. 0 \in S
  <2> DEFINE f == [i \in 0..0 |-> 0]
  <2>1. Good(f, 0)
    BY \A i \in 0..0 : i = 0, Zenon
  <2> QED BY <2>1
<1>2. ASSUME NEW n \in S PROVE n + 1 \in S
  <2>1. PICK f : Good(f, n)
    OBVIOUS
  <2> DEFINE g == [i \in 0..(n + 1) |-> IF i = n + 1 THEN f[n] + q[n + 1].len ELSE f[i]]
  <2>2. ASSUME NEW i \in 0..(n + 1)
        PROVE  g[i] = IF i = 0 THEN 0 ELSE g[i - 1] + q[i].len
    <3>1. CASE i = n + 1
      <4>1. i # 0 /\ i - 1 = n /\ n # n + 1 /\ n \in 0..(n + 1)
        BY <3>1, SMT
      <4> QED BY <3>1, <4>1
    <3>2. CASE i # n + 1 /\ i # 0
      <4>1. i \in 0..n /\ i - 1 # n + 1 /\ i - 1 \in 0..(n + 1)
        BY <3>2, SMT
      <4>2. f[i] = f[i - 1] + q[i].len
        BY <2>1, <3>2, <4>1, Zenon
      <4> QED BY <3>2, <4>1, <4>2
    <3>3. CASE i # n + 1 /\ i = 0
      <4>1. i \in 0..n
        BY <3>3, SMT
      <4>2. f[i] = 0
        BY <2>1, <3>3, <4>1, Zenon
      <4> QED BY <3>3, <4>1, <4>2
    <3> QED BY <3>1, <3>2, <3>3
  <2>3. Good(g, n + 1)
    <3>1. g = [i \in 0..(n + 1) |-> g[i]]
      OBVIOUS
    <3> HIDE DEF g
    <3> QED BY <2>2, <3>1
  <2>4. n + 1 \in Nat
    OBVIOUS
  <2> HIDE DEF g, Good
  <2> QED BY <2>3, <2>4
<1> HIDE DEF S
<1>3. S \in SUBSET Nat
  BY DEF S
<1>4. k \in S
  BY <1>1, <1>2, <1>3, Induct, Zenon
<1> QED BY <1>4 DEF S

\* MessageLength is the last value of that recursion.
LEMMA MessageLengthDef ==
    ASSUME NEW q, NEW k \in Nat
    PROVE  \E f : /\ f = [i \in 0..k |-> IF i = 0 THEN 0 ELSE f[i - 1] + q[i].len]
                  /\ MessageLength(q, k) = f[k]
<1> DEFINE f == CHOOSE f : f = [i \in 0..k |-> IF i = 0 THEN 0 ELSE f[i - 1] + q[i].len]
<1>1. f = [i \in 0..k |-> IF i = 0 THEN 0 ELSE f[i - 1] + q[i].len]
  BY LengthExists, Zenon
<1>2. MessageLength(q, k) = f[k]
  BY Zenon DEF MessageLength
<1> HIDE DEF f
<1> QED BY <1>1, <1>2

\* The bytes of fragment i.
LEMMA FragmentFields ==
    ASSUME NEW m \in Nat, NEW len \in Nat, NEW i \in 1..FragCount(len)
    PROVE  /\ Fragments(m, len)[i].msg = m
           /\ Fragments(m, len)[i].frg = FragCount(len) - i
           /\ Fragments(m, len)[i].len =
                 IF i < FragCount(len) THEN MSS
                 ELSE len - (FragCount(len) - 1) * MSS
BY Zenon DEF Fragments

\* The fragments of a message hold its bytes.
LEMMA FragmentsSum ==
    ASSUME NEW q, NEW m \in Nat, NEW len \in Nat,
           \A i \in 1..FragCount(len) : q[i] = Fragments(m, len)[i]
    PROVE  MessageLength(q, FragCount(len)) = len
<1> DEFINE n == FragCount(len)
<1>1. n \in Nat \ {0}
  BY FragCountPositive
<1>2. PICK f : /\ f = [i \in 0..n |-> IF i = 0 THEN 0 ELSE f[i - 1] + q[i].len]
               /\ MessageLength(q, n) = f[n]
  BY <1>1, MessageLengthDef
<1>3. \A i \in 1..n : q[i].len = IF i < n THEN MSS ELSE len - (n - 1) * MSS
  BY FragmentFields
<1> HIDE DEF n
<1>4. f[0] = 0 /\ \A i \in 1..n : f[i] = f[i - 1] + q[i].len
  <2>1. 0 \in 0..n /\ \A i \in 1..n : i \in 0..n /\ i # 0
    BY <1>1, SMT
  <2> QED BY <1>2, <2>1, Zenon
<1> DEFINE S == {i \in Nat : i < n => f[i] = i * MSS}
<1>5. \A i \in Nat : i \in S
  <2>1. 0 \in S
    BY <1>4, MssType, SMT
  <2>2. ASSUME NEW i \in S PROVE i + 1 \in S
    <3>1. SUFFICES ASSUME i + 1 < n PROVE f[i + 1] = (i + 1) * MSS
      OBVIOUS
    <3>2. i \in Nat /\ i < n /\ i + 1 \in 1..n /\ i + 1 - 1 = i
      BY <1>1, <3>1, SMT
    <3>3. f[i] = i * MSS /\ f[i + 1] = f[i] + MSS
      BY <1>3, <1>4, <3>1, <3>2
    <3>4. (i + 1) * MSS = i * MSS + MSS
      BY <3>2, MssType, SMT
    <3> QED BY <3>3, <3>4
  <2> HIDE DEF S
  <2>3. S \in SUBSET Nat
    BY DEF S
  <2> QED BY <2>1, <2>2, <2>3, Induct, Zenon
<1>6. n - 1 \in Nat /\ n - 1 < n /\ n \in 1..n /\ ~(n < n)
  BY <1>1, SMT
<1>7. f[n - 1] = (n - 1) * MSS
  BY <1>5, <1>6
<1>8. f[n] = (n - 1) * MSS + (len - (n - 1) * MSS)
  BY <1>3, <1>4, <1>6, <1>7
<1>9. (n - 1) * MSS \in Int
  BY <1>6, MssType, SMT
<1>10. f[n] = len
  BY <1>8, <1>9, SMT
<1> QED BY <1>2, <1>10 DEF n

\* rcv_queue starts with a message, of which as much is there as fits.
LEMMA HeadOfQueue ==
    ASSUME QueueInv, NEW e \in Ends, Len(rcv_queue[e]) > 0
    PROVE  \E len \in MsgLens :
              /\ InMessage(Peer(e), Len(consumed[e]) + 1, Len(consumed[e]), len)
              /\ \A j \in 1..FragCount(len) : j <= Len(rcv_queue[e]) =>
                    rcv_queue[e][j] = Fragments(Len(consumed[e]), len)[j]
<1> DEFINE q == rcv_queue[e]
           p == Peer(e)
           c == Len(consumed[e])
<1>1. /\ p \in Ends /\ c \in Nat /\ Len(q) \in Nat /\ Len(stream[p]) \in Nat
      /\ snd_nxt[p] \in Nat /\ Len(snd_queue[p]) \in Nat
      /\ MsgLens \subseteq Nat
  BY Peers, LenProperties, KcpAssumption DEF QueueInv, StreamInv, TypeOK
<1>2. /\ rcv_nxt[e] = c + Len(q) /\ rcv_nxt[e] <= snd_nxt[p]
      /\ Len(stream[p]) = snd_nxt[p] + Len(snd_queue[p])
      /\ \A j \in 1..Len(q) : q[j] = stream[p][c + j]
  BY <1>1 DEF QueueInv, StreamInv, ReceivedPrefix, StreamSplit
<1> HIDE DEF q, p, c
<1>3. c + 1 \in 1..Len(stream[p]) /\ c < Len(stream[p])
  BY <1>1, <1>2, SMT DEF q
<1>4. PICK m \in Nat, len \in MsgLens : InMessage(p, c + 1, m, len)
  BY <1>1, <1>3 DEF QueueInv, WholeMessages
<1>5. m = c
  <2>1. c + 1 - m \in 1..FragCount(len) /\ m + (c + 1 - m) = c + 1
    BY <1>1, <1>4, FragCountPositive, SMT DEF InMessage
  <2>2. stream[p][c + 1] = Fragments(m, len)[c + 1 - m]
    BY <1>4, <2>1 DEF InMessage
  <2>3. stream[p][c + 1].msg = m
    BY <1>1, <2>1, <2>2, FragmentFields
  <2> QED BY <1>3, <2>3 DEF QueueInv, AtBoundary, p, c
<1>6. ASSUME NEW j \in 1..FragCount(len), j <= Len(q)
      PROVE  q[j] = Fragments(c, len)[j]
  <2>1. j \in 1..Len(q)
    BY <1>1, <1>6, FragCountPositive, SMT
  <2> QED BY <1>2, <1>4, <1>5, <2>1 DEF InMessage
<1> QED BY <1>4, <1>5, <1>6 DEF q, p, c

\* ikcp_send appends a whole message.
LEMMA SendWhole ==
    ASSUME QueueInv, NEW e \in Ends, NEW len \in MsgLens, Send(e, len)
    PROVE  WholeMessages' /\ AtBoundary'
<1> DEFINE s == stream[e]
           frags == Fragments(Len(s), len)
           n == FragCount(len)
<1>1. /\ len \in Nat /\ s \in Seq(Frag) /\ Len(s) \in Nat /\ n \in Nat \ {0}
      /\ n < WND_RCV /\ frags \in Seq(Frag) /\ Len(frags) = n
  <2>1. len \in Nat /\ s \in Seq(Frag) /\ Len(s) \in Nat
    BY KcpAssumption, LenProperties DEF QueueInv, StreamInv, TypeOK
  <2> QED BY <2>1, FragCountPositive, FragmentsMessage, FragmentsType DEF Send
<1>2. /\ stream' = [stream EXCEPT ![e] = s \o frags] /\ consumed' = consumed
      /\ stream \in [Ends -> Seq(Frag)]
  BY DEF Send, QueueInv, StreamInv, TypeOK
<1>3. /\ Len(s \o frags) = Len(s) + n
      /\ \A i \in 1..(Len(s) + n) :
            (s \o frags)[i] = IF i <= Len(s) THEN s[i] ELSE frags[i - Len(s)]
  <2> HIDE DEF s, frags, n
  <2> QED BY <1>1, ConcatProperties
<1>4. \A f \in Ends \ {e} : stream'[f] = stream[f]
  BY <1>2
<1>5. stream'[e] = s \o frags
  BY <1>2
<1> HIDE DEF frags, n
<1>6. /\ \A i \in 1..Len(s) : stream'[e][i] = s[i]
      /\ \A j \in 1..n : stream'[e][Len(s) + j] = frags[j]
      /\ Len(stream'[e]) = Len(s) + n
  <2> HIDE DEF s
  <2>1. ASSUME NEW i \in 1..Len(s) PROVE i \in 1..(Len(s) + n) /\ i <= Len(s)
    BY <1>1, SMT
  <2>2. ASSUME NEW j \in 1..n
        PROVE  /\ Len(s) + j \in 1..(Len(s) + n) /\ ~(Len(s) + j <= Len(s))
               /\ Len(s) + j - Len(s) = j
    BY <1>1, SMT
  <2> QED BY <1>3, <1>5, <2>1, <2>2
<1>7. WholeMessages'
  <2>1. ASSUME NEW f \in Ends, NEW i \in 1..Len(stream'[f])
        PROVE  \E m \in Nat, l \in MsgLens : InMessage(f, i, m, l)'
    <3>1. CASE f # e
      <4>1. stream'[f] = stream[f]
        BY <1>4, <3>1
      <4>2. PICK m \in Nat, l \in MsgLens : InMessage(f, i, m, l)
        BY <4>1 DEF QueueInv, WholeMessages
      <4> QED BY <4>1, <4>2 DEF InMessage
    <3>2. CASE f = e /\ i <= Len(s)
      <4>1. i \in 1..Len(s)
        BY <1>1, <1>6, <3>2, SMT
      <4>2. PICK m \in Nat, l \in MsgLens : InMessage(e, i, m, l)
        BY <4>1 DEF QueueInv, WholeMessages
      <4>3. FragCount(l) \in Nat /\ m + FragCount(l) <= Len(s)
        BY <4>2, FragCountPositive, KcpAssumption DEF InMessage
      <4>4. ASSUME NEW j \in 1..FragCount(l)
            PROVE  stream'[e][m + j] = Fragments(m, l)[j]
        <5>1. m + j \in 1..Len(s)
          <6> HIDE DEF s
          <6> QED BY <1>1, <4>3, SMT
        <5> QED BY <1>6, <4>2, <5>1 DEF InMessage
      <4>5. m + FragCount(l) <= Len(stream'[e])
        <5> HIDE DEF s
        <5> QED BY <1>1, <1>6, <4>3, SMT
      <4> QED BY <3>2, <4>2, <4>4, <4>5 DEF InMessage
    <3>3. CASE f = e /\ ~(i <= Len(s))
      <4> HIDE DEF s
      <4>1. i \in (Len(s) + 1)..(Len(s) + n) /\ Len(s) + n <= Len(stream'[e])
        BY <1>1, <1>6, <3>3, SMT
      <4> QED BY <1>1, <1>6, <3>3, <4>1 DEF InMessage, n, frags
    <3> QED BY <3>1, <3>2, <3>3
  <2> QED BY <2>1 DEF WholeMessages
<1>8. AtBoundary'
  <2>1. ASSUME NEW f \in Ends, Len(consumed[f]) < Len(stream'[Peer(f)])
        PROVE  stream'[Peer(f)][Len(consumed[f]) + 1].msg = Len(consumed[f])
    <3>1. CASE Peer(f) # e
      BY <1>4, <2>1, <3>1, Peers DEF QueueInv, AtBoundary
    <3>2. CASE Peer(f) = e
      <4>1. /\ Len(consumed[f]) \in Nat /\ Len(rcv_queue[f]) \in Nat
            /\ snd_nxt[e] \in Nat /\ Len(snd_queue[e]) \in Nat
            /\ rcv_nxt[f] = Len(consumed[f]) + Len(rcv_queue[f])
            /\ rcv_nxt[f] <= snd_nxt[e]
            /\ Len(s) = snd_nxt[e] + Len(snd_queue[e])
        BY <3>2, LenProperties
           DEF QueueInv, StreamInv, TypeOK, StreamSplit, ReceivedPrefix
      <4>2. Len(consumed[f]) <= Len(s)
        <5>1. \A c, q, a, b, l \in Nat : \A r :
                 r = c + q /\ r <= a /\ l = a + b => c <= l
          BY SMT
        <5>2. Len(s) \in Nat
          BY <1>1
        <5> HIDE DEF s
        <5> QED BY <4>1, <5>1, <5>2
      <4>3. CASE Len(consumed[f]) < Len(s)
        <5>1. Len(consumed[f]) + 1 \in 1..Len(s)
          BY <1>1, <4>1, <4>3, SMT
        <5> QED BY <1>6, <3>2, <4>3, <5>1 DEF QueueInv, AtBoundary
      <4>4. CASE Len(consumed[f]) = Len(s)
        <5>1. 1 \in 1..n /\ 1 \in 1..FragCount(len)
          BY <1>1 DEF n
        <5>2. frags[1].msg = Len(s)
          BY <1>1, <5>1, FragmentFields DEF frags
        <5> QED BY <1>6, <3>2, <4>4, <5>1, <5>2
      <4>5. Len(consumed[f]) < Len(s) \/ Len(consumed[f]) = Len(s)
        <5> HIDE DEF s
        <5> QED BY <1>1, <4>1, <4>2, SMT
      <4> QED BY <4>3, <4>4, <4>5
    <3> QED BY <3>1, <3>2
  <2> QED BY <1>2, <2>1 DEF AtBoundary
<1> QED BY <1>7, <1>8

\* ikcp_recv hands out the whole message at the head, and no more.
LEMMA RecvWhole ==
    ASSUME QueueInv, NEW e \in Ends, Recv(e)
    PROVE  WholeMessages' /\ AtBoundary'
<1> DEFINE q == rcv_queue[e]
           p == Peer(e)
           c == Len(consumed[e])
<1>1. PICK k \in 1..Len(q) :
        /\ Peek(q, k)
        /\ consumed' = [consumed EXCEPT ![e] = @ \o SubSeq(q, 1, k)]
        /\ stream' = stream
  BY DEF Recv
<1>2. /\ q \in Seq(Frag) /\ Len(q) \in Nat /\ p \in Ends /\ c \in Nat
      /\ consumed[e] \in Seq(Frag) /\ Len(stream[p]) \in Nat
      /\ k \in Nat /\ 1 <= k /\ k <= Len(q) /\ MsgLens \subseteq Nat
  BY Peers, LenProperties, KcpAssumption, SMT DEF QueueInv, StreamInv, TypeOK
<1>3. Len(q) > 0
  <2> HIDE DEF q
  <2> QED BY <1>2, SMT
<1>4. PICK len \in MsgLens :
        /\ InMessage(p, c + 1, c, len)
        /\ \A j \in 1..FragCount(len) :
              j <= Len(q) => q[j] = Fragments(c, len)[j]
  BY <1>3, HeadOfQueue
<1> DEFINE n == FragCount(len)
<1>5. n \in Nat \ {0}
  BY <1>2, FragCountPositive
<1>6. \A j \in 1..n : j <= Len(q) => q[j].frg = n - j
  BY <1>2, <1>4, FragmentFields
<1>7. q[k].frg = 0 /\ \A i \in 1..(k - 1) : q[i].frg # 0
  BY <1>1 DEF Peek, HeadMessage
<1> HIDE DEF n, q
<1>8. k = n
  <2>1. CASE k < n
    <3>1. k \in 1..n /\ n - k # 0
      BY <1>2, <1>5, <2>1, SMT
    <3> QED BY <1>2, <1>6, <1>7, <3>1
  <2>2. CASE n < k
    <3>1. n \in 1..(k - 1) /\ n \in 1..n /\ n <= Len(q) /\ n - n = 0
      BY <1>2, <1>5, <2>2, SMT
    <3> QED BY <1>6, <1>7, <3>1
  <2> QED BY <1>2, <1>5, <2>1, <2>2, SMT
<1>9. /\ Len(consumed'[e]) = c + n
      /\ \A f \in Ends \ {e} : consumed'[f] = consumed[f]
  <2>1. SubSeq(q, 1, k) \in Seq(Frag) /\ Len(SubSeq(q, 1, k)) = k
    <3>1. \A i \in 1..k : i \in 1..Len(q)
      BY <1>2, SMT
    <3>2. \A i \in 1..k : q[i] \in Frag
      BY <1>2, <3>1, ElementOfSeq
    <3>3. /\ SubSeq(q, 1, k) \in Seq(Frag)
          /\ Len(SubSeq(q, 1, k)) = IF 1 <= k THEN k - 1 + 1 ELSE 0
      BY <1>2, <3>2, SubSeqProperties, 1 \in Int, k \in Int
    <3> QED BY <1>2, <3>3
  <2>2. Len(consumed[e] \o SubSeq(q, 1, k)) = c + k
    BY <1>2, <2>1, ConcatProperties
  <2>3. consumed' = [consumed EXCEPT ![e] = consumed[e] \o SubSeq(q, 1, k)]
        /\ consumed \in [Ends -> Seq(Frag)]
    BY <1>1 DEF QueueInv, StreamInv, TypeOK
  <2> QED BY <1>8, <2>2, <2>3
<1>10. WholeMessages'
  BY <1>1 DEF QueueInv, WholeMessages, InMessage
<1>11. ASSUME c + n < Len(stream[p])
       PROVE  stream[p][c + n + 1].msg = c + n
  <2> DEFINE i == c + n + 1
  <2>1. i \in 1..Len(stream[p])
    BY <1>2, <1>5, <1>11, SMT
  <2>2. PICK m \in Nat, l \in MsgLens : InMessage(p, i, m, l)
    BY <1>2, <2>1 DEF QueueInv, WholeMessages
  <2>3. FragCount(l) \in Nat \ {0} /\ i \in (m + 1)..(m + FragCount(l))
    BY <1>2, <2>2, FragCountPositive DEF InMessage
  <2>4. ASSUME m < c + n PROVE FALSE
    <3> DEFINE j == c + n - m
    <3>1. /\ j \in 1..FragCount(l) /\ m + j = c + n /\ FragCount(l) - j # 0
          /\ n \in 1..n /\ n - n = 0
      BY <1>2, <1>5, <2>3, <2>4, SMT
    <3>2. stream[p][c + n] = Fragments(m, l)[j]
      BY <2>2, <3>1 DEF InMessage
    <3>3. stream[p][c + n] = Fragments(c, len)[n]
      BY <1>4, <3>1 DEF InMessage, n
    <3> HIDE DEF j
    <3>4. Fragments(m, l)[j].frg = FragCount(l) - j
      BY <1>2, <3>1, FragmentFields
    <3>5. Fragments(c, len)[n].frg = n - n
      BY <1>2, <3>1, FragmentFields DEF n
    <3> QED BY <3>1, <3>2, <3>3, <3>4, <3>5
  <2>5. m = c + n /\ i = m + 1 /\ 1 \in 1..FragCount(l)
    BY <1>2, <1>5, <2>3, <2>4, SMT
  <2>6. stream[p][m + 1] = Fragments(m, l)[1]
    BY <2>2, <2>5 DEF InMessage
  <2>7. Fragments(m, l)[1].msg = m
    BY <1>2, <2>5, FragmentFields
  <2> QED BY <2>5, <2>6, <2>7
<1>12. AtBoundary'
  <2>1. ASSUME NEW f \in Ends, Len(consumed'[f]) < Len(stream[Peer(f)])
        PROVE  stream[Peer(f)][Len(consumed'[f]) + 1].msg = Len(consumed'[f])
    <3>1. CASE f = e
      BY <1>9, <1>11, <2>1, <3>1 DEF p
    <3>2. CASE f # e
      BY <1>9, <2>1, <3>2 DEF QueueInv, AtBoundary
    <3> QED BY <3>1, <3>2
  <2> QED BY <1>1, <2>1 DEF AtBoundary
<1> QED BY <1>10, <1>12

LEMMA InitQueue == Init => QueueInv
<1> SUFFICES ASSUME Init PROVE WholeMessages /\ AtBoundary
  BY InitType, InitStream DEF QueueInv, StreamInv, StreamFacts
<1>1. \A e \in Ends : stream[e] = <<>> /\ Len(stream[e]) = 0
  BY EmptySeq DEF Init
<1>2. \A e \in Ends : consumed[e] = <<>> /\ Len(consumed[e]) = 0
  BY EmptySeq DEF Init
<1>3. WholeMessages
  BY <1>1, SMT DEF WholeMessages
<1>4. AtBoundary
  BY <1>1, <1>2, Peers, SMT DEF AtBoundary
<1> QED BY <1>3, <1>4

LEMMA StepQueue == QueueInv /\ [Next]_vars => QueueInv'
<1> SUFFICES ASSUME QueueInv, [Next]_vars PROVE WholeMessages' /\ AtBoundary'
  <2>1. ASSUME StreamInv, [Next]_vars PROVE StreamInv'
    BY <2>1, StepType, StepStream DEF StreamInv, StreamFacts
  <2> QED BY <2>1 DEF QueueInv
<1>1. ASSUME UNCHANGED <<stream, consumed>> PROVE WholeMessages' /\ AtBoundary'
  BY <1>1 DEF QueueInv, WholeMessages, AtBoundary, InMessage
<1>2. ASSUME NEW e \in Ends, NEW len \in MsgLens, Send(e, len)
      PROVE  WholeMessages' /\ AtBoundary'
  BY <1>2, SendWhole
<1>3. ASSUME NEW e \in Ends, Recv(e) PROVE WholeMessages' /\ AtBoundary'
  BY <1>3, RecvWhole
<1>4. ASSUME NEW e \in Ends, NEW overdue \in SUBSET snd_buf[e],
             NEW due \in BOOLEAN, Flush(e, overdue, due)
      PROVE  WholeMessages' /\ AtBoundary'
  BY <1>1, <1>4 DEF Flush
<1>5. ASSUME NEW e \in Ends, NEW d \in net, NEW padded \in BOOLEAN,
             Deliver(e, d, padded) \/ Duplicate(e, d, padded)
      PROVE  WholeMessages' /\ AtBoundary'
  BY <1>1, <1>5 DEF Deliver, Duplicate, Input
<1>6. ASSUME NEW e \in Ends, InputPush(e) PROVE WholeMessages' /\ AtBoundary'
  BY <1>1, <1>6 DEF InputPush
<1>7. CASE (\E d \in net : Lose(d)) \/ UNCHANGED vars
  BY <1>1, <1>7 DEF Lose, vars
<1> QED BY <1>2, <1>3, <1>4, <1>5, <1>6, <1>7 DEF Next, Step, Again

\* A full receive queue starts with a message the application can take, for
\* any window and MTU, if the buffer it gives ikcp_recv holds the longest
\* message ikcp_send accepts (ikcp.c:367-378, 441-463, 510).
THEOREM NeverStuckFull ==
    ASSUME \A len \in MsgLens : FragCount(len) < WND_RCV => len <= RECV_BUF
    PROVE  Spec => []FullQueueHasMessage
<1>1. QueueInv => FullQueueHasMessage
  <2> SUFFICES ASSUME QueueInv, NEW e \in Ends, Len(rcv_queue[e]) >= WND_RCV
               PROVE  \E k \in 1..Len(rcv_queue[e]) : Peek(rcv_queue[e], k)
    BY DEF FullQueueHasMessage
  <2> DEFINE q == rcv_queue[e]
             c == Len(consumed[e])
  <2>1. /\ Len(q) \in Nat /\ c \in Nat /\ Len(q) > 0 /\ MsgLens \subseteq Nat
        /\ WND_RCV \in Nat
    <3>1. Len(q) \in Nat /\ c \in Nat /\ WND_RCV \in Nat \ {0}
      BY LenProperties, KcpAssumption DEF QueueInv, StreamInv, TypeOK
    <3> QED BY <3>1, KcpAssumption, SMT
  <2>2. PICK len \in MsgLens :
          /\ InMessage(Peer(e), c + 1, c, len)
          /\ \A j \in 1..FragCount(len) :
                j <= Len(q) => q[j] = Fragments(c, len)[j]
    BY <2>1, HeadOfQueue
  <2> DEFINE n == FragCount(len)
  <2>3. n \in Nat \ {0} /\ n < WND_RCV /\ len \in Nat /\ len <= RECV_BUF
    BY <2>1, <2>2, FragCountPositive DEF InMessage
  <2>4. n \in 1..Len(q) /\ \A j \in 1..n : j <= Len(q)
    <3> HIDE DEF n, q
    <3> QED BY <2>1, <2>3, SMT DEF q
  <2>5. \A j \in 1..n : q[j] = Fragments(c, len)[j]
    BY <2>2, <2>4
  <2>6. \A j \in 1..n : q[j].frg = n - j
    BY <2>1, <2>3, <2>5, FragmentFields
  <2>7. MessageLength(q, n) = len
    BY <2>1, <2>3, <2>5, FragmentsSum
  <2> HIDE DEF n, q
  <2>8. q[n].frg = 0 /\ \A i \in 1..(n - 1) : q[i].frg # 0
    <3>1. n \in 1..n /\ n - n = 0 /\ \A i \in 1..(n - 1) : i \in 1..n /\ n - i # 0
      BY <2>3, SMT
    <3> QED BY <2>6, <3>1
  <2>9. q[1].frg + 1 <= Len(q)
    <3>1. 1 \in 1..n /\ n - 1 + 1 <= Len(q)
      BY <2>1, <2>3, <2>4, SMT
    <3> QED BY <2>6, <3>1
  <2> QED BY <2>3, <2>4, <2>7, <2>8, <2>9 DEF Peek, HeadMessage, q
<1> QED BY <1>1, InitQueue, StepQueue, PTL DEF Spec
=============================================================================
