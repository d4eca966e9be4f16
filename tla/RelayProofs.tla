----------------------------- MODULE RelayProofs -----------------------------
(***************************************************************************)
(* Proof about Relay, for any addresses, messages, faults and network: the *)
(* client never has an answer before it knows whom to send it to.  As long *)
(* as its application is silent, so is everything else (Silence).          *)
(***************************************************************************)
EXTENDS Relay, TLAPS, SequenceTheorems

\* The parts of the state the proof is about have their types.
RelayTypes ==
    /\ out \in [Ends -> Seq(Nat)]
    /\ got \in [Ends -> Nat] /\ read \in [Ends -> Nat]
    /\ local_client \in BOOLEAN /\ asked \in BOOLEAN
    /\ \A d \in net : d.high \in Nat

\* Who has not heard from the local application has nothing to tell.
Silence ==
    ~local_client =>
        /\ ~asked
        /\ \A e \in Ends : Len(out[e]) = 0 /\ got[e] = 0 /\ read[e] = 0
        /\ \A d \in net : d.high = 0

RelayInv == RelayTypes /\ Silence

LEMMA TwoEnds == \A e \in Ends : Peer(e) \in Ends
BY DEF Ends, Peer

LEMMA InitRelay == Init => RelayInv
<1> SUFFICES ASSUME Init PROVE RelayInv
  OBVIOUS
<1>1. <<>> \in Seq(Nat) /\ Len(<<>>) = 0
  BY EmptySeq
<1>2. RelayTypes
  BY <1>1 DEF Init, RelayTypes
<1>3. Silence
  BY <1>1 DEF Init, Silence
<1> QED BY <1>2, <1>3 DEF RelayInv

\* A message comes first from the local application, and only then from the
\* remote one, which has been asked something.
LEMMA AppRelay ==
    ASSUME RelayInv, NEW e \in Ends, NEW len \in Lens, HandleApp(e, len)
    PROVE  RelayInv'
<1>1. /\ out' = [out EXCEPT ![e] = Append(out[e], len)]
      /\ local_client' = HeardFrom(e)
      /\ e = "server" => asked
      /\ UNCHANGED <<got, read, asked, net>>
  BY DEF HandleApp
<1>2. len \in Nat /\ out[e] \in Seq(Nat)
  BY RelayAssumption DEF RelayInv, RelayTypes
<1>3. Append(out[e], len) \in Seq(Nat)
  BY <1>2, AppendProperties
<1>4. RelayTypes'
  <2>1. out' \in [Ends -> Seq(Nat)]
    BY <1>1, <1>3 DEF RelayInv, RelayTypes
  <2>2. local_client' \in BOOLEAN
    BY <1>1 DEF HeardFrom
  <2> QED BY <1>1, <2>1, <2>2 DEF RelayInv, RelayTypes
<1>5. local_client'
  <2>1. CASE e = "client"
    BY <1>1, <2>1 DEF HeardFrom
  <2>2. CASE e = "server"
    BY <1>1, <2>2 DEF HeardFrom, RelayInv, Silence
  <2> QED BY <2>1, <2>2 DEF Ends
<1> QED BY <1>4, <1>5 DEF RelayInv, Silence

\* A flush writes nothing new where nothing was given to ikcp_send, and where
\* nothing has arrived nothing is read or sent on.
LEMMA TimerRelay ==
    ASSUME RelayInv, NEW e \in Ends, NEW flush \in BOOLEAN, Timer(e, flush)
    PROVE  RelayInv'
<1>1. PICK n \in read[e]..got[e], fails \in BOOLEAN :
        HandleTimer(e, n, flush, fails)
  BY DEF Timer
<1>2. /\ net' \subseteq net \union {Datagram(e)}
      /\ read' = [read EXCEPT ![e] = n]
      /\ asked' = (asked \/ (e = "server" /\ SentOn(n, fails)))
      /\ UNCHANGED <<out, got, local_client>>
  BY <1>1 DEF HandleTimer, Flush
<1>3. Datagram(e).high = Len(out[e]) /\ Len(out[e]) \in Nat
  BY LenProperties DEF Datagram, RelayInv, RelayTypes
<1>4. read[e] \in Nat /\ got[e] \in Nat /\ n \in Nat
  BY SMT DEF RelayInv, RelayTypes
<1>5. RelayTypes'
  BY <1>2, <1>3, <1>4 DEF RelayInv, RelayTypes
<1>6. ASSUME ~local_client
      PROVE  /\ ~asked'
             /\ \A f \in Ends : Len(out'[f]) = 0 /\ got'[f] = 0 /\ read'[f] = 0
             /\ \A d \in net' : d.high = 0
  <2>1. read[e] = 0 /\ got[e] = 0
    BY <1>6 DEF RelayInv, Silence
  <2>2. n = 0
    BY <1>4, <2>1, SMT
  <2>3. e = "server" => ~SentOn(n, fails)
    BY <2>1, <2>2, SMT DEF SentOn
  <2> QED BY <1>2, <1>3, <1>6, <2>2, <2>3 DEF RelayInv, RelayTypes, Silence
<1> QED BY <1>2, <1>5, <1>6 DEF RelayInv, Silence

\* What arrives was sent.
LEMMA NetRelay ==
    ASSUME RelayInv, NEW e \in Ends, NEW d \in net, NEW whole \in BOOLEAN,
           HandleNet(e, d, whole)
    PROVE  RelayInv'
<1>1. /\ net' \subseteq net
      /\ \/ got' = [got EXCEPT ![e] = imax(got[e], d.high)]
         \/ got' = got
      /\ UNCHANGED <<out, read, local_client, asked>>
  BY DEF HandleNet, appVars
<1>2. got[e] \in Nat /\ d.high \in Nat /\ imax(got[e], d.high) \in Nat
  BY DEF RelayInv, RelayTypes, imax
<1>3. RelayTypes'
  BY <1>1, <1>2 DEF RelayInv, RelayTypes
<1>4. ASSUME ~local_client
      PROVE  \A f \in Ends : got'[f] = 0
  <2>1. imax(got[e], d.high) = 0
    BY <1>4 DEF RelayInv, Silence, imax
  <2> QED BY <1>1, <1>4, <2>1 DEF RelayInv, RelayTypes, Silence
<1> QED BY <1>1, <1>3, <1>4 DEF RelayInv, Silence

LEMMA StepRelay == RelayInv /\ [Next]_vars => RelayInv'
<1> SUFFICES ASSUME RelayInv, [Next]_vars PROVE RelayInv'
  OBVIOUS
<1>1. ASSUME NEW e \in Ends, NEW len \in Lens, HandleApp(e, len)
      PROVE  RelayInv'
  BY <1>1, AppRelay
<1>2. ASSUME NEW e \in Ends, NEW flush \in BOOLEAN, Timer(e, flush)
      PROVE  RelayInv'
  BY <1>2, TimerRelay
<1>3. ASSUME NEW e \in Ends, NEW d \in net, NEW whole \in BOOLEAN,
             HandleNet(e, d, whole)
      PROVE  RelayInv'
  BY <1>3, NetRelay
<1>4. CASE \/ \E e \in Ends, taken \in BOOLEAN : Start(e, taken)
           \/ HandleNetFailed
           \/ \E d \in net : Lose(d)
           \/ \E a \in Addrs : Rebind(a)
           \/ UNCHANGED vars
  <2>1. UNCHANGED <<out, got, read, local_client, asked>> /\ net' \subseteq net
    BY <1>4 DEF Start, HandleNetFailed, Lose, Rebind, vars, kcpVars, appVars
  <2> QED BY <2>1 DEF RelayInv, RelayTypes, Silence
<1> QED BY <1>1, <1>2, <1>3, <1>4 DEF Next

\* The client reads no answer before its own application has spoken and left
\* its address (fec_kcp_client.cpp:42, 96, 122).
THEOREM AnswersAddressed == Spec => []AnswersHaveAddressee
<1>1. RelayInv => AnswersHaveAddressee
  BY DEF RelayInv, RelayTypes, Silence, AnswersHaveAddressee, Ends
<1> QED BY <1>1, InitRelay, StepRelay, PTL DEF Spec
=============================================================================
