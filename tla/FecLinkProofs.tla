---------------------------- MODULE FecLinkProofs ----------------------------
(***************************************************************************)
(* Proofs about FecLink, for any number of data and redundant packages,    *)
(* any datagrams, clocks and network, and any number of words, so that     *)
(* seqs are used again.                                                    *)
(*                                                                         *)
(* The argument.  What is in the network is true: a package carries a word *)
(* of datagrams KCP output, with sizes that hold them (SenderInv, NetInv). *)
(* Of two words with one seq, one is past: the decoder was last drained    *)
(* after all that could remember it had to go (SeqInv).  Hence all a group *)
(* holds is of one word (GroupsTrue), and what the loop around Output      *)
(* copies is of that word, whole and in order (OutInv).  If besides the    *)
(* network forgets no later than the decoder, what came out of a word that *)
(* may still come is remembered as done (HistInv).                         *)
(***************************************************************************)
EXTENDS FecLink, TLAPS, FiniteSetTheorems, SequenceTheorems

NewPkg(len) == [id |-> Cardinality(accepted) + 1, len |-> len]

(***************************************************************************)
(* The sender and the network                                              *)
(***************************************************************************)
\* What FecEncode holds are different datagrams, none longer than max_len.
HeldTrue ==
    /\ held \in Seq(Pkg) /\ Len(held) < K
    /\ \A i \in 1..Len(held) : held[i] \in accepted /\ held[i].len <= max_len
    /\ \A i, j \in 1..Len(held) : held[i] = held[j] => i = j

\* The ids number the datagrams.
AcceptedTrue ==
    /\ accepted \subseteq Pkg /\ IsFiniteSet(accepted)
    /\ \A p \in accepted : p.len > 0 /\ p.id <= Cardinality(accepted)
    /\ \A p, q \in accepted : p.id = q.id => p = q

SenderInv ==
    /\ HeldTrue
    /\ AcceptedTrue
    /\ max_len \in Nat
    /\ seq \in 1..(SeqLimit - 1)
    /\ age \in 0..FlushAfter

\* K different datagrams, none longer than size
WordTrue(word, size) ==
    /\ word \in Seq(Pkg) /\ Len(word) = K
    /\ \A i \in 1..K : word[i] \in accepted /\ word[i].len <= size
    /\ \A i, j \in 1..K : word[i] = word[j] => i = j

\* A package of a code word says what it is.
CodedTrue(m) ==
    /\ m \in [pkt : Coded, born : Nat]
    /\ m.born <= now
    /\ m.pkt.seq \in 1..(SeqLimit - 1)
    /\ m.pkt.index \in 1..(K + R)
    /\ m.pkt.index <= K => m.pkt.plen = m.pkt.word[m.pkt.index].len
    /\ WordTrue(m.pkt.word, m.pkt.size)

RawTrue(m) ==
    /\ m \in [pkt : Pkg, born : Nat]
    /\ m.pkt \in accepted

NetInv ==
    /\ \A m \in coded_net : CodedTrue(m)
    /\ \A m \in raw_net : RawTrue(m)

ClockInv ==
    /\ now \in Nat
    /\ swept \in 0..now
    /\ cut \in BOOLEAN

\* The network has forgotten the word, and the decoder has too.
Past(m) == m.born + Lifetime + Timeout < swept

OneSeq(m1, m2) ==
    m1.pkt.seq = m2.pkt.seq =>
        m1.pkt.word = m2.pkt.word \/ Past(m1) \/ Past(m2)

SeqInv == \A m1, m2 \in coded_net : OneSeq(m1, m2)

\* A datagram has one place in one word.
OnePlace(m1, m2) ==
    \A i, j \in 1..K :
        m1.pkt.word[i] = m2.pkt.word[j] =>
            /\ i = j
            /\ m1.pkt.word = m2.pkt.word
            /\ m1.pkt.seq = m2.pkt.seq

PlaceInv == \A m1, m2 \in coded_net : OnePlace(m1, m2)

AirInv ==
    SenderInv /\ NetInv /\ ClockInv /\ SeqInv /\ PlaceInv /\ WentOutOnce

(***************************************************************************)
(* The decoder                                                             *)
(***************************************************************************)
Group == [slots : [1..(K + R) -> Coded \union {NoPkg}] \union [1..K -> Slot],
          cur : 0..(K + R), max : Nat, stamp : Nat]

GroupTyped(g) == g \in Group /\ g.stamp <= now /\ swept <= g.stamp + Timeout

\* One of the packages of word, none longer than max.
Piece(c, i, word, max) ==
    /\ c \in Coded
    /\ c.word = word
    /\ i <= K => c.plen = word[i].len
    /\ \A j \in 1..K : word[j].len <= max

\* g has some of the packages of word; or it is decoded.
Pieces(g, word) ==
    /\ g.slots \in [1..(K + R) -> Coded \union {NoPkg}]
    /\ g.cur = Cardinality(Present(g.slots))
    /\ \A i \in Present(g.slots) : Piece(g.slots[i], i, word, g.max)

Collecting(g, word) == g.cur < K /\ Pieces(g, word)

Whole(g, word) ==
    /\ g.cur = K
    /\ g.slots \in [1..K -> Slot]
    /\ \A i \in 1..K :
        /\ g.slots[i].pkg = word[i]
        /\ g.slots[i].len >= word[i].len
        /\ g.max >= word[i].len

Of(g, s, m) ==
    /\ m.pkt.seq = s
    /\ g.stamp <= m.born + Lifetime
    /\ Collecting(g, m.pkt.word) \/ Whole(g, m.pkt.word)

GroupTrue(g, s) == GroupTyped(g) /\ \E m \in coded_net : Of(g, s, m)

GroupsInv ==
    \A s \in DOMAIN groups : GroupTrue(groups[s], s)

\* No seq is in the middle of being handed out.
AtEnd == last_seq = 0 \/ last_index = K

Idle == unit = NoPkg /\ ready = {} /\ ready_nums = 0 /\ left = 0 /\ AtEnd

RawOut ==
    /\ unit \in accepted /\ left = unit.len
    /\ ready = {} /\ ready_nums = 0 /\ AtEnd

\* g, the one ready group, is handed out; the next package fits in left.
CodedOut(g, s) ==
    /\ unit = NoPkg
    /\ ready = {s} /\ ready_nums = 1
    /\ left > 0
    /\ g.cur = K
    /\ \E m \in coded_net : Of(g, s, m) /\ Alive(m)
    /\ IF last_seq = s
       THEN last_index < K => left >= g.slots[last_index + 1].pkg.len
       ELSE left = g.max

OutInv ==
    /\ left \in Nat
    /\ last_seq \in Nat /\ last_index \in 0..K
    /\ Idle \/ RawOut \/ \E s \in DOMAIN groups : CodedOut(groups[s], s)

HandedTrue(h) ==
    /\ h \in [pkg : Pkg, bytes : Nat]
    /\ h.pkg \in accepted /\ h.bytes >= h.pkg.len

HandedInv ==
    /\ \A h \in handed : HandedTrue(h)
    /\ again \subseteq Nat

(***************************************************************************)
(* What was handed over                                                    *)
(***************************************************************************)
Came(p) == \E h \in handed : h.pkg = p

\* What is handed over was on its way in a word or unencoded.
Aimed(h) ==
    \/ \E m \in coded_net : In(h.pkg, m.pkt.word)
    \/ \E m \in raw_net : m.pkt = h.pkg

\* The packages of group s up to the one Output goes on with came out.
Given(s, i) ==
    s \in ready => last_seq = s /\ i <= last_index /\ last_index < K

DoneInv ==
    \A s \in DOMAIN groups :
        groups[s].cur = K =>
            \A i \in 1..K : Given(s, i) => Came(groups[s].slots[i].pkg)

\* A group outlives the packages of its word.
Stamped(m) ==
    m.pkt.seq \in DOMAIN groups => m.born <= groups[m.pkt.seq].stamp

StampInv == \A m \in coded_net : Stamped(m)

\* The seq that was handed out last is remembered, or nothing of it comes.
LastInv ==
    /\ last_seq = 0 \/ \E m \in coded_net : m.pkt.seq = last_seq
    /\ \/ last_seq = 0
       \/ last_seq \in DOMAIN groups /\ groups[last_seq].cur = K
       \/ \A m \in coded_net : m.pkt.seq = last_seq => ~Alive(m)
    /\ last_seq \in ready => last_index < K

\* What came out of a word that may still come, the decoder remembers.
Remembered(m) ==
    Alive(m) =>
        \A i \in 1..K :
            Came(m.pkt.word[i]) =>
                /\ m.pkt.seq \in DOMAIN groups
                /\ groups[m.pkt.seq].cur = K
                /\ m.pkt.seq \in ready =>
                        last_seq = m.pkt.seq /\ i <= last_index

OnceInv ==
    /\ \A m \in coded_net : Remembered(m)
    /\ \A h \in handed : Aimed(h)
    /\ unit = NoPkg \/ \E m \in raw_net : m.pkt = unit
    /\ again = {}

-------------------------------------------------------------------------------
(***************************************************************************)
(* Facts about what the model is built from                                *)
(***************************************************************************)
\* The packages of a word have their types.
LEMMA WordTyped ==
    ASSUME NEW word \in Seq(Pkg), Len(word) = K
    PROVE  \A i \in 1..K : word[i] \in Pkg /\ word[i].len \in Nat
<1>1. \A i \in 1..K : word[i] \in Pkg
  BY ElementOfSeq
<1>2. \A p \in Pkg : p.len \in Nat
  BY DEF Pkg
<1> QED BY <1>1, <1>2

\* The record of a new datagram, and what is in [pkt, born].
LEMMA NewPkgTyped ==
    ASSUME AcceptedTrue, NEW len \in PkgLens
    PROVE  /\ NewPkg(len) \in Pkg
           /\ NewPkg(len).len = len /\ len \in Nat /\ len > 0
           /\ NewPkg(len).id = Cardinality(accepted) + 1
           /\ Cardinality(accepted) \in Nat
           /\ \A q \in accepted : q.id # NewPkg(len).id
           /\ NewPkg(len) \notin accepted
<1>1. Cardinality(accepted) \in Nat
  BY FS_CardinalityType DEF AcceptedTrue
<1>2. len \in Nat /\ len > 0
  BY LinkAssumption
<1>3. \A q \in accepted : q.id \in Nat /\ q.id <= Cardinality(accepted)
  BY DEF AcceptedTrue, Pkg
<1>4. \A q \in accepted : q.id # NewPkg(len).id
  BY <1>1, <1>3 DEF NewPkg
<1>5. NewPkg(len) \notin accepted
  BY <1>4
<1> QED BY <1>1, <1>2, <1>4, <1>5 DEF NewPkg, Pkg

LEMMA AcceptedStep ==
    ASSUME AcceptedTrue, NEW len \in PkgLens,
           accepted' = accepted \union {NewPkg(len)}
    PROVE  AcceptedTrue'
<1> DEFINE p == NewPkg(len)
<1>1. /\ p \in Pkg /\ p.len > 0 /\ p \notin accepted
      /\ p.id = Cardinality(accepted) + 1
      /\ Cardinality(accepted) \in Nat
      /\ \A q \in accepted : q.id # p.id
  BY NewPkgTyped
<1>2. accepted' = accepted \union {p}
  OBVIOUS
<1> HIDE DEF p
<1>3. /\ IsFiniteSet(accepted')
      /\ Cardinality(accepted') = Cardinality(accepted) + 1
  BY <1>1, <1>2, FS_AddElement DEF AcceptedTrue
<1>4. accepted' \subseteq Pkg
  BY <1>1, <1>2 DEF AcceptedTrue
<1>5. \A q \in accepted' : q.len > 0 /\ q.id <= Cardinality(accepted')
  <2> SUFFICES ASSUME NEW q \in accepted'
      PROVE  q.len > 0 /\ q.id <= Cardinality(accepted')
    OBVIOUS
  <2>1. CASE q = p
    BY <1>1, <1>3, <2>1
  <2>2. CASE q \in accepted
    BY <1>1, <1>3, <2>2 DEF AcceptedTrue, Pkg
  <2> QED BY <1>2, <2>1, <2>2
<1>6. \A q, r \in accepted' : q.id = r.id => q = r
  BY <1>1, <1>2 DEF AcceptedTrue
<1> QED BY <1>3, <1>4, <1>5, <1>6 DEF AcceptedTrue

\* held with the new datagram: different ones, none longer than the longest
LEMMA AppendTrue ==
    ASSUME SenderInv, NEW len \in PkgLens
    PROVE  LET p == NewPkg(len)
               more == Append(held, p)
           IN  /\ more \in Seq(Pkg) /\ Len(more) = Len(held) + 1
               /\ MaxAfter(p) \in Nat
               /\ \A i \in 1..Len(more) :
                    /\ more[i] \in accepted \union {p}
                    /\ more[i].len <= MaxAfter(p)
                    /\ \/ more[i] = p
                       \/ more[i] \in accepted /\ In(more[i], held)
               /\ \A i, j \in 1..Len(more) : more[i] = more[j] => i = j
<1> DEFINE p == NewPkg(len)
           more == Append(held, p)
           most == MaxAfter(p)
<1>1. /\ p \in Pkg /\ p \notin accepted /\ p.len \in Nat
  BY NewPkgTyped DEF SenderInv
<1>2. /\ held \in Seq(Pkg) /\ Len(held) \in Nat
      /\ DOMAIN held = 1..Len(held)
      /\ \A i \in 1..Len(held) : held[i] \in accepted /\ held[i].len <= max_len
      /\ \A i, j \in 1..Len(held) : held[i] = held[j] => i = j
      /\ max_len \in Nat
  BY LenProperties DEF SenderInv, HeldTrue
<1>3. /\ more \in Seq(Pkg) /\ Len(more) = Len(held) + 1
      /\ \A i \in 1..Len(held) : more[i] = held[i]
      /\ more[Len(held) + 1] = p
  BY <1>1, <1>2, AppendProperties
<1>4. /\ most \in Nat /\ p.len <= most
      /\ held # <<>> => max_len <= most
  BY <1>1, <1>2 DEF MaxAfter, larger
<1>5. \A i \in 1..Len(held) : held # <<>> /\ held[i].len \in Nat
  <2>1. Len(held) > 0 => held # <<>>
    BY EmptySeq
  <2>2. \A i \in 1..Len(held) : held[i] \in Pkg
    BY <1>2, ElementOfSeq
  <2> QED BY <1>2, <2>1, <2>2 DEF Pkg
<1> HIDE DEF p, more, most
<1>6. ASSUME NEW i \in 1..Len(more)
      PROVE  /\ more[i] \in accepted \union {p}
             /\ more[i].len <= most
             /\ more[i] = p \/ (more[i] \in accepted /\ In(more[i], held))
  <2>1. CASE i = Len(held) + 1
    BY <1>3, <1>4, <2>1
  <2>2. CASE i \in 1..Len(held)
    <3>1. more[i] = held[i] /\ held[i] \in accepted /\ held[i].len <= max_len
      BY <1>2, <1>3, <2>2
    <3>2. held[i].len <= most
      BY <1>2, <1>4, <1>5, <2>2, <3>1
    <3>3. In(more[i], held)
      BY <1>2, <2>2, <3>1 DEF In
    <3> QED BY <3>1, <3>2, <3>3
  <2> QED BY <1>2, <1>3, <2>1, <2>2
<1>7. \A i, j \in 1..Len(more) : more[i] = more[j] => i = j
  <2> SUFFICES ASSUME NEW i \in 1..Len(more), NEW j \in 1..Len(more),
                      more[i] = more[j], i # j
      PROVE  FALSE
    OBVIOUS
  <2>1. /\ i \in 1..Len(held) \/ i = Len(held) + 1
        /\ j \in 1..Len(held) \/ j = Len(held) + 1
    BY <1>2, <1>3
  <2> QED BY <1>1, <1>2, <1>3, <2>1
<1> QED BY <1>3, <1>4, <1>6, <1>7 DEF p, more, most

\* The packages of a word with one seq, as rs_encode2 leaves them.
LEMMA CodeWordTyped ==
    ASSUME NEW s \in Nat, NEW word \in Seq(Pkg), Len(word) = K,
           NEW size \in Nat, NEW i \in 1..(K + R)
    PROVE  LET c == CodeWord(s, word, size)[i]
           IN  /\ Len(CodeWord(s, word, size)) = K + R
               /\ c \in Coded
               /\ c.seq = s /\ c.index = i /\ c.size = size /\ c.word = word
               /\ i <= K => c.plen = word[i].len
<1>1. K \in Nat /\ R \in Nat
  BY EncoderAssumption
<1>2. i <= K => word[i].len \in Nat
  <2>1. i <= K => word[i] \in Pkg
    BY <1>1, ElementOfSeq
  <2> QED BY <2>1 DEF Pkg
<1>3. i \in Nat
  BY <1>1
<1>4. CodeWord(s, word, size)[i] =
        [seq |-> s, index |-> i,
         plen |-> IF i <= K THEN word[i].len ELSE size,
         size |-> size, word |-> word]
  BY DEF CodeWord
<1>5. Len(CodeWord(s, word, size)) = K + R
  <2>1. K + R \in Nat
    BY <1>1
  <2> QED BY <2>1 DEF CodeWord
<1>6. (IF i <= K THEN word[i].len ELSE size) \in Nat
  BY <1>2
<1>7. CodeWord(s, word, size)[i] \in Coded
  BY <1>3, <1>4, <1>6 DEF Coded
<1>8. i <= K => CodeWord(s, word, size)[i].plen = word[i].len
  BY <1>4
<1>9. LET c == CodeWord(s, word, size)[i]
      IN  c.seq = s /\ c.index = i /\ c.size = size /\ c.word = word
  BY <1>4
<1> QED BY <1>5, <1>7, <1>8, <1>9

(***************************************************************************)
(* The steps of the sender                                                 *)
(***************************************************************************)
\* m is of the word that the new datagram completes.
New(m, len) ==
    /\ m \in [pkt : Coded, born : Nat]
    /\ m.born = now
    /\ m.pkt.seq = seq
    /\ m.pkt.index \in 1..(K + R)
    /\ m.pkt.word = Append(held, NewPkg(len))
    /\ m.pkt.index <= K => m.pkt.plen = m.pkt.word[m.pkt.index].len
    /\ m.pkt.size = MaxAfter(NewPkg(len))

OutputStep(len) ==
    /\ accepted' = accepted \union {NewPkg(len)}
    /\ Completes => Paced
    /\ EncInput(NewPkg(len))
    /\ coded_net \subseteq coded_net'
    /\ \A m \in coded_net' : m \in coded_net \/ (Completes /\ New(m, len))
    /\ cut' \in BOOLEAN /\ (cut => cut')
    /\ Completes /\ ~cut' => \E m \in coded_net' : New(m, len)
    /\ UNCHANGED <<decVars, now, raw_net, logVars>>

LEMMA OutputAirs ==
    ASSUME SenderInv, ClockInv, NEW len \in PkgLens, NEW n \in 0..(K + R),
           KcpOutput(len, n)
    PROVE  OutputStep(len)
<1> DEFINE p == NewPkg(len)
           out == InputSends(p)
           word == Append(held, p)
<1>1. /\ n <= Len(out)
      /\ Completes => Paced
      /\ EncInput(p)
      /\ accepted' = accepted \union {p}
      /\ coded_net' = coded_net \union Aired(out, n)
      /\ cut' = (cut \/ n < Len(out))
      /\ UNCHANGED <<decVars, now, raw_net, logVars>>
  BY DEF KcpOutput, NewPkg
<1>2. cut' \in BOOLEAN /\ (cut => cut')
  BY <1>1 DEF ClockInv
<1>3. K \in Nat \ {0} /\ R \in Nat
  BY EncoderAssumption
<1>4. /\ word \in Seq(Pkg) /\ Len(word) = Len(held) + 1
      /\ MaxAfter(p) \in Nat
  BY AppendTrue
<1>5. seq \in Nat /\ now \in Nat
  BY EncoderAssumption DEF SenderInv, ClockInv
<1>6. ASSUME Completes
      PROVE  /\ Len(out) = K + R
             /\ \A i \in 1..(K + R) : New([pkt |-> out[i], born |-> now], len)
  <2>1. out = CodeWord(seq, word, MaxAfter(p)) /\ Len(word) = K
    BY <1>4, <1>6 DEF InputSends, Completes
  <2>2. ASSUME NEW i \in 1..(K + R)
        PROVE  /\ Len(out) = K + R
               /\ out[i] \in Coded
               /\ out[i].seq = seq /\ out[i].index = i
               /\ out[i].size = MaxAfter(p) /\ out[i].word = word
               /\ i <= K => out[i].plen = word[i].len
    <3> HIDE DEF word, out, p
    <3> QED BY <1>4, <1>5, <2>1, CodeWordTyped
  <2>3. Len(out) = K + R
    <3>1. 1 \in 1..(K + R)
      BY <1>3
    <3> QED BY <2>2, <3>1
  <2>4. ASSUME NEW i \in 1..(K + R)
        PROVE  New([pkt |-> out[i], born |-> now], len)
    <3> DEFINE m == [pkt |-> out[i], born |-> now]
    <3>1. m.pkt = out[i] /\ m.born = now
      OBVIOUS
    <3>2. m \in [pkt : Coded, born : Nat]
      BY <1>5, <2>2
    <3> HIDE DEF m, out
    <3>3. m.pkt.seq = seq /\ m.pkt.index = i /\ m.pkt.word = word
      BY <2>2, <3>1
    <3>4. m.pkt.size = MaxAfter(p) /\ (i <= K => m.pkt.plen = word[i].len)
      BY <2>2, <3>1
    <3>5. New(m, len)
      BY <3>1, <3>2, <3>3, <3>4 DEF New
    <3> QED BY <3>5 DEF m
  <2> QED BY <2>3, <2>4
<1>7. ~Completes => Len(out) = 0
  BY EmptySeq DEF InputSends
<1>8. \A m \in Aired(out, n) :
        \E i \in 1..n : m = [pkt |-> out[i], born |-> now]
  BY DEF Aired
<1>9. \A i \in 1..n : [pkt |-> out[i], born |-> now] \in Aired(out, n)
  BY DEF Aired
<1> HIDE DEF p, out, word
<1>10. \A m \in coded_net' : m \in coded_net \/ (Completes /\ New(m, len))
  <2> SUFFICES ASSUME NEW m \in Aired(out, n)
      PROVE  Completes /\ New(m, len)
    BY <1>1
  <2>1. PICK i \in 1..n : m = [pkt |-> out[i], born |-> now]
    BY <1>8
  <2>2. Completes
    BY <1>1, <1>7, <2>1
  <2>3. i \in 1..(K + R)
    BY <1>1, <1>3, <1>6, <2>1, <2>2
  <2> QED BY <1>6, <2>1, <2>2, <2>3
<1>11. ASSUME Completes, ~cut'
       PROVE  \E m \in coded_net' : New(m, len)
  <2>1. ~(n < Len(out))
    BY <1>1, <1>11
  <2>2. 1 \in 1..n /\ 1 \in 1..(K + R)
    BY <1>3, <1>6, <1>11, <2>1
  <2> QED BY <1>1, <1>6, <1>9, <1>11, <2>2
<1>12. coded_net \subseteq coded_net'
  BY <1>1
<1> QED BY <1>1, <1>2, <1>10, <1>11, <1>12 DEF OutputStep, p

\* The timer's step: either nothing but the age changes, or what is held
\* leaves all together.
TimerStep ==
    /\ age' \in 0..FlushAfter
    /\ held' = <<>> \/ (held' = held /\ raw_net' = raw_net)
    /\ raw_net \subseteq raw_net'
    /\ \A m \in raw_net' :
        \/ m \in raw_net
        \/ /\ held' = <<>>
           /\ m.born = now /\ m = [pkt |-> m.pkt, born |-> m.born]
           /\ \E i \in 1..Len(held) : m.pkt = held[i]
    /\ cut' \in BOOLEAN /\ (cut => cut')
    /\ ~cut' /\ held' # held =>
        \A i \in 1..Len(held) : \E m \in raw_net' : m.pkt = held[i]
    /\ UNCHANGED <<max_len, seq, decVars, now, coded_net, accepted, logVars>>

LEMMA TimerAirs ==
    ASSUME SenderInv, ClockInv, NEW elapsed \in Ticks, NEW n \in 0..K,
           Timer(elapsed, n)
    PROVE  TimerStep
<1> DEFINE out == TimerSends(elapsed)
<1>1. /\ n <= Len(out)
      /\ age' = AgeAfter(elapsed)
      /\ held' = HeldAfter(elapsed)
      /\ raw_net' = raw_net \union Aired(out, n)
      /\ cut' = (cut \/ n < Len(out))
      /\ UNCHANGED <<max_len, seq, decVars, now, coded_net, accepted, logVars>>
  BY DEF Timer, EncTimer
<1>2. cut' \in BOOLEAN /\ (cut => cut')
  BY <1>1 DEF ClockInv
<1>3. age' \in 0..FlushAfter
  <2>1. age \in Nat /\ FlushAfter \in Nat /\ elapsed \in Nat
    BY EncoderAssumption, LinkAssumption DEF SenderInv
  <2> QED BY <1>1, <2>1 DEF AgeAfter
<1>4. Len(held) \in Nat
  BY LenProperties DEF SenderInv, HeldTrue
<1>5. CASE Due(elapsed)
  <2>1. held' = <<>> /\ out = held
    BY <1>1, <1>5 DEF HeldAfter, TimerSends
  <2>2. \A m \in Aired(held, n) :
            \E i \in 1..n : m = [pkt |-> held[i], born |-> now]
    BY DEF Aired
  <2>3. \A i \in 1..n : [pkt |-> held[i], born |-> now] \in Aired(held, n)
    BY DEF Aired
  <2>4. ASSUME NEW m \in Aired(held, n)
        PROVE  /\ m.born = now /\ m = [pkt |-> m.pkt, born |-> m.born]
               /\ \E i \in 1..Len(held) : m.pkt = held[i]
    <3>1. PICK i \in 1..n : m = [pkt |-> held[i], born |-> now]
      BY <2>2
    <3>2. i \in 1..Len(held)
      BY <1>1, <1>4, <2>1
    <3> QED BY <3>1, <3>2
  <2>5. ASSUME ~cut', NEW i \in 1..Len(held)
        PROVE  \E m \in raw_net' : m.pkt = held[i]
    <3>0. ~(n < Len(held))
      BY <1>1, <2>1, <2>5
    <3>1. i \in 1..n
      BY <1>4, <3>0
    <3>2. [pkt |-> held[i], born |-> now] \in raw_net'
      BY <1>1, <2>1, <2>3, <3>1
    <3> QED BY <3>2
  <2> HIDE DEF out
  <2> QED BY <1>1, <1>2, <1>3, <2>1, <2>4, <2>5 DEF TimerStep
<1>6. CASE ~Due(elapsed)
  <2>1. held' = held /\ Len(out) = 0
    BY <1>1, <1>6, EmptySeq DEF HeldAfter, TimerSends
  <2>2. Aired(out, n) = {}
    BY <1>1, <2>1 DEF Aired
  <2>3. raw_net' = raw_net
    BY <1>1, <2>2
  <2> HIDE DEF out
  <2> QED BY <1>1, <1>2, <1>3, <2>1, <2>3 DEF TimerStep
<1> QED BY <1>5, <1>6

\* What is new is true.
LEMMA NewTrue ==
    ASSUME SenderInv, ClockInv, NEW len \in PkgLens, Completes,
           accepted' = accepted \union {NewPkg(len)}, now' = now,
           NEW m, New(m, len)
    PROVE  CodedTrue(m)'
<1> DEFINE p == NewPkg(len)
           word == Append(held, p)
<1>1. Len(word) = K /\ word \in Seq(Pkg)
  BY AppendTrue DEF Completes
<1>2. /\ \A i \in 1..K :
            word[i] \in accepted \union {p} /\ word[i].len <= MaxAfter(p)
      /\ \A i, j \in 1..K : word[i] = word[j] => i = j
  BY <1>1, AppendTrue
<1>3. m.pkt.word = word /\ m.pkt.size = MaxAfter(p)
  BY DEF New
<1> HIDE DEF word, p
<1>4. accepted' = accepted \union {p} /\ K' = K
  BY DEF p
<1>5. WordTrue(m.pkt.word, m.pkt.size)'
  BY <1>1, <1>2, <1>3, <1>4 DEF WordTrue
<1>6. m.pkt.seq \in 1..(SeqLimit - 1) /\ m.born <= now
  BY DEF New, SenderInv, ClockInv
<1> QED BY <1>5, <1>6 DEF CodedTrue, New

LEMMA SenderKept ==
    ASSUME SenderInv, NEW len \in PkgLens, OutputStep(len)
    PROVE  SenderInv'
<1> DEFINE p == NewPkg(len)
           more == Append(held, p)
<1>1. EncInput(p) /\ accepted' = accepted \union {p}
  BY DEF OutputStep
<1>2. AcceptedTrue'
  BY <1>1, AcceptedStep DEF SenderInv
<1>3. /\ more \in Seq(Pkg) /\ Len(more) = Len(held) + 1
      /\ MaxAfter(p) \in Nat
      /\ \A i \in 1..Len(more) :
            more[i] \in accepted \union {p} /\ more[i].len <= MaxAfter(p)
      /\ \A i, j \in 1..Len(more) : more[i] = more[j] => i = j
  BY AppendTrue
<1>4. Len(held) \in Nat /\ Len(held) < K /\ K \in Nat
  BY EncoderAssumption, LenProperties DEF SenderInv, HeldTrue
<1>5. /\ max_len' = MaxAfter(p) /\ age' = 0
      /\ held' = IF Completes THEN <<>> ELSE more
      /\ seq' = IF Completes THEN NextSeq(seq) ELSE seq
  BY <1>1 DEF EncInput
<1> HIDE DEF p, more
<1>6. HeldTrue'
  <2>1. CASE Completes
    <3>1. held' = <<>> /\ Len(<<>>) = 0 /\ <<>> \in Seq(Pkg)
      BY <1>5, <2>1, EmptySeq
    <3> QED BY <1>4, <3>1, EncoderAssumption DEF HeldTrue
  <2>2. CASE ~Completes
    <3>1. held' = more /\ Len(more) < K
      BY <1>3, <1>4, <1>5, <2>2 DEF Completes
    <3> QED BY <1>1, <1>3, <1>5, <3>1 DEF HeldTrue
  <2> QED BY <2>1, <2>2
<1>7. seq' \in 1..(SeqLimit - 1)
  BY <1>5, EncoderAssumption DEF SenderInv, NextSeq
<1>8. max_len' \in Nat /\ age' \in 0..FlushAfter
  BY <1>3, <1>5, EncoderAssumption
<1> QED BY <1>2, <1>6, <1>7, <1>8 DEF SenderInv

\* What was true of a package stays so when datagrams are added.
LEMMA CodedKept ==
    ASSUME NEW m, CodedTrue(m), accepted \subseteq accepted',
           now \in Nat, now' \in Nat, now <= now'
    PROVE  CodedTrue(m)'
<1>1. WordTrue(m.pkt.word, m.pkt.size)'
  BY DEF CodedTrue, WordTrue
<1>2. m.born \in Nat
  BY DEF CodedTrue
<1>3. m.born <= now'
  BY <1>2 DEF CodedTrue
<1> QED BY <1>1, <1>3 DEF CodedTrue

\* A word has its datagrams from those that were given to the encoder, and a
\* new one is of none.
LEMMA WordFresh ==
    ASSUME AirInv, NEW len \in PkgLens, NEW m \in coded_net,
           NEW i \in 1..K
    PROVE  /\ m.pkt.word[i] \in accepted
           /\ In(m.pkt.word[i], m.pkt.word)
           /\ ~In(m.pkt.word[i], held)
           /\ m.pkt.word[i] # NewPkg(len)
<1>1. /\ m.pkt.word[i] \in accepted
      /\ m.pkt.word \in Seq(Pkg) /\ Len(m.pkt.word) = K
  BY DEF AirInv, NetInv, CodedTrue, WordTrue
<1>2. In(m.pkt.word[i], m.pkt.word)
  <2>1. DOMAIN m.pkt.word = 1..K
    BY <1>1, LenProperties
  <2> QED BY <2>1 DEF In
<1>3. ~In(m.pkt.word[i], held)
  BY <1>1, <1>2 DEF AirInv, WentOutOnce, Words
<1>4. m.pkt.word[i] # NewPkg(len)
  BY <1>1, NewPkgTyped DEF AirInv, SenderInv
<1> QED BY <1>1, <1>2, <1>3, <1>4

LEMMA SeqKept ==
    ASSUME AirInv, NEW len \in PkgLens, OutputStep(len)
    PROVE  SeqInv'
<1>1. swept' = swept
  BY DEF OutputStep, logVars
<1>2. \A m : Past(m)' <=> Past(m)
  BY <1>1 DEF Past
<1> SUFFICES ASSUME NEW m1 \in coded_net', NEW m2 \in coded_net',
                    m1.pkt.seq = m2.pkt.seq
    PROVE  m1.pkt.word = m2.pkt.word \/ Past(m1) \/ Past(m2)
  BY <1>2 DEF SeqInv, OneSeq
<1>3. /\ m1 \in coded_net \/ (Completes /\ New(m1, len))
      /\ m2 \in coded_net \/ (Completes /\ New(m2, len))
  BY DEF OutputStep
<1>4. ASSUME NEW m \in coded_net, Completes, m.pkt.seq = seq
      PROVE  Past(m)
  BY <1>4 DEF OutputStep, Paced, Past
<1>5. CASE m1 \in coded_net /\ m2 \in coded_net
  BY <1>5 DEF AirInv, SeqInv, OneSeq
<1>6. CASE Completes /\ New(m1, len) /\ New(m2, len)
  BY <1>6 DEF New
<1>7. CASE m1 \in coded_net /\ Completes /\ New(m2, len)
  BY <1>4, <1>7 DEF New
<1>8. CASE m2 \in coded_net /\ Completes /\ New(m1, len)
  BY <1>4, <1>8 DEF New
<1> QED BY <1>3, <1>5, <1>6, <1>7, <1>8

LEMMA PlaceKept ==
    ASSUME AirInv, NEW len \in PkgLens, OutputStep(len)
    PROVE  PlaceInv'
<1> SUFFICES ASSUME NEW m1 \in coded_net', NEW m2 \in coded_net'
    PROVE  OnePlace(m1, m2)
  BY DEF PlaceInv, OnePlace
<1>1. /\ m1 \in coded_net \/ (Completes /\ New(m1, len))
      /\ m2 \in coded_net \/ (Completes /\ New(m2, len))
  BY DEF OutputStep
<1>2. ASSUME NEW m, New(m, len), Completes, NEW i \in 1..K
      PROVE  /\ m.pkt.word[i] = NewPkg(len) \/ In(m.pkt.word[i], held)
             /\ \A j \in 1..K : m.pkt.word[i] = m.pkt.word[j] => i = j
  <2>1. m.pkt.word = Append(held, NewPkg(len))
    BY <1>2 DEF New
  <2>2. Len(Append(held, NewPkg(len))) = K
    BY <1>2, AppendTrue DEF AirInv, Completes
  <2> QED BY <1>2, <2>1, <2>2, AppendTrue DEF AirInv
<1>3. ASSUME NEW m \in coded_net, NEW n, New(n, len), Completes,
             NEW i \in 1..K, NEW j \in 1..K
      PROVE  m.pkt.word[i] # n.pkt.word[j]
  BY <1>2, <1>3, WordFresh
<1>4. CASE m1 \in coded_net /\ m2 \in coded_net
  BY <1>4 DEF AirInv, PlaceInv
<1>5. CASE Completes /\ New(m1, len) /\ New(m2, len)
  <2>1. m1.pkt.word = m2.pkt.word /\ m1.pkt.seq = m2.pkt.seq
    BY <1>5 DEF New
  <2> QED BY <1>2, <1>5, <2>1 DEF OnePlace
<1>6. CASE m1 \in coded_net /\ Completes /\ New(m2, len)
  BY <1>3, <1>6 DEF OnePlace
<1>7. CASE m2 \in coded_net /\ Completes /\ New(m1, len)
  BY <1>3, <1>7 DEF OnePlace
<1> QED BY <1>1, <1>4, <1>5, <1>6, <1>7

LEMMA InAppend ==
    ASSUME AirInv, NEW len \in PkgLens, NEW q
    PROVE  In(q, Append(held, NewPkg(len))) <=> q = NewPkg(len) \/ In(q, held)
<1> DEFINE p == NewPkg(len)
           more == Append(held, p)
<1>1. held \in Seq(Pkg) /\ p \in Pkg
  BY NewPkgTyped DEF AirInv, SenderInv, HeldTrue
<1>2. /\ Len(held) \in Nat /\ DOMAIN held = 1..Len(held)
      /\ more \in Seq(Pkg) /\ Len(more) = Len(held) + 1
      /\ \A i \in 1..Len(held) : more[i] = held[i]
      /\ more[Len(held) + 1] = p
  BY <1>1, LenProperties, AppendProperties
<1> HIDE DEF p, more
<1>3. DOMAIN more = 1..(Len(held) + 1)
  BY <1>2, LenProperties
<1>4. \A i \in 1..(Len(held) + 1) : i \in 1..Len(held) \/ i = Len(held) + 1
  BY <1>2
<1>5. /\ Len(held) + 1 \in 1..(Len(held) + 1)
      /\ \A i \in 1..Len(held) : i \in 1..(Len(held) + 1)
  BY <1>2
<1>6. In(q, more) <=> q = p \/ In(q, held)
  BY <1>2, <1>3, <1>4, <1>5 DEF In
<1> QED BY <1>6 DEF p, more

LEMMA NothingInEmpty == \A q : ~In(q, <<>>)
BY DEF In

\* Where one datagram is: held, in a word, in the network unencoded
Place(q) ==
    /\ In(q, held) => /\ ~\E w \in Words : In(q, w)
                      /\ ~\E m \in raw_net : m.pkt = q
    /\ (\E w \in Words : In(q, w)) => ~\E m \in raw_net : m.pkt = q
    /\ \/ In(q, held) \/ cut
       \/ \E w \in Words : In(q, w)
       \/ \E m \in raw_net : m.pkt = q

LEMMA Places == WentOutOnce <=> \A q \in accepted : Place(q)
BY DEF WentOutOnce, Place

LEMMA OnceOutput ==
    ASSUME AirInv, NEW len \in PkgLens, OutputStep(len)
    PROVE  WentOutOnce'
<1> DEFINE p == NewPkg(len)
<1>1. /\ accepted' = accepted \union {p} /\ raw_net' = raw_net
      /\ coded_net \subseteq coded_net'
      /\ \A m \in coded_net' : m \in coded_net \/ (Completes /\ New(m, len))
      /\ cut => cut'
      /\ Completes /\ ~cut' => \E m \in coded_net' : New(m, len)
      /\ held' = IF Completes THEN <<>> ELSE Append(held, p)
  BY DEF OutputStep, EncInput
<1>2. p \notin accepted
  BY NewPkgTyped DEF AirInv, SenderInv
<1>3. /\ ~In(p, held)
      /\ ~\E w \in Words : In(p, w)
      /\ ~\E m \in raw_net : m.pkt = p
  <2>1. ~In(p, held)
    <3>1. DOMAIN held = 1..Len(held)
      BY LenProperties DEF AirInv, SenderInv, HeldTrue
    <3> QED BY <1>2, <3>1 DEF In, AirInv, SenderInv, HeldTrue
  <2>2. ASSUME NEW m \in coded_net, In(p, m.pkt.word)
        PROVE  FALSE
    <3>1. DOMAIN m.pkt.word = 1..K
      BY LenProperties DEF AirInv, NetInv, CodedTrue, WordTrue
    <3> QED BY <1>2, <2>2, <3>1 DEF In, AirInv, NetInv, CodedTrue, WordTrue
  <2>3. ~\E m \in raw_net : m.pkt = p
    BY <1>2 DEF AirInv, NetInv, RawTrue
  <2> QED BY <2>1, <2>2, <2>3 DEF Words
<1>4. \A m : New(m, len) => m.pkt.word = Append(held, p)
  BY DEF New
<1>5. \A q : In(q, Append(held, p)) <=> q = p \/ In(q, held)
  BY InAppend
<1>6. \A q : (\E w \in Words' : In(q, w)) =>
            \/ \E w \in Words : In(q, w)
            \/ Completes /\ In(q, Append(held, p))
  BY <1>1, <1>4 DEF Words
<1>7. Words \subseteq Words'
  BY <1>1 DEF Words
<1>8. Completes /\ ~cut' => Append(held, p) \in Words'
  BY <1>1, <1>4 DEF Words
<1>9. \A q \in accepted : Place(q)
  BY Places DEF AirInv
<1> HIDE DEF p
<1> SUFFICES ASSUME NEW q \in accepted' PROVE Place(q)'
  BY DEF WentOutOnce, Place
<1>10. CASE Completes
  <2>1. ~In(q, held')
    BY <1>1, <1>10, NothingInEmpty
  <2>2. CASE q = p
    <3>1. ~\E m \in raw_net' : m.pkt = q
      BY <1>1, <1>3, <2>2
    <3>2. cut' \/ \E w \in Words' : In(q, w)
      BY <1>5, <1>8, <1>10, <2>2
    <3> QED BY <2>1, <3>1, <3>2 DEF Place
  <2>3. CASE q \in accepted /\ q # p
    <3>1. (\E w \in Words' : In(q, w)) => ~\E m \in raw_net' : m.pkt = q
      BY <1>1, <1>5, <1>6, <1>9, <2>3 DEF Place
    <3>2. \/ cut' \/ \E w \in Words' : In(q, w)
          \/ \E m \in raw_net' : m.pkt = q
      BY <1>1, <1>5, <1>7, <1>8, <1>9, <1>10, <2>3 DEF Place
    <3> QED BY <2>1, <3>1, <3>2 DEF Place
  <2> QED BY <1>1, <2>2, <2>3
<1>11. CASE ~Completes
  <2>1. Words' = Words /\ held' = Append(held, p)
    <3>1. coded_net' = coded_net
      BY <1>1, <1>11
    <3> QED BY <1>1, <1>11, <3>1 DEF Words
  <2>2. CASE q = p
    BY <1>1, <1>3, <1>5, <2>1, <2>2 DEF Place
  <2>3. CASE q \in accepted /\ q # p
    BY <1>1, <1>5, <1>9, <2>1, <2>3 DEF Place
  <2> QED BY <1>1, <2>2, <2>3
<1> QED BY <1>10, <1>11

LEMMA OutputAir ==
    ASSUME AirInv, NEW len \in PkgLens, OutputStep(len)
    PROVE  AirInv'
<1>1. /\ accepted' = accepted \union {NewPkg(len)}
      /\ raw_net' = raw_net /\ now' = now /\ swept' = swept
      /\ \A m \in coded_net' : m \in coded_net \/ (Completes /\ New(m, len))
      /\ cut' \in BOOLEAN
  BY DEF OutputStep, logVars
<1>2. now \in Nat /\ now <= now'
  BY <1>1 DEF AirInv, ClockInv
<1>3. SenderInv'
  BY SenderKept DEF AirInv
<1>4. \A m \in coded_net' : CodedTrue(m)'
  <2> SUFFICES ASSUME NEW m \in coded_net' PROVE CodedTrue(m)'
    OBVIOUS
  <2>1. CASE m \in coded_net
    <3>1. CodedTrue(m)
      BY <2>1 DEF AirInv, NetInv
    <3> QED BY <1>1, <1>2, <3>1, CodedKept
  <2>2. CASE Completes /\ New(m, len)
    BY <1>1, <2>2, NewTrue DEF AirInv
  <2> QED BY <1>1, <2>1, <2>2
<1>5. \A m \in raw_net' : RawTrue(m)'
  BY <1>1 DEF AirInv, NetInv, RawTrue
<1>6. NetInv'
  BY <1>4, <1>5 DEF NetInv
<1>7. ClockInv'
  BY <1>1 DEF AirInv, ClockInv
<1> QED BY <1>3, <1>6, <1>7, SeqKept, PlaceKept, OnceOutput DEF AirInv

LEMMA OnceTimer ==
    ASSUME AirInv, TimerStep
    PROVE  WentOutOnce'
<1>1. /\ held' = <<>> \/ (held' = held /\ raw_net' = raw_net)
      /\ raw_net \subseteq raw_net'
      /\ \A m \in raw_net' :
            m \in raw_net \/ (\E i \in 1..Len(held) : m.pkt = held[i])
      /\ cut => cut'
      /\ ~cut' /\ held' # held =>
            \A i \in 1..Len(held) : \E m \in raw_net' : m.pkt = held[i]
      /\ coded_net' = coded_net /\ accepted' = accepted
  BY DEF TimerStep
<1>2. DOMAIN held = 1..Len(held)
  BY LenProperties DEF AirInv, SenderInv, HeldTrue
<1>3. Words' = Words
  BY <1>1 DEF Words
<1>4. \A q \in accepted : Place(q)
  BY Places DEF AirInv
<1> SUFFICES ASSUME NEW q \in accepted PROVE Place(q)'
  BY <1>1 DEF WentOutOnce, Place
<1>5. CASE held' = held /\ raw_net' = raw_net
  BY <1>1, <1>3, <1>4, <1>5 DEF Place
<1>6. CASE held' = <<>> /\ held # <<>>
  <2>1. ~In(q, held')
    BY <1>6, NothingInEmpty
  <2>2. (\E m \in raw_net' : m.pkt = q) =>
            (\E m \in raw_net : m.pkt = q) \/ In(q, held)
    BY <1>1, <1>2 DEF In
  <2>3. In(q, held) => cut' \/ \E m \in raw_net' : m.pkt = q
    BY <1>1, <1>2, <1>6 DEF In
  <2>4. (\E w \in Words' : In(q, w)) => ~\E m \in raw_net' : m.pkt = q
    BY <1>3, <1>4, <2>2 DEF Place
  <2>5. \/ cut' \/ \E w \in Words' : In(q, w)
        \/ \E m \in raw_net' : m.pkt = q
    BY <1>1, <1>3, <1>4, <2>3 DEF Place
  <2> QED BY <2>1, <2>4, <2>5 DEF Place
<1>7. CASE held' = <<>> /\ held = <<>>
  <2>1. \A m \in raw_net' : m \in raw_net
    BY <1>1, <1>2, <1>7
  <2>2. raw_net' = raw_net
    BY <1>1, <2>1
  <2> QED BY <1>1, <1>3, <1>4, <1>7, <2>2 DEF Place
<1> QED BY <1>1, <1>5, <1>6, <1>7

LEMMA TimerAir ==
    ASSUME AirInv, TimerStep
    PROVE  AirInv'
<1>1. /\ accepted' = accepted /\ now' = now /\ swept' = swept
      /\ coded_net' = coded_net /\ max_len' = max_len /\ seq' = seq
      /\ age' \in 0..FlushAfter /\ cut' \in BOOLEAN
      /\ held' = <<>> \/ held' = held
      /\ \A m \in raw_net' :
            \/ m \in raw_net
            \/ /\ m.born = now /\ m = [pkt |-> m.pkt, born |-> m.born]
               /\ \E i \in 1..Len(held) : m.pkt = held[i]
  BY DEF TimerStep, logVars
<1>2. SenderInv'
  <2>1. AcceptedTrue' <=> AcceptedTrue
    BY <1>1 DEF AcceptedTrue
  <2>2. HeldTrue'
    <3>1. CASE held' = held
      BY <1>1, <3>1 DEF AirInv, SenderInv, HeldTrue
    <3>2. CASE held' = <<>>
      BY <3>2, EmptySeq, EncoderAssumption DEF HeldTrue
    <3> QED BY <1>1, <3>1, <3>2
  <2> QED BY <1>1, <2>1, <2>2 DEF AirInv, SenderInv
<1>3. \A m : CodedTrue(m)' <=> CodedTrue(m)
  BY <1>1 DEF CodedTrue, WordTrue
<1>4. \A m \in raw_net' : RawTrue(m)'
  <2> SUFFICES ASSUME NEW m \in raw_net' PROVE RawTrue(m)'
    OBVIOUS
  <2>1. CASE m \in raw_net
    BY <1>1, <2>1 DEF AirInv, NetInv, RawTrue
  <2>2. CASE /\ m.born = now /\ m = [pkt |-> m.pkt, born |-> m.born]
             /\ \E i \in 1..Len(held) : m.pkt = held[i]
    <3>1. m.pkt \in accepted /\ m.pkt \in Pkg
      BY <2>2 DEF AirInv, SenderInv, HeldTrue, AcceptedTrue
    <3>2. m.born \in Nat
      BY <2>2 DEF AirInv, ClockInv
    <3> QED BY <1>1, <2>2, <3>1, <3>2 DEF RawTrue
  <2> QED BY <1>1, <2>1, <2>2
<1>5. NetInv'
  BY <1>1, <1>3, <1>4 DEF AirInv, NetInv
<1>6. ClockInv'
  BY <1>1 DEF AirInv, ClockInv
<1>7. SeqInv'
  BY <1>1 DEF AirInv, SeqInv, OneSeq, Past
<1>8. PlaceInv'
  BY <1>1 DEF AirInv, PlaceInv, OnePlace
<1> QED BY <1>2, <1>5, <1>6, <1>7, <1>8, OnceTimer DEF AirInv

\* At the receiver time only goes on.
Onward ==
    /\ now' \in Nat /\ now <= now'
    /\ swept' \in 0..now' /\ swept <= swept'
    /\ UNCHANGED <<encVars, netVars, accepted>>

LEMMA ReceiverAir ==
    ASSUME AirInv, Onward
    PROVE  AirInv'
<1>1. /\ UNCHANGED <<held, max_len, seq, age>>
      /\ UNCHANGED <<coded_net, raw_net, cut, accepted>>
      /\ now \in Nat /\ now' \in Nat /\ now <= now'
      /\ swept \in Nat /\ swept' \in 0..now' /\ swept <= swept'
  BY DEF Onward, encVars, netVars, AirInv, ClockInv
<1>2. SenderInv'
  BY <1>1 DEF AirInv, SenderInv, HeldTrue, AcceptedTrue
<1>3. NetInv'
  <2>1. \A m \in coded_net : CodedTrue(m)'
    BY <1>1, CodedKept DEF AirInv, NetInv
  <2>2. \A m \in raw_net : RawTrue(m)'
    BY <1>1 DEF AirInv, NetInv, RawTrue
  <2> QED BY <1>1, <2>1, <2>2 DEF NetInv
<1>4. ClockInv'
  BY <1>1 DEF AirInv, ClockInv
<1>5. SeqInv'
  <2>1. \A m \in coded_net : Past(m) => Past(m)'
    <3> SUFFICES ASSUME NEW m \in coded_net, Past(m) PROVE Past(m)'
      OBVIOUS
    <3>1. m.born \in Nat
      BY DEF AirInv, NetInv, CodedTrue
    <3> QED BY <1>1, <3>1, LinkAssumption, DecoderAssumption DEF Past
  <2> QED BY <1>1, <2>1 DEF AirInv, SeqInv, OneSeq
<1>6. PlaceInv'
  BY <1>1 DEF AirInv, PlaceInv, OnePlace
<1>7. WentOutOnce'
  BY <1>1 DEF AirInv, WentOutOnce, Words
<1> QED BY <1>2, <1>3, <1>4, <1>5, <1>6, <1>7 DEF AirInv

(***************************************************************************)
(* Input                                                                   *)
(***************************************************************************)
\* A group that may still get a package is of that package's word: two words
\* with one seq are never remembered at a time.
LEMMA SameWord ==
    ASSUME AirInv, GroupsInv, NEW m \in coded_net, Alive(m),
           m.pkt.seq \in DOMAIN groups
    PROVE  Of(groups[m.pkt.seq], m.pkt.seq, m)
<1> DEFINE s == m.pkt.seq
           g == groups[s]
<1>1. GroupTyped(g) /\ \E m2 \in coded_net : Of(g, s, m2)
  BY DEF GroupsInv, GroupTrue
<1>2. PICK m2 \in coded_net : Of(g, s, m2)
  BY <1>1
<1>3. /\ m.born \in Nat /\ m2.born \in Nat /\ g.stamp \in Nat
      /\ now \in Nat /\ swept \in Nat /\ swept <= now
      /\ now <= m.born + Lifetime
      /\ g.stamp <= now /\ swept <= g.stamp + Timeout
      /\ Lifetime \in Nat /\ Timeout \in Nat
  BY <1>1, LinkAssumption, DecoderAssumption
     DEF AirInv, NetInv, ClockInv, CodedTrue, Alive, GroupTyped, Group
<1>4. m2.pkt.seq = s /\ g.stamp <= m2.born + Lifetime
  BY <1>2 DEF Of
<1> HIDE DEF g
<1>5. ~Past(m) /\ ~Past(m2)
  BY <1>3, <1>4 DEF Past
<1>6. m.pkt.word = m2.pkt.word
  BY <1>4, <1>5 DEF AirInv, SeqInv, OneSeq
<1>7. g.stamp <= m.born + Lifetime
  BY <1>3
<1> QED BY <1>2, <1>6, <1>7 DEF Of, g

LEMMA EmptyCollects ==
    ASSUME NEW word, now \in Nat
    PROVE  EmptyGroup \in Group /\ Collecting(EmptyGroup, word)
<1>1. /\ EmptyGroup.slots = [i \in 1..(K + R) |-> NoPkg]
      /\ EmptyGroup.cur = 0 /\ EmptyGroup.max = 0 /\ EmptyGroup.stamp = now
  BY DEF EmptyGroup
<1>2. Present(EmptyGroup.slots) = {}
  BY <1>1 DEF Present
<1>3. Cardinality({}) = 0
  BY FS_EmptySet
<1>4. EmptyGroup.slots \in [1..(K + R) -> Coded \union {NoPkg}]
  BY <1>1
<1>5. Collecting(EmptyGroup, word)
  <2>1. 0 < K
    BY EncoderAssumption
  <2>2. Pieces(EmptyGroup, word)
    BY <1>1, <1>2, <1>3, <1>4 DEF Pieces
  <2> QED BY <1>1, <2>1, <2>2 DEF Collecting
<1>6. EmptyGroup \in Group
  <2>1. 0 \in 0..(K + R) /\ 0 \in Nat
    BY EncoderAssumption
  <2>2. EmptyGroup = [slots |-> [i \in 1..(K + R) |-> NoPkg],
                      cur |-> 0, max |-> 0, stamp |-> now]
    BY DEF EmptyGroup
  <2>3. [i \in 1..(K + R) |-> NoPkg] \in [1..(K + R) -> Coded \union {NoPkg}]
    OBVIOUS
  <2> QED BY <2>1, <2>2, <2>3 DEF Group
<1> QED BY <1>5, <1>6

LEMMA StillCollecting ==
    ASSUME AirInv, GroupsInv, NEW m \in coded_net, Alive(m),
           ~Done(m.pkt.seq), m.pkt.seq \notin ready
    PROVE  /\ GroupOf(m.pkt.seq) \in Group
           /\ Collecting(GroupOf(m.pkt.seq), m.pkt.word)
<1> DEFINE s == m.pkt.seq
<1>1. CASE s \in DOMAIN groups
  <2>1. GroupOf(s) = groups[s]
    BY <1>1 DEF GroupOf
  <2>2. Of(groups[s], s, m)
    BY <1>1, SameWord
  <2>3. ~(groups[s].cur >= K)
    BY <1>1 DEF Done
  <2>4. ~(groups[s].cur = K)
    BY <2>3, EncoderAssumption
  <2>5. Collecting(groups[s], m.pkt.word)
    BY <2>2, <2>4 DEF Of, Whole
  <2>6. groups[s] \in Group
    BY <1>1 DEF GroupsInv, GroupTrue, GroupTyped
  <2> QED BY <2>1, <2>5, <2>6
<1>2. CASE s \notin DOMAIN groups
  <2>1. GroupOf(s) = EmptyGroup
    BY <1>2 DEF GroupOf
  <2> QED BY <2>1, EmptyCollects DEF AirInv, ClockInv
<1> QED BY <1>1, <1>2

LEMMA Larger ==
    ASSUME NEW a \in Nat, NEW b \in Nat
    PROVE  larger(a, b) \in Nat /\ a <= larger(a, b) /\ b <= larger(a, b)
BY DEF larger

\* A package of the word fits among those that came; a larger max does no harm.
LEMMA PieceFits ==
    ASSUME AirInv, NEW m \in coded_net, NEW max \in Nat, m.pkt.size <= max
    PROVE  Piece(m.pkt, m.pkt.index, m.pkt.word, max)
<1>1. /\ m.pkt \in Coded
      /\ m.pkt.index <= K => m.pkt.plen = m.pkt.word[m.pkt.index].len
      /\ WordTrue(m.pkt.word, m.pkt.size)
  BY DEF AirInv, NetInv, CodedTrue
<1>2. m.pkt.size \in Nat
  BY <1>1 DEF Coded
<1>3. \A j \in 1..K : m.pkt.word[j].len <= max
  <2> SUFFICES ASSUME NEW j \in 1..K PROVE m.pkt.word[j].len <= max
    OBVIOUS
  <2>1. m.pkt.word[j].len \in Nat /\ m.pkt.word[j].len <= m.pkt.size
    BY <1>1, WordTyped DEF WordTrue
  <2> QED BY <1>2, <2>1
<1> QED BY <1>1, <1>3 DEF Piece

LEMMA PieceGrows ==
    ASSUME NEW c, NEW i, NEW word \in Seq(Pkg), Len(word) = K,
           NEW a \in Nat, NEW b \in Nat, a <= b, Piece(c, i, word, a)
    PROVE  Piece(c, i, word, b)
<1>1. \A j \in 1..K : word[j].len \in Nat
  BY WordTyped
<1>2. \A j \in 1..K : word[j].len <= a
  BY DEF Piece
<1>3. \A j \in 1..K : word[j].len <= b
  BY <1>1, <1>2
<1> QED BY <1>3 DEF Piece

\* With: the package takes its place.
LEMMA WithPieces ==
    ASSUME AirInv, NEW m \in coded_net,
           GroupOf(m.pkt.seq) \in Group,
           Collecting(GroupOf(m.pkt.seq), m.pkt.word),
           GroupOf(m.pkt.seq).slots[m.pkt.index] = NoPkg
    PROVE  /\ With(m.pkt) \in Group
           /\ Pieces(With(m.pkt), m.pkt.word)
           /\ With(m.pkt).cur <= K
           /\ m.pkt.index \in Present(With(m.pkt).slots)
           /\ With(m.pkt).stamp = now
<1> DEFINE c == m.pkt
           old == GroupOf(c.seq)
           g == With(c)
<1>1. /\ c \in Coded /\ c.size \in Nat /\ c.index \in 1..(K + R)
      /\ c.word \in Seq(Pkg) /\ Len(c.word) = K
      /\ c # NoPkg
  BY DecoderAssumption DEF AirInv, NetInv, CodedTrue, WordTrue, Coded
<1>2. /\ old.slots \in [1..(K + R) -> Coded \union {NoPkg}]
      /\ old.cur \in Nat /\ old.max \in Nat /\ old.cur < K
      /\ old.cur = Cardinality(Present(old.slots))
      /\ \A i \in Present(old.slots) : Piece(old.slots[i], i, c.word, old.max)
  BY DEF Collecting, Pieces, Group
<1>3. /\ g.slots = [old.slots EXCEPT ![c.index] = c]
      /\ g.cur = old.cur + 1 /\ g.max = larger(old.max, c.size)
      /\ g.stamp = now
      /\ g = [slots |-> g.slots, cur |-> g.cur, max |-> g.max, stamp |-> now]
  BY DEF With
<1>4. old.slots[c.index] = NoPkg
  OBVIOUS
<1>5. K \in Nat /\ R \in Nat /\ now \in Nat
  BY EncoderAssumption DEF AirInv, ClockInv
<1> HIDE DEF g, old
<1>6. /\ g.slots \in [1..(K + R) -> Coded \union {NoPkg}]
      /\ g.slots[c.index] = c
      /\ \A i \in 1..(K + R) : i # c.index => g.slots[i] = old.slots[i]
  BY <1>1, <1>2, <1>3
<1>7. Present(g.slots) = Present(old.slots) \union {c.index}
  BY <1>1, <1>2, <1>4, <1>6 DEF Present
<1>8. g.cur = Cardinality(Present(g.slots))
  <2>1. IsFiniteSet(1..(K + R))
    BY <1>5, FS_Interval
  <2>2. Present(old.slots) \in SUBSET (1..(K + R))
    BY <1>2 DEF Present
  <2>3. IsFiniteSet(Present(old.slots))
    BY <2>1, <2>2, FS_Subset
  <2>4. c.index \notin Present(old.slots)
    BY <1>4 DEF Present
  <2> QED BY <1>2, <1>3, <1>7, <2>3, <2>4, FS_AddElement
<1>9. g.max \in Nat /\ old.max <= g.max /\ c.size <= g.max
  BY <1>1, <1>2, <1>3, Larger
<1>10. \A i \in Present(g.slots) : Piece(g.slots[i], i, c.word, g.max)
  <2> SUFFICES ASSUME NEW i \in Present(g.slots)
      PROVE  Piece(g.slots[i], i, c.word, g.max)
    OBVIOUS
  <2>1. CASE i = c.index
    BY <1>6, <1>9, <2>1, PieceFits
  <2>2. CASE i \in Present(old.slots) /\ i # c.index
    <3>1. g.slots[i] = old.slots[i]
      BY <1>2, <1>6, <2>2 DEF Present
    <3> QED BY <1>1, <1>2, <1>9, <2>2, <3>1, PieceGrows
  <2> QED BY <1>7, <2>1, <2>2
<1>11. Pieces(g, c.word)
  BY <1>6, <1>8, <1>10 DEF Pieces
<1>12. g.cur \in 0..(K + R) /\ g.cur <= K
  BY <1>2, <1>3, <1>5
<1>13. g \in Group
  BY <1>3, <1>5, <1>6, <1>9, <1>12 DEF Group
<1> QED BY <1>3, <1>7, <1>11, <1>12, <1>13 DEF g

\* rs_decode2: K packages of the word give the word, nothing cut short.
LEMMA DecodedWhole ==
    ASSUME NEW word \in Seq(Pkg), Len(word) = K,
           NEW slots \in [1..(K + R) -> Coded \union {NoPkg}],
           NEW max \in Nat, Present(slots) # {},
           \A i \in Present(slots) : Piece(slots[i], i, word, max)
    PROVE  LET d == Decoded(slots, max)
           IN  /\ d \in [1..K -> Slot]
               /\ \A i \in 1..K : /\ d[i].pkg = word[i]
                                  /\ d[i].len >= word[i].len
                                  /\ max >= word[i].len
<1> DEFINE d == Decoded(slots, max)
<1>1. \A j, k \in Present(slots) : slots[j].word = slots[k].word
  BY DEF Piece
<1>2. slots[CHOOSE j \in Present(slots) : TRUE].word = word
  BY DEF Piece
<1>3. \A i \in 1..K : word[i] \in Pkg /\ word[i].len \in Nat
  BY WordTyped
<1>4. \A i \in 1..K : word[i].len <= max
  BY DEF Piece
<1>5. ASSUME NEW i \in 1..K
      PROVE  /\ d[i] \in Slot
             /\ d[i].pkg = word[i] /\ d[i].len >= word[i].len
  <2>1. CASE i \in Present(slots)
    <3>1. d[i] = [pkg |-> slots[i].word[i], len |-> slots[i].plen]
      BY <2>1 DEF Decoded
    <3>2. slots[i].word = word /\ slots[i].plen = word[i].len
      BY <2>1 DEF Piece
    <3>3. d[i] = [pkg |-> word[i], len |-> word[i].len]
      BY <3>1, <3>2
    <3>4. d[i].pkg = word[i] /\ d[i].len = word[i].len
      BY <3>3
    <3> QED BY <1>3, <3>3, <3>4 DEF Slot
  <2>2. CASE i \notin Present(slots)
    <3>1. d[i] = [pkg |-> word[i], len |-> max]
      BY <1>1, <1>2, <2>2 DEF Decoded
    <3>2. d[i].pkg = word[i] /\ d[i].len = max
      BY <3>1
    <3> QED BY <1>3, <1>4, <3>1, <3>2 DEF Slot
  <2> QED BY <2>1, <2>2
<1>6. d \in [1..K -> Slot]
  BY <1>5 DEF Decoded
<1>7. \A i \in 1..K : max >= word[i].len
  BY <1>3, <1>4
<1> HIDE DEF d
<1> QED BY <1>5, <1>6, <1>7 DEF d

\* Input puts a group g to those it has: it is m's, and what goes is old.
Joined(m, g) ==
    /\ ~Done(m.pkt.seq)
    /\ g \in Group /\ g.stamp = now
    /\ Of(g, m.pkt.seq, m)
    /\ m.pkt.seq \in DOMAIN groups' /\ groups'[m.pkt.seq] = g
    /\ \A t \in DOMAIN groups' :
            t # m.pkt.seq => t \in DOMAIN groups /\ groups'[t] = groups[t]
    /\ \A t \in DOMAIN groups \ DOMAIN groups' :
            now > groups[t].stamp + Timeout

\* A package came, and the group is short of others; or it was the last one.
JoinMore(m, g) ==
    /\ Joined(m, g)
    /\ g.cur < K
    /\ UNCHANGED <<unit, last_seq, last_index, ready, ready_nums, left>>

JoinLast(m, g) ==
    /\ Joined(m, g)
    /\ g.cur = K
    /\ ready' = {m.pkt.seq} /\ ready_nums' = 1
    /\ left' = g.max /\ g.max > 0
    /\ UNCHANGED <<unit, last_seq, last_index>>

LEMMA ClearedKeeps ==
    ASSUME NEW grps, NEW rdy
    PROVE  /\ \A t \in DOMAIN Cleared(grps, rdy) :
                t \in DOMAIN grps /\ Cleared(grps, rdy)[t] = grps[t]
           /\ \A t \in DOMAIN grps \ DOMAIN Cleared(grps, rdy) :
                t \notin rdy /\ now > grps[t].stamp + Timeout
           /\ \A t \in DOMAIN Cleared(grps, rdy) :
                t \in rdy \/ ~(now > grps[t].stamp + Timeout)
           /\ \A t \in DOMAIN grps :
                ~(now > grps[t].stamp + Timeout) =>
                    t \in DOMAIN Cleared(grps, rdy)
BY DEF Cleared

LEMMA PutGroup ==
    ASSUME NEW s, NEW g
    PROVE  /\ s \in DOMAIN Put(s, g) /\ Put(s, g)[s] = g
           /\ \A t \in DOMAIN Put(s, g) :
                t # s => t \in DOMAIN groups /\ Put(s, g)[t] = groups[t]
           /\ \A t \in DOMAIN groups : t \in DOMAIN Put(s, g)
BY DEF Put

LEMMA IdleFirst ==
    ASSUME AirInv, OutInv, left = 0
    PROVE  Idle
<1>1. ~RawOut
  BY DEF RawOut, AirInv, SenderInv, AcceptedTrue
<1>2. \A s \in DOMAIN groups : ~CodedOut(groups[s], s)
  BY DEF CodedOut
<1> QED BY <1>1, <1>2 DEF OutInv

\* A group with the package in it, collecting as before
LEMMA AgainJoins ==
    ASSUME AirInv, GroupsInv, Idle, NEW m \in coded_net, Alive(m),
           InputAgain(m.pkt)
    PROVE  \E g : JoinMore(m, g)
<1> DEFINE c == m.pkt
           s == m.pkt.seq
           old == GroupOf(s)
           g == [old EXCEPT !.max = larger(old.max, c.size), !.stamp = now]
<1>1. /\ ~Done(s) /\ s \notin ready
      /\ groups' = Put(s, g)
      /\ UNCHANGED <<ready, ready_nums, unit, last_seq, last_index, left>>
  BY DEF InputAgain
<1>2. old \in Group /\ Collecting(old, c.word)
  BY <1>1, StillCollecting
<1>3. /\ c.size \in Nat /\ now \in Nat
      /\ c.word \in Seq(Pkg) /\ Len(c.word) = K
  BY DEF AirInv, NetInv, ClockInv, CodedTrue, WordTrue, Coded
<1>4. old.max \in Nat
  BY <1>2 DEF Group
<1>5. /\ larger(old.max, c.size) \in Nat
      /\ old.max <= larger(old.max, c.size)
  BY <1>3, <1>4, Larger
<1> HIDE DEF old
<1>6. /\ g.slots = old.slots /\ g.cur = old.cur
      /\ g.max = larger(old.max, c.size) /\ g.stamp = now
  BY <1>2 DEF Group
<1>7. g \in Group
  BY <1>2, <1>3, <1>5 DEF Group
<1> HIDE DEF g
<1>8. Collecting(g, c.word)
  <2>1. \A i \in Present(old.slots) : Piece(old.slots[i], i, c.word, g.max)
    BY <1>2, <1>3, <1>4, <1>5, <1>6, PieceGrows DEF Collecting, Pieces
  <2> QED BY <1>2, <1>6, <2>1 DEF Collecting, Pieces
<1>9. Of(g, s, m)
  BY <1>6, <1>8 DEF Of, Alive
<1>10. Joined(m, g)
  BY <1>1, <1>6, <1>7, <1>9, PutGroup DEF Joined
<1>11. JoinMore(m, g)
  BY <1>1, <1>8, <1>10 DEF JoinMore, Collecting
<1> QED BY <1>11

LEMMA MoreJoins ==
    ASSUME AirInv, GroupsInv, Idle, NEW m \in coded_net, Alive(m),
           InputMore(m.pkt)
    PROVE  \E g : JoinMore(m, g)
<1> DEFINE c == m.pkt
           s == m.pkt.seq
           g == With(c)
           more == Put(s, g)
<1>1. /\ ~Done(s) /\ s \notin ready
      /\ GroupOf(s).slots[c.index] = NoPkg
      /\ g.cur < K
      /\ groups' = more \/ groups' = Cleared(more, ready)
      /\ UNCHANGED <<ready, ready_nums, unit, last_seq, last_index, left>>
  BY DEF InputMore
<1>2. GroupOf(s) \in Group /\ Collecting(GroupOf(s), c.word)
  BY <1>1, StillCollecting
<1>3. g \in Group /\ Pieces(g, c.word) /\ g.stamp = now
  BY <1>1, <1>2, WithPieces
<1>4. /\ s \in DOMAIN more /\ more[s] = g
      /\ \A t \in DOMAIN more :
            t # s => t \in DOMAIN groups /\ more[t] = groups[t]
      /\ \A t \in DOMAIN groups : t \in DOMAIN more
  BY PutGroup
<1>5. now \in Nat /\ Timeout \in Nat
  BY DecoderAssumption DEF AirInv, ClockInv
<1> HIDE DEF g, more
<1>6. /\ s \in DOMAIN groups' /\ groups'[s] = g
      /\ \A t \in DOMAIN groups' :
            t # s => t \in DOMAIN groups /\ groups'[t] = groups[t]
      /\ \A t \in DOMAIN groups \ DOMAIN groups' :
            now > groups[t].stamp + Timeout
  <2>1. CASE groups' = more
    BY <1>4, <2>1
  <2>2. CASE groups' = Cleared(more, ready)
    <3>1. ~(now > more[s].stamp + Timeout)
      BY <1>3, <1>4, <1>5
    <3>2. s \in DOMAIN groups' /\ groups'[s] = g
      BY <1>4, <2>2, <3>1, ClearedKeeps
    <3>3. ASSUME NEW t \in DOMAIN groups', t # s
          PROVE  t \in DOMAIN groups /\ groups'[t] = groups[t]
      <4>1. t \in DOMAIN more /\ groups'[t] = more[t]
        BY <2>2, ClearedKeeps
      <4> QED BY <1>4, <3>3, <4>1
    <3>4. ASSUME NEW t \in DOMAIN groups \ DOMAIN groups'
          PROVE  now > groups[t].stamp + Timeout
      <4>1. t \in DOMAIN more /\ t # s
        BY <1>4, <3>2
      <4>2. now > more[t].stamp + Timeout
        BY <2>2, <4>1, ClearedKeeps
      <4> QED BY <1>4, <4>1, <4>2
    <3> QED BY <3>2, <3>3, <3>4
  <2> QED BY <1>1, <2>1, <2>2
<1>7. Of(g, s, m)
  BY <1>1, <1>3 DEF Of, Alive, Collecting
<1>8. Joined(m, g)
  BY <1>1, <1>3, <1>6, <1>7 DEF Joined
<1>9. JoinMore(m, g)
  BY <1>1, <1>8 DEF JoinMore
<1> QED BY <1>9

LEMMA LastJoins ==
    ASSUME AirInv, GroupsInv, Idle, NEW m \in coded_net, Alive(m),
           InputLast(m.pkt)
    PROVE  \E g : JoinLast(m, g)
<1> DEFINE c == m.pkt
           s == m.pkt.seq
           w == With(c)
           slots == Decoded(w.slots, w.max)
           g == [w EXCEPT !.slots = slots]
<1>1. /\ ~Done(s) /\ s \notin ready
      /\ GroupOf(s).slots[c.index] = NoPkg
      /\ w.cur >= K
      /\ groups' = Put(s, g)
      /\ ready' = ready \union {s} /\ ready_nums' = ready_nums + 1
      /\ left' = w.max
      /\ UNCHANGED <<unit, last_seq, last_index>>
  BY DEF InputLast
<1>2. GroupOf(s) \in Group /\ Collecting(GroupOf(s), c.word)
  BY <1>1, StillCollecting
<1>3. /\ w \in Group /\ Pieces(w, c.word) /\ w.stamp = now /\ w.cur <= K
      /\ c.index \in Present(w.slots)
  BY <1>1, <1>2, WithPieces
<1>4. /\ c.word \in Seq(Pkg) /\ Len(c.word) = K
      /\ \A i \in 1..K : c.word[i] \in accepted
  BY DEF AirInv, NetInv, CodedTrue, WordTrue
<1> HIDE DEF w
<1>5. /\ slots \in [1..K -> Slot]
      /\ \A i \in 1..K : /\ slots[i].pkg = c.word[i]
                         /\ slots[i].len >= c.word[i].len
                         /\ w.max >= c.word[i].len
  <2>1. w.max \in Nat /\ Present(w.slots) # {}
    BY <1>3 DEF Group
  <2>2. /\ w.slots \in [1..(K + R) -> Coded \union {NoPkg}]
        /\ \A i \in Present(w.slots) : Piece(w.slots[i], i, c.word, w.max)
    BY <1>3 DEF Pieces
  <2> QED BY <1>4, <2>1, <2>2, DecodedWhole
<1>6. w.cur = K /\ K \in Nat /\ K > 0
  <2>1. w.cur \in Nat
    BY <1>3, EncoderAssumption DEF Group
  <2> QED BY <1>1, <1>3, <2>1, EncoderAssumption
<1> HIDE DEF slots
<1>7. /\ g.slots = slots /\ g.cur = K /\ g.max = w.max /\ g.stamp = now
      /\ g \in Group
  BY <1>3, <1>5, <1>6 DEF Group
<1> HIDE DEF g
<1>8. Whole(g, c.word)
  BY <1>5, <1>7 DEF Whole
<1>9. Of(g, s, m)
  BY <1>7, <1>8 DEF Of, Alive
<1>10. Joined(m, g)
  BY <1>1, <1>7, <1>9, PutGroup DEF Joined
<1>11. g.max > 0
  <2>1. 1 \in 1..K
    BY <1>6
  <2>2. c.word[1].len > 0 /\ c.word[1].len \in Nat
    BY <1>4, <2>1, WordTyped DEF AirInv, SenderInv, AcceptedTrue
  <2>3. g.max >= c.word[1].len /\ g.max \in Nat
    BY <1>5, <1>7, <2>1 DEF Group
  <2> QED BY <2>2, <2>3
<1>12. ready' = {s} /\ ready_nums' = 1
  BY <1>1 DEF Idle
<1>13. JoinLast(m, g)
  BY <1>1, <1>7, <1>10, <1>11, <1>12 DEF JoinLast
<1> QED BY <1>13

LEMMA CodedComes ==
    ASSUME AirInv, GroupsInv, OutInv, NEW m \in coded_net, RecvCoded(m)
    PROVE  /\ Idle /\ Alive(m)
           /\ \/ UNCHANGED decVars
              \/ \E g : JoinMore(m, g)
              \/ \E g : JoinLast(m, g)
<1>1. Alive(m) /\ InputCoded(m.pkt)
  BY DEF RecvCoded
<1>2. left = 0
  BY <1>1 DEF InputCoded, InputDone, InputAgain, InputMore, InputLast
<1>3. Idle
  BY <1>2, IdleFirst
<1>4. CASE InputDone(m.pkt)
  BY <1>1, <1>3, <1>4 DEF InputDone
<1>5. CASE InputAgain(m.pkt)
  BY <1>1, <1>3, <1>5, AgainJoins
<1>6. CASE InputMore(m.pkt)
  BY <1>1, <1>3, <1>6, MoreJoins
<1>7. CASE InputLast(m.pkt)
  BY <1>1, <1>3, <1>7, LastJoins
<1> QED BY <1>1, <1>4, <1>5, <1>6, <1>7 DEF InputCoded

(***************************************************************************)
(* Output                                                                  *)
(***************************************************************************)
\* An unencoded package is handed over, and the loop ends.
HandsRaw ==
    /\ RawOut
    /\ Copied = unit
    /\ unit' = NoPkg /\ left' = 0
    /\ groups' = Cleared(groups, {})
    /\ UNCHANGED <<ready, ready_nums, last_seq, last_index>>

\* The ith package of the ready group s is.
HandsCoded(s, i) ==
    /\ s \in DOMAIN groups /\ CodedOut(groups[s], s)
    /\ i \in 1..K
    /\ last_seq = s => last_index < K
    /\ i = IF last_seq = s THEN last_index + 1 ELSE 1
    /\ Copied = groups[s].slots[i].pkg
    /\ left >= Copied.len
    /\ unit' = unit /\ last_seq' = s /\ last_index' = i

\* The loop goes on, or ends with the group.
HandsOn(s, i) ==
    /\ HandsCoded(s, i)
    /\ i < K
    /\ left' = groups[s].slots[i + 1].len
    /\ UNCHANGED <<groups, ready, ready_nums>>

HandsEnd(s, i) ==
    /\ HandsCoded(s, i)
    /\ i = K
    /\ ready' = {} /\ ready_nums' = 0 /\ left' = 0
    /\ groups' = Cleared(groups, {})

LEMMA GoesOnWithNone ==
    ASSUME NEW s, NEW i, GoOn(0, {}, s, i)
    PROVE  /\ groups' = Cleared(groups, {}) /\ left' = 0
           /\ last_seq' = s /\ last_index' = i
BY DEF GoOn

LEMMA RawHands ==
    ASSUME AirInv, OutInv, OutputRaw
    PROVE  HandsRaw
<1>1. /\ left > 0 /\ unit # NoPkg /\ unit' = NoPkg
      /\ GoOn(ready_nums, ready, last_seq, last_index)
      /\ UNCHANGED <<ready, ready_nums>>
  BY DEF OutputRaw
<1>2. RawOut
  BY <1>1 DEF OutInv, Idle, CodedOut
<1>3. GoOn(0, {}, last_seq, last_index)
  BY <1>1, <1>2 DEF RawOut
<1>4. Copied = unit
  BY <1>1 DEF Copied
<1> QED BY <1>1, <1>2, <1>3, <1>4, GoesOnWithNone DEF HandsRaw

LEMMA Lowest1 ==
    ASSUME NEW s \in Nat
    PROVE  Lowest({s}) = s
<1>1. \A t \in {s} : s <= t
  OBVIOUS
<1> QED BY <1>1 DEF Lowest

\* The word of a decoded group is its packages'.
LEMMA ReadyWord ==
    ASSUME AirInv, NEW g, NEW s, NEW m \in coded_net, Of(g, s, m), g.cur = K
    PROVE  /\ Whole(g, m.pkt.word)
           /\ \A i \in 1..K : /\ g.slots[i].pkg = m.pkt.word[i]
                              /\ g.slots[i].pkg \in accepted
                              /\ g.slots[i].pkg.len \in Nat
                              /\ g.slots[i].pkg.len > 0
                              /\ g.slots[i].len \in Nat
                              /\ g.slots[i].len >= g.slots[i].pkg.len
                              /\ g.max >= g.slots[i].pkg.len
           /\ s \in Nat \ {0}
<1>1. Whole(g, m.pkt.word)
  BY EncoderAssumption DEF Of, Collecting
<1>2. /\ m.pkt.word \in Seq(Pkg) /\ Len(m.pkt.word) = K
      /\ \A i \in 1..K : m.pkt.word[i] \in accepted
      /\ m.pkt.seq \in 1..(SeqLimit - 1) /\ m.pkt.seq = s
  BY DEF AirInv, NetInv, CodedTrue, WordTrue, Of
<1>3. \A i \in 1..K : m.pkt.word[i].len \in Nat
  BY <1>2, WordTyped
<1>4. \A p \in accepted : p.len > 0
  BY DEF AirInv, SenderInv, AcceptedTrue
<1>5. \A i \in 1..K : g.slots[i] \in Slot
  BY <1>1 DEF Whole
<1>6. \A i \in 1..K : g.slots[i].len \in Nat
  BY <1>5 DEF Slot
<1>7. s \in Nat \ {0}
  BY <1>2, EncoderAssumption
<1> QED BY <1>1, <1>2, <1>3, <1>4, <1>6, <1>7 DEF Whole

LEMMA CodedHands ==
    ASSUME AirInv, GroupsInv, OutInv, OutputCoded
    PROVE  \E s \in DOMAIN groups, i \in 1..K : HandsOn(s, i) \/ HandsEnd(s, i)
<1> DEFINE at == CurrentSeq
           i == CurrentIndex + 1
<1>1. /\ left > 0 /\ unit = NoPkg /\ i <= K /\ unit' = unit
      /\ IF i = K
         THEN /\ ready' = ready \ {at}
              /\ ready_nums' = ready_nums - 1
              /\ GoOn(ready_nums - 1, ready \ {at}, at, i)
         ELSE /\ last_seq' = at
              /\ last_index' = i
              /\ left' = groups[at].slots[i + 1].len
              /\ UNCHANGED <<groups, ready, ready_nums>>
  BY DEF OutputCoded, Ends, CountAfter
<1>2. ~Idle
  BY <1>1 DEF Idle
<1>3. ~RawOut
  <2>1. NoPkg \notin accepted
    BY DecoderAssumption DEF AirInv, SenderInv, AcceptedTrue
  <2> QED BY <1>1, <2>1 DEF RawOut
<1>4. PICK s \in DOMAIN groups : CodedOut(groups[s], s)
  BY <1>2, <1>3 DEF OutInv
<1>5. PICK m \in coded_net : Of(groups[s], s, m)
  BY <1>4 DEF CodedOut
<1>6. /\ ready = {s} /\ ready_nums = 1 /\ groups[s].cur = K
      /\ last_seq = s /\ last_index < K =>
            left >= groups[s].slots[last_index + 1].pkg.len
      /\ last_seq # s => left = groups[s].max
  BY <1>4 DEF CodedOut
<1>7. s \in Nat /\ \A k \in 1..K : groups[s].max >= groups[s].slots[k].pkg.len
  BY <1>5, <1>6, ReadyWord
<1>8. last_index \in 0..K /\ K \in Nat /\ K > 0 /\ groups[s].max \in Nat
  BY EncoderAssumption DEF OutInv, GroupsInv, GroupTrue, GroupTyped, Group
<1>9. at = s
  <2>1. CASE last_seq = s
    BY <1>6, <2>1 DEF CurrentSeq
  <2>2. CASE last_seq # s
    <3>1. groups[s].max <= left
      BY <1>6, <1>8, <2>2
    <3>2. {t \in ready : groups[t].max <= left} = {s}
      BY <1>6, <3>1
    <3>3. CurrentSeq = Lowest({s})
      BY <1>6, <2>2, <3>2 DEF CurrentSeq
    <3> QED BY <1>7, <3>3, Lowest1
  <2> QED BY <2>1, <2>2
<1>10. i = IF last_seq = s THEN last_index + 1 ELSE 1
  BY <1>6 DEF CurrentIndex
<1>11. Copied = groups[s].slots[i].pkg
  BY <1>1, <1>9 DEF Copied
<1> HIDE DEF at, i
<1>12. i \in 1..K /\ (last_seq = s => last_index < K)
  BY <1>1, <1>8, <1>10
<1>13. left >= Copied.len
  BY <1>6, <1>7, <1>10, <1>11, <1>12
<1>14. CASE i = K
  <2>1. /\ ready' = ready \ {s} /\ ready_nums' = ready_nums - 1
        /\ GoOn(ready_nums - 1, ready \ {s}, s, i)
    BY <1>1, <1>9, <1>14
  <2>2. ready \ {s} = {} /\ ready_nums - 1 = 0
    BY <1>6
  <2>3. GoOn(0, {}, s, i)
    BY <2>1, <2>2
  <2>4. /\ groups' = Cleared(groups, {}) /\ left' = 0
        /\ last_seq' = s /\ last_index' = i
    BY <2>3, GoesOnWithNone
  <2>5. HandsEnd(s, i)
    BY <1>1, <1>4, <1>10, <1>11, <1>12, <1>13, <1>14, <2>1, <2>2, <2>4
       DEF HandsEnd, HandsCoded
  <2> QED BY <1>12, <2>5
<1>15. CASE i # K
  <2>1. i < K
    BY <1>8, <1>12, <1>15
  <2>2. HandsOn(s, i)
    BY <1>1, <1>4, <1>9, <1>10, <1>11, <1>12, <1>13, <1>15, <2>1
       DEF HandsOn, HandsCoded
  <2> QED BY <1>12, <2>2
<1> QED BY <1>14, <1>15

(***************************************************************************)
(* Every step keeps what the decoder has true                              *)
(***************************************************************************)
DecInv == GroupsInv /\ OutInv /\ HandedInv

LEMMA GroupKept ==
    ASSUME NEW g, NEW s, GroupTrue(g, s), coded_net \subseteq coded_net',
           now \in Nat, now' \in Nat, now <= now', swept' <= g.stamp + Timeout
    PROVE  GroupTrue(g, s)'
<1>1. \E m \in coded_net' : Of(g, s, m)
  BY DEF GroupTrue
<1>2. g \in Group /\ g.stamp <= now
  BY DEF GroupTrue, GroupTyped
<1>3. g.stamp <= now'
  BY <1>2 DEF Group
<1> QED BY <1>1, <1>2, <1>3 DEF GroupTrue, GroupTyped

LEMMA HandedKept ==
    ASSUME HandedInv, accepted \subseteq accepted',
           UNCHANGED <<handed, again>>
    PROVE  HandedInv'
<1>1. \A h : HandedTrue(h) => HandedTrue(h)'
  BY DEF HandedTrue
<1> QED BY <1>1 DEF HandedInv

\* The sender only adds to the network.
LEMMA SenderDec ==
    ASSUME AirInv, DecInv, UNCHANGED <<decVars, now, logVars>>,
           coded_net \subseteq coded_net', accepted \subseteq accepted'
    PROVE  DecInv'
<1>1. UNCHANGED <<groups, ready, ready_nums, unit, last_seq, last_index, left,
                  now, swept, handed, again>>
  BY DEF decVars, logVars
<1>2. GroupsInv'
  <2> SUFFICES ASSUME NEW s \in DOMAIN groups PROVE GroupTrue(groups[s], s)'
    BY <1>1 DEF GroupsInv
  <2>1. GroupTrue(groups[s], s) /\ swept <= groups[s].stamp + Timeout
    BY DEF DecInv, GroupsInv, GroupTrue, GroupTyped
  <2>2. now \in Nat /\ now' \in Nat /\ now <= now'
    BY <1>1 DEF AirInv, ClockInv
  <2> DEFINE g == groups[s]
  <2>3. g' = g
    BY <1>1
  <2> HIDE DEF g
  <2>4. GroupTrue(g, s) /\ swept' <= g.stamp + Timeout
    BY <1>1, <2>1 DEF g
  <2>5. \A x : GroupTrue(x, s) /\ swept' <= x.stamp + Timeout =>
                    GroupTrue(x, s)'
    BY <2>2, GroupKept
  <2> QED BY <2>3, <2>4, <2>5 DEF g
<1>3. OutInv'
  <2>1. Idle \/ RawOut \/ \E s \in DOMAIN groups : CodedOut(groups[s], s)
    BY DEF DecInv, OutInv
  <2>2. Idle => Idle'
    BY <1>1 DEF Idle, AtEnd
  <2>3. RawOut => RawOut'
    BY <1>1 DEF RawOut, AtEnd
  <2>4. \A s : CodedOut(groups[s], s) => CodedOut(groups[s], s)'
    BY <1>1 DEF CodedOut, Alive
  <2>5. left' \in Nat /\ last_seq' \in Nat /\ last_index' \in 0..K
    BY <1>1 DEF DecInv, OutInv
  <2> QED BY <1>1, <2>1, <2>2, <2>3, <2>4, <2>5 DEF OutInv
<1>4. HandedInv'
  BY <1>1, HandedKept DEF DecInv
<1> QED BY <1>2, <1>3, <1>4 DEF DecInv

\* What a step of the receiver leaves alone, beside the decoder.
RecvFrame == UNCHANGED <<encVars, now, netVars, accepted, logVars>>

LEMMA JoinedGroups ==
    ASSUME AirInv, GroupsInv, RecvFrame, NEW m \in coded_net, NEW g,
           Joined(m, g)
    PROVE  GroupsInv'
<1>1. /\ now' = now /\ swept' = swept /\ coded_net' = coded_net
      /\ now \in Nat /\ swept \in 0..now /\ Timeout \in Nat
  BY DecoderAssumption DEF RecvFrame, netVars, logVars, AirInv, ClockInv
<1>2. /\ g \in Group /\ g.stamp = now /\ Of(g, m.pkt.seq, m)
      /\ groups'[m.pkt.seq] = g
      /\ \A t \in DOMAIN groups' :
            t # m.pkt.seq => t \in DOMAIN groups /\ groups'[t] = groups[t]
  BY DEF Joined
<1>3. GroupTrue(g, m.pkt.seq)
  BY <1>1, <1>2 DEF GroupTrue, GroupTyped
<1>4. \A x, t : GroupTrue(x, t) => GroupTrue(x, t)'
  BY <1>1 DEF GroupTrue, GroupTyped
<1> SUFFICES ASSUME NEW t \in DOMAIN groups' PROVE GroupTrue(groups[t], t)'
  BY DEF GroupsInv
<1>5. CASE t = m.pkt.seq
  <2>1. \A x : x = g => GroupTrue(x, t)'
    BY <1>3, <1>4, <1>5
  <2> QED BY <1>2, <1>5, <2>1
<1>6. CASE t # m.pkt.seq
  <2>1. GroupTrue(groups[t], t) /\ groups'[t] = groups[t]
    BY <1>2, <1>6 DEF GroupsInv
  <2>2. \A x : x = groups[t] => GroupTrue(x, t)'
    BY <1>4, <2>1
  <2> QED BY <2>1, <2>2
<1> QED BY <1>5, <1>6

LEMMA CodedDec ==
    ASSUME AirInv, DecInv, NEW m \in coded_net, RecvCoded(m)
    PROVE  DecInv'
<1>1. RecvFrame
  BY DEF RecvCoded, RecvFrame
<1>2. HandedInv'
  BY <1>1, HandedKept DEF RecvFrame, logVars, DecInv
<1>3. /\ Idle /\ Alive(m)
      /\ \/ UNCHANGED decVars
         \/ \E g : JoinMore(m, g)
         \/ \E g : JoinLast(m, g)
  BY CodedComes DEF DecInv
<1>4. CASE UNCHANGED decVars
  BY <1>1, <1>4, SenderDec DEF RecvFrame, netVars
<1>5. CASE \E g : JoinMore(m, g)
  <2>1. PICK g : JoinMore(m, g)
    BY <1>5
  <2>2. GroupsInv'
    BY <1>1, <2>1, JoinedGroups DEF JoinMore, DecInv
  <2>3. OutInv'
    BY <1>3, <2>1 DEF JoinMore, DecInv, OutInv, Idle, AtEnd
  <2> QED BY <1>2, <2>2, <2>3 DEF DecInv
<1>6. CASE \E g : JoinLast(m, g)
  <2>1. PICK g : JoinLast(m, g)
    BY <1>6
  <2>2. /\ Joined(m, g) /\ g.cur = K /\ g.max > 0
        /\ ready' = {m.pkt.seq} /\ ready_nums' = 1 /\ left' = g.max
        /\ UNCHANGED <<unit, last_seq, last_index>>
    BY <2>1 DEF JoinLast
  <2>3. GroupsInv'
    BY <1>1, <2>2, JoinedGroups DEF DecInv
  <2>4. /\ g \in Group /\ Of(g, m.pkt.seq, m)
        /\ m.pkt.seq \in DOMAIN groups' /\ groups'[m.pkt.seq] = g
    BY <2>2 DEF Joined
  <2>5. last_index \in 0..K /\ last_seq \in Nat /\ AtEnd
    BY <1>3 DEF DecInv, OutInv, Idle
  <2>6. last_seq = m.pkt.seq => ~(last_index < K)
    <3>1. m.pkt.seq \in Nat \ {0}
      BY <2>2, <2>4, ReadyWord
    <3> QED BY <2>5, <3>1, EncoderAssumption DEF AtEnd
  <2>7. coded_net' = coded_net /\ now' = now
    BY <1>1 DEF RecvFrame, netVars
  <2>8. CodedOut(g, m.pkt.seq)'
    <3>1. unit' = NoPkg
      BY <1>3, <2>2 DEF Idle
    <3>2. \E n \in coded_net' : Of(g, m.pkt.seq, n) /\ Alive(n)'
      BY <1>3, <2>4, <2>7 DEF Alive
    <3> QED BY <2>2, <2>6, <3>1, <3>2 DEF CodedOut
  <2>9. \A x : x = g => CodedOut(x, m.pkt.seq)'
    BY <2>8
  <2>10. CodedOut(groups[m.pkt.seq], m.pkt.seq)'
    BY <2>4, <2>9
  <2>11. left' \in Nat
    BY <2>2, <2>4 DEF Group
  <2>12. last_seq' \in Nat /\ last_index' \in 0..K
    BY <2>2, <2>5
  <2>13. OutInv'
    BY <2>4, <2>10, <2>11, <2>12 DEF OutInv
  <2> QED BY <1>2, <2>3, <2>13 DEF DecInv
<1> QED BY <1>3, <1>4, <1>5, <1>6

LEMMA RawDec ==
    ASSUME AirInv, DecInv, NEW m \in raw_net, RecvRaw(m)
    PROVE  DecInv' /\ RecvFrame
<1>1. /\ RecvFrame
      /\ left = 0 /\ unit' = m.pkt /\ left' = m.pkt.len
      /\ UNCHANGED <<groups, ready, ready_nums, last_seq, last_index>>
  BY DEF RecvRaw, RecvFrame, InputRaw
<1>2. HandedInv'
  BY <1>1, HandedKept DEF RecvFrame, logVars, DecInv
<1>3. GroupsInv'
  <2>1. \A x, t : GroupTrue(x, t) => GroupTrue(x, t)'
    BY <1>1 DEF GroupTrue, GroupTyped, RecvFrame, netVars, logVars
  <2>2. \A t \in DOMAIN groups : \A x : x = groups[t] => GroupTrue(x, t)'
    BY <2>1 DEF DecInv, GroupsInv
  <2>3. \A t \in DOMAIN groups' : GroupTrue(groups[t], t)'
    BY <1>1, <2>2
  <2> QED BY <2>3 DEF GroupsInv
<1>4. Idle
  BY <1>1, IdleFirst DEF DecInv
<1>5. m.pkt \in accepted /\ m.pkt \in Pkg
  BY DEF AirInv, NetInv, RawTrue, SenderInv, AcceptedTrue
<1>6. left' \in Nat
  BY <1>1, <1>5 DEF Pkg
<1>7. RawOut'
  BY <1>1, <1>4, <1>5 DEF RawOut, Idle, AtEnd, RecvFrame
<1>8. OutInv'
  BY <1>1, <1>6, <1>7 DEF OutInv, DecInv
<1> QED BY <1>1, <1>2, <1>3, <1>8 DEF DecInv

\* What a step of the loop around Output changes, beside the decoder.
HandFrame ==
    /\ handed' = handed \union {[pkg |-> Copied, bytes |-> left]}
    /\ swept' = IF left' = 0 THEN now ELSE swept
    /\ again' = IF unit = NoPkg /\ \E h \in handed : h.pkg.id = Copied.id
                THEN again \union {Copied.id} ELSE again
    /\ UNCHANGED <<encVars, now, netVars, accepted>>

\* A drained decoder remembers nothing that is old.
LEMMA ClearedGroups ==
    ASSUME AirInv, GroupsInv, groups' = Cleared(groups, {}),
           UNCHANGED <<now, coded_net>>, swept' = now
    PROVE  GroupsInv'
<1> SUFFICES ASSUME NEW t \in DOMAIN groups' PROVE GroupTrue(groups[t], t)'
  BY DEF GroupsInv
<1> DEFINE g == groups[t]
<1>1. t \in DOMAIN groups /\ groups'[t] = g /\ ~(now > g.stamp + Timeout)
  BY ClearedKeeps
<1>2. GroupTrue(g, t)
  BY <1>1 DEF GroupsInv
<1>3. now \in Nat /\ g.stamp \in Nat /\ Timeout \in Nat
  BY <1>2, DecoderAssumption DEF GroupTrue, GroupTyped, Group, AirInv, ClockInv
<1>4. now <= g.stamp + Timeout
  BY <1>1, <1>3
<1>5. \A x : GroupTrue(x, t) /\ now <= x.stamp + Timeout => GroupTrue(x, t)'
  BY DEF GroupTrue, GroupTyped
<1> HIDE DEF g
<1>6. \A x : x = g => GroupTrue(x, t)'
  BY <1>2, <1>4, <1>5
<1> QED BY <1>1, <1>6

LEMMA HandsHanded ==
    ASSUME AirInv, DecInv, HandFrame, Copied \in accepted, left >= Copied.len
    PROVE  HandedInv'
<1>1. Copied \in Pkg /\ left \in Nat
  BY DEF AirInv, SenderInv, AcceptedTrue, DecInv, OutInv
<1>2. Copied.id \in Nat
  BY <1>1 DEF Pkg
<1> DEFINE h == [pkg |-> Copied, bytes |-> left]
<1>3. HandedTrue(h)
  BY <1>1 DEF HandedTrue
<1>4. \A x : HandedTrue(x) => HandedTrue(x)'
  BY DEF HandedTrue, HandFrame
<1>5. handed' = handed \union {h}
  BY DEF HandFrame
<1> HIDE DEF h
<1>6. \A x \in handed' : HandedTrue(x)'
  BY <1>3, <1>4, <1>5 DEF DecInv, HandedInv
<1>7. again' \subseteq Nat
  BY <1>2 DEF HandFrame, DecInv, HandedInv
<1> QED BY <1>6, <1>7 DEF HandedInv

LEMMA HandsRawDec ==
    ASSUME AirInv, DecInv, HandFrame, HandsRaw
    PROVE  DecInv'
<1>1. /\ Copied \in accepted /\ left = Copied.len
      /\ unit' = NoPkg /\ left' = 0 /\ ready' = {} /\ ready_nums' = 0
      /\ last_seq' = last_seq /\ last_index' = last_index /\ AtEnd
      /\ groups' = Cleared(groups, {})
  BY DEF HandsRaw, RawOut
<1>2. left \in Nat
  BY DEF DecInv, OutInv
<1>3. HandedInv'
  BY <1>1, <1>2, HandsHanded
<1>4. GroupsInv'
  BY <1>1, ClearedGroups DEF DecInv, HandFrame, netVars
<1>5. OutInv'
  BY <1>1 DEF OutInv, Idle, AtEnd, DecInv
<1> QED BY <1>3, <1>4, <1>5 DEF DecInv

\* The package that is copied is of the ready group's word.
LEMMA CopiedTrue ==
    ASSUME AirInv, NEW s, NEW i, HandsCoded(s, i)
    PROVE  /\ Copied \in accepted
           /\ s \in Nat \ {0} /\ groups[s].cur = K
           /\ \E m \in coded_net :
                /\ Of(groups[s], s, m) /\ Alive(m)
                /\ Whole(groups[s], m.pkt.word)
                /\ Copied = m.pkt.word[i]
           /\ \A j \in 1..K :
                /\ groups[s].slots[j].len \in Nat
                /\ groups[s].slots[j].len > 0
                /\ groups[s].slots[j].len >= groups[s].slots[j].pkg.len
<1>1. PICK m \in coded_net : Of(groups[s], s, m) /\ Alive(m)
  BY DEF HandsCoded, CodedOut
<1>2. groups[s].cur = K /\ Copied = groups[s].slots[i].pkg /\ i \in 1..K
  BY DEF HandsCoded, CodedOut
<1> DEFINE g == groups[s]
<1>3. /\ Whole(g, m.pkt.word)
      /\ \A j \in 1..K : /\ g.slots[j].pkg = m.pkt.word[j]
                         /\ g.slots[j].pkg \in accepted
                         /\ g.slots[j].pkg.len \in Nat
                         /\ g.slots[j].pkg.len > 0
                         /\ g.slots[j].len \in Nat
                         /\ g.slots[j].len >= g.slots[j].pkg.len
      /\ s \in Nat \ {0}
  BY <1>1, <1>2, ReadyWord
<1> HIDE DEF g
<1>4. \A j \in 1..K : g.slots[j].len > 0
  BY <1>3
<1>5. g = groups[s]
  BY DEF g
<1> QED BY <1>1, <1>2, <1>3, <1>4, <1>5

LEMMA HandsOnDec ==
    ASSUME AirInv, DecInv, HandFrame, NEW s, NEW i, HandsOn(s, i)
    PROVE  DecInv'
<1>1. /\ HandsCoded(s, i) /\ i < K /\ i \in 1..K
      /\ left' = groups[s].slots[i + 1].len /\ left >= Copied.len
      /\ last_seq' = s /\ last_index' = i /\ unit' = unit
      /\ UNCHANGED <<groups, ready, ready_nums>>
      /\ s \in DOMAIN groups /\ CodedOut(groups[s], s)
  BY DEF HandsOn, HandsCoded
<1>2. /\ Copied \in accepted /\ s \in Nat
      /\ \A j \in 1..K :
            /\ groups[s].slots[j].len \in Nat /\ groups[s].slots[j].len > 0
            /\ groups[s].slots[j].len >= groups[s].slots[j].pkg.len
  BY <1>1, CopiedTrue
<1>3. HandedInv'
  BY <1>1, <1>2, HandsHanded
<1>4. i + 1 \in 1..K /\ i \in 0..K
  BY <1>1, EncoderAssumption
<1>5. left' \in Nat /\ left' > 0 /\ left' >= groups[s].slots[i + 1].pkg.len
  BY <1>1, <1>2, <1>4
<1>6. now' = now /\ coded_net' = coded_net /\ swept' = swept
  BY <1>5 DEF HandFrame, netVars
<1>7. GroupsInv'
  <2>1. \A x, t : GroupTrue(x, t) => GroupTrue(x, t)'
    BY <1>6 DEF GroupTrue, GroupTyped
  <2>2. \A t \in DOMAIN groups : \A x : x = groups[t] => GroupTrue(x, t)'
    BY <2>1 DEF DecInv, GroupsInv
  <2>3. \A t \in DOMAIN groups' : GroupTrue(groups[t], t)'
    BY <1>1, <2>2
  <2> QED BY <2>3 DEF GroupsInv
<1>8. CodedOut(groups[s], s)'
  <2>1. /\ unit = NoPkg /\ ready = {s} /\ ready_nums = 1
        /\ groups[s].cur = K
        /\ \E m \in coded_net : Of(groups[s], s, m) /\ Alive(m)
    BY <1>1 DEF CodedOut
  <2>2. groups'[s] = groups[s]
    BY <1>1
  <2>3. \E m \in coded_net' : Of(groups'[s], s, m) /\ Alive(m)'
    BY <1>6, <2>1, <2>2 DEF Alive
  <2>4. last_index' < K => left' >= groups'[s].slots[last_index' + 1].pkg.len
    BY <1>1, <1>5, <2>2
  <2> QED BY <1>1, <1>5, <2>1, <2>2, <2>3, <2>4 DEF CodedOut
<1>9. OutInv'
  BY <1>1, <1>2, <1>4, <1>5, <1>8 DEF OutInv
<1> QED BY <1>3, <1>7, <1>9 DEF DecInv

LEMMA HandsEndDec ==
    ASSUME AirInv, DecInv, HandFrame, NEW s, NEW i, HandsEnd(s, i)
    PROVE  DecInv'
<1>1. /\ HandsCoded(s, i) /\ i = K /\ left >= Copied.len
      /\ ready' = {} /\ ready_nums' = 0 /\ left' = 0
      /\ groups' = Cleared(groups, {})
      /\ last_seq' = s /\ last_index' = i /\ unit' = unit /\ unit = NoPkg
  BY DEF HandsEnd, HandsCoded, CodedOut
<1>2. Copied \in accepted /\ s \in Nat
  BY <1>1, CopiedTrue
<1>3. HandedInv'
  BY <1>1, <1>2, HandsHanded
<1>4. GroupsInv'
  BY <1>1, ClearedGroups DEF DecInv, HandFrame, netVars
<1>5. OutInv'
  BY <1>1, <1>2, EncoderAssumption DEF OutInv, Idle, AtEnd
<1> QED BY <1>3, <1>4, <1>5 DEF DecInv

LEMMA TickDec ==
    ASSUME AirInv, DecInv, Tick
    PROVE  DecInv'
<1>1. /\ left = 0 /\ now' = now + 1
      /\ UNCHANGED <<groups, ready, ready_nums, unit, last_seq, last_index,
                     left, coded_net, accepted, swept, handed, again>>
  BY DEF Tick, decVars, netVars, logVars
<1>2. now \in Nat /\ now' \in Nat /\ now <= now'
  BY <1>1 DEF AirInv, ClockInv
<1>3. GroupsInv'
  <2>1. \A x, t : GroupTrue(x, t) => GroupTrue(x, t)'
    <3> SUFFICES ASSUME NEW x, NEW t, GroupTrue(x, t) PROVE GroupTrue(x, t)'
      OBVIOUS
    <3>1. swept' <= x.stamp + Timeout
      BY <1>1 DEF GroupTrue, GroupTyped
    <3> QED BY <1>1, <1>2, <3>1, GroupKept
  <2>2. \A t \in DOMAIN groups : \A x : x = groups[t] => GroupTrue(x, t)'
    BY <2>1 DEF DecInv, GroupsInv
  <2>3. \A t \in DOMAIN groups' : GroupTrue(groups[t], t)'
    BY <1>1, <2>2
  <2> QED BY <2>3 DEF GroupsInv
<1>4. Idle
  BY <1>1, IdleFirst DEF DecInv
<1>5. OutInv'
  BY <1>1, <1>4 DEF DecInv, OutInv, Idle, AtEnd
<1>6. HandedInv'
  BY <1>1, HandedKept DEF DecInv
<1> QED BY <1>3, <1>5, <1>6 DEF DecInv

(***************************************************************************)
(* The inductive invariant                                                 *)
(***************************************************************************)
LinkInv == AirInv /\ DecInv

\* Hand is one of three steps.
HandsStep ==
    /\ HandFrame
    /\ \/ HandsRaw
       \/ \E s \in DOMAIN groups, i \in 1..K : HandsOn(s, i)
       \/ \E s \in DOMAIN groups, i \in 1..K : HandsEnd(s, i)

LEMMA HandSteps ==
    ASSUME LinkInv, Hand
    PROVE  HandsStep
<1>1. HandFrame
  BY DEF Hand, HandFrame
<1>2. CASE OutputRaw
  BY <1>1, <1>2, RawHands DEF LinkInv, DecInv, HandsStep
<1>3. CASE OutputCoded
  <2>1. \E s \in DOMAIN groups, i \in 1..K : HandsOn(s, i) \/ HandsEnd(s, i)
    BY <1>3, CodedHands DEF LinkInv, DecInv
  <2> QED BY <1>1, <2>1 DEF HandsStep
<1> QED BY <1>2, <1>3 DEF Hand

LEMMA InitAir == Init => LinkInv
<1> SUFFICES ASSUME Init PROVE LinkInv
  OBVIOUS
<1> USE DEF Init, EncInit, DecInit
<1>1. <<>> \in Seq(Pkg) /\ Len(<<>>) = 0
  BY EmptySeq
<1>2. IsFiniteSet({}) /\ Cardinality({}) = 0
  BY FS_EmptySet
<1>3. SenderInv
  <2>1. HeldTrue
    BY <1>1, EncoderAssumption DEF HeldTrue
  <2>2. AcceptedTrue
    BY <1>2 DEF AcceptedTrue
  <2>3. max_len \in Nat /\ seq \in 1..(SeqLimit - 1)
    OBVIOUS
  <2>4. age \in 0..FlushAfter
    <3>1. age = 0 /\ FlushAfter \in Nat
      BY EncoderAssumption
    <3> QED BY <3>1
  <2> QED BY <2>1, <2>2, <2>3, <2>4 DEF SenderInv
<1>4. NetInv /\ ClockInv /\ SeqInv /\ PlaceInv /\ WentOutOnce
  <2>1. now = 0 /\ swept = 0 /\ cut = FALSE
    OBVIOUS
  <2>2. coded_net = {} /\ raw_net = {} /\ accepted = {}
    OBVIOUS
  <2>3. ClockInv
    <3>1. now \in Nat /\ swept \in 0..now
      BY <2>1
    <3>2. cut \in BOOLEAN
      BY <2>1
    <3> QED BY <3>1, <3>2 DEF ClockInv
  <2> QED BY <2>2, <2>3 DEF NetInv, SeqInv, PlaceInv, WentOutOnce
<1>5. GroupsInv
  <2>1. DOMAIN groups = {}
    BY <1>1
  <2> QED BY <2>1 DEF GroupsInv
<1>6. OutInv
  BY EncoderAssumption DEF OutInv, Idle, AtEnd
<1>7. HandedInv
  BY DEF HandedInv
<1> QED BY <1>3, <1>4, <1>5, <1>6, <1>7 DEF LinkInv, AirInv, DecInv

LEMMA HandOnward ==
    ASSUME AirInv, HandFrame
    PROVE  Onward
<1>1. now \in Nat /\ swept \in 0..now
  BY DEF AirInv, ClockInv
<1>2. /\ now' = now
      /\ swept' = now \/ swept' = swept
      /\ UNCHANGED <<encVars, netVars, accepted>>
  BY DEF HandFrame
<1>3. swept' \in 0..now' /\ swept <= swept' /\ now <= now' /\ now' \in Nat
  BY <1>1, <1>2
<1> QED BY <1>2, <1>3 DEF Onward

LEMMA StepInv ==
    ASSUME LinkInv, [Next]_vars
    PROVE  LinkInv'
<1> USE DEF LinkInv
<1>0. now \in Nat /\ swept \in 0..now
  BY DEF AirInv, ClockInv
<1>1. ASSUME NEW len \in PkgLens, NEW n \in 0..(K + R), KcpOutput(len, n)
      PROVE  LinkInv'
  <2>1. OutputStep(len)
    BY <1>1, OutputAirs DEF AirInv
  <2>2. AirInv'
    BY <2>1, OutputAir
  <2>3. DecInv'
    BY <2>1, SenderDec DEF OutputStep
  <2> QED BY <2>2, <2>3
<1>2. ASSUME NEW elapsed \in Ticks, NEW n \in 0..K, Timer(elapsed, n)
      PROVE  LinkInv'
  <2>1. TimerStep
    BY <1>2, TimerAirs DEF AirInv
  <2>2. AirInv'
    BY <2>1, TimerAir
  <2>3. DecInv'
    BY <2>1, SenderDec DEF TimerStep
  <2> QED BY <2>2, <2>3
<1>3. ASSUME NEW m \in coded_net, RecvCoded(m)
      PROVE  LinkInv'
  <2>1. Onward
    BY <1>0, <1>3 DEF RecvCoded, Onward, logVars
  <2> QED BY <1>3, <2>1, ReceiverAir, CodedDec
<1>4. ASSUME NEW m \in raw_net, RecvRaw(m)
      PROVE  LinkInv'
  <2>1. Onward
    BY <1>0, <1>4 DEF RecvRaw, Onward, logVars
  <2> QED BY <1>4, <2>1, ReceiverAir, RawDec
<1>5. ASSUME Hand
      PROVE  LinkInv'
  <2>1. HandsStep
    BY <1>5, HandSteps
  <2>2. AirInv'
    BY <2>1, HandOnward, ReceiverAir DEF HandsStep
  <2>3. DecInv'
    BY <2>1, HandsRawDec, HandsOnDec, HandsEndDec DEF HandsStep
  <2> QED BY <2>2, <2>3
<1>6. ASSUME Tick
      PROVE  LinkInv'
  <2>1. Onward
    <3>1. /\ now' = now + 1 /\ swept' = swept
          /\ UNCHANGED <<encVars, netVars, accepted>>
      BY <1>6 DEF Tick, logVars
    <3> QED BY <1>0, <3>1 DEF Onward
  <2> QED BY <1>6, <2>1, ReceiverAir, TickDec
<1>7. ASSUME UNCHANGED vars
      PROVE  LinkInv'
  <2>1. /\ UNCHANGED <<encVars, decVars, now, netVars, accepted, logVars>>
        /\ swept' = swept /\ coded_net' = coded_net
    BY <1>7 DEF vars, logVars, netVars
  <2>2. Onward
    BY <1>0, <2>1 DEF Onward
  <2>3. DecInv'
    BY <2>1, SenderDec
  <2> QED BY <2>2, <2>3, ReceiverAir
<1> QED BY <1>1, <1>2, <1>3, <1>4, <1>5, <1>6, <1>7 DEF Next

THEOREM LinkInvariant == Spec => []LinkInv
<1> QED BY InitAir, StepInv, PTL DEF Spec

-------------------------------------------------------------------------------
(***************************************************************************)
(* Theorems                                                                *)
(***************************************************************************)
\* Every variable of the FEC layer keeps its type, whatever goes over it.
THEOREM FecTypes == Spec => []FecTypeOK
<1>1. LinkInv => FecTypeOK
  <2> SUFFICES ASSUME LinkInv PROVE FecTypeOK
    OBVIOUS
  <2>1. /\ held \in Seq(Pkg) /\ Len(held) < K /\ max_len \in Nat
        /\ seq \in 1..(SeqLimit - 1) /\ age \in 0..FlushAfter
        /\ accepted \subseteq Pkg
    BY DEF LinkInv, AirInv, SenderInv, HeldTrue, AcceptedTrue
  <2>2. now \in Nat /\ swept \in 0..now /\ cut \in BOOLEAN
    BY DEF LinkInv, AirInv, ClockInv
  <2>3. coded_net \subseteq Air(Coded) /\ raw_net \subseteq Air(Pkg)
    BY DEF LinkInv, AirInv, NetInv, CodedTrue, RawTrue, Air
  <2>4. \A s \in DOMAIN groups :
            /\ groups[s].cur \in 0..(K + R)
            /\ groups[s].max \in Nat /\ groups[s].stamp \in 0..now
            /\ \/ groups[s].slots \in [1..(K + R) -> Coded \union {NoPkg}]
               \/ groups[s].slots \in [1..K -> Slot]
    <3> SUFFICES ASSUME NEW s \in DOMAIN groups
        PROVE  /\ groups[s].cur \in 0..(K + R)
               /\ groups[s].max \in Nat /\ groups[s].stamp \in 0..now
               /\ \/ groups[s].slots \in [1..(K + R) -> Coded \union {NoPkg}]
                  \/ groups[s].slots \in [1..K -> Slot]
      OBVIOUS
    <3>1. groups[s] \in Group /\ groups[s].stamp <= now
      BY DEF LinkInv, DecInv, GroupsInv, GroupTrue, GroupTyped
    <3>2. /\ groups[s].cur \in 0..(K + R) /\ groups[s].max \in Nat
          /\ groups[s].stamp \in Nat
          /\ \/ groups[s].slots \in [1..(K + R) -> Coded \union {NoPkg}]
             \/ groups[s].slots \in [1..K -> Slot]
      BY <3>1 DEF Group
    <3> QED BY <2>2, <3>1, <3>2
  <2>5. /\ left \in Nat /\ last_seq \in Nat /\ last_index \in 0..K
        /\ Idle \/ RawOut \/ \E s \in DOMAIN groups : CodedOut(groups[s], s)
    BY DEF LinkInv, DecInv, OutInv
  <2>6. /\ ready \subseteq DOMAIN groups /\ ready_nums \in Nat
        /\ unit \in Pkg \union {NoPkg}
    BY <2>1, <2>5 DEF Idle, RawOut, CodedOut
  <2>7. handed \subseteq [pkg : Pkg, bytes : Nat] /\ again \subseteq Nat
    BY DEF LinkInv, DecInv, HandedInv, HandedTrue
  <2> QED BY <2>1, <2>2, <2>3, <2>4, <2>5, <2>6, <2>7 DEF FecTypeOK
<1> QED BY <1>1, LinkInvariant, PTL

\* ready_seqs_nums_ counts the ready groups, and the loop around Output leaves
\* none behind (fec_decode.cpp:60-61, 108, 145-177).
THEOREM DrainedWhenLeft == Spec => []Drained
<1>1. LinkInv => Drained
  <2> SUFFICES ASSUME LinkInv PROVE Drained
    OBVIOUS
  <2>1. Idle \/ RawOut \/ \E s \in DOMAIN groups : CodedOut(groups[s], s)
    BY DEF LinkInv, DecInv, OutInv
  <2>2. ready_nums = Cardinality(ready)
    BY <2>1, FS_EmptySet, FS_Singleton DEF Idle, RawOut, CodedOut
  <2>3. left = 0 => Idle
    BY IdleFirst DEF LinkInv, DecInv
  <2> QED BY <2>2, <2>3 DEF Drained, Idle
<1> QED BY <1>1, LinkInvariant, PTL

\* A datagram leaves the encoder once, in a code word or unencoded, and only a
\* failed send drops it (fec_encode.cpp:48-52, 115-118, 139-147).
THEOREM OutOnce == Spec => []WentOutOnce
<1>1. LinkInv => WentOutOnce
  BY DEF LinkInv, AirInv
<1> QED BY <1>1, LinkInvariant, PTL

\* What the decoder remembers of a seq is of the word that uses it now,
\* however often seqs are used again (fec_decode.cpp:57-61, 179-197).
THEOREM NeverMixed == Spec => []NotMixed
<1>1. LinkInv => NotMixed
  <2> SUFFICES ASSUME LinkInv, NEW m \in coded_net, Alive(m),
                      m.pkt.seq \in DOMAIN groups,
                      NEW i \in Present(groups[m.pkt.seq].slots)
      PROVE  IF groups[m.pkt.seq].cur < K
             THEN groups[m.pkt.seq].slots[i].word = m.pkt.word
             ELSE groups[m.pkt.seq].slots[i].pkg = m.pkt.word[i]
    BY DEF NotMixed
  <2> DEFINE g == groups[m.pkt.seq]
  <2>1. Of(g, m.pkt.seq, m)
    BY SameWord DEF LinkInv, DecInv
  <2>2. i \in Present(g.slots)
    OBVIOUS
  <2> HIDE DEF g
  <2>3. CASE Collecting(g, m.pkt.word)
    <3>1. g.cur < K /\ g.slots[i].word = m.pkt.word
      BY <2>2, <2>3 DEF Collecting, Pieces, Piece
    <3> QED BY <3>1 DEF g
  <2>4. CASE Whole(g, m.pkt.word)
    <3>1. ~(g.cur < K)
      BY <2>4, EncoderAssumption DEF Whole
    <3>2. i \in 1..K
      BY <2>2, <2>4 DEF Whole, Present
    <3>3. g.slots[i].pkg = m.pkt.word[i]
      BY <2>4, <3>2 DEF Whole
    <3> QED BY <3>1, <3>3 DEF g
  <2> QED BY <2>1, <2>3, <2>4 DEF Of
<1> QED BY <1>1, LinkInvariant, PTL

\* ikcp_input gets what the other end's ikcp_output gave, whole, recovered or
\* not: FecLink implements Datagram (fec_decode.cpp:82-110, 129-177).
THEOREM IsDatagram == Spec => DatagramSpec
<1>1. Init => Service!Init
  BY DEF Init, Service!Init
<1>2. LinkInv /\ [Next]_vars => [Service!Next]_<<accepted, handed>>
  <2> SUFFICES ASSUME LinkInv, [Next]_vars
      PROVE  [Service!Next]_<<accepted, handed>>
    OBVIOUS
  <2>1. ASSUME NEW len \in PkgLens, NEW n \in 0..(K + R), KcpOutput(len, n)
        PROVE  Service!Next
    <3>1. /\ accepted' = accepted \union {NewPkg(len)} /\ handed' = handed
      BY <2>1, OutputAirs DEF LinkInv, AirInv, OutputStep, logVars
    <3>2. \A q \in accepted : q.id # NewPkg(len).id
      BY NewPkgTyped DEF LinkInv, AirInv, SenderInv
    <3>3. Service!Accept(NewPkg(len))
      BY <3>1, <3>2 DEF Service!Accept
    <3>4. NewPkg(len) \in accepted'
      BY <3>1
    <3> QED BY <3>3, <3>4 DEF Service!Next
  <2>2. ASSUME NEW elapsed \in Ticks, NEW n \in 0..K, Timer(elapsed, n)
        PROVE  UNCHANGED <<accepted, handed>>
    BY <2>2 DEF Timer, logVars
  <2>3. ASSUME NEW m \in coded_net, RecvCoded(m)
        PROVE  UNCHANGED <<accepted, handed>>
    BY <2>3 DEF RecvCoded, logVars
  <2>4. ASSUME NEW m \in raw_net, RecvRaw(m)
        PROVE  UNCHANGED <<accepted, handed>>
    BY <2>4 DEF RecvRaw, logVars
  <2>5. ASSUME Hand
        PROVE  Service!Next
    <3> DEFINE h == [pkg |-> Copied, bytes |-> left]
    <3>1. HandsStep
      BY <2>5, HandSteps
    <3>2. handed' = handed \union {h} /\ accepted' = accepted
      BY <3>1 DEF HandsStep, HandFrame
    <3>3. Copied \in accepted /\ left >= Copied.len
      <4>1. CASE HandsRaw
        <5>1. Copied \in accepted /\ left = Copied.len /\ left \in Nat
          BY <4>1 DEF HandsRaw, RawOut, LinkInv, DecInv, OutInv
        <5> QED BY <5>1
      <4>2. ASSUME NEW s, NEW i, HandsCoded(s, i)
            PROVE  Copied \in accepted /\ left >= Copied.len
        <5>1. left >= Copied.len
          BY <4>2 DEF HandsCoded
        <5> QED BY <4>2, <5>1, CopiedTrue DEF LinkInv
      <4> QED BY <3>1, <4>1, <4>2 DEF HandsStep, HandsOn, HandsEnd
    <3>4. h.pkg = Copied /\ h.bytes = left
      OBVIOUS
    <3> HIDE DEF h
    <3>5. Service!Hand(h)
      BY <3>2, <3>3, <3>4 DEF Service!Hand
    <3>6. h \in handed'
      BY <3>2
    <3> QED BY <3>5, <3>6 DEF Service!Next
  <2>6. ASSUME Tick
        PROVE  UNCHANGED <<accepted, handed>>
    BY <2>6 DEF Tick, logVars
  <2>7. ASSUME UNCHANGED vars
        PROVE  UNCHANGED <<accepted, handed>>
    BY <2>7 DEF vars, logVars
  <2> QED BY <2>1, <2>2, <2>3, <2>4, <2>5, <2>6, <2>7 DEF Next
<1> QED BY <1>1, <1>2, LinkInvariant, PTL DEF Spec, DatagramSpec, Service!Spec

-------------------------------------------------------------------------------
(***************************************************************************)
(* Any K packages are enough                                               *)
(***************************************************************************)
\* The decoder and what was handed over stay as they are.
LEMMA DoneFrame ==
    ASSUME DoneInv, UNCHANGED <<groups, ready, last_seq, last_index, handed>>
    PROVE  DoneInv'
BY DEF DoneInv, Given, Came

\* A package takes its place: none of its group came out yet, and all of the
\* groups that are done did.
LEMMA JoinDone ==
    ASSUME AirInv, OutInv, Idle, DoneInv, NEW m \in coded_net, NEW g,
           JoinMore(m, g) \/ JoinLast(m, g), handed' = handed
    PROVE  DoneInv'
<1> DEFINE s == m.pkt.seq
<1>1. /\ groups'[s] = g
      /\ \A t \in DOMAIN groups' :
            t # s => t \in DOMAIN groups /\ groups'[t] = groups[t]
      /\ last_seq' = last_seq /\ last_index' = last_index
      /\ (g.cur < K /\ ready' = ready) \/ (g.cur = K /\ ready' = {s})
      /\ Of(g, s, m)
  BY DEF JoinMore, JoinLast, Joined
<1>2. ready = {} /\ AtEnd /\ last_index \in 0..K
  BY DEF Idle, OutInv
<1>3. s # 0 /\ K \in Nat
  BY EncoderAssumption DEF AirInv, NetInv, CodedTrue
<1>4. \A p : Came(p)' <=> Came(p)
  BY DEF Came
<1> HIDE DEF s
<1> SUFFICES ASSUME NEW t \in DOMAIN groups', groups'[t].cur = K,
                    NEW i \in 1..K, Given(t, i)'
    PROVE  Came(groups'[t].slots[i].pkg)
  BY <1>4 DEF DoneInv
<1>5. CASE t = s
  <2>1. ready' = {s}
    <3>1. ~(g.cur < K)
      BY <1>1, <1>3, <1>5
    <3> QED BY <1>1, <3>1
  <2>2. last_seq = s /\ last_index < K
    BY <1>1, <1>5, <2>1 DEF Given
  <2> QED BY <1>2, <1>3, <2>2 DEF AtEnd
<1>6. CASE t # s
  <2>1. t \in DOMAIN groups /\ groups'[t] = groups[t]
    BY <1>1, <1>6
  <2>2. Given(t, i)
    BY <1>2 DEF Given
  <2> QED BY <2>1, <2>2 DEF DoneInv
<1> QED BY <1>5, <1>6

\* What the ready group gave so far came out, with this package.
LEMMA CameSoFar ==
    ASSUME AirInv, OutInv, DoneInv, HandFrame, NEW s, NEW i, HandsCoded(s, i),
           NEW j \in 1..i
    PROVE  \E h \in handed' : h.pkg = groups[s].slots[j].pkg
<1>1. /\ s \in DOMAIN groups /\ groups[s].cur = K /\ ready = {s}
      /\ i \in 1..K
      /\ last_seq = s => last_index < K
      /\ i = IF last_seq = s THEN last_index + 1 ELSE 1
      /\ Copied = groups[s].slots[i].pkg
  BY DEF HandsCoded, CodedOut
<1>2. last_index \in Nat /\ K \in Nat
  BY EncoderAssumption DEF OutInv
<1> DEFINE p == groups[s].slots[j].pkg
<1>3. Came(p) \/ p = Copied
  <2>1. CASE j = i
    BY <1>1, <2>1
  <2>2. CASE j # i
    <3>1. last_seq = s /\ j <= last_index /\ last_index < K /\ j \in 1..K
      BY <1>1, <1>2, <2>2
    <3>2. Given(s, j)
      BY <3>1 DEF Given
    <3> QED BY <1>1, <3>1, <3>2 DEF DoneInv
  <2> QED BY <2>1, <2>2
<1>4. \A x : Came(x) \/ x = Copied => \E h \in handed' : h.pkg = x
  <2> DEFINE new == [pkg |-> Copied, bytes |-> left]
  <2>1. handed' = handed \union {new} /\ new.pkg = Copied
    BY DEF HandFrame
  <2> HIDE DEF new
  <2> QED BY <2>1 DEF Came
<1> QED BY <1>3, <1>4

LEMMA HandsDone ==
    ASSUME LinkInv, DoneInv, HandsStep
    PROVE  DoneInv'
<1> USE DEF LinkInv, DecInv
<1>1. HandFrame
  BY DEF HandsStep
<1>2. \A p : Came(p) => Came(p)'
  BY <1>1 DEF Came, HandFrame
<1>3. CASE HandsRaw
  <2>1. /\ groups' = Cleared(groups, {}) /\ ready' = ready /\ ready = {}
    BY <1>3 DEF HandsRaw, RawOut
  <2> SUFFICES ASSUME NEW t \in DOMAIN groups', groups'[t].cur = K,
                      NEW i \in 1..K
      PROVE  \E h \in handed' : h.pkg = groups'[t].slots[i].pkg
    BY DEF DoneInv, Came
  <2>2. t \in DOMAIN groups /\ groups'[t] = groups[t] /\ Given(t, i)
    BY <2>1, ClearedKeeps DEF Given
  <2>3. Came(groups[t].slots[i].pkg)
    BY <2>2 DEF DoneInv
  <2> QED BY <1>1, <2>2, <2>3 DEF Came, HandFrame
<1>4. ASSUME NEW s \in DOMAIN groups, NEW i \in 1..K,
             HandsOn(s, i) \/ HandsEnd(s, i)
      PROVE  DoneInv'
  <2>1. /\ HandsCoded(s, i) /\ ready = {s}
        /\ last_seq' = s /\ last_index' = i
        /\ \/ groups' = groups /\ ready' = ready /\ i < K
           \/ groups' = Cleared(groups, {}) /\ ready' = {} /\ i = K
    BY <1>4 DEF HandsOn, HandsEnd, HandsCoded, CodedOut
  <2>2. \A j \in 1..i : \E h \in handed' : h.pkg = groups[s].slots[j].pkg
    BY <1>1, <2>1, CameSoFar
  <2> SUFFICES ASSUME NEW t \in DOMAIN groups', groups'[t].cur = K,
                      NEW j \in 1..K, Given(t, j)'
      PROVE  \E h \in handed' : h.pkg = groups'[t].slots[j].pkg
    BY DEF DoneInv, Came
  <2>3. t \in DOMAIN groups /\ groups'[t] = groups[t]
    BY <2>1, ClearedKeeps
  <2>4. CASE t = s
    <3>1. j \in 1..i
      BY <2>1, <2>4, EncoderAssumption DEF Given
    <3> QED BY <2>2, <2>3, <2>4, <3>1
  <2>5. CASE t # s
    <3>1. Given(t, j)
      BY <2>1, <2>5 DEF Given
    <3>2. Came(groups[t].slots[j].pkg)
      BY <2>3, <3>1 DEF DoneInv
    <3> QED BY <1>1, <2>3, <3>2 DEF Came, HandFrame
  <2> QED BY <2>4, <2>5
<1> QED BY <1>3, <1>4 DEF HandsStep

LEMMA StepDone ==
    ASSUME LinkInv, DoneInv, [Next]_vars
    PROVE  DoneInv'
<1> USE DEF LinkInv, DecInv
<1>1. ASSUME NEW m \in coded_net, RecvCoded(m)
      PROVE  DoneInv'
  <2>1. handed' = handed
    BY <1>1 DEF RecvCoded, logVars
  <2>2. CASE UNCHANGED decVars
    BY <2>1, <2>2, DoneFrame DEF decVars
  <2>3. CASE \E g : JoinMore(m, g) \/ JoinLast(m, g)
    BY <1>1, <2>1, <2>3, CodedComes, JoinDone
  <2> QED BY <1>1, <2>2, <2>3, CodedComes
<1>2. CASE Hand
  BY <1>2, HandSteps, HandsDone
<1>3. ASSUME UNCHANGED <<groups, ready, last_seq, last_index, handed>>
      PROVE  DoneInv'
  BY <1>3, DoneFrame
<1>4. ASSUME NEW len \in PkgLens, NEW n \in 0..(K + R), KcpOutput(len, n)
      PROVE  DoneInv'
  BY <1>3, <1>4 DEF KcpOutput, decVars, logVars
<1>5. ASSUME NEW elapsed \in Ticks, NEW n \in 0..K, Timer(elapsed, n)
      PROVE  DoneInv'
  BY <1>3, <1>5 DEF Timer, decVars, logVars
<1>6. ASSUME NEW m \in raw_net, RecvRaw(m)
      PROVE  DoneInv'
  BY <1>3, <1>6 DEF RecvRaw, InputRaw, logVars
<1>7. CASE Tick
  BY <1>3, <1>7 DEF Tick, decVars, logVars
<1>8. CASE UNCHANGED vars
  BY <1>3, <1>8 DEF vars, decVars, logVars
<1> QED BY <1>1, <1>2, <1>4, <1>5, <1>6, <1>7, <1>8 DEF Next

LEMMA InitDone == Init => DoneInv
<1> SUFFICES ASSUME Init PROVE DoneInv
  OBVIOUS
<1>1. groups = <<>>
  BY DEF Init, DecInit
<1>2. DOMAIN groups = {}
  BY <1>1
<1> QED BY <1>2 DEF DoneInv

\* Any K packages of a word that is still on its way are enough: when the loop
\* is left, all its datagrams were handed over (fec_decode.cpp:82-110, 129-177).
THEOREM AnyKAreEnough == Spec => []AnyKSuffice
<1>1. LinkInv /\ DoneInv => AnyKSuffice
  <2> SUFFICES ASSUME LinkInv, DoneInv, left = 0,
                      NEW m \in coded_net, Alive(m),
                      m.pkt.seq \in DOMAIN groups
      PROVE  LET s == m.pkt.seq
             IN  \/ /\ groups[s].cur < K
                    /\ Cardinality(Present(groups[s].slots)) = groups[s].cur
                 \/ \A i \in 1..K : \E h \in handed : h.pkg = m.pkt.word[i]
    BY DEF AnyKSuffice
  <2> DEFINE s == m.pkt.seq
             g == groups[s]
  <2>1. Of(g, s, m)
    BY SameWord DEF LinkInv, DecInv
  <2>2. ready = {}
    BY IdleFirst DEF LinkInv, DecInv, Idle
  <2>3. ASSUME Whole(g, m.pkt.word)
        PROVE  \A i \in 1..K : \E h \in handed : h.pkg = m.pkt.word[i]
    <3> SUFFICES ASSUME NEW i \in 1..K
        PROVE  \E h \in handed : h.pkg = m.pkt.word[i]
      OBVIOUS
    <3>1. g.cur = K /\ g.slots[i].pkg = m.pkt.word[i]
      BY <2>3 DEF Whole
    <3>2. Given(s, i)
      BY <2>2 DEF Given
    <3>3. Came(g.slots[i].pkg)
      BY <3>1, <3>2 DEF DoneInv
    <3> QED BY <3>1, <3>3 DEF Came
  <2>4. ASSUME Collecting(g, m.pkt.word)
        PROVE  g.cur < K /\ Cardinality(Present(g.slots)) = g.cur
    BY <2>4 DEF Collecting, Pieces
  <2> QED BY <2>1, <2>3, <2>4 DEF Of
<1> QED BY <1>1, LinkInvariant, InitDone, StepDone, PTL DEF Spec

-------------------------------------------------------------------------------
(***************************************************************************)
(* Once, if the network forgets a package before the decoder does          *)
(***************************************************************************)
HistInv == StampInv /\ LastInv /\ OnceInv

\* What goes from the decoder is dead in the network.
LEMMA GoneIsDead ==
    ASSUME LinkInv, StampInv, Lifetime <= Timeout, NEW m \in coded_net,
           m.pkt.seq \in DOMAIN groups,
           now > groups[m.pkt.seq].stamp + Timeout
    PROVE  ~Alive(m)
<1>1. m.born <= groups[m.pkt.seq].stamp
  BY DEF StampInv, Stamped
<1>2. m.born \in Nat /\ now \in Nat
  BY DEF LinkInv, AirInv, NetInv, ClockInv, CodedTrue
<1>3. groups[m.pkt.seq].stamp \in Nat
  BY DEF LinkInv, DecInv, GroupsInv, GroupTrue, GroupTyped, Group
<1> QED BY <1>1, <1>2, <1>3, LinkAssumption, DecoderAssumption DEF Alive

\* A word gets a seq of which the decoder remembers nothing.
LEMMA SeqForgotten ==
    ASSUME LinkInv, LastInv, Paced
    PROVE  seq \notin DOMAIN groups /\ last_seq # seq
<1>1. ASSUME seq \in DOMAIN groups
      PROVE  FALSE
  <2> DEFINE g == groups[seq]
  <2>1. GroupTyped(g) /\ \E m \in coded_net : Of(g, seq, m)
    BY <1>1 DEF LinkInv, DecInv, GroupsInv, GroupTrue
  <2>2. PICK m \in coded_net : Of(g, seq, m)
    BY <2>1
  <2>3. m.born + Lifetime + Timeout < swept
    BY <2>2 DEF Of, Paced
  <2>4. g.stamp <= m.born + Lifetime /\ swept <= g.stamp + Timeout
    BY <2>1, <2>2 DEF Of, GroupTyped
  <2>5. g.stamp \in Nat /\ m.born \in Nat /\ swept \in Nat
    BY <2>1 DEF GroupTyped, Group, LinkInv, AirInv, NetInv, ClockInv, CodedTrue
  <2> HIDE DEF g
  <2> QED BY <2>3, <2>4, <2>5, LinkAssumption, DecoderAssumption
<1>2. last_seq # seq
  <2>1. seq # 0
    BY DEF LinkInv, AirInv, SenderInv
  <2> QED BY <2>1 DEF LastInv, Paced
<1> QED BY <1>1, <1>2

\* What is held, and what is new, was not handed over.
LEMMA NotYetCame ==
    ASSUME LinkInv, OnceInv, NEW len \in PkgLens, NEW q,
           q = NewPkg(len) \/ In(q, held)
    PROVE  ~Came(q)
<1> SUFFICES ASSUME NEW h \in handed, h.pkg = q PROVE FALSE
  BY DEF Came
<1>1. q \in accepted
  BY DEF LinkInv, DecInv, HandedInv, HandedTrue
<1>2. In(q, held)
  BY <1>1, NewPkgTyped DEF LinkInv, AirInv, SenderInv
<1>3. Place(q)
  BY <1>1, Places DEF LinkInv, AirInv
<1>4. Aimed(h)
  BY DEF OnceInv
<1> QED BY <1>2, <1>3, <1>4 DEF Place, Aimed, Words

LEMMA OutputHist ==
    ASSUME LinkInv, HistInv, NEW len \in PkgLens, OutputStep(len)
    PROVE  HistInv'
<1>1. /\ coded_net \subseteq coded_net'
      /\ \A m \in coded_net' : m \in coded_net \/ (Completes /\ New(m, len))
      /\ UNCHANGED <<groups, ready, unit, last_seq, last_index>>
      /\ UNCHANGED <<now, raw_net, handed, again>>
      /\ Completes => Paced
  BY DEF OutputStep, decVars, logVars
<1>2. ASSUME NEW m, New(m, len), Completes
      PROVE  m.pkt.seq = seq /\ seq \notin DOMAIN groups /\ last_seq # seq
  BY <1>1, <1>2, SeqForgotten DEF New, HistInv
<1>3. StampInv'
  <2>1. \A m : Stamped(m)' <=> Stamped(m)
    BY <1>1 DEF Stamped
  <2>2. \A m : New(m, len) /\ Completes => Stamped(m)
    BY <1>2 DEF Stamped
  <2> QED BY <1>1, <2>1, <2>2 DEF HistInv, StampInv
<1>4. LastInv'
  <2>1. \/ last_seq = 0
        \/ last_seq \in DOMAIN groups /\ groups[last_seq].cur = K
        \/ \A m \in coded_net' : m.pkt.seq = last_seq => ~Alive(m)
    BY <1>1, <1>2 DEF HistInv, LastInv
  <2>2. \A m : Alive(m)' <=> Alive(m)
    BY <1>1 DEF Alive
  <2> QED BY <1>1, <2>1, <2>2 DEF HistInv, LastInv
<1>5. \A m \in coded_net' : Remembered(m)'
  <2>1. \A m : Remembered(m)' <=> Remembered(m)
    BY <1>1 DEF Remembered, Alive, Came
  <2>2. ASSUME NEW m, New(m, len), Completes
        PROVE  Remembered(m)
    <3> SUFFICES ASSUME NEW i \in 1..K PROVE ~Came(m.pkt.word[i])
      BY DEF Remembered
    <3>1. m.pkt.word = Append(held, NewPkg(len))
      BY <2>2 DEF New
    <3>2. i \in DOMAIN m.pkt.word
      <4>1. /\ Append(held, NewPkg(len)) \in Seq(Pkg)
            /\ Len(Append(held, NewPkg(len))) = K
        BY <2>2, AppendTrue DEF LinkInv, AirInv, Completes
      <4> QED BY <3>1, <4>1, LenProperties
    <3>3. In(m.pkt.word[i], Append(held, NewPkg(len)))
      BY <3>1, <3>2 DEF In
    <3> QED BY <3>3, InAppend, NotYetCame DEF LinkInv, HistInv
  <2> QED BY <1>1, <2>1, <2>2 DEF HistInv, OnceInv
<1>6. \A h \in handed' : Aimed(h)'
  BY <1>1 DEF HistInv, OnceInv, Aimed
<1>7. OnceInv'
  BY <1>1, <1>5, <1>6 DEF HistInv, OnceInv
<1> QED BY <1>3, <1>4, <1>7 DEF HistInv

\* Steps that change nothing of this.
LEMMA FrameHist ==
    ASSUME HistInv, UNCHANGED <<coded_net, groups, ready, last_seq, last_index>>,
           UNCHANGED <<now, handed, again>>,
           raw_net \subseteq raw_net',
           unit' = unit \/ unit' = NoPkg \/ \E m \in raw_net' : m.pkt = unit'
    PROVE  HistInv'
<1>1. StampInv'
  BY DEF HistInv, StampInv, Stamped
<1>2. LastInv'
  BY DEF HistInv, LastInv, Alive
<1>3. \A m \in coded_net' : Remembered(m)'
  BY DEF HistInv, OnceInv, Remembered, Alive, Came
<1>4. \A h \in handed' : Aimed(h)'
  BY DEF HistInv, OnceInv, Aimed
<1>5. unit' = NoPkg \/ \E m \in raw_net' : m.pkt = unit'
  BY DEF HistInv, OnceInv
<1>6. OnceInv'
  BY <1>3, <1>4, <1>5 DEF HistInv, OnceInv
<1> QED BY <1>1, <1>2, <1>6 DEF HistInv

LEMMA TickHist ==
    ASSUME LinkInv, HistInv, Tick
    PROVE  HistInv'
<1>1. /\ now' = now + 1 /\ now \in Nat
      /\ UNCHANGED <<coded_net, raw_net, groups, ready, last_seq, last_index>>
      /\ UNCHANGED <<unit, handed, again>>
  BY DEF Tick, decVars, netVars, logVars, LinkInv, AirInv, ClockInv
<1>2. \A m \in coded_net : Alive(m)' => Alive(m)
  <2> SUFFICES ASSUME NEW m \in coded_net, Alive(m)' PROVE Alive(m)
    OBVIOUS
  <2>1. m.born \in Nat
    BY DEF LinkInv, AirInv, NetInv, CodedTrue
  <2> QED BY <1>1, <2>1, LinkAssumption DEF Alive
<1>3. StampInv'
  BY <1>1 DEF HistInv, StampInv, Stamped
<1>4. LastInv'
  BY <1>1, <1>2 DEF HistInv, LastInv
<1>5. \A m \in coded_net' : Remembered(m)'
  BY <1>1, <1>2 DEF HistInv, OnceInv, Remembered, Came
<1>6. OnceInv'
  BY <1>1, <1>5 DEF HistInv, OnceInv, Aimed
<1> QED BY <1>3, <1>4, <1>6 DEF HistInv

\* The last seq stays remembered or dead when groups only go if they are old.
LEMMA LastKept ==
    ASSUME LinkInv, HistInv, Lifetime <= Timeout, coded_net' = coded_net,
           UNCHANGED <<now, last_seq>>,
           \A t \in DOMAIN groups :
                \/ t \in DOMAIN groups' /\ groups'[t].cur = groups[t].cur
                \/ now > groups[t].stamp + Timeout
                \/ t # last_seq
    PROVE  /\ last_seq = 0 \/ \E m \in coded_net' : m.pkt.seq = last_seq'
           /\ \/ last_seq' = 0
              \/ last_seq' \in DOMAIN groups' /\ groups'[last_seq'].cur = K
              \/ \A m \in coded_net' : m.pkt.seq = last_seq' => ~Alive(m)'
<1>1. \A m : Alive(m)' <=> Alive(m)
  BY DEF Alive
<1>2. last_seq = 0 \/ \E m \in coded_net : m.pkt.seq = last_seq
  BY DEF HistInv, LastInv
<1>3. CASE last_seq = 0
  BY <1>3
<1>4. CASE \A m \in coded_net : m.pkt.seq = last_seq => ~Alive(m)
  BY <1>1, <1>2, <1>4
<1>5. CASE last_seq \in DOMAIN groups /\ groups[last_seq].cur = K
  <2>1. CASE now > groups[last_seq].stamp + Timeout
    <3>1. \A m \in coded_net : m.pkt.seq = last_seq => ~Alive(m)
      BY <1>5, <2>1, GoneIsDead DEF HistInv
    <3> QED BY <1>1, <1>2, <3>1
  <2>2. CASE /\ last_seq \in DOMAIN groups'
             /\ groups'[last_seq].cur = groups[last_seq].cur
    BY <1>2, <1>5, <2>2
  <2> QED BY <1>5, <2>1, <2>2
<1> QED BY <1>3, <1>4, <1>5 DEF HistInv, LastInv

\* A package takes its place: nothing of its word came out.
LEMMA JoinHist ==
    ASSUME LinkInv, HistInv, Lifetime <= Timeout, Idle, RecvFrame,
           NEW m \in coded_net, Alive(m), NEW g,
           JoinMore(m, g) \/ JoinLast(m, g)
    PROVE  HistInv'
<1> DEFINE s == m.pkt.seq
<1>1. /\ ~Done(s)
      /\ g.stamp = now
      /\ s \in DOMAIN groups' /\ groups'[s] = g
      /\ \A t \in DOMAIN groups' :
            t # s => t \in DOMAIN groups /\ groups'[t] = groups[t]
      /\ \A t \in DOMAIN groups \ DOMAIN groups' :
            now > groups[t].stamp + Timeout
      /\ UNCHANGED <<unit, last_seq, last_index>>
      /\ ready' = ready \/ ready' = {s}
  BY DEF JoinMore, JoinLast, Joined
<1>2. ready = {}
  BY DEF Idle
<1>3. UNCHANGED <<now, coded_net, raw_net, handed, again>>
  BY DEF RecvFrame, netVars, logVars
<1>4. \A n : Alive(n)' <=> Alive(n)
  BY <1>3 DEF Alive
<1>5. s \in DOMAIN groups => groups[s].cur # K
  BY <1>1, <1>2, EncoderAssumption DEF Done
<1>6. Alive(m) /\ s # 0
  BY EncoderAssumption DEF LinkInv, AirInv, NetInv, CodedTrue
<1> HIDE DEF s
<1>7. StampInv'
  <2> SUFFICES ASSUME NEW n \in coded_net, n.pkt.seq \in DOMAIN groups'
      PROVE  n.born <= groups'[n.pkt.seq].stamp
    BY <1>3 DEF StampInv, Stamped
  <2>1. CASE n.pkt.seq = s
    <3>1. n.born <= now
      BY DEF LinkInv, AirInv, NetInv, CodedTrue
    <3> QED BY <1>1, <2>1, <3>1
  <2>2. CASE n.pkt.seq # s
    BY <1>1, <2>2 DEF HistInv, StampInv, Stamped
  <2> QED BY <2>1, <2>2
<1>8. last_seq # s
  <2>1. ~\A n \in coded_net : n.pkt.seq = s => ~Alive(n)
    BY <1>6 DEF s
  <2> QED BY <1>5, <1>6, <2>1 DEF HistInv, LastInv
<1>9. LastInv'
  <2>1. \A t \in DOMAIN groups :
            \/ t \in DOMAIN groups' /\ groups'[t].cur = groups[t].cur
            \/ now > groups[t].stamp + Timeout
            \/ t # last_seq
    <3> SUFFICES ASSUME NEW t \in DOMAIN groups, t = last_seq,
                        t \in DOMAIN groups'
        PROVE  groups'[t].cur = groups[t].cur
      BY <1>1
    <3> QED BY <1>1, <1>8
  <2>2. last_seq' \notin ready'
    BY <1>1, <1>2, <1>8
  <2> QED BY <1>1, <1>3, <2>1, <2>2, LastKept DEF LastInv
<1>10. ASSUME NEW n \in coded_net'
       PROVE  Remembered(n)'
  <2> SUFFICES ASSUME Alive(n), NEW i \in 1..K, Came(n.pkt.word[i])
      PROVE  /\ n.pkt.seq \in DOMAIN groups'
             /\ groups'[n.pkt.seq].cur = K
             /\ n.pkt.seq \notin ready'
    BY <1>3, <1>4 DEF Remembered, Came
  <2>1. n.pkt.seq \in DOMAIN groups /\ groups[n.pkt.seq].cur = K
    BY <1>3 DEF HistInv, OnceInv, Remembered
  <2>2. n.pkt.seq # s
    BY <1>5, <2>1
  <2>3. n.pkt.seq \in DOMAIN groups'
    <3> SUFFICES ASSUME n.pkt.seq \notin DOMAIN groups' PROVE FALSE
      OBVIOUS
    <3>1. now > groups[n.pkt.seq].stamp + Timeout
      BY <1>1, <2>1
    <3> QED BY <1>3, <2>1, <3>1, GoneIsDead DEF HistInv
  <2> QED BY <1>1, <1>2, <2>1, <2>2, <2>3
<1>11. \A h \in handed' : Aimed(h)'
  BY <1>3 DEF HistInv, OnceInv, Aimed
<1>12. OnceInv'
  BY <1>1, <1>3, <1>10, <1>11 DEF HistInv, OnceInv
<1> QED BY <1>7, <1>9, <1>12 DEF HistInv

\* Clearing takes only what is old.
LEMMA ClearedStamps ==
    ASSUME HistInv, groups' = Cleared(groups, {}), coded_net' = coded_net
    PROVE  StampInv'
<1> SUFFICES ASSUME NEW m \in coded_net, m.pkt.seq \in DOMAIN groups'
    PROVE  m.born <= groups'[m.pkt.seq].stamp
  BY DEF StampInv, Stamped
<1>1. /\ m.pkt.seq \in DOMAIN groups
      /\ groups'[m.pkt.seq] = groups[m.pkt.seq]
  BY ClearedKeeps
<1> QED BY <1>1 DEF HistInv, StampInv, Stamped

LEMMA ClearedDead ==
    ASSUME LinkInv, HistInv, Lifetime <= Timeout,
           groups' = Cleared(groups, {}),
           NEW m \in coded_net, Alive(m), m.pkt.seq \in DOMAIN groups
    PROVE  /\ m.pkt.seq \in DOMAIN groups'
           /\ groups'[m.pkt.seq] = groups[m.pkt.seq]
<1>1. ~(now > groups[m.pkt.seq].stamp + Timeout)
  BY GoneIsDead DEF HistInv
<1>2. m.pkt.seq \in DOMAIN groups'
  BY <1>1, ClearedKeeps
<1> QED BY <1>2, ClearedKeeps

LEMMA HandsRawHist ==
    ASSUME LinkInv, HistInv, Lifetime <= Timeout, HandFrame, HandsRaw
    PROVE  HistInv'
<1>1. /\ unit \in accepted /\ ready = {} /\ Copied = unit
      /\ unit' = NoPkg /\ groups' = Cleared(groups, {})
      /\ UNCHANGED <<ready, last_seq, last_index>>
      /\ UNCHANGED <<now, coded_net, raw_net>>
      /\ handed' = handed \union {[pkg |-> unit, bytes |-> left]}
  BY DEF HandsRaw, RawOut, HandFrame, netVars
<1>2. unit # NoPkg
  BY <1>1, DecoderAssumption DEF LinkInv, AirInv, SenderInv, AcceptedTrue
<1>3. again' = again
  BY <1>2 DEF HandFrame
<1>4. \E m \in raw_net : m.pkt = unit
  BY <1>2 DEF HistInv, OnceInv
<1>5. StampInv'
  BY <1>1, ClearedStamps
<1>6. LastInv'
  <2>1. \A t \in DOMAIN groups :
            \/ t \in DOMAIN groups' /\ groups'[t].cur = groups[t].cur
            \/ now > groups[t].stamp + Timeout
    BY <1>1, ClearedKeeps
  <2> QED BY <1>1, <2>1, LastKept DEF LastInv
<1>7. ASSUME NEW n \in coded_net'
      PROVE  Remembered(n)'
  <2> SUFFICES ASSUME Alive(n), NEW i \in 1..K,
                      \E h \in handed' : h.pkg = n.pkt.word[i]
      PROVE  /\ n.pkt.seq \in DOMAIN groups'
             /\ groups'[n.pkt.seq].cur = K
             /\ n.pkt.seq \notin ready'
    BY <1>1 DEF Remembered, Came, Alive
  <2>1. n.pkt.word[i] # unit
    <3>1. In(n.pkt.word[i], n.pkt.word)
      <4>1. DOMAIN n.pkt.word = 1..K
        BY <1>1, LenProperties DEF LinkInv, AirInv, NetInv, CodedTrue, WordTrue
      <4> QED BY <4>1 DEF In
    <3>2. Place(unit)
      BY <1>1, Places DEF LinkInv, AirInv
    <3> QED BY <1>1, <1>4, <3>1, <3>2 DEF Place, Words
  <2>2. Came(n.pkt.word[i])
    BY <1>1, <2>1 DEF Came
  <2>3. n.pkt.seq \in DOMAIN groups /\ groups[n.pkt.seq].cur = K
    BY <1>1, <2>2 DEF HistInv, OnceInv, Remembered
  <2> QED BY <1>1, <2>3, ClearedDead
<1>8. \A h \in handed' : Aimed(h)'
  <2>1. \A h : h \in handed => Aimed(h)'
    BY <1>1 DEF HistInv, OnceInv, Aimed
  <2>2. \A h : h.pkg = unit => Aimed(h)'
    BY <1>1, <1>4 DEF Aimed
  <2> QED BY <1>1, <2>1, <2>2
<1>9. OnceInv'
  BY <1>1, <1>3, <1>7, <1>8 DEF HistInv, OnceInv
<1> QED BY <1>5, <1>6, <1>9 DEF HistInv

LEMMA HandsCodedHist ==
    ASSUME LinkInv, HistInv, Lifetime <= Timeout, HandFrame,
           NEW s, NEW i, HandsOn(s, i) \/ HandsEnd(s, i)
    PROVE  HistInv'
<1>1. /\ HandsCoded(s, i) /\ s \in DOMAIN groups /\ ready = {s}
      /\ unit = NoPkg /\ unit' = unit
      /\ last_seq' = s /\ last_index' = i /\ i \in 1..K
      /\ i = IF last_seq = s THEN last_index + 1 ELSE 1
      /\ \/ groups' = groups /\ ready' = ready /\ i < K
         \/ groups' = Cleared(groups, {}) /\ ready' = {}
  BY DEF HandsOn, HandsEnd, HandsCoded, CodedOut
<1>2. /\ UNCHANGED <<now, coded_net, raw_net>>
      /\ handed' = handed \union {[pkg |-> Copied, bytes |-> left]}
  BY DEF HandFrame, netVars
<1>3. Copied \in accepted /\ s \in Nat \ {0} /\ groups[s].cur = K
  BY <1>1, CopiedTrue DEF LinkInv
<1>4. PICK m \in coded_net :
        /\ Of(groups[s], s, m) /\ Alive(m)
        /\ Copied = m.pkt.word[i]
  BY <1>1, CopiedTrue DEF LinkInv
<1>5. m.pkt.seq = s
  BY <1>4 DEF Of
<1>6. last_index \in Nat /\ K \in Nat
  BY EncoderAssumption DEF LinkInv, DecInv, OutInv
<1>7. \A n : Alive(n)' <=> Alive(n)
  BY <1>2 DEF Alive
\* What is alive stays where it is.
<1>8. ASSUME NEW n \in coded_net, Alive(n), n.pkt.seq \in DOMAIN groups
      PROVE  /\ n.pkt.seq \in DOMAIN groups'
             /\ groups'[n.pkt.seq] = groups[n.pkt.seq]
  BY <1>1, <1>8, ClearedDead
<1>9. StampInv'
  <2>1. CASE groups' = groups
    BY <1>2, <2>1 DEF HistInv, StampInv, Stamped
  <2>2. CASE groups' = Cleared(groups, {})
    BY <1>2, <2>2, ClearedStamps
  <2> QED BY <1>1, <2>1, <2>2
<1>10. LastInv'
  <2>1. s \in DOMAIN groups' /\ groups'[s].cur = K
    BY <1>1, <1>3, <1>4, <1>5, <1>8
  <2>2. last_seq' \in ready' => last_index' < K
    BY <1>1
  <2> QED BY <1>1, <1>2, <1>4, <1>5, <2>1, <2>2 DEF LastInv
<1>11. ~Came(Copied)
  <2> SUFFICES ASSUME Came(m.pkt.word[i]) PROVE FALSE
    BY <1>4
  <2>1. last_seq = s /\ i <= last_index
    BY <1>1, <1>4, <1>5 DEF HistInv, OnceInv, Remembered
  <2> QED BY <1>1, <1>6, <2>1
<1>12. again' = again
  <2> SUFFICES ASSUME NEW h \in handed, h.pkg.id = Copied.id PROVE FALSE
    BY DEF HandFrame
  <2>1. h.pkg \in accepted
    BY DEF LinkInv, DecInv, HandedInv, HandedTrue
  <2>2. h.pkg = Copied
    BY <1>3, <2>1 DEF LinkInv, AirInv, SenderInv, AcceptedTrue
  <2> QED BY <1>11, <2>2 DEF Came
<1>13. ASSUME NEW n \in coded_net'
       PROVE  Remembered(n)'
  <2> SUFFICES ASSUME Alive(n), NEW j \in 1..K,
                      \E h \in handed' : h.pkg = n.pkt.word[j]
      PROVE  /\ n.pkt.seq \in DOMAIN groups'
             /\ groups'[n.pkt.seq].cur = K
             /\ n.pkt.seq \in ready' =>
                    last_seq' = n.pkt.seq /\ j <= last_index'
    BY <1>2, <1>7 DEF Remembered, Came
  <2>1. CASE Came(n.pkt.word[j])
    <3>1. /\ n.pkt.seq \in DOMAIN groups /\ groups[n.pkt.seq].cur = K
          /\ n.pkt.seq \in ready => last_seq = n.pkt.seq /\ j <= last_index
      BY <1>2, <2>1 DEF HistInv, OnceInv, Remembered
    <3>2. n.pkt.seq \in DOMAIN groups' /\ groups'[n.pkt.seq].cur = K
      BY <1>2, <1>8, <3>1
    <3>3. ASSUME n.pkt.seq \in ready'
          PROVE  last_seq' = n.pkt.seq /\ j <= last_index'
      <4>1. n.pkt.seq = s
        BY <1>1, <3>3
      <4>2. last_seq = s /\ j <= last_index
        BY <1>1, <3>1, <4>1
      <4>3. i = last_index + 1
        BY <1>1, <4>2
      <4> QED BY <1>1, <1>6, <4>1, <4>2, <4>3
    <3> QED BY <3>2, <3>3
  <2>2. CASE n.pkt.word[j] = Copied
    <3>1. OnePlace(n, m)
      BY <1>2 DEF LinkInv, AirInv, PlaceInv
    <3>2. j = i /\ n.pkt.seq = s
      BY <1>1, <1>4, <1>5, <2>2, <3>1 DEF OnePlace
    <3>3. n.pkt.seq \in DOMAIN groups' /\ groups'[n.pkt.seq].cur = K
      BY <1>1, <1>2, <1>3, <1>8, <3>2
    <3> QED BY <1>1, <3>2, <3>3
  <2>3. Came(n.pkt.word[j]) \/ n.pkt.word[j] = Copied
    BY <1>2 DEF Came
  <2> QED BY <2>1, <2>2, <2>3
<1>14. \A h \in handed' : Aimed(h)'
  <2>1. \A h : h \in handed => Aimed(h)'
    BY <1>2 DEF HistInv, OnceInv, Aimed
  <2>2. In(Copied, m.pkt.word)
    <3>1. DOMAIN m.pkt.word = 1..K
      BY LenProperties DEF LinkInv, AirInv, NetInv, CodedTrue, WordTrue
    <3> QED BY <1>1, <1>4, <3>1 DEF In
  <2>3. \A h : h.pkg = Copied => Aimed(h)'
    BY <1>2, <2>2 DEF Aimed
  <2> QED BY <1>2, <2>1, <2>3
<1>15. OnceInv'
  BY <1>1, <1>12, <1>13, <1>14 DEF HistInv, OnceInv
<1> QED BY <1>9, <1>10, <1>15 DEF HistInv

LEMMA InitHist == Init => HistInv
<1> SUFFICES ASSUME Init PROVE HistInv
  OBVIOUS
<1>1. /\ coded_net = {} /\ handed = {} /\ again = {} /\ unit = NoPkg
      /\ last_seq = 0 /\ ready = {}
  BY DEF Init, DecInit
<1> QED BY <1>1 DEF HistInv, StampInv, LastInv, OnceInv

LEMMA StepHist ==
    ASSUME LinkInv, HistInv, Lifetime <= Timeout, [Next]_vars
    PROVE  HistInv'
<1>1. ASSUME NEW len \in PkgLens, NEW n \in 0..(K + R), KcpOutput(len, n)
      PROVE  HistInv'
  <2>1. OutputStep(len)
    BY <1>1, OutputAirs DEF LinkInv, AirInv
  <2> QED BY <2>1, OutputHist
<1>2. ASSUME NEW elapsed \in Ticks, NEW n \in 0..K, Timer(elapsed, n)
      PROVE  HistInv'
  <2>1. TimerStep
    BY <1>2, TimerAirs DEF LinkInv, AirInv
  <2> QED BY <2>1, FrameHist DEF TimerStep, decVars, logVars
<1>3. ASSUME NEW m \in coded_net, RecvCoded(m)
      PROVE  HistInv'
  <2>1. /\ Idle /\ Alive(m)
        /\ \/ UNCHANGED decVars
           \/ \E g : JoinMore(m, g)
           \/ \E g : JoinLast(m, g)
    BY <1>3, CodedComes DEF LinkInv, DecInv
  <2>2. RecvFrame
    BY <1>3 DEF RecvCoded, RecvFrame
  <2>3. CASE UNCHANGED decVars
    BY <2>2, <2>3, FrameHist DEF RecvFrame, decVars, netVars, logVars
  <2>4. CASE \E g : JoinMore(m, g) \/ JoinLast(m, g)
    BY <2>1, <2>2, <2>4, JoinHist
  <2> QED BY <2>1, <2>3, <2>4
<1>4. ASSUME NEW m \in raw_net, RecvRaw(m)
      PROVE  HistInv'
  <2>1. /\ unit' = m.pkt
        /\ UNCHANGED <<groups, ready, last_seq, last_index>>
        /\ UNCHANGED <<now, coded_net, raw_net, handed, again>>
    BY <1>4 DEF RecvRaw, InputRaw, netVars, logVars
  <2> QED BY <2>1, FrameHist
<1>5. CASE Hand
  <2>1. HandsStep
    BY <1>5, HandSteps
  <2> QED BY <2>1, HandsRawHist, HandsCodedHist DEF HandsStep
<1>6. CASE Tick
  BY <1>6, TickHist
<1>7. CASE UNCHANGED vars
  BY <1>7, FrameHist DEF vars, decVars, netVars, logVars
<1> QED BY <1>1, <1>2, <1>3, <1>4, <1>5, <1>6, <1>7 DEF Next

\* As long as the network forgets a package no later than the decoder,
\* last_process_index never points past the group that is handed out
\* (fec_decode.cpp:153-168).
THEOREM IndexStaysInRange ==
    ASSUME Lifetime <= Timeout
    PROVE  Spec => []IndexInRange
<1>1. HistInv => IndexInRange
  BY DEF HistInv, LastInv, IndexInRange
<1>2. LinkInv /\ HistInv /\ [Next]_vars => HistInv'
  BY StepHist
<1> QED BY <1>1, <1>2, LinkInvariant, InitHist, PTL DEF Spec

\* As long as it does, no datagram of a code word comes out twice
\* (fec_decode.cpp:57-61, 75-81, 191-197).
THEOREM HandedOnce ==
    ASSUME Lifetime <= Timeout
    PROVE  Spec => []AtMostOnce
<1>1. HistInv => AtMostOnce
  BY DEF HistInv, OnceInv, AtMostOnce
<1>2. LinkInv /\ HistInv /\ [Next]_vars => HistInv'
  BY StepHist
<1> QED BY <1>1, <1>2, LinkInvariant, InitHist, PTL DEF Spec
=============================================================================
