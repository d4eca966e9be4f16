------------------------------ MODULE FecEncoder ------------------------------
(***************************************************************************)
(* FecEncode (src/lib/libfec/source/fec_encode.cpp) as FecEncodeManager    *)
(* (src/source/fec_manager.cpp) drives it.  Packages are collected K by K; *)
(* the Kth one makes Input compute R redundant ones, and the manager takes *)
(* and sends all K + R at once.  A timer sends what is held unencoded when *)
(* nothing came for a while.                                               *)
(*                                                                         *)
(* Everything runs in the thread of the event loop, so Input, Output and   *)
(* the sends of one call are one step: ready_for_fec_output_ is TRUE only  *)
(* inside it, and the pointers Output returns live as long.  A send may    *)
(* fail; the manager then gives up on the packages after it.               *)
(***************************************************************************)
EXTENDS Naturals, Sequences, FiniteSets

CONSTANTS
    K,          \* data_pkg_num_
    R,          \* redundant_pkg_num_
    SeqLimit,   \* 65521, one past the largest seq
    FlushAfter  \* timeout_time_ * 1000, in steps of the clock

ASSUME EncoderAssumption ==
    /\ K \in Nat \ {0}
    /\ R \in Nat
    /\ SeqLimit \in Nat /\ SeqLimit > 1
    /\ FlushAfter \in Nat \ {0}

VARIABLES
    held,       \* data_pkgs_[0 .. cur_data_pkgs_num_ - 1]
    max_len,    \* max_data_pkg_length_
    seq,        \* seq of the next code word
    age         \* inside_timer_ - newest_update_time_, up to FlushAfter

encVars == <<held, max_len, seq, age>>

\* What the manager is given to send: id names the bytes, the ith datagram of
\* KCP has id i; 0 names bytes that are no datagram.
Pkg == [id : Nat, len : Nat]

\* A package on the wire: its place in the code word, the length of its data
\* and its size with the zeros that make all of the word equally long.  The
\* packages of a word carry pieces of it; word says which word.
Coded == [seq : Nat, index : Nat, plen : Nat, size : Nat, word : Seq(Pkg)]

larger(a, b) == IF a >= b THEN a ELSE b

EncInit ==
    /\ held = <<>>
    /\ max_len = 0
    /\ seq \in 1..(SeqLimit - 1)
    /\ age = 0

(***************************************************************************)
(* FecEncodeManager::Input                                                 *)
(***************************************************************************)
\* mutant: 0 comes after the largest seq
NextSeqZero(s) == IF s + 1 >= SeqLimit THEN 0 ELSE s + 1

NextSeq(s) == IF s + 1 >= SeqLimit THEN 1 ELSE s + 1

\* mutant: the length of the longest package is that of the last one
MaxAfterLast(p) == p.len

\* max_data_pkg_length_ once p is in
MaxAfter(p) == larger(p.len, IF held = <<>> THEN 0 ELSE max_len)

\* the packages rs_encode2 leaves in data_pkgs_
CodeWord(s, word, size) ==
    [i \in 1..(K + R) |->
        [seq |-> s, index |-> i,
         plen |-> IF i <= K THEN word[i].len ELSE size,
         size |-> size, word |-> word]]

Completes == Len(held) + 1 = K

\* what Input has the manager send
InputSends(p) ==
    IF Completes THEN CodeWord(seq, Append(held, p), MaxAfter(p)) ELSE <<>>

EncInput(p) ==
    /\ Len(held) < K
    /\ max_len' = MaxAfter(p)
    /\ age' = 0
    /\ held' = IF Completes THEN <<>> ELSE Append(held, p)
    /\ seq' = IF Completes THEN NextSeq(seq) ELSE seq

(***************************************************************************)
(* The timer of the event loop: FecEncodeUpdateTime with a clock that went *)
(* on by elapsed, then FlushUnEncodedData if it says so.                   *)
(***************************************************************************)
AgeAfter(elapsed) ==
    IF age + elapsed < FlushAfter THEN age + elapsed ELSE FlushAfter

Due(elapsed) == AgeAfter(elapsed) = FlushAfter

\* mutant: what was flushed stays
HeldAfterKept(elapsed) == held

HeldAfter(elapsed) == IF Due(elapsed) THEN <<>> ELSE held

\* what FlushUnEncodedData has the manager send
TimerSends(elapsed) == IF Due(elapsed) THEN held ELSE <<>>

EncTimer(elapsed) ==
    /\ age' = AgeAfter(elapsed)
    /\ held' = HeldAfter(elapsed)
    /\ UNCHANGED <<max_len, seq>>
=============================================================================
