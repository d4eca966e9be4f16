------------------------------ MODULE FecDecoder ------------------------------
(***************************************************************************)
(* FecDecode (src/lib/libfec/source/fec_decode.cpp) under the loop both    *)
(* samples run on each datagram: Input, then Output as long as it returns  *)
(* a positive length (src/samples/fec_kcp_client.cpp:67-91).  left is the  *)
(* loop's variable len, the length the next Output is called with.         *)
(*                                                                         *)
(* The maps of FecDecode that share their keys are one function, groups.   *)
(* Of the TimeOutMap it keeps the time of a group's last package: which    *)
(* keys GetTimeOutElements returns is module TimeoutMap's subject.         *)
(***************************************************************************)
EXTENDS FecEncoder

CONSTANTS
    Timeout,    \* timeout_limit_ms_, in steps of the clock
    GroupLimit, \* 50
    NoPkg       \* an empty slot, an empty output unit

ASSUME DecoderAssumption ==
    /\ Timeout \in Nat
    /\ GroupLimit \in Nat
    /\ NoPkg \notin Pkg /\ NoPkg \notin Coded

VARIABLES
    groups,         \* seq -> what has come of its code word
    ready,          \* the seqs whose seq2ready_for_output_ is true
    ready_nums,     \* ready_seqs_nums_
    unit,           \* the unencoded package of output_unit_, NoPkg if none
    last_seq,       \* output_unit_.last_process_seq, 0 for -1
    last_index,     \* output_unit_.last_process_index
    left,           \* the sample's len; 0 outside its loop
    now             \* the clock

decVars == <<groups, ready, ready_nums, unit, last_seq, last_index, left>>

DecInit ==
    /\ groups = <<>>
    /\ ready = {}
    /\ ready_nums = 0
    /\ unit = NoPkg
    /\ last_seq = 0
    /\ last_index = 0
    /\ left = 0
    /\ now = 0

(***************************************************************************)
(* ClearTimeoutDatas: groups that got nothing for longer than Timeout go,  *)
(* unless they wait to be handed out.                                      *)
(***************************************************************************)
\* mutants: a group goes one step early; it goes once it was handed out; it
\* goes only if it was handed out
ClearedEarly(grps, rdy) ==
    [s \in {s \in DOMAIN grps :
              s \in rdy \/ ~(now >= grps[s].stamp + Timeout)} |-> grps[s]]

ClearedAtOnce(grps, rdy) ==
    [s \in {s \in DOMAIN grps : s \in rdy \/ grps[s].cur < K} |-> grps[s]]

ClearedDone(grps, rdy) ==
    [s \in {s \in DOMAIN grps :
              \/ s \in rdy \/ grps[s].cur < K
              \/ ~(now > grps[s].stamp + Timeout)} |-> grps[s]]

Cleared(grps, rdy) ==
    [s \in {s \in DOMAIN grps :
              s \in rdy \/ ~(now > grps[s].stamp + Timeout)} |-> grps[s]]

(***************************************************************************)
(* Input, a package of a code word.                                        *)
(***************************************************************************)
EmptyGroup ==
    [slots |-> [i \in 1..(K + R) |-> NoPkg], cur |-> 0, max |-> 0, stamp |-> now]

GroupOf(s) == IF s \in DOMAIN groups THEN groups[s] ELSE EmptyGroup

\* decoded and handed out
Done(s) == s \in DOMAIN groups /\ s \notin ready /\ groups[s].cur >= K

Present(slots) == {i \in DOMAIN slots : slots[i] # NoPkg}

\* mutant: a recovered package has the length of one that came
DecodedShort(slots, max) ==
    [i \in 1..K |->
        LET other == slots[CHOOSE j \in Present(slots) : TRUE]
        IN  IF i \in Present(slots)
            THEN [pkg |-> slots[i].word[i], len |-> slots[i].plen]
            ELSE [pkg |-> other.word[i], len |-> other.plen]]

\* rs_decode2: K packages of one word give all of it.  Package i keeps the
\* length its header gave if it came; the length of a recovered one is max.
Decoded(slots, max) ==
    [i \in 1..K |->
        IF i \in Present(slots)
        THEN [pkg |-> slots[i].word[i], len |-> slots[i].plen]
        ELSE [pkg |-> IF \A j, k \in Present(slots) : slots[j].word = slots[k].word
                      THEN slots[CHOOSE j \in Present(slots) : TRUE].word[i]
                      ELSE [id |-> 0, len |-> max],
              len |-> max]]

Put(s, group) ==
    [t \in DOMAIN groups \union {s} |-> IF t = s THEN group ELSE groups[t]]

\* a package of a group already handed out
InputDone(c) ==
    /\ left = 0
    /\ Done(c.seq)
    /\ UNCHANGED decVars

\* one that is there already; it refreshes the stamp
InputAgain(c) ==
    LET group == GroupOf(c.seq)
    IN  /\ left = 0
        /\ ~Done(c.seq) /\ c.seq \notin ready
        /\ group.slots[c.index] # NoPkg
        /\ groups' = Put(c.seq, [group EXCEPT !.max = larger(@, c.size),
                                              !.stamp = now])
        /\ UNCHANGED <<ready, ready_nums, unit, last_seq, last_index, left>>

\* the group with c in it
With(c) ==
    LET group == GroupOf(c.seq)
    IN  [slots |-> [group.slots EXCEPT ![c.index] = c],
         cur |-> group.cur + 1,
         max |-> larger(group.max, c.size), stamp |-> now]

\* a new one, of a group that is still short of packages
InputMore(c) ==
    LET more == Put(c.seq, With(c))
    IN  /\ left = 0
        /\ ~Done(c.seq) /\ c.seq \notin ready
        /\ GroupOf(c.seq).slots[c.index] = NoPkg
        /\ With(c).cur < K
        /\ groups' = IF Cardinality(DOMAIN more) > GroupLimit
                     THEN Cleared(more, ready) ELSE more
        /\ UNCHANGED <<ready, ready_nums, unit, last_seq, last_index, left>>

\* the Kth; Input returns the length of the longest
InputLast(c) ==
    LET group == With(c)
    IN  /\ left = 0
        /\ ~Done(c.seq) /\ c.seq \notin ready
        /\ GroupOf(c.seq).slots[c.index] = NoPkg
        /\ group.cur >= K
        /\ groups' = Put(c.seq,
                [group EXCEPT !.slots = Decoded(group.slots, group.max)])
        /\ ready' = ready \union {c.seq}
        /\ ready_nums' = ready_nums + 1
        /\ left' = group.max
        /\ UNCHANGED <<unit, last_seq, last_index>>

InputCoded(c) ==
    InputDone(c) \/ InputAgain(c) \/ InputMore(c) \/ InputLast(c)

\* DealUnEncodeData
InputRaw(p) ==
    /\ left = 0
    /\ unit' = p
    /\ left' = p.len
    /\ UNCHANGED <<groups, ready, ready_nums, last_seq, last_index>>

(***************************************************************************)
(* Output.  SearchForNextReadySeq clears old groups when none is ready,    *)
(* and otherwise takes the lowest ready seq.                               *)
(***************************************************************************)
Lowest(seqs) == CHOOSE s \in seqs : \A t \in seqs : s <= t

\* where Output goes on after package at_index - 1 of at_seq, nums and rdy
\* being the new ready_seqs_nums_ and flags
GoOn(nums, rdy, at_seq, at_index) ==
    IF rdy = {}
    THEN /\ groups' = IF nums = 0 THEN Cleared(groups, rdy) ELSE groups
         /\ left' = 0
         /\ last_seq' = at_seq
         /\ last_index' = at_index
    ELSE /\ last_seq' = Lowest(rdy)
         /\ last_index' = 0
         /\ left' = groups[Lowest(rdy)].slots[1].len
         /\ UNCHANGED groups

OutputRaw ==
    /\ left > 0
    /\ unit # NoPkg
    /\ unit' = NoPkg
    /\ GoOn(ready_nums, ready, last_seq, last_index)
    /\ UNCHANGED <<ready, ready_nums>>

\* the package of a group that Output copies, counted from 0
CurrentSeq ==
    IF last_seq \in ready THEN last_seq
    ELSE Lowest({s \in ready : groups[s].max <= left})

\* mutant: another group is entered where the last one was left
CurrentIndexKept == last_index

CurrentIndex == IF last_seq \in ready THEN last_index ELSE 0

\* mutants: a group ends one package early; its end is not counted
EndsEarly(i) == i >= K - 1
CountAfterKept(nums) == nums

Ends(i) == i = K
CountAfter(nums) == nums - 1

OutputCoded ==
    LET s == CurrentSeq
        i == CurrentIndex + 1
    IN  /\ left > 0
        /\ unit = NoPkg
        /\ ready_nums > 0
        /\ i <= K
        /\ unit' = unit
        /\ IF Ends(i)
           THEN /\ ready' = ready \ {s}
                /\ ready_nums' = CountAfter(ready_nums)
                /\ GoOn(CountAfter(ready_nums), ready \ {s}, s, i)
           ELSE /\ last_seq' = s
                /\ last_index' = i
                /\ left' = groups[s].slots[i + 1].len
                /\ UNCHANGED <<groups, ready, ready_nums>>

\* the package Output copies into the caller's buffer of left bytes
Copied ==
    IF unit # NoPkg THEN unit
    ELSE groups[CurrentSeq].slots[CurrentIndex + 1].pkg
=============================================================================
