------------------------------ MODULE TimeoutMap ------------------------------
(***************************************************************************)
(* TimeOutMap (src/lib/libfec/source/timeout_map.cpp): a list of keys, the *)
(* last updated one in front, and a hash map from each key to the time of  *)
(* its update and its place in the list.  GetTimeOutElements walks the     *)
(* list from the back and stops at the first key that is recent enough.    *)
(*                                                                         *)
(* The list is its inverse: place says where each key stands, counted from *)
(* the back, as the iterator kept in the map does.  The clock is           *)
(* gettimeofday (common.cpp:51-55), which may be set back.                 *)
(***************************************************************************)
EXTENDS Integers, FiniteSets

CONSTANTS
    Keys,       \* the keys of the map
    Limit,      \* timeout_limit_ms_
    MaxClock,   \* bound: the largest time
    Backward    \* the clock may be set back

ASSUME MapAssumption ==
    /\ IsFiniteSet(Keys)
    /\ Limit \in Nat /\ MaxClock \in Nat
    /\ Backward \in BOOLEAN

VARIABLES
    place,      \* key -> its place in elements_, 1 at the back
    stamp,      \* key -> the time of its last update
    clock,      \* what getnowtime_ms returns
    collected   \* what GetTimeOutElements returned last, at time collected.at

vars == <<place, stamp, clock, collected>>

Known == DOMAIN place
Size == Cardinality(Known)

Init ==
    /\ place = <<>>
    /\ stamp = <<>>
    /\ clock = 0
    /\ collected = {}

\* mutant: the places above the key are not closed up
ClosedGap(f, key) == [k \in DOMAIN f \ {key} |-> f[k]]

\* the places of the keys of f once key is out of the list
Closed(f, key) ==
    [k \in DOMAIN f \ {key} |-> IF f[k] > f[key] THEN f[k] - 1 ELSE f[k]]

\* mutant: an update leaves the key where it is
FrontSame(f, key) ==
    [k \in DOMAIN f \union {key} |->
        IF k \in DOMAIN f THEN f[k] ELSE Cardinality(DOMAIN f) + 1]

\* key erased, if it is there, and pushed to the front
Front(f, key) ==
    LET rest == IF key \in DOMAIN f THEN Closed(f, key) ELSE f
    IN  [k \in DOMAIN f \union {key} |->
            IF k = key THEN Cardinality(DOMAIN rest) + 1 ELSE rest[k]]

\* Add and the Update it starts with
Add(key) ==
    /\ place' = Front(place, key)
    /\ stamp' = [k \in Known \union {key} |-> IF k = key THEN clock ELSE stamp[k]]
    /\ UNCHANGED <<clock, collected>>

Update(key) == key \in Known /\ Add(key)

Remove(key) ==
    /\ key \in Known
    /\ place' = Closed(place, key)
    /\ stamp' = [k \in Known \ {key} |-> stamp[k]]
    /\ UNCHANGED <<clock, collected>>

Expired(key) == clock - stamp[key] > Limit

\* mutant: the walk starts in front
CollectableFront(key) == \A k \in Known : place[k] >= place[key] => Expired(k)

\* the walk from the back gets past key
Collectable(key) == \A k \in Known : place[k] <= place[key] => Expired(k)

GetTimeOutElements ==
    /\ collected' = {key \in Known : Collectable(key)}
    /\ UNCHANGED <<place, stamp, clock>>

SetClock(t) ==
    /\ Backward \/ t > clock
    /\ clock' = t
    /\ UNCHANGED <<place, stamp, collected>>

Next ==
    \/ \E key \in Keys : Add(key) \/ Update(key) \/ Remove(key)
    \/ GetTimeOutElements
    \/ \E t \in 0..MaxClock : SetClock(t)

Spec == Init /\ [][Next]_vars

-------------------------------------------------------------------------------
(***************************************************************************)
(* Properties                                                              *)
(***************************************************************************)

\* Every variable has its type; the only invariant that says just that, proved
\* in TimeoutMapProofs.
MapTypeOK ==
    /\ Known \subseteq Keys
    /\ place \in [Known -> 1..Size]
    /\ stamp \in [Known -> Int]
    /\ clock \in Int
    /\ collected \subseteq Keys

\* The list holds each key of the map once: erasing by the iterator the map
\* keeps never hits another key (timeout_map.cpp:16-18, 39-40).
ListMatchesMap ==
    /\ DOMAIN stamp = Known
    /\ \A p \in 1..Size : \E k \in Known : place[k] = p
    /\ \A k, l \in Known : place[k] = place[l] => k = l

\* "elements_ is in descending order of update time" (timeout_map.cpp:50):
\* what the early end of the walk relies on.
NewestFirst ==
    \A k, l \in Known : place[k] < place[l] => stamp[k] <= stamp[l]

\* GetTimeOutElements returns all the keys whose time is up and no other.
CollectsAllExpired ==
    [][GetTimeOutElements => collected' = {key \in Known : Expired(key)}]_vars
=============================================================================
