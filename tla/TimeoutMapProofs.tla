--------------------------- MODULE TimeoutMapProofs ---------------------------
(***************************************************************************)
(* The list of TimeoutMap is a list of its keys, in order of time if the   *)
(* clock is never set back; then GetTimeOutElements returns the expired    *)
(* keys, all of them and no other.                                         *)
(***************************************************************************)
EXTENDS TimeoutMap, FiniteSetTheorems, TLAPS

\* f gives each of its keys a place of its own, from the back to the front
Listing(f) ==
    /\ IsFiniteSet(DOMAIN f)
    /\ f \in [DOMAIN f -> 1..Cardinality(DOMAIN f)]
    /\ \A p \in 1..Cardinality(DOMAIN f) : \E k \in DOMAIN f : f[k] = p
    /\ \A k, l \in DOMAIN f : f[k] = f[l] => k = l

\* no key was updated in the future
StampsPast == \A k \in Known : stamp[k] <= clock

ListInv == MapTypeOK /\ ListMatchesMap

TimeInv == ListInv /\ StampsPast /\ NewestFirst

LEMMA KnownFinite ==
    ASSUME MapTypeOK
    PROVE  IsFiniteSet(Known) /\ Size \in Nat
<1>1. IsFiniteSet(Known)
  BY MapAssumption, FS_Subset DEF MapTypeOK
<1> QED BY <1>1, FS_CardinalityType DEF Size

LEMMA ListingOfMap == ListInv => Listing(place)
BY KnownFinite DEF ListInv, MapTypeOK, ListMatchesMap, Listing, Known, Size

\* Taking a key out leaves a listing of the others, in the order they had.
LEMMA ClosedListing ==
    ASSUME NEW f, NEW key \in DOMAIN f, Listing(f)
    PROVE  /\ Listing(Closed(f, key))
           /\ DOMAIN Closed(f, key) = DOMAIN f \ {key}
           /\ \A k, l \in DOMAIN f \ {key} :
                 Closed(f, key)[k] < Closed(f, key)[l] => f[k] < f[l]
<1> DEFINE g == Closed(f, key)
           size == Cardinality(DOMAIN f)
<1>1. DOMAIN g = DOMAIN f \ {key}
  BY DEF Closed
<1>2. \A k \in DOMAIN f \ {key} :
        g[k] = IF f[k] > f[key] THEN f[k] - 1 ELSE f[k]
  BY DEF Closed
<1>3. /\ IsFiniteSet(DOMAIN f \ {key})
      /\ Cardinality(DOMAIN f \ {key}) = size - 1
      /\ size \in Nat
  BY FS_RemoveElement, FS_CardinalityType DEF Listing
<1>4. /\ \A k \in DOMAIN f : f[k] \in 1..size
      /\ \A p \in 1..size : \E k \in DOMAIN f : f[k] = p
      /\ \A k, l \in DOMAIN f : f[k] = f[l] => k = l
  BY DEF Listing
<1> HIDE DEF g, size
<1>5. \A k \in DOMAIN f \ {key} : g[k] \in 1..(size - 1)
  <2> SUFFICES ASSUME NEW k \in DOMAIN f \ {key}
               PROVE  g[k] \in 1..(size - 1)
    OBVIOUS
  <2>1. f[k] \in 1..size /\ f[key] \in 1..size /\ f[k] # f[key]
    BY <1>4
  <2> QED BY <1>2, <1>3, <2>1
<1>6. \A p \in 1..(size - 1) : \E k \in DOMAIN f \ {key} : g[k] = p
  <2> SUFFICES ASSUME NEW p \in 1..(size - 1)
               PROVE  \E k \in DOMAIN f \ {key} : g[k] = p
    OBVIOUS
  <2>1. p \in 1..size /\ p + 1 \in 1..size /\ f[key] \in 1..size
    BY <1>3, <1>4
  <2>2. CASE p < f[key]
    <3>1. PICK k \in DOMAIN f : f[k] = p
      BY <1>4, <2>1
    <3> QED BY <1>2, <2>1, <2>2, <3>1
  <2>3. CASE ~(p < f[key])
    <3>1. PICK k \in DOMAIN f : f[k] = p + 1
      BY <1>4, <2>1
    <3>2. k # key
      BY <2>1, <2>3, <3>1
    <3> QED BY <1>2, <2>1, <2>3, <3>1, <3>2
  <2> QED BY <2>2, <2>3
<1>7. ASSUME NEW k \in DOMAIN f \ {key}, NEW l \in DOMAIN f \ {key}
      PROVE  /\ g[k] < g[l] => f[k] < f[l]
             /\ g[k] = g[l] => k = l
  <2>1. /\ f[k] \in 1..size /\ f[l] \in 1..size /\ f[key] \in 1..size
        /\ f[k] # f[key] /\ f[l] # f[key]
    BY <1>4
  <2>2. g[k] < g[l] => f[k] < f[l]
    BY <1>2, <1>3, <2>1
  <2>3. g[k] = g[l] => f[k] = f[l]
    BY <1>2, <1>3, <2>1
  <2> QED BY <1>4, <2>2, <2>3
<1>8. g \in [DOMAIN f \ {key} -> 1..(size - 1)]
  BY <1>5 DEF g, Closed
<1>9. Listing(g)
  BY <1>1, <1>3, <1>6, <1>7, <1>8 DEF Listing
<1> QED BY <1>1, <1>7, <1>9 DEF g

\* A key that is put in front comes after all others, whose order stays.
LEMMA FrontListing ==
    ASSUME NEW f, NEW key, Listing(f)
    PROVE  /\ Listing(Front(f, key))
           /\ DOMAIN Front(f, key) = DOMAIN f \union {key}
           /\ \A k \in DOMAIN f \ {key} : Front(f, key)[k] < Front(f, key)[key]
           /\ \A k, l \in DOMAIN f \ {key} :
                 Front(f, key)[k] < Front(f, key)[l] => f[k] < f[l]
<1> DEFINE rest == IF key \in DOMAIN f THEN Closed(f, key) ELSE f
           g == Front(f, key)
           size == Cardinality(DOMAIN rest)
<1>1. /\ Listing(rest)
      /\ DOMAIN rest = DOMAIN f \ {key}
      /\ \A k, l \in DOMAIN f \ {key} : rest[k] < rest[l] => f[k] < f[l]
  <2>1. CASE key \in DOMAIN f
    BY <2>1, ClosedListing
  <2>2. CASE key \notin DOMAIN f
    BY <2>2
  <2> QED BY <2>1, <2>2
<1>2. /\ g = [k \in DOMAIN f \union {key} |->
                IF k = key THEN size + 1 ELSE rest[k]]
  BY DEF Front
<1> HIDE DEF rest, g
<1>3. /\ IsFiniteSet(DOMAIN f \union {key})
      /\ Cardinality(DOMAIN f \union {key}) = size + 1
      /\ size \in Nat
  <2>1. IsFiniteSet(DOMAIN rest) /\ key \notin DOMAIN rest
    BY <1>1 DEF Listing
  <2>2. DOMAIN f \union {key} = DOMAIN rest \union {key}
    BY <1>1
  <2> QED BY <2>1, <2>2, FS_AddElement, FS_CardinalityType
<1>4. /\ \A k \in DOMAIN rest : rest[k] \in 1..size
      /\ \A p \in 1..size : \E k \in DOMAIN rest : rest[k] = p
      /\ \A k, l \in DOMAIN rest : rest[k] = rest[l] => k = l
  BY <1>1 DEF Listing
<1> HIDE DEF size
<1>5. /\ DOMAIN g = DOMAIN f \union {key}
      /\ g[key] = size + 1
      /\ \A k \in DOMAIN f \ {key} : g[k] = rest[k] /\ g[k] \in 1..size
  BY <1>1, <1>2, <1>4
<1>6. \A k \in DOMAIN g : g[k] \in 1..(size + 1)
  BY <1>3, <1>5
<1>7. \A p \in 1..(size + 1) : \E k \in DOMAIN g : g[k] = p
  <2> SUFFICES ASSUME NEW p \in 1..(size + 1)
               PROVE  \E k \in DOMAIN g : g[k] = p
    OBVIOUS
  <2>1. p \in 1..size \/ p = size + 1
    BY <1>3
  <2>2. CASE p \in 1..size
    BY <1>1, <1>4, <1>5, <2>2
  <2>3. CASE p = size + 1
    BY <1>5, <2>3
  <2> QED BY <2>1, <2>2, <2>3
<1>8. \A k \in DOMAIN f \ {key} : g[k] < g[key]
  BY <1>3, <1>5
<1>9. \A k, l \in DOMAIN g : g[k] = g[l] => k = l
  <2>1. \A k \in DOMAIN f \ {key} : g[k] # g[key]
    BY <1>3, <1>5
  <2> QED BY <1>1, <1>4, <1>5, <2>1
<1>10. Listing(g)
  BY <1>2, <1>3, <1>5, <1>6, <1>7, <1>9 DEF Listing
<1> QED BY <1>1, <1>5, <1>8, <1>10 DEF g

-------------------------------------------------------------------------------
LEMMA AddInv ==
    ASSUME ListInv, NEW key \in Keys, Add(key)
    PROVE  /\ ListInv'
           /\ StampsPast /\ NewestFirst => StampsPast' /\ NewestFirst'
<1>1. /\ place' = Front(place, key)
      /\ stamp' = [k \in Known \union {key} |->
                      IF k = key THEN clock ELSE stamp[k]]
      /\ clock' = clock /\ collected' = collected
  BY DEF Add
<1>2. /\ Known \subseteq Keys /\ stamp \in [Known -> Int]
      /\ clock \in Int /\ collected \subseteq Keys
  BY DEF ListInv, MapTypeOK
<1>3. /\ Listing(place')
      /\ DOMAIN place' = Known \union {key}
      /\ \A k \in Known \ {key} : place'[k] < place'[key]
      /\ \A k, l \in Known \ {key} : place'[k] < place'[l] => place[k] < place[l]
  BY <1>1, ListingOfMap, FrontListing DEF Known
<1>4. Known' = Known \union {key}
  BY <1>3 DEF Known
<1>5. stamp' \in [Known' -> Int] /\ Known' \subseteq Keys
  BY <1>1, <1>2, <1>4
<1>6. ListInv'
  BY <1>1, <1>2, <1>3, <1>5 DEF Listing, ListInv, MapTypeOK, ListMatchesMap,
                                Known, Size
<1>7. /\ stamp'[key] = clock
      /\ \A k \in Known \ {key} : stamp'[k] = stamp[k]
  BY <1>1
<1>8. ASSUME StampsPast, NewestFirst
      PROVE  StampsPast' /\ NewestFirst'
  <2>1. StampsPast'
    BY <1>1, <1>2, <1>4, <1>7, <1>8 DEF StampsPast
  <2>2. ASSUME NEW k \in Known \union {key}, NEW l \in Known \union {key},
               place'[k] < place'[l]
        PROVE  stamp'[k] <= stamp'[l]
    <3>1. CASE l = key
      BY <1>1, <1>4, <1>7, <2>1, <3>1 DEF StampsPast
    <3>2. CASE l # key
      <4>1. k # key
        <5>1. /\ place'[l] \in Nat /\ place'[key] \in Nat
          BY <1>3, <3>2 DEF Listing
        <5> QED BY <1>3, <2>2, <3>2, <5>1
      <4> QED BY <1>3, <1>7, <1>8, <2>2, <3>2, <4>1 DEF NewestFirst
    <3> QED BY <3>1, <3>2
  <2> QED BY <1>4, <2>1, <2>2 DEF NewestFirst
<1> QED BY <1>6, <1>8

LEMMA RemoveInv ==
    ASSUME ListInv, NEW key \in Keys, Remove(key)
    PROVE  /\ ListInv'
           /\ StampsPast /\ NewestFirst => StampsPast' /\ NewestFirst'
<1>1. /\ key \in Known
      /\ place' = Closed(place, key)
      /\ stamp' = [k \in Known \ {key} |-> stamp[k]]
      /\ clock' = clock /\ collected' = collected
  BY DEF Remove
<1>2. /\ Known \subseteq Keys /\ stamp \in [Known -> Int]
      /\ clock \in Int /\ collected \subseteq Keys
  BY DEF ListInv, MapTypeOK
<1>3. /\ Listing(place')
      /\ DOMAIN place' = Known \ {key}
      /\ \A k, l \in Known \ {key} : place'[k] < place'[l] => place[k] < place[l]
  BY <1>1, ListingOfMap, ClosedListing DEF Known
<1>4. Known' = Known \ {key}
  BY <1>3 DEF Known
<1>5. stamp' \in [Known' -> Int] /\ Known' \subseteq Keys
  BY <1>1, <1>2, <1>4
<1>6. ListInv'
  BY <1>1, <1>2, <1>3, <1>5 DEF Listing, ListInv, MapTypeOK, ListMatchesMap,
                                Known, Size
<1>7. \A k \in Known \ {key} : stamp'[k] = stamp[k]
  BY <1>1
<1> QED BY <1>1, <1>3, <1>4, <1>6, <1>7 DEF StampsPast, NewestFirst

\* A clock that is never set back.
LEMMA ClockInv ==
    ASSUME ListInv, NEW t \in 0..MaxClock, SetClock(t)
    PROVE  /\ ListInv'
           /\ ~Backward /\ StampsPast /\ NewestFirst => StampsPast' /\ NewestFirst'
<1>1. /\ clock' = t /\ UNCHANGED <<place, stamp, collected>>
      /\ Backward \/ t > clock
  BY DEF SetClock
<1>2. /\ clock \in Int /\ t \in Int /\ \A k \in Known : stamp[k] \in Int
      /\ DOMAIN stamp = Known
  BY MapAssumption DEF ListInv, MapTypeOK
<1>3. ListInv'
  BY <1>1, <1>2 DEF ListInv, MapTypeOK, ListMatchesMap, Known, Size
<1>4. ~Backward /\ StampsPast => StampsPast'
  BY <1>1, <1>2 DEF StampsPast, Known
<1>5. NewestFirst => NewestFirst'
  BY <1>1 DEF NewestFirst, Known
<1> QED BY <1>3, <1>4, <1>5

LEMMA InitInv == Init => TimeInv
<1> SUFFICES ASSUME Init PROVE TimeInv
  OBVIOUS
<1>1. Known = {} /\ DOMAIN stamp = {} /\ Size = 0
  BY FS_EmptySet DEF Init, Known, Size
<1> QED BY <1>1 DEF Init, TimeInv, ListInv, MapTypeOK, ListMatchesMap,
                    StampsPast, NewestFirst

LEMMA StepInv ==
    ListInv /\ [Next]_vars =>
        /\ ListInv'
        /\ ~Backward /\ StampsPast /\ NewestFirst => StampsPast' /\ NewestFirst'
<1> SUFFICES ASSUME ListInv, [Next]_vars
             PROVE  /\ ListInv'
                    /\ ~Backward /\ StampsPast /\ NewestFirst
                            => StampsPast' /\ NewestFirst'
  OBVIOUS
<1>1. ASSUME NEW key \in Keys, Add(key) \/ Update(key)
      PROVE  /\ ListInv'
             /\ StampsPast /\ NewestFirst => StampsPast' /\ NewestFirst'
  BY <1>1, AddInv DEF Update
<1>2. CASE GetTimeOutElements
  <2>1. UNCHANGED <<place, stamp, clock>> /\ collected' \subseteq Known
    BY <1>2 DEF GetTimeOutElements
  <2> QED BY <2>1 DEF ListInv, MapTypeOK, ListMatchesMap, StampsPast, NewestFirst,
                      Known, Size
<1>3. CASE UNCHANGED vars
  BY <1>3 DEF vars, ListInv, MapTypeOK, ListMatchesMap, StampsPast, NewestFirst,
              Known, Size
<1> QED BY <1>1, <1>2, <1>3, RemoveInv, ClockInv DEF Next

-------------------------------------------------------------------------------
\* The list holds each key of the map once, whatever the clock does:
\* timeout_map.cpp:16-18, 39-40.
THEOREM ListAgrees == Spec => []ListMatchesMap
<1>1. Init => ListInv
  BY InitInv DEF TimeInv
<1>2. ListInv /\ [Next]_vars => ListInv'
  BY StepInv
<1>3. ListInv => ListMatchesMap
  BY DEF ListInv
<1> QED BY <1>1, <1>2, <1>3, PTL DEF Spec

\* The invariant behind the order of the list, for a clock never set back.
THEOREM TimeInvariant ==
    ASSUME ~Backward
    PROVE  Spec => []TimeInv
<1>1. Init => TimeInv
  BY InitInv
<1>2. TimeInv /\ [Next]_vars => TimeInv'
  BY StepInv DEF TimeInv
<1> QED BY <1>1, <1>2, PTL DEF Spec

\* Then the list is in order of time: what the comment at timeout_map.cpp:50
\* says.
THEOREM InOrderOfTime ==
    ASSUME ~Backward
    PROVE  Spec => []NewestFirst
<1>1. TimeInv => NewestFirst
  BY DEF TimeInv
<1> QED BY <1>1, TimeInvariant, PTL

\* And the walk that stops at the first recent key finds all expired keys
\* and no other: timeout_map.cpp:46-65.
THEOREM AllExpiredFound ==
    ASSUME ~Backward
    PROVE  Spec => CollectsAllExpired
<1>1. TimeInv /\ [Next]_vars =>
        [GetTimeOutElements => collected' = {key \in Known : Expired(key)}]_vars
  <2> SUFFICES ASSUME TimeInv, GetTimeOutElements
               PROVE  collected' = {key \in Known : Expired(key)}
    OBVIOUS
  <2>1. ASSUME NEW key \in Known
        PROVE  Collectable(key) <=> Expired(key)
    <3>1. \A k \in Known : /\ place[k] \in Nat /\ stamp[k] \in Int
                           /\ place[k] = place[key] => k = key
      BY DEF TimeInv, ListInv, MapTypeOK, ListMatchesMap
    <3>2. clock \in Int /\ Limit \in Int
      BY MapAssumption DEF TimeInv, ListInv, MapTypeOK
    <3>3. Collectable(key) => Expired(key)
      BY <3>1 DEF Collectable
    <3>4. ASSUME Expired(key), NEW k \in Known, place[k] <= place[key]
          PROVE  Expired(k)
      <4>1. stamp[k] <= stamp[key]
        BY <3>1, <3>4 DEF TimeInv, NewestFirst
      <4> QED BY <3>1, <3>2, <3>4, <4>1 DEF Expired
    <3> QED BY <3>3, <3>4 DEF Collectable
  <2> QED BY <2>1 DEF GetTimeOutElements
<1> QED BY <1>1, TimeInvariant, PTL DEF Spec, CollectsAllExpired
===============================================================================
