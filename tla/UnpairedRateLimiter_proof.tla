---------------------- MODULE UnpairedRateLimiter_proof ----------------------
(***************************************************************************)
(* The rate limiter keeps its promises for every number of peers, every    *)
(* burst, every refill interval and every cap on the table.                *)
(***************************************************************************)
EXTENDS UnpairedRateLimiter, FiniteSetTheorems, TLAPS

-----------------------------------------------------------------------------
\* ARITHMETIC

\* Multiplying by the refill interval distributes over a sum.
LEMMA Distributes ==
    ASSUME NEW a \in Nat, NEW b \in Nat, NEW c \in Nat
    PROVE  (a + b) * c = a * c + b * c /\ a * c \in Nat
BY SMT

\* Multiplying by the refill interval keeps the order.
LEMMA Monotone ==
    ASSUME NEW a \in Nat, NEW b \in Nat, NEW c \in Nat, a <= b
    PROVE  a * c <= b * c
<1>1. PICK d \in Nat : b = a + d
  <2>1. b - a \in Nat /\ b = a + (b - a)  OBVIOUS
  <2>. QED  BY <2>1
<1>2. b * c = a * c + d * c /\ d * c \in Nat /\ a * c \in Nat
  BY <1>1, Distributes
<1>. QED  BY <1>2

\* The integer division of elapsed milliseconds by the interval rounds down.
LEMMA Division ==
    ASSUME NEW e \in Nat, NEW i \in Nat \ {0}
    PROVE  /\ e \div i \in Nat
           /\ i * (e \div i) \in Nat
           /\ (e \div i) * i = i * (e \div i)
           /\ i * (e \div i) <= e
           /\ e < i * (e \div i) + i
BY SMT

-----------------------------------------------------------------------------
\* TYPE CORRECTNESS

\* The bucket allow() charges: the refilled one or a fresh one.
Bucket(p) == IF p \in tracked THEN Refilled(p) ELSE FreshBucket

\* A refilled bucket is no fuller than the burst, no emptier than before, and
\* its refill time has not run ahead of the clock.
LEMMA RefilledType ==
    ASSUME TypeOK, NEW p \in Peers
    PROVE  /\ Refills(p) \in Nat
           /\ Refilled(p).level \in 0 .. Burst
           /\ Refilled(p).level >= tokens[p]
           /\ Refilled(p).at \in 0 .. now
<1>1. lastRefill[p] \in 0 .. now /\ tokens[p] \in 0 .. Burst /\ now \in Nat
  BY DEF TypeOK
<1>2. now - lastRefill[p] \in Nat  BY <1>1
<1>3. /\ Refills(p) \in Nat
      /\ RefillInterval * Refills(p) \in Nat
      /\ RefillInterval * Refills(p) <= now - lastRefill[p]
  BY <1>2, Division, LimitsAssumption DEF Refills
<1>4. /\ Refilled(p).level = Capped(tokens[p] + Refills(p))
      /\ Refilled(p).at = lastRefill[p] + RefillInterval * Refills(p)
  BY DEF Refilled
<1>5. /\ Capped(tokens[p] + Refills(p)) \in 0 .. Burst
      /\ Capped(tokens[p] + Refills(p)) >= tokens[p]
  BY <1>1, <1>3, LimitsAssumption DEF Capped
<1>. QED  BY <1>1, <1>3, <1>4, <1>5

\* The same of the bucket that is charged, fresh or found.
LEMMA BucketType ==
    ASSUME TypeOK, NEW p \in Peers
    PROVE  Bucket(p).level \in 0 .. Burst /\ Bucket(p).at \in 0 .. now
<1>1. FreshBucket.level = Burst /\ FreshBucket.at = now  BY DEF FreshBucket
<1>. QED  BY <1>1, RefilledType, LimitsAssumption DEF Bucket, TypeOK

\* allow() for a peer with a bucket or with room for one, in terms of Bucket.
LEMMA ChargeEffect ==
    ASSUME TypeOK, NEW p \in Peers, AllowCharge(p)
    PROVE  \E taken \in {0, 1} :
             /\ Bucket(p).level - taken \in 0 .. Burst
             /\ taken = 0 => Bucket(p).level = 0
             /\ p \in tracked \/ ~AtCap(Room(p))
             /\ tracked' = Room(p) \cup {p}
             /\ tokens' = [tokens EXCEPT ![p] = Bucket(p).level - taken]
             /\ lastRefill' = [lastRefill EXCEPT ![p] = Bucket(p).at]
             /\ granted' = [granted EXCEPT ![p] = @ + taken]
             /\ now' = now /\ mark' = mark
<1>. DEFINE taken == IF Bucket(p).level > 0 THEN 1 ELSE 0
<1>1. /\ taken \in {0, 1} /\ Bucket(p).level - taken \in 0 .. Burst
      /\ taken = 0 => Bucket(p).level = 0
  BY BucketType, LimitsAssumption
<1>2. /\ p \in tracked \/ ~AtCap(Room(p))
      /\ tracked' = Room(p) \cup {p}
      /\ tokens' = [tokens EXCEPT ![p] = Bucket(p).level - taken]
      /\ lastRefill' = [lastRefill EXCEPT ![p] = Bucket(p).at]
      /\ granted' = [granted EXCEPT ![p] = @ + taken]
      /\ now' = now /\ mark' = mark
  BY DEF AllowCharge, Bucket
<1>. HIDE DEF taken
<1>. QED  BY <1>1, <1>2

\* Pruning only removes buckets, and only full ones.
LEMMA RoomShrinks ==
    ASSUME NEW p \in Peers
    PROVE  /\ Room(p) \subseteq tracked
           /\ p \in tracked => Room(p) = tracked
           /\ \A q \in tracked \ Room(p) : ~(tokens[q] + Refills(q) < Burst)
BY DEF Room, Prune

\* Every step keeps the types.
LEMMA TypeStep == TypeOK /\ [Next]_vars => TypeOK'
<1>. SUFFICES ASSUME TypeOK, [Next]_vars PROVE TypeOK'  OBVIOUS
<1>1. ASSUME NEW p \in Peers, AllowNoRoom(p) PROVE TypeOK'
  BY <1>1, RoomShrinks DEF TypeOK, AllowNoRoom
<1>2. ASSUME NEW p \in Peers, AllowCharge(p) PROVE TypeOK'
  <2>1. PICK taken \in {0, 1} :
             /\ Bucket(p).level - taken \in 0 .. Burst
             /\ tracked' = Room(p) \cup {p}
             /\ tokens' = [tokens EXCEPT ![p] = Bucket(p).level - taken]
             /\ lastRefill' = [lastRefill EXCEPT ![p] = Bucket(p).at]
             /\ granted' = [granted EXCEPT ![p] = @ + taken]
             /\ now' = now /\ mark' = mark
    BY <1>2, ChargeEffect
  <2>. QED  BY <2>1, RoomShrinks, BucketType DEF TypeOK
<1>3. CASE Tick  BY <1>3 DEF TypeOK, Tick
<1>4. CASE OpenWindow  BY <1>4 DEF TypeOK, OpenWindow
<1>5. CASE UNCHANGED vars  BY <1>5 DEF TypeOK, vars
<1>. QED  BY <1>1, <1>2, <1>3, <1>4, <1>5 DEF Next

\* Every bucket stays between empty and the burst, and no refill time runs
\* ahead of the clock, so the subtractions of allow() never go below zero.
THEOREM TypeCorrect == Spec => []TypeOK
<1>1. Init => TypeOK  BY LimitsAssumption DEF Init, TypeOK
<1>. QED  BY <1>1, TypeStep, PTL DEF Spec

-----------------------------------------------------------------------------
\* THE TABLE IS BOUNDED

\* Every step keeps the table within its bound.
LEMMA BoundStep ==
    ASSUME TypeOK, BoundedTable, [Next]_vars PROVE BoundedTable'
<1>1. IsFiniteSet(tracked) /\ Cardinality(tracked) \in Nat
  BY PeersAssumption, FS_Subset, FS_CardinalityType DEF TypeOK
<1>2. ASSUME NEW p \in Peers
      PROVE  /\ IsFiniteSet(Room(p)) /\ Cardinality(Room(p)) \in Nat
             /\ Cardinality(Room(p)) <= Cardinality(tracked)
  BY <1>1, RoomShrinks, FS_Subset, FS_CardinalityType
<1>3. ASSUME NEW p \in Peers, AllowNoRoom(p) PROVE BoundedTable'
  BY <1>1, <1>2, <1>3, LimitsAssumption DEF AllowNoRoom, BoundedTable
<1>4. ASSUME NEW p \in Peers, AllowCharge(p) PROVE BoundedTable'
  <2>1. tracked' = Room(p) \cup {p} /\ (p \in tracked \/ ~AtCap(Room(p)))
    BY <1>4 DEF AllowCharge
  <2>2. CASE p \in tracked
    <3>1. tracked' = tracked  BY <2>1, <2>2, RoomShrinks
    <3>. QED  BY <3>1 DEF BoundedTable
  <2>3. CASE p \notin tracked
    <3>1. p \notin Room(p)  BY <2>3, RoomShrinks
    <3>2. Cardinality(Room(p) \cup {p}) = Cardinality(Room(p)) + 1
      BY <3>1, <1>2, FS_AddElement
    <3>. QED
      BY <3>2, <2>1, <2>3, <1>2, LimitsAssumption DEF AtCap, BoundedTable
  <2>. QED  BY <2>2, <2>3
<1>5. CASE Tick  BY <1>5 DEF Tick, BoundedTable
<1>6. CASE OpenWindow  BY <1>6 DEF OpenWindow, BoundedTable
<1>7. CASE UNCHANGED vars  BY <1>7 DEF vars, BoundedTable
<1>. QED  BY <1>3, <1>4, <1>5, <1>6, <1>7 DEF Next

\* allow() never lets the map grow past MAX_TRACKED_PEERS buckets.
THEOREM TableIsBounded == Spec => []BoundedTable
<1>1. Init => BoundedTable
  BY FS_EmptySet, LimitsAssumption DEF Init, BoundedTable
<1>2. TypeOK /\ BoundedTable /\ [Next]_vars => BoundedTable'
  BY BoundStep
<1>. QED  BY <1>1, <1>2, TypeCorrect, PTL DEF Spec

-----------------------------------------------------------------------------
\* A FIRST CONTACT FITS IN THE BURST

\* Every step keeps the first contacts within the limit.
LEMMA FirstContactStep ==
    ASSUME TypeOK, FirstContactFits, [Next]_vars PROVE FirstContactFits'
<1>1. ASSUME NEW p \in Peers, AllowNoRoom(p) PROVE FirstContactFits'
  BY <1>1, RoomShrinks DEF AllowNoRoom, FirstContactFits
<1>2. ASSUME NEW p \in Peers, AllowCharge(p) PROVE FirstContactFits'
  <2>1. PICK taken \in {0, 1} :
             /\ Bucket(p).level - taken \in 0 .. Burst
             /\ tracked' = Room(p) \cup {p}
             /\ tokens' = [tokens EXCEPT ![p] = Bucket(p).level - taken]
             /\ granted' = [granted EXCEPT ![p] = @ + taken]
             /\ mark' = mark
    BY <1>2, ChargeEffect
  <2>. SUFFICES ASSUME mark = 0, NEW q \in tracked'
                PROVE  tokens'[q] + granted'[q] >= Burst
    BY <2>1 DEF FirstContactFits
  <2>2. q \in Peers /\ (q # p => q \in tracked)
    BY <2>1, RoomShrinks DEF TypeOK
  <2>3. CASE q # p
    BY <2>1, <2>2, <2>3 DEF FirstContactFits, TypeOK
  <2>4. CASE q = p
    <3>1. /\ tokens'[p] = Bucket(p).level - taken
          /\ granted'[p] = granted[p] + taken
          /\ Bucket(p).level \in Nat /\ granted[p] \in Nat
          /\ tokens[p] \in Nat /\ Burst \in Nat
      BY <2>1, BucketType, LimitsAssumption DEF TypeOK
    <3>2. Bucket(p).level + granted[p] >= Burst
      <4>1. CASE p \in tracked
        <5>1. tokens[p] + granted[p] >= Burst
          BY <4>1 DEF FirstContactFits
        <5>2. Bucket(p).level >= tokens[p]
          BY <4>1, RefilledType DEF Bucket
        <5>. QED  BY <5>1, <5>2, <3>1
      <4>2. CASE p \notin tracked
        BY <4>2, <3>1 DEF Bucket, FreshBucket
      <4>. QED  BY <4>1, <4>2
    <3>. QED  BY <3>1, <3>2, <2>4
  <2>. QED  BY <2>3, <2>4
<1>3. CASE Tick  BY <1>3 DEF Tick, FirstContactFits
<1>4. CASE OpenWindow  BY <1>4 DEF OpenWindow, FirstContactFits, TypeOK
<1>5. CASE UNCHANGED vars  BY <1>5 DEF vars, FirstContactFits
<1>. QED  BY <1>1, <1>2, <1>3, <1>4, <1>5 DEF Next

\* A peer that was granted fewer messages than the burst has a token left,
\* whatever other peers do to the table.
THEOREM FirstContactIsServed == Spec => []FirstContactFits
<1>1. Init => FirstContactFits  BY DEF Init, FirstContactFits
<1>2. TypeOK /\ FirstContactFits /\ [Next]_vars => FirstContactFits'
  BY FirstContactStep
<1>. QED  BY <1>1, <1>2, TypeCorrect, PTL DEF Spec

-----------------------------------------------------------------------------
\* THE RATE IS BOUNDED

\* Milliseconds' worth of n tokens.
Worth(n) == n * RefillInterval

\* What a peer could still be granted at once, in milliseconds of refill, plus
\* what it was granted, is covered by one burst, one started interval and the
\* time since the window opened; a peer granted less than the time alone pays
\* for needs no such account.
Covered(p) ==
    \/ Worth(granted[p]) <= now - mark
    \/ /\ p \in tracked
       /\ Worth(granted[p]) + Worth(tokens[p]) + (now - lastRefill[p])
            < Worth(Burst) + RefillInterval + (now - mark)
    \/ /\ p \notin tracked
       /\ Worth(granted[p]) < RefillInterval + (now - mark)

Account == \A p \in Peers : Covered(p)

\* Worth turns sums of tokens into sums of milliseconds and keeps the order.
LEMMA WorthType == ASSUME NEW n \in Nat PROVE Worth(n) \in Nat
BY LimitsAssumption, Distributes DEF Worth

\* What a number of refills is worth is additive.
LEMMA WorthSum ==
    ASSUME NEW n \in Nat, NEW k \in Nat
    PROVE  Worth(n + k) = Worth(n) + Worth(k)
BY LimitsAssumption, Distributes DEF Worth

\* What a number of refills is worth grows with the number.
LEMMA WorthOrder ==
    ASSUME NEW n \in Nat, NEW k \in Nat, n <= k
    PROVE  Worth(n) <= Worth(k)
BY LimitsAssumption, Monotone DEF Worth

\* The whole refills of a bucket are worth its idle time, rounded down.
LEMMA RefillsWorth ==
    ASSUME TypeOK, NEW p \in Peers
    PROVE  /\ Refills(p) \in Nat
           /\ RefillInterval * Refills(p) = Worth(Refills(p))
           /\ Worth(Refills(p)) <= now - lastRefill[p]
           /\ now - lastRefill[p] < Worth(Refills(p)) + RefillInterval
<1>1. now - lastRefill[p] \in Nat  BY DEF TypeOK
<1>. QED  BY <1>1, Division, LimitsAssumption DEF Refills, Worth

\* The types of the quantities of an account.
LEMMA AccountTypes ==
    ASSUME TypeOK, NEW p \in Peers
    PROVE  /\ now - mark \in Nat /\ now - lastRefill[p] \in Nat
           /\ granted[p] \in Nat /\ tokens[p] \in 0 .. Burst
           /\ Worth(granted[p]) \in Nat /\ Worth(tokens[p]) \in Nat
           /\ Worth(Burst) \in Nat /\ Worth(tokens[p]) <= Worth(Burst)
           /\ Burst \in Nat /\ RefillInterval \in Nat \ {0}
<1>1. /\ now - mark \in Nat /\ now - lastRefill[p] \in Nat
      /\ granted[p] \in Nat /\ tokens[p] \in 0 .. Burst
      /\ Burst \in Nat /\ RefillInterval \in Nat \ {0}
  BY LimitsAssumption DEF TypeOK
<1>2. Worth(granted[p]) \in Nat  BY <1>1, WorthType
<1>3. Worth(tokens[p]) \in Nat  BY <1>1, WorthType
<1>4. Worth(Burst) \in Nat  BY <1>1, WorthType
<1>5. Worth(tokens[p]) <= Worth(Burst)  BY <1>1, WorthOrder
<1>. QED  BY <1>1, <1>2, <1>3, <1>4, <1>5

\* A pruned bucket held a full burst: a peer that comes back to a fresh bucket
\* has not gained by it.
LEMMA PrunedIsCovered ==
    ASSUME TypeOK, NEW p \in tracked, Covered(p),
           ~(tokens[p] + Refills(p) < Burst)
    PROVE  Worth(granted[p]) < RefillInterval + (now - mark)
<1>1. p \in Peers  BY DEF TypeOK
<1>2. Worth(Burst) <= Worth(tokens[p]) + Worth(Refills(p))
  <2>1. tokens[p] \in Nat /\ Refills(p) \in Nat /\ Burst \in Nat
    BY <1>1, AccountTypes, RefillsWorth
  <2>2. tokens[p] + Refills(p) \in Nat /\ Burst <= tokens[p] + Refills(p)
    BY <2>1
  <2>3. Worth(Burst) <= Worth(tokens[p] + Refills(p))
    BY <2>1, <2>2, WorthOrder
  <2>. QED  BY <2>1, <2>3, WorthSum
<1>3. Worth(Burst) <= Worth(tokens[p]) + (now - lastRefill[p])
  <2>1. Worth(Refills(p)) \in Nat  BY <1>1, RefillsWorth, WorthType
  <2>. QED  BY <1>1, <1>2, <2>1, AccountTypes, RefillsWorth
<1>. QED  BY <1>1, <1>3, AccountTypes DEF Covered

\* The charged bucket, before the token is taken, is covered as a tracked one.
LEMMA BucketIsCovered ==
    ASSUME TypeOK, NEW p \in Peers, Covered(p)
    PROVE  Worth(granted[p]) + Worth(Bucket(p).level) + (now - Bucket(p).at)
             < Worth(Burst) + RefillInterval + (now - mark)
<1>1. CASE p \notin tracked
  <2>1. Bucket(p).level = Burst /\ Bucket(p).at = now
    BY <1>1 DEF Bucket, FreshBucket
  <2>2. Worth(granted[p]) < RefillInterval + (now - mark)
    BY <1>1, AccountTypes DEF Covered
  <2>3. now \in Nat /\ now - Bucket(p).at = 0  BY <2>1 DEF TypeOK
  <2>. QED  BY <2>1, <2>2, <2>3, AccountTypes
<1>2. CASE p \in tracked
  <2>. DEFINE w == Worth(Refills(p))
              idle == now - lastRefill[p]
  <2>1. /\ Bucket(p).level = Capped(tokens[p] + Refills(p))
        /\ Bucket(p).at = lastRefill[p] + w
    BY <1>2, RefillsWorth DEF Bucket, Refilled
  <2>2. /\ w \in Nat /\ w <= idle /\ idle < w + RefillInterval
        /\ now - Bucket(p).at = idle - w
    <3>1. lastRefill[p] \in Nat /\ now \in Nat  BY DEF TypeOK
    <3>2. w \in Nat  BY RefillsWorth, WorthType
    <3>. QED  BY <3>1, <3>2, <2>1, RefillsWorth
  <2>3. /\ Worth(Bucket(p).level) \in Nat
        /\ Worth(Bucket(p).level) <= Worth(Burst)
        /\ Worth(Bucket(p).level) <= Worth(tokens[p]) + w
    <3>1. /\ Bucket(p).level \in Nat /\ Bucket(p).level <= Burst
          /\ Bucket(p).level <= tokens[p] + Refills(p)
      BY <2>1, AccountTypes, RefillsWorth DEF Capped
    <3>2. tokens[p] \in Nat /\ Refills(p) \in Nat /\ Burst \in Nat
      BY AccountTypes, RefillsWorth
    <3>3. Worth(Bucket(p).level) \in Nat  BY <3>1, WorthType
    <3>4. Worth(Bucket(p).level) <= Worth(Burst)  BY <3>1, <3>2, WorthOrder
    <3>5. Worth(Bucket(p).level) <= Worth(tokens[p] + Refills(p))
      BY <3>1, <3>2, WorthOrder
    <3>. QED  BY <3>2, <3>3, <3>4, <3>5, WorthSum
  <2>4. \/ Worth(granted[p]) <= now - mark
        \/ Worth(granted[p]) + Worth(tokens[p]) + idle
             < Worth(Burst) + RefillInterval + (now - mark)
    BY <1>2 DEF Covered
  <2>5. idle \in Nat  BY AccountTypes
  <2>. HIDE DEF w, idle
  <2>. QED  BY <2>2, <2>3, <2>4, <2>5, AccountTypes
<1>. QED  BY <1>1, <1>2

\* Every step keeps each bucket's account covered.
LEMMA AccountStep ==
    ASSUME TypeOK, TypeOK', Account, [Next]_vars PROVE Account'
<1>. SUFFICES ASSUME NEW q \in Peers PROVE Covered(q)'
  BY DEF Account
<1>1. Covered(q)  BY DEF Account
<1>2. ASSUME NEW p \in Peers, AllowNoRoom(p) PROVE Covered(q)'
  <2>1. /\ tracked' = Room(p)
        /\ UNCHANGED <<now, tokens, lastRefill, mark, granted>>
    BY <1>2 DEF AllowNoRoom
  <2>2. CASE q \in tracked \ Room(p)
    <3>1. Worth(granted[q]) < RefillInterval + (now - mark)
      BY <1>1, <2>2, RoomShrinks, PrunedIsCovered
    <3>. QED  BY <2>1, <2>2, <3>1 DEF Covered, Worth
  <2>3. CASE q \notin tracked \ Room(p)
    <3>1. q \in tracked' <=> q \in tracked  BY <2>1, <2>3, RoomShrinks
    <3>. QED  BY <1>1, <2>1, <3>1 DEF Covered, Worth
  <2>. QED  BY <2>2, <2>3
<1>3. ASSUME NEW p \in Peers, AllowCharge(p) PROVE Covered(q)'
  <2>1. PICK taken \in {0, 1} :
             /\ Bucket(p).level - taken \in 0 .. Burst
             /\ tracked' = Room(p) \cup {p}
             /\ tokens' = [tokens EXCEPT ![p] = Bucket(p).level - taken]
             /\ lastRefill' = [lastRefill EXCEPT ![p] = Bucket(p).at]
             /\ granted' = [granted EXCEPT ![p] = @ + taken]
             /\ now' = now /\ mark' = mark
    BY <1>3, ChargeEffect
  <2>2. CASE q = p
    <3>1. /\ tokens'[p] = Bucket(p).level - taken
          /\ lastRefill'[p] = Bucket(p).at
          /\ granted'[p] = granted[p] + taken
          /\ p \in tracked'
      BY <2>1 DEF TypeOK
    <3>2. /\ Bucket(p).level = tokens'[p] + taken /\ tokens'[p] \in Nat
          /\ granted[p] \in Nat /\ taken \in Nat
      BY <2>1, <3>1, BucketType, AccountTypes
    <3>3. /\ Worth(granted'[p]) = Worth(granted[p]) + Worth(taken)
          /\ Worth(Bucket(p).level) = Worth(tokens'[p]) + Worth(taken)
          /\ Worth(tokens'[p]) \in Nat /\ Worth(taken) \in Nat
          /\ Worth(granted[p]) \in Nat
      <4>1. Worth(granted'[p]) = Worth(granted[p]) + Worth(taken)
        BY <3>1, <3>2, WorthSum
      <4>2. Worth(Bucket(p).level) = Worth(tokens'[p]) + Worth(taken)
        BY <3>2, WorthSum
      <4>3. /\ Worth(tokens'[p]) \in Nat /\ Worth(taken) \in Nat
            /\ Worth(granted[p]) \in Nat
        BY <3>2, WorthType
      <4>4. QED
        BY <4>1, <4>2, <4>3
    <3>4. Worth(granted'[p]) + Worth(tokens'[p])
            = Worth(granted[p]) + Worth(Bucket(p).level)
      BY <3>3
    <3>5. Worth(granted'[p]) + Worth(tokens'[p]) + (now' - lastRefill'[p])
            < Worth(Burst) + RefillInterval + (now' - mark')
      BY <1>1, <2>1, <2>2, <3>1, <3>4, BucketIsCovered
    <3>. QED  BY <2>2, <3>1, <3>5 DEF Covered, Worth
  <2>3. CASE q # p /\ q \in tracked \ Room(p)
    <3>1. Worth(granted[q]) < RefillInterval + (now - mark)
      BY <1>1, <2>3, RoomShrinks, PrunedIsCovered
    <3>2. q \notin tracked' /\ granted'[q] = granted[q]
      BY <2>1, <2>3 DEF TypeOK
    <3>. QED  BY <2>1, <3>1, <3>2 DEF Covered, Worth
  <2>4. CASE q # p /\ q \notin tracked \ Room(p)
    <3>1. /\ q \in tracked' <=> q \in tracked
          /\ granted'[q] = granted[q] /\ tokens'[q] = tokens[q]
          /\ lastRefill'[q] = lastRefill[q]
      BY <2>1, <2>4, RoomShrinks DEF TypeOK
    <3>. QED  BY <1>1, <2>1, <3>1 DEF Covered, Worth
  <2>. QED  BY <2>2, <2>3, <2>4
<1>4. CASE Tick
  <2>1. /\ now' - mark' = (now - mark) + 1
        /\ now' - lastRefill'[q] = (now - lastRefill[q]) + 1
        /\ tracked' = tracked
        /\ Worth(granted[q])' = Worth(granted[q])
        /\ Worth(tokens[q])' = Worth(tokens[q])
        /\ Worth(Burst)' = Worth(Burst)
    BY <1>4 DEF Tick, TypeOK, Worth
  <2>. QED  BY <1>1, <2>1, AccountTypes DEF Covered
<1>5. CASE OpenWindow
  <2>1. now' - mark' = 0 /\ granted'[q] = 0
    BY <1>5 DEF OpenWindow, TypeOK
  <2>2. 0 * RefillInterval = 0  BY LimitsAssumption
  <2>. QED  BY <2>1, <2>2 DEF Covered, Worth
<1>6. CASE UNCHANGED vars  BY <1>1, <1>6 DEF vars, Covered, Worth
<1>. QED  BY <1>2, <1>3, <1>4, <1>5, <1>6 DEF Next

\* The account implies the bound on what is granted in a window.
LEMMA AccountBounds == TypeOK /\ Account => WindowBound
<1>. SUFFICES ASSUME TypeOK, Account, NEW p \in Peers
              PROVE  Worth(granted[p]) < (Burst + 1) * RefillInterval + (now - mark)
  BY DEF WindowBound, Worth
<1>1. (Burst + 1) * RefillInterval = Worth(Burst) + RefillInterval
  <2>1. (Burst + 1) * RefillInterval = Burst * RefillInterval + 1 * RefillInterval
    BY LimitsAssumption, Distributes
  <2>. QED  BY <2>1, LimitsAssumption DEF Worth
<1>2. Covered(p)  BY DEF Account
<1>3. Worth(granted[p]) < Worth(Burst) + RefillInterval + (now - mark)
  BY <1>2, AccountTypes DEF Covered
<1>. QED  BY <1>1, <1>3

\* In any stretch of time a peer is granted at most the burst and one message
\* per started interval, however its bucket is pruned and made anew.
THEOREM RateIsBounded == Spec => []WindowBound
<1>1. Init => Account
  <2>1. 0 * RefillInterval = 0  BY LimitsAssumption
  <2>. QED  BY <2>1 DEF Init, Account, Covered, Worth
<1>2. TypeOK /\ TypeOK' /\ Account /\ [Next]_vars => Account'
  BY AccountStep
<1>. QED  BY <1>1, <1>2, AccountBounds, TypeCorrect, PTL DEF Spec

\* allow() keeps its three promises together, for any burst, interval, cap and
\* set of peers.
THEOREM LimiterIsSafe == Spec => []LimiterBounds
<1>1. WindowBound /\ FirstContactFits /\ BoundedTable => LimiterBounds
  BY DEF LimiterBounds
<1>. QED  BY <1>1, RateIsBounded, FirstContactIsServed, TableIsBounded, PTL
=============================================================================
