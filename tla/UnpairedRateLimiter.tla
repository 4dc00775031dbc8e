------------------------ MODULE UnpairedRateLimiter ------------------------
(***************************************************************************)
(* The token buckets of engine/native/src/rate_limit.rs that throttle the  *)
(* control messages of unpaired peers: one bucket per endpoint id, a cap   *)
(* on the number of buckets, and pruning of full buckets at the cap.       *)
(* handle_control_session calls allow() under a mutex with the current     *)
(* time, once per message of an unpaired peer, so a call is one step.      *)
(*                                                                         *)
(* Time is counted in milliseconds.  The u32 width of a refill count is    *)
(* not modelled: it takes 2^32 intervals of two seconds to reach it.       *)
(***************************************************************************)
EXTENDS Naturals, FiniteSets

CONSTANTS
    Peers,             \* endpoint ids of unpaired peers, in lower case
    Burst,             \* UNPAIRED_BURST
    RefillInterval,    \* UNPAIRED_REFILL_INTERVAL
    MaxTrackedPeers,   \* MAX_TRACKED_PEERS
    MaxTime            \* bound: the clock stops here

ASSUME PeersAssumption == IsFiniteSet(Peers)
ASSUME LimitsAssumption == /\ Burst \in Nat
                           /\ RefillInterval \in Nat \ {0}
                           /\ MaxTrackedPeers \in Nat
                           /\ MaxTime \in Nat

VARIABLES
    now,          \* Instant::now()
    tracked,      \* keys of the buckets map
    tokens,       \* Bucket.tokens of each tracked peer
    lastRefill,   \* Bucket.last_refill of each tracked peer
    mark,         \* observer: start of the window that is being counted
    granted       \* observer: calls granted to each peer since mark

vars == <<now, tracked, tokens, lastRefill, mark, granted>>

TypeOK ==
    /\ now \in Nat
    /\ tracked \in SUBSET Peers
    /\ tokens \in [Peers -> 0 .. Burst]
    /\ lastRefill \in [Peers -> 0 .. now]
    /\ mark \in 0 .. now
    /\ granted \in [Peers -> Nat]

Init ==
    /\ now = 0 /\ tracked = {}
    /\ tokens = [p \in Peers |-> Burst]
    /\ lastRefill = [p \in Peers |-> 0]
    /\ mark = 0 /\ granted = [p \in Peers |-> 0]

-----------------------------------------------------------------------------
\* .min(self.burst)
Capped(n) == IF n > Burst THEN Burst ELSE n

\* Whole intervals since the bucket's last refill.
Refills(p) == (now - lastRefill[p]) \div RefillInterval

\* Mutant: prune keeps only the peers whose bucket is empty.
PruneNonEmpty == {p \in tracked : tokens[p] + Refills(p) = 0}

\* prune: a bucket that has refilled to the burst is dropped.
Prune == {p \in tracked : tokens[p] + Refills(p) < Burst}

AtCap(S) == Cardinality(S) >= MaxTrackedPeers

\* The keys left after allow() made room for p, if it had to.
Room(p) == IF p \notin tracked /\ AtCap(tracked) THEN Prune ELSE tracked

\* allow(): a newcomer is refused when pruning freed no place.
AllowNoRoom(p) ==
    /\ p \notin tracked /\ AtCap(Room(p))
    /\ tracked' = Room(p)
    /\ UNCHANGED <<now, tokens, lastRefill, mark, granted>>

\* The entry or_insert adds for a newcomer, and the refill of the entry found.
FreshBucket == [level |-> Burst, at |-> now]
Refilled(p) == [level |-> Capped(tokens[p] + Refills(p)),
                at    |-> lastRefill[p] + RefillInterval * Refills(p)]

\* allow(): refill, then take a token if there is one.
AllowCharge(p) ==
    LET bucket == IF p \in tracked THEN Refilled(p) ELSE FreshBucket
        taken == IF bucket.level > 0 THEN 1 ELSE 0
    IN  /\ p \in tracked \/ ~AtCap(Room(p))
        /\ tracked' = Room(p) \cup {p}
        /\ tokens' = [tokens EXCEPT ![p] = bucket.level - taken]
        /\ lastRefill' = [lastRefill EXCEPT ![p] = bucket.at]
        /\ granted' = [granted EXCEPT ![p] = @ + taken]
        /\ UNCHANGED <<now, mark>>

Tick ==
    /\ now < MaxTime
    /\ now' = now + 1
    /\ UNCHANGED <<tracked, tokens, lastRefill, mark, granted>>

\* The observer starts to count afresh, at any time.
OpenWindow ==
    /\ mark < now
    /\ mark' = now /\ granted' = [p \in Peers |-> 0]
    /\ UNCHANGED <<now, tracked, tokens, lastRefill>>

Next ==
    \/ \E p \in Peers : AllowNoRoom(p) \/ AllowCharge(p)
    \/ Tick \/ OpenWindow

Spec == Init /\ [][Next]_vars

-----------------------------------------------------------------------------
\* PROPERTIES

\* "one message every two seconds" after the burst: over any stretch of time a
\* peer is granted at most the burst plus one message per started interval,
\* however its bucket is pruned and created anew in between.
WindowBound ==
    \A p \in Peers :
        granted[p] * RefillInterval < (Burst + 1) * RefillInterval + (now - mark)

\* "A legitimate first contact fits in the burst": a peer that has been granted
\* fewer messages than the burst since the start still has a token, whatever
\* the other peers made allow() prune.
FirstContactFits ==
    mark = 0 => \A p \in tracked : tokens[p] + granted[p] >= Burst

\* "new strangers are refused rather than growing it": the map never holds more
\* than MAX_TRACKED_PEERS buckets.
BoundedTable == Cardinality(tracked) <= MaxTrackedPeers

\* What allow() promises: no peer gets more than its rate, none is refused at its
\* first messages, and the table stays within its cap.
LimiterBounds == WindowBound /\ FirstContactFits /\ BoundedTable
=============================================================================
