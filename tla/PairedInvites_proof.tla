------------------------- MODULE PairedInvites_proof -------------------------
(***************************************************************************)
(* Proofs about PairedInvites: type correctness, that no invite the queue  *)
(* took in is lost, and that the queue and its drain implement the safety  *)
(* part of InviteServer.                                                   *)
(***************************************************************************)
EXTENDS PairedInvites, WellFoundedInduction, TLAPS

\* A set of positions that is not empty has a least one.
LEMMA LeastPosition ==
    ASSUME NEW I, I \subseteq Nat, I # {}
    PROVE  Min(I) \in I
<1>1. PICK x \in I : \A y \in I : <<y, x>> \notin OpToRel(<, Nat)
  BY NatLessThanWellFounded, WFMin, Zenon
<1>2. ASSUME NEW y \in I, y < x PROVE FALSE
  <2>1. <<y, x>> \in OpToRel(<, Nat)
    <3>1. <<y, x>> \in Nat \X Nat /\ <<y, x>>[1] < <<y, x>>[2]
      BY <1>2
    <3>2. QED
      BY <3>1, Zenon DEF OpToRel
  <2>2. QED
    BY <1>1, <2>1, Zenon
<1>3. \A y \in I : x =< y
  BY <1>2
<1>4. QED
  BY <1>3 DEF Min

\* The drain finds a position of the queue, or none.
LEMMA FirstTrustedPosition ==
    ASSUME queue \in Seq(Invites)
    PROVE  FirstTrusted = 0 \/ FirstTrusted \in DOMAIN queue
<1> DEFINE I == {n \in 1..Len(queue) : ShouldAutoAccept(queue[n])}
<1>1. FirstTrusted = IF I # {} THEN Min(I) ELSE 0
  BY DEF FirstTrusted, SelectInSeq
<1>2. CASE I = {}
  BY <1>1, <1>2
<1>3. CASE I # {}
  <2>1. I \subseteq Nat
    OBVIOUS
  <2>2. Min(I) \in I
    BY <1>3, <2>1, LeastPosition
  <2>3. QED
    BY <1>1, <1>3, <2>2
<1>4. QED
  BY <1>2, <1>3

\* An invite is added at the end of the line, once and while there is room.
Joins(i) ==
    /\ i \notin ToSet(queue) /\ Len(queue) < QueueLimit
    /\ queue' = Append(queue, i)

\* Routing leaves the queue alone or lets the invite join it, and schedules the
\* effect in the second case.
LEMMA RouteEffect ==
    ASSUME InvitesTypeOK, NEW i \in Invites, NEW ls, Route(i, ls)
    PROVE  /\ queue' = queue \/ Joins(i)
           /\ drainDue' = (drainDue \/ queue' # queue)
           /\ {dialog', nearbyDialog', strange'} \subseteq Invites \cup {NoInvite}
<1>1. /\ queue' = queue \/ Joins(i)
      /\ drainDue' = (drainDue \/ queue' # queue)
      /\ dialog' \in {dialog, i}
  <2>1. CASE "dialog" \notin ls
    <3>1. UNCHANGED <<queue, drainDue, dialog>>
      BY <2>1 DEF Route
    <3>2. QED
      BY <3>1 DEF InvitesTypeOK
  <2>2. CASE "dialog" \in ls
    <3>1. RouteDialog(i)
      BY <2>2 DEF Route
    <3>2. queue' = queue \/ queue' = Enqueue(queue, i)
      BY <3>1 DEF RouteDialog
    <3>3. queue' = queue \/ Joins(i)
      BY <3>2, InvitesAssumption DEF Enqueue, Joins, InvitesTypeOK
    <3>4. QED
      BY <3>1, <3>3 DEF RouteDialog
  <2>3. QED
    BY <2>1, <2>2
<1>2. nearbyDialog' \in {nearbyDialog, i}
  BY DEF Route, RouteNearby
<1>3. strange' \in {strange, i, NoInvite}
  BY DEF Route, RouteBanner
<1>4. QED
  BY <1>1, <1>2, <1>3 DEF InvitesTypeOK

\* The loop stops, drops the whole line, or takes one invite out of it; it never
\* hands an invite to a receiver that refuses it.
DrainHalts == busySeen /\ queue' = queue /\ drain' = NoInvite
DrainDrops == ~busySeen /\ queue' = <<>> /\ drain' = NoInvite
DrainServes(k) ==
    ~busySeen /\ queue' = SubSeq(queue, k + 1, Len(queue)) /\ drain' = queue[k]

\* The drain loop halts, drops what nobody trusts, or serves one trusted invite.
LEMMA DrainLoopEffect ==
    ASSUME InvitesTypeOK, NEW b \in BOOLEAN, DrainLoop(b)
    PROVE  /\ busy' \in BOOLEAN /\ refused' = refused
           /\ DrainHalts \/ DrainDrops \/ \E k \in DOMAIN queue : DrainServes(k)
<1>1. CASE busySeen
  BY <1>1 DEF DrainLoop, DrainStop, DrainHalts
<1>2. CASE ~busySeen /\ (queue = <<>> \/ FirstTrusted = 0)
  BY <1>2 DEF DrainLoop, DrainStop, DrainDrops
<1>3. CASE ~busySeen /\ ~(queue = <<>> \/ FirstTrusted = 0)
  <2>1. FirstTrusted \in DOMAIN queue
    BY <1>3, FirstTrustedPosition DEF InvitesTypeOK
  <2>2. DrainTake(FirstTrusted, b)
    BY <1>3 DEF DrainLoop
  <2>3. busy' \in BOOLEAN /\ refused' = refused /\ DrainServes(FirstTrusted)
    BY <1>3, <2>2 DEF DrainTake, DrainServes
  <2>4. QED
    BY <2>1, <2>3
<1>4. QED
  BY <1>1, <1>2, <1>3

\* What is left of a line is a line, and the invite taken out of it an invite.
LEMMA RestOfLine ==
    ASSUME queue \in Seq(Invites), Len(queue) =< QueueLimit, NEW k \in DOMAIN queue
    PROVE  /\ SubSeq(queue, k + 1, Len(queue)) \in Seq(Invites)
           /\ Len(SubSeq(queue, k + 1, Len(queue))) =< QueueLimit
           /\ queue[k] \in Invites
<1>1. k \in 1..Len(queue) /\ Len(queue) \in Nat
  OBVIOUS
<1>2. \A n \in (k + 1)..Len(queue) : queue[n] \in Invites
  BY <1>1
<1>3. SubSeq(queue, k + 1, Len(queue)) \in Seq(Invites)
  BY <1>1, <1>2
<1>4. Len(SubSeq(queue, k + 1, Len(queue))) = Len(queue) - k
  BY <1>1
<1>5. QED
  BY <1>1, <1>3, <1>4, InvitesAssumption

\* Type correctness: routing, dialogs, the receiver's flag and the drain keep
\* their types; in particular the queue stays within AUTO_ACCEPT_QUEUE_LIMIT.
THEOREM TypeCorrect == InvitesSpec => []InvitesTypeOK
<1>1. InvitesInit => InvitesTypeOK
  <2> SUFFICES ASSUME InvitesInit PROVE InvitesTypeOK
    OBVIOUS
  <2>1. undecided \in [Invites -> SUBSET Listening]
    BY DEF InvitesInit
  <2>2. paired \subseteq Invites /\ trusted \subseteq Invites
    BY DEF InvitesInit
  <2>3. queue \in Seq(Invites) /\ Len(queue) =< QueueLimit
    BY InvitesAssumption DEF InvitesInit
  <2>4. QED
    BY <2>1, <2>2, <2>3 DEF InvitesInit, InvitesTypeOK
<1>2. InvitesTypeOK /\ [InvitesNext]_invitesVars => InvitesTypeOK'
  <2> SUFFICES ASSUME InvitesTypeOK, [InvitesNext]_invitesVars PROVE InvitesTypeOK'
    OBVIOUS
  <2>0. ASSUME NEW i \in Invites, NEW ls, Route(i, ls)
        PROVE  /\ queue' \in Seq(Invites) /\ Len(queue') =< QueueLimit
               /\ drainDue' \in BOOLEAN
               /\ dialog' \in Invites \cup {NoInvite}
               /\ nearbyDialog' \in Invites \cup {NoInvite}
               /\ strange' \in Invites \cup {NoInvite}
    <3>1. queue' = queue \/ Joins(i)
      BY <2>0, RouteEffect
    <3>2. queue' \in Seq(Invites) /\ Len(queue') =< QueueLimit
      BY <3>1, InvitesAssumption DEF Joins, InvitesTypeOK
    <3>3. QED
      BY <2>0, <3>2, RouteEffect
  <2>1. ASSUME NEW i \in Invites, OnPairedInvite(i)
        PROVE  InvitesTypeOK'
    <3>1. CASE hydrated
      <4>1. Route(i, Listening) /\ UNCHANGED undecided
        BY <2>1, <3>1 DEF OnPairedInvite
      <4>2. QED
        BY <2>0, <2>1, <4>1 DEF OnPairedInvite, InvitesTypeOK
    <3>2. CASE ~hydrated
      BY <2>1, <3>2 DEF OnPairedInvite, InvitesTypeOK
    <3>3. QED
      BY <3>1, <3>2
  <2>2. ASSUME NEW i \in Invites, NEW l \in Listening, HydrationWaitEnds(i, l)
        PROVE  InvitesTypeOK'
    <3>1. Route(i, {l})
      BY <2>2 DEF HydrationWaitEnds, InvitesTypeOK
    <3>2. undecided' \in [Invites -> SUBSET Listening]
      BY <2>2 DEF HydrationWaitEnds, InvitesTypeOK
    <3>3. QED
      BY <2>0, <2>2, <3>1, <3>2 DEF HydrationWaitEnds, InvitesTypeOK
  <2>3. ASSUME NEW i \in Invites, SetTrusted(i) \/ Unpair(i)
        PROVE  InvitesTypeOK'
    BY <2>3 DEF SetTrusted, Unpair, dialogVars, queueVars, InvitesTypeOK
  <2>4. CASE Hydrate
    <3>1. hydrated' \in BOOLEAN /\ listed' \in BOOLEAN
      BY <2>4 DEF Hydrate, ListArrives, NodeNotReady, LoadFails, InvitesTypeOK
    <3>2. QED
      BY <2>4, <3>1 DEF Hydrate, dialogVars, queueVars, InvitesTypeOK
  <2>5. CASE CommitBusy \/ ReceiveByTicket \/ SessionChanges
    BY <2>5 DEF CommitBusy, ReceiveByTicket, SessionChanges, Publish, routeVars,
                dialogVars, InvitesTypeOK
  <2>6. CASE DialogAccept \/ NearbyAccept
    BY <2>6 DEF DialogAccept, NearbyAccept, Publish, routeVars, InvitesTypeOK
  <2>7. CASE DialogDecline
    BY <2>7 DEF DialogDecline, routeVars, queueVars, InvitesTypeOK
  <2>8. ASSUME NEW b \in BOOLEAN, DrainLoop(b)
        PROVE  /\ queue' \in Seq(Invites) /\ Len(queue') =< QueueLimit
               /\ drain' \in Invites \cup {NoInvite}
               /\ busy' \in BOOLEAN /\ refused' = refused
    <3>1. ASSUME DrainHalts \/ DrainDrops
          PROVE  queue' \in Seq(Invites) /\ Len(queue') =< QueueLimit /\ drain' = NoInvite
      <4>1. CASE DrainHalts
        BY <4>1 DEF DrainHalts, InvitesTypeOK
      <4>2. CASE DrainDrops
        <5>1. queue' = <<>> /\ drain' = NoInvite
          BY <4>2 DEF DrainDrops
        <5>2. <<>> \in Seq(Invites) /\ Len(<<>>) =< QueueLimit
          BY InvitesAssumption
        <5>3. QED
          BY <5>1, <5>2
      <4>3. QED
        BY <3>1, <4>1, <4>2
    <3>2. ASSUME NEW k \in DOMAIN queue, DrainServes(k)
          PROVE  queue' \in Seq(Invites) /\ Len(queue') =< QueueLimit /\ drain' \in Invites
      BY <3>2, RestOfLine DEF DrainServes, InvitesTypeOK
    <3>3. busy' \in BOOLEAN /\ refused' = refused
      BY <2>8, DrainLoopEffect
    <3>4. DrainHalts \/ DrainDrops \/ \E k \in DOMAIN queue : DrainServes(k)
      BY <2>8, DrainLoopEffect
    <3>5. QED
      BY <3>1, <3>2, <3>3, <3>4
  <2>9. CASE DrainEffect
    <3>1. CASE drain # NoInvite \/ busySeen
      BY <2>9, <3>1 DEF DrainEffect, routeVars, dialogVars, InvitesTypeOK
    <3>2. CASE ~(drain # NoInvite \/ busySeen)
      <4>1. DrainLoop(busy) /\ busy \in BOOLEAN
        BY <2>9, <3>2 DEF DrainEffect, InvitesTypeOK
      <4>2. QED
        BY <2>8, <2>9, <4>1 DEF DrainEffect, routeVars, dialogVars, InvitesTypeOK
    <3>3. QED
      BY <3>1, <3>2
  <2>10. ASSUME NEW failed \in BOOLEAN, DrainedReceiveEnds(failed)
         PROVE  InvitesTypeOK'
    <3>1. DrainLoop(busy /\ ~failed) /\ (busy /\ ~failed) \in BOOLEAN
      BY <2>10 DEF DrainedReceiveEnds, InvitesTypeOK
    <3>2. QED
      BY <2>8, <2>10, <3>1 DEF DrainedReceiveEnds, routeVars, dialogVars, InvitesTypeOK
  <2>11. CASE UNCHANGED invitesVars
    BY <2>11 DEF invitesVars, routeVars, dialogVars, queueVars, InvitesTypeOK
  <2>12. QED
    BY <2>1, <2>2, <2>3, <2>4, <2>5, <2>6, <2>7, <2>9, <2>10, <2>11 DEF InvitesNext
<1>3. QED
  BY <1>1, <1>2, PTL DEF InvitesSpec

\* Nothing the queue took in is lost, for any number of invites and any queue
\* limit: while invites wait, a drain is running, the receiver is busy or the
\* effect is scheduled, and the drain never answers "accepted" for an invite
\* that the receiver then turns away (useAutoAcceptQueue).
THEOREM NothingIsLost == InvitesSpec => []NoInviteLost
<1> USE DEF NoInviteLost, NoStrandedInvites, AcceptedInviteStarts
<1>1. InvitesInit => NoInviteLost
  BY DEF InvitesInit
<1>2. InvitesTypeOK /\ NoInviteLost /\ [InvitesNext]_invitesVars => NoInviteLost'
  <2> SUFFICES ASSUME InvitesTypeOK, NoInviteLost, [InvitesNext]_invitesVars
               PROVE  NoInviteLost'
    OBVIOUS
  <2>1. ASSUME NEW i \in Invites, OnPairedInvite(i)
        PROVE  NoInviteLost'
    <3>1. drainDue' = (drainDue \/ queue' # queue)
      <4>1. CASE hydrated
        BY <2>1, <4>1, RouteEffect DEF OnPairedInvite
      <4>2. CASE ~hydrated
        BY <2>1, <4>2 DEF OnPairedInvite, InvitesTypeOK
      <4>3. QED
        BY <4>1, <4>2
    <3>2. QED
      BY <2>1, <3>1 DEF OnPairedInvite
  <2>2. ASSUME NEW i \in Invites, NEW l \in Listening, HydrationWaitEnds(i, l)
        PROVE  NoInviteLost'
    <3>1. Route(i, {l})
      BY <2>2 DEF HydrationWaitEnds, InvitesTypeOK
    <3>2. drainDue' = (drainDue \/ queue' # queue)
      BY <3>1, RouteEffect
    <3>3. QED
      BY <2>2, <3>2 DEF HydrationWaitEnds
  <2>3. ASSUME NEW i \in Invites, SetTrusted(i) \/ Unpair(i)
        PROVE  NoInviteLost'
    BY <2>3 DEF SetTrusted, Unpair, queueVars
  <2>4. CASE Hydrate
    BY <2>4 DEF Hydrate, queueVars
  <2>5. CASE CommitBusy \/ ReceiveByTicket \/ SessionChanges
    BY <2>5 DEF CommitBusy, ReceiveByTicket, SessionChanges, Publish, InvitesTypeOK
  <2>6. CASE DialogAccept \/ NearbyAccept
    BY <2>6 DEF DialogAccept, NearbyAccept, Publish, InvitesTypeOK
  <2>7. CASE DialogDecline
    BY <2>7 DEF DialogDecline, queueVars
  <2>8. ASSUME NEW b \in BOOLEAN, DrainLoop(b), UNCHANGED busySeen
        PROVE  NoInviteLost'
    <3>1. CASE DrainHalts \/ DrainDrops
      BY <2>8, <3>1, DrainLoopEffect DEF DrainHalts, DrainDrops
    <3>2. ASSUME NEW k \in DOMAIN queue, DrainServes(k)
          PROVE  drain' # NoInvite
      BY <3>2, RestOfLine, InvitesAssumption DEF DrainServes, InvitesTypeOK
    <3>3. refused' = refused
      BY <2>8, DrainLoopEffect
    <3>4. DrainHalts \/ DrainDrops \/ \E k \in DOMAIN queue : DrainServes(k)
      BY <2>8, DrainLoopEffect
    <3>5. QED
      BY <3>1, <3>2, <3>3, <3>4
  <2>9. CASE DrainEffect
    <3>1. CASE drain # NoInvite \/ busySeen
      BY <2>9, <3>1 DEF DrainEffect
    <3>2. CASE ~(drain # NoInvite \/ busySeen)
      BY <2>8, <2>9, <3>2 DEF DrainEffect, InvitesTypeOK
    <3>3. QED
      BY <3>1, <3>2
  <2>10. ASSUME NEW failed \in BOOLEAN, DrainedReceiveEnds(failed)
         PROVE  NoInviteLost'
    <3>1. /\ DrainLoop(busy /\ ~failed) /\ (busy /\ ~failed) \in BOOLEAN
          /\ UNCHANGED busySeen
      BY <2>10 DEF DrainedReceiveEnds, InvitesTypeOK
    <3>2. QED
      BY <2>8, <3>1
  <2>11. CASE UNCHANGED invitesVars
    BY <2>11 DEF invitesVars, queueVars
  <2>12. QED
    BY <2>1, <2>2, <2>3, <2>4, <2>5, <2>6, <2>7, <2>9, <2>10, <2>11 DEF InvitesNext
<1>3. QED
  BY <1>1, <1>2, TypeCorrect, PTL DEF InvitesSpec

-----------------------------------------------------------------------------
\* The safety part of ServesInvites.
ServesInOrder == Server!Init /\ [][Server!Next]_Server!vars

\* Every step of the detailed queue is a step of InviteServer or leaves its
\* variables alone: joining is Arrive; the drain effect is Serve or Discard; the
\* end of a receive is Finish, FinishAndServe or Discard; a change of the
\* published flag is Occupy.
LEMMA StepServes ==
    ASSUME InvitesTypeOK, [InvitesNext]_invitesVars
    PROVE  [Server!Next]_Server!vars
<1> USE DEF Server!Next, Server!vars
<1>0. ASSUME NEW i \in Invites, queue' = queue \/ Joins(i), UNCHANGED <<drain, busySeen>>
      PROVE  [Server!Next]_Server!vars
  BY <1>0 DEF Joins, Server!Arrive, ToSet, Server!ToSet
<1>1. ASSUME NEW i \in Invites, OnPairedInvite(i)
      PROVE  [Server!Next]_Server!vars
  <2>1. queue' = queue \/ Joins(i)
    <3>1. CASE hydrated
      BY <1>1, <3>1, RouteEffect DEF OnPairedInvite
    <3>2. CASE ~hydrated
      BY <1>1, <3>2 DEF OnPairedInvite
    <3>3. QED
      BY <3>1, <3>2
  <2>2. QED
    BY <1>0, <1>1, <2>1 DEF OnPairedInvite
<1>2. ASSUME NEW i \in Invites, NEW l \in Listening, HydrationWaitEnds(i, l)
      PROVE  [Server!Next]_Server!vars
  <2>1. Route(i, {l})
    BY <1>2 DEF HydrationWaitEnds, InvitesTypeOK
  <2>2. queue' = queue \/ Joins(i)
    BY <2>1, RouteEffect
  <2>3. QED
    BY <1>0, <1>2, <2>2 DEF HydrationWaitEnds
<1>3. ASSUME NEW i \in Invites, SetTrusted(i) \/ Unpair(i)
      PROVE  [Server!Next]_Server!vars
  BY <1>3 DEF SetTrusted, Unpair, queueVars
<1>4. CASE Hydrate \/ DialogDecline
  BY <1>4 DEF Hydrate, DialogDecline, queueVars
<1>5. CASE CommitBusy \/ ReceiveByTicket \/ SessionChanges \/ DialogAccept \/ NearbyAccept
  <2>1. UNCHANGED <<queue, drain>> /\ busySeen' \in BOOLEAN
    BY <1>5 DEF CommitBusy, ReceiveByTicket, SessionChanges, DialogAccept,
                NearbyAccept, Publish, InvitesTypeOK
  <2>2. QED
    BY <2>1 DEF Server!Occupy, InvitesTypeOK
<1>6. CASE DrainEffect
  <2>1. CASE drain # NoInvite \/ busySeen
    BY <1>6, <2>1 DEF DrainEffect
  <2>2. CASE drain = NoInvite /\ ~busySeen
    <3>1. DrainLoop(busy) /\ busy \in BOOLEAN /\ UNCHANGED busySeen
      BY <1>6, <2>2 DEF DrainEffect, InvitesTypeOK
    <3>2. DrainDrops \/ \E k \in DOMAIN queue : DrainServes(k)
      BY <2>2, <3>1, DrainLoopEffect DEF DrainHalts
    <3>3. CASE DrainDrops
      BY <2>2, <3>1, <3>3 DEF DrainDrops, Server!Discard
    <3>4. ASSUME NEW k \in DOMAIN queue, DrainServes(k)
          PROVE  Server!Serve(k)
      BY <2>2, <3>1, <3>4 DEF DrainServes, Server!Serve
    <3>5. QED
      BY <3>2, <3>3, <3>4
  <2>3. QED
    BY <2>1, <2>2
<1>7. ASSUME NEW failed \in BOOLEAN, DrainedReceiveEnds(failed)
      PROVE  [Server!Next]_Server!vars
  <2>1. /\ DrainLoop(busy /\ ~failed) /\ (busy /\ ~failed) \in BOOLEAN
        /\ UNCHANGED busySeen /\ drain # NoInvite
    BY <1>7 DEF DrainedReceiveEnds, InvitesTypeOK
  <2>2. DrainHalts \/ DrainDrops \/ \E k \in DOMAIN queue : DrainServes(k)
    BY <2>1, DrainLoopEffect
  <2>3. CASE DrainHalts
    BY <2>1, <2>3 DEF DrainHalts, Server!Finish
  <2>4. CASE DrainDrops
    BY <2>1, <2>4 DEF DrainDrops, Server!Finish, Server!Discard
  <2>5. ASSUME NEW k \in DOMAIN queue, DrainServes(k)
        PROVE  Server!FinishAndServe(k)
    BY <2>1, <2>5 DEF DrainServes, Server!FinishAndServe
  <2>6. QED
    BY <2>2, <2>3, <2>4, <2>5
<1>8. CASE UNCHANGED invitesVars
  BY <1>8 DEF invitesVars, queueVars
<1>9. QED
  BY <1>1, <1>2, <1>3, <1>4, <1>5, <1>6, <1>7, <1>8 DEF InvitesNext

\* The queue and its drain implement InviteServer: for any number of invites and
\* any queue limit they serve invites one at a time, in order and without
\* duplicates, and start none while the receiver is published as busy
\* (useAutoAcceptQueue, enqueueInvite).
THEOREM QueueServesInOrder == InvitesSpec => ServesInOrder
<1>1. InvitesInit => Server!Init
  BY DEF InvitesInit, Server!Init
<1>2. InvitesTypeOK /\ [InvitesNext]_invitesVars => [Server!Next]_Server!vars
  BY StepServes
<1>3. QED
  BY <1>1, <1>2, TypeCorrect, PTL DEF InvitesSpec, ServesInOrder

-----------------------------------------------------------------------------
\* A listener takes an invite for a stranger's only if it does not find the
\* sender in the device list it has.
Misroutes(i) ==
    \/ nearbyDialog' = i /\ nearbyDialog # i
    \/ strange' = i /\ strange # i

\* Only the invite being routed can be misrouted, and only if its sender is not known.
LEMMA RouteMisroutes ==
    ASSUME NEW i \in Invites, NEW j \in Invites, NEW ls, Route(j, ls),
           Misroutes(i)
    PROVE  i = j /\ ~Known(j)
<1>1. ASSUME nearbyDialog' = i, nearbyDialog # i
      PROVE  i = j /\ ~Known(j)
  BY <1>1 DEF Route, RouteNearby
<1>2. ASSUME strange' = i, strange # i
      PROVE  i = j /\ ~Known(j)
  <2>1. strange' # NoInvite
    BY <1>2, InvitesAssumption
  <2>2. strange' = IF NotificationKind(j) = "nearby" THEN j ELSE NoInvite
    BY <2>1 DEF Route, RouteBanner
  <2>3. NotificationKind(j) = "nearby" /\ strange' = j
    BY <2>1, <2>2
  <2>4. QED
    BY <1>2, <2>3 DEF NotificationKind
<1>3. QED
  BY <1>1, <1>2 DEF Misroutes

\* "Callers that route on devices must await this, or a paired sender gets
\* misrouted" (pairing-data-store): for any number of invites, an invite of a
\* device that is paired is shown as a stranger's only while the page holds no
\* device list, and only by a listener that waited for one in vain or after a
\* hydration that ended without one (node not ready, first load failed).
THEOREM PairedIsNotAStranger == InvitesSpec => PairedNeverNearby
<1> DEFINE Awaited ==
      \A i \in paired \cap paired' : Misroutes(i) => ~listed /\ (hydrated \/ undecided[i] # {})
<1>1. InvitesTypeOK /\ [InvitesNext]_invitesVars => [Awaited]_invitesVars
  <2> SUFFICES ASSUME InvitesTypeOK, InvitesNext,
                      NEW i \in paired \cap paired', Misroutes(i)
               PROVE  ~listed /\ (hydrated \/ undecided[i] # {})
    OBVIOUS
  <2>0. i \in Invites /\ i \in paired
    BY DEF InvitesTypeOK
  <2>1. ASSUME NEW j \in Invites, OnPairedInvite(j)
        PROVE  ~listed /\ (hydrated \/ undecided[i] # {})
    <3>1. CASE hydrated
      <4>1. Route(j, Listening)
        BY <2>1, <3>1 DEF OnPairedInvite
      <4>2. i = j /\ ~Known(j)
        BY <2>0, <4>1, RouteMisroutes
      <4>3. QED
        BY <2>0, <3>1, <4>2 DEF Known
    <3>2. CASE ~hydrated
      BY <2>1, <3>2 DEF OnPairedInvite, Misroutes
    <3>3. QED
      BY <3>1, <3>2
  <2>2. ASSUME NEW j \in Invites, NEW l \in Listening, HydrationWaitEnds(j, l)
        PROVE  ~listed /\ (hydrated \/ undecided[i] # {})
    <3>1. Route(j, {l}) /\ l \in undecided[j]
      BY <2>2 DEF HydrationWaitEnds, InvitesTypeOK
    <3>2. i = j /\ ~Known(j)
      BY <2>0, <3>1, RouteMisroutes
    <3>3. QED
      BY <2>0, <3>1, <3>2 DEF Known
  <2>3. ASSUME UNCHANGED <<nearbyDialog, strange>>
        PROVE  FALSE
    BY <2>3 DEF Misroutes
  <2>4. ASSUME NEW j \in Invites, SetTrusted(j) \/ Unpair(j)
        PROVE  FALSE
    BY <2>3, <2>4 DEF SetTrusted, Unpair, dialogVars
  <2>5. CASE Hydrate \/ CommitBusy \/ ReceiveByTicket \/ SessionChanges \/ DialogAccept
    BY <2>3, <2>5 DEF Hydrate, CommitBusy, ReceiveByTicket, SessionChanges,
                      DialogAccept, dialogVars
  <2>6. CASE NearbyAccept \/ DialogDecline
    <3>1. nearbyDialog' \in {nearbyDialog, NoInvite} /\ UNCHANGED strange
      BY <2>6 DEF NearbyAccept, DialogDecline
    <3>2. QED
      BY <2>0, <3>1, InvitesAssumption DEF Misroutes
  <2>7. CASE DrainEffect \/ \E failed \in BOOLEAN : DrainedReceiveEnds(failed)
    BY <2>3, <2>7 DEF DrainEffect, DrainedReceiveEnds, dialogVars
  <2>8. QED
    BY <2>1, <2>2, <2>4, <2>5, <2>6, <2>7 DEF InvitesNext
<1>2. [][Awaited]_invitesVars => PairedNeverNearby
  BY PTL DEF PairedNeverNearby, Misroutes
<1>3. QED
  BY <1>1, <1>2, TypeCorrect, PTL DEF InvitesSpec
=============================================================================
