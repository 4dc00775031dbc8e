--------------------------- MODULE PairedInvites ----------------------------
(***************************************************************************)
(* Invites on the receiving machine: routing by what is known of the       *)
(* sender (DeviceNodeSync, NearbyInviteDialog, useInviteNotifications), the *)
(* dialogs, and the auto-accept queue with its drain (useAutoAcceptQueue). *)
(* Every invite has a device of its own.  The receiver is its busy flag,   *)
(* as set (busy) and as committed and published to others (busySeen).      *)
(***************************************************************************)
EXTENDS Naturals, Sequences, FiniteSets, SequencesExt

CONSTANTS
    Invites,      \* invites, named by their sender
    QueueLimit,   \* AUTO_ACCEPT_QUEUE_LIMIT
    NoInvite

ASSUME InvitesAssumption ==
    NoInvite \notin Invites /\ QueueLimit \in Nat \ {0}

VARIABLES
    paired,       \* senders in the device list of the node
    trusted,      \* senders whose record is active and trusted
    hydrated,     \* hasHydrated: a hydration of the device list has ended
    listed,       \* the page's list is the node's, and not the empty one
    undecided,    \* listeners still waiting for the list, per invite
    dialog,       \* usePairedInviteStore
    nearbyDialog, \* NearbyInviteDialog
    strange,      \* sender that the last routing step announced as nearby
    queue,        \* useAutoAcceptQueueStore
    drain,        \* the invite whose receive the drain awaits
    drainDue,     \* the drain effect is scheduled
    busy, busySeen,
    refused       \* auto-accepted invites that the receiver turned away

routeVars == <<paired, trusted, hydrated, listed, undecided>>
dialogVars == <<dialog, nearbyDialog, strange>>
queueVars == <<queue, drain, drainDue, busy, busySeen, refused>>
invitesVars == <<routeVars, dialogVars, queueVars>>

Listening == {"dialog", "nearby", "banner"}

InvitesTypeOK ==
    /\ paired \subseteq Invites /\ trusted \subseteq Invites
    /\ hydrated \in BOOLEAN /\ listed \in BOOLEAN
    /\ undecided \in [Invites -> SUBSET Listening]
    /\ dialog \in Invites \cup {NoInvite}
    /\ nearbyDialog \in Invites \cup {NoInvite}
    /\ strange \in Invites \cup {NoInvite}
    /\ queue \in Seq(Invites) /\ Len(queue) <= QueueLimit
    /\ drain \in Invites \cup {NoInvite} /\ drainDue \in BOOLEAN
    /\ busy \in BOOLEAN /\ busySeen \in BOOLEAN /\ refused \subseteq Invites

InvitesInit ==
    /\ paired \in SUBSET Invites /\ trusted \in SUBSET paired
    /\ hydrated = FALSE /\ listed = FALSE /\ undecided = [i \in Invites |-> {}]
    /\ dialog = NoInvite /\ nearbyDialog = NoInvite
    /\ strange = NoInvite /\ queue = <<>> /\ drain = NoInvite /\ drainDue = FALSE
    /\ busy = FALSE /\ busySeen = FALSE /\ refused = {}

-----------------------------------------------------------------------------
\* Routing, on the page's device list.
Known(i) == listed /\ i \in paired

\* shouldAutoAccept on the page's list
ShouldAutoAccept(i) == Known(i) /\ i \in trusted

\* Mutant: an invite that is already queued is appended again.
EnqueueTwice(q, i) == IF Len(q) >= QueueLimit THEN q ELSE Append(q, i)

\* enqueueInvite
Enqueue(q, i) ==
    IF i \in ToSet(q) \/ Len(q) >= QueueLimit THEN q ELSE Append(q, i)

\* The listener of DeviceNodeSync: queue, dialog, or none of its business.
RouteDialog(i) ==
    /\ queue' = IF ShouldAutoAccept(i) THEN Enqueue(queue, i) ELSE queue
    /\ drainDue' = (drainDue \/ queue' # queue)
    /\ dialog' = IF Known(i) /\ ~ShouldAutoAccept(i) THEN i ELSE dialog

\* The listener of NearbyInviteDialog.
RouteNearby(i) == nearbyDialog' = IF Known(i) THEN nearbyDialog ELSE i

\* The listener of useInviteNotifications.
NotificationKind(i) ==
    IF ~Known(i) THEN "nearby"
    ELSE IF ShouldAutoAccept(i) THEN "auto" ELSE "paired"

\* sendSystemNotification: shown unless the app is in the foreground, the
\* setting is off or the permission is missing.
RouteBanner(i) ==
    strange' \in {NoInvite, IF NotificationKind(i) = "nearby" THEN i ELSE NoInvite}

\* The listeners in ls decide on invite i.
Route(i, ls) ==
    /\ IF "dialog" \in ls THEN RouteDialog(i)
       ELSE UNCHANGED <<queue, drainDue, dialog>>
    /\ IF "nearby" \in ls THEN RouteNearby(i) ELSE UNCHANGED nearbyDialog
    /\ IF "banner" \in ls THEN RouteBanner(i) ELSE strange' = NoInvite

\* Mutant: the listeners do not wait for the device list.
RouteAtOnce(i) ==
    /\ undecided[i] = {} /\ Route(i, Listening)
    /\ UNCHANGED <<routeVars, drain, busy, busySeen, refused>>

\* paired-invite-received: the three listeners decide at once when a hydration has
\* ended, and otherwise wait for one (pairingDataHydrated).
OnPairedInvite(i) ==
    /\ undecided[i] = {}
    /\ IF hydrated
       THEN Route(i, Listening) /\ UNCHANGED undecided
       ELSE /\ undecided' = [undecided EXCEPT ![i] = Listening]
            /\ UNCHANGED <<queue, drainDue, dialog, nearbyDialog, strange>>
    /\ UNCHANGED <<paired, trusted, hydrated, listed, drain, busy, busySeen,
                   refused>>

\* hydrate, at its first run or at a later one: the list arrives; the node is not
\* ready and the list is emptied; or the load fails and the list is left as it
\* was.  Each way hasHydrated is set.
ListArrives == hydrated' = TRUE /\ listed' = TRUE
NodeNotReady == hydrated' = TRUE /\ listed' = FALSE
LoadFails == hydrated' = TRUE /\ UNCHANGED listed

Hydrate ==
    /\ ListArrives \/ NodeNotReady \/ LoadFails
    /\ UNCHANGED <<paired, trusted, undecided, dialogVars, queueVars>>

\* A waiting listener goes on: a hydration ended, or it waited
\* HYDRATION_WAIT_MAX_MS.
HydrationWaitEnds(i, l) ==
    /\ l \in undecided[i]
    /\ Route(i, {l})
    /\ undecided' = [undecided EXCEPT ![i] = @ \ {l}]
    /\ UNCHANGED <<paired, trusted, hydrated, listed, drain, busy, busySeen,
                   refused>>

\* The trust switch of a listed device.  A device that is unpaired, here or by its
\* owner, is no longer trusted.
SetTrusted(i) ==
    /\ listed /\ i \in paired
    /\ trusted' = IF i \in trusted THEN trusted \ {i} ELSE trusted \cup {i}
    /\ UNCHANGED <<paired, hydrated, listed, undecided, dialogVars, queueVars>>

Unpair(i) ==
    /\ i \in paired
    /\ paired' = paired \ {i} /\ trusted' = trusted \ {i}
    /\ UNCHANGED <<hydrated, listed, undecided, dialogVars, queueVars>>

-----------------------------------------------------------------------------
\* The receiver: a click is committed at once, everything else at a Commit; the
\* drain effect is scheduled when the published flag changes.
Publish(b) ==
    busySeen' = b /\ drainDue' = (drainDue \/ b # busySeen)

CommitBusy ==
    /\ busy # busySeen /\ Publish(busy)
    /\ UNCHANGED <<routeVars, dialogVars, queue, drain, busy, refused>>

\* The user starts a receive by ticket.
ReceiveByTicket ==
    /\ ~busySeen /\ busy' = TRUE /\ Publish(TRUE)
    /\ UNCHANGED <<routeVars, dialogVars, queue, drain, refused>>

\* An event or answer of the backend ends, or a late one seems to continue, the
\* session.
SessionChanges ==
    /\ busy' = ~busy
    /\ UNCHANGED <<routeVars, dialogVars, queue, drain, drainDue, busySeen,
                   refused>>

\* Accept in either dialog: "accepted" is answered, and the receiver takes the
\* invite unless it is busy.
DialogAccept ==
    /\ dialog # NoInvite /\ dialog' = NoInvite
    /\ busy' = (busy \/ ~busySeen) /\ Publish(busySeen \/ busy')
    /\ UNCHANGED <<routeVars, nearbyDialog, strange, queue, drain,
                   refused>>

NearbyAccept ==
    /\ nearbyDialog # NoInvite /\ nearbyDialog' = NoInvite
    /\ busy' = (busy \/ ~busySeen) /\ Publish(busySeen \/ busy')
    /\ UNCHANGED <<routeVars, dialog, strange, queue, drain, refused>>

DialogDecline ==
    /\ \/ dialog # NoInvite /\ dialog' = NoInvite /\ UNCHANGED nearbyDialog
       \/ nearbyDialog # NoInvite /\ nearbyDialog' = NoInvite /\ UNCHANGED dialog
    /\ UNCHANGED <<routeVars, strange, queueVars>>

-----------------------------------------------------------------------------
\* One iteration of the drain for the k-th invite: it is answered "accepted"
\* and handed over; the loop awaits the receive.  b is the flag as set so far.
DrainTake(k, b) ==
    /\ queue' = SubSeq(queue, k + 1, Len(queue))
    /\ busy' = (b \/ ~busySeen)
    /\ drain' = IF busySeen THEN NoInvite ELSE queue[k]
    /\ refused' = IF busySeen THEN refused \cup {queue[k]} ELSE refused

DrainStop(q, b) ==
    drain' = NoInvite /\ queue' = q /\ busy' = b /\ UNCHANGED refused

FirstTrusted == SelectInSeq(queue, LAMBDA i : ShouldAutoAccept(i))

\* Mutant: one invite per run of the effect instead of a loop.
DrainOnce(b) ==
    IF drain # NoInvite \/ busySeen THEN DrainStop(queue, b)
    ELSE IF queue = <<>> \/ FirstTrusted = 0 THEN DrainStop(<<>>, b)
    ELSE DrainTake(FirstTrusted, b)

\* The drain loop up to its next await: it stops when the receiver is busy or
\* the queue is empty, and drops invites that lost their trust.
DrainLoop(b) ==
    IF busySeen THEN DrainStop(queue, b)
    ELSE IF queue = <<>> \/ FirstTrusted = 0 THEN DrainStop(<<>>, b)
    ELSE DrainTake(FirstTrusted, b)

\* The effect, run after a render that changed the queue's length or isBusy.
DrainEffect ==
    /\ drainDue
    /\ IF drain # NoInvite \/ busySeen THEN UNCHANGED <<queue, drain, busy, refused>>
       ELSE DrainLoop(busy)
    /\ drainDue' = (queue' # queue)
    /\ UNCHANGED <<routeVars, dialogVars, busySeen>>

\* The awaited receive is over; a failure frees the receiver.  The loop goes on
\* before anything is rendered.
DrainedReceiveEnds(failed) ==
    /\ drain # NoInvite
    /\ DrainLoop(busy /\ ~failed)
    /\ drainDue' = (drainDue \/ queue' # queue)
    /\ UNCHANGED <<routeVars, dialogVars, busySeen>>

-----------------------------------------------------------------------------
InvitesNext ==
    \/ \E i \in Invites : OnPairedInvite(i) \/ SetTrusted(i) \/ Unpair(i)
    \/ \E i \in Invites, l \in Listening : HydrationWaitEnds(i, l)
    \/ Hydrate \/ CommitBusy \/ ReceiveByTicket \/ SessionChanges
    \/ DialogAccept \/ NearbyAccept \/ DialogDecline \/ DrainEffect
    \/ \E failed \in BOOLEAN : DrainedReceiveEnds(failed)

InvitesSpec == InvitesInit /\ [][InvitesNext]_invitesVars

\* React renders and runs effects; nobody owes an invite or the end of a
\* transfer.
InvitesFairness == WF_invitesVars(CommitBusy) /\ WF_invitesVars(DrainEffect)

-----------------------------------------------------------------------------
\* PROPERTIES

\* "would leave the rest of the queue waiting on a change that never comes"
\* (useAutoAcceptQueue): whenever invites wait, a drain is running, the receiver
\* is busy, or the effect is scheduled.
NoStrandedInvites ==
    queue # <<>> => drain # NoInvite \/ drainDue \/ busySeen

\* "answered 'accepted' and then silently dropped" (useAutoAcceptQueue) does
\* not happen to an invite that the queue accepted.  (That the shell rejects a
\* receive it was given is not seen from here.)
AcceptedInviteStarts == refused = {}

\* Nothing the queue took in is lost on the way to the receiver: it waits for
\* something that will happen, and once answered it is received (useAutoAcceptQueue).
NoInviteLost == NoStrandedInvites /\ AcceptedInviteStarts

\* "Callers that route on devices must await this, or a paired sender gets
\* misrouted" (pairing-data-store): an invite of a paired device is taken for a
\* stranger's, in the dialog or the notification, only when the page has no list
\* of devices although its listener awaited one: the wait ran out, or a hydration
\* ended with the node not ready or with a first load that failed.  Awaiting is
\* not enough to rule out the last two, whatever the comment suggests.
PairedNeverNearby ==
    [][\A i \in paired \cap paired' :
          \/ nearbyDialog' = i /\ nearbyDialog # i
          \/ strange' = i /\ strange # i
          => ~listed /\ (hydrated \/ undecided[i] # {})]_invitesVars

\* The queue and its drain serve invites one at a time, in order and without
\* duplicates, and keep serving while the receiver is free.
Server == INSTANCE InviteServer WITH
    waiting <- queue, serving <- drain, occupied <- busySeen, None <- NoInvite
ServesInvites == Server!Spec
=============================================================================
