---------------------------- MODULE SendInvites -----------------------------
(***************************************************************************)
(* Sending a share to a device from the list beside the link: the invite   *)
(* status of useSender, the rows of PairedDevicesPanel and the sheet of    *)
(* SharingActiveCard.  invite_peer and invite_nearby (external here) take  *)
(* their time and answer delivered, not delivered or an error.             *)
(***************************************************************************)
EXTENDS Naturals, FiniteSets

CONSTANTS
    Peers,        \* devices in the list
    NearbyPeers,  \* those that are only nearby, the others are paired
    MaxCounted,   \* cap on the send count that ranks the list
    MaxFlights    \* bound on invites and timers of one peer at the same time

ASSUME SendInvitesAssumption ==
    NearbyPeers \subseteq Peers /\ MaxCounted \in Nat /\ MaxFlights \in Nat \ {0}

VARIABLES
    hasTicket,    \* ticket
    nodeReady,    \* isNodeReady
    online,       \* paired peers that are active and online
    status,       \* pairedInviteStatus
    flights,      \* outstanding invites per peer
    fades,        \* pending 4 s timers per peer
    counts,       \* paired-send-counts
    sheet,        \* devicesOpen
    code,         \* useNearbyVerificationStore: peer whose code is shown
    copied,       \* linkCopySuccess and its timer
    offered       \* peers that were sent the ticket of the current share

inviteVars == <<hasTicket, nodeReady, online, status, flights, fades, counts,
                sheet, code, copied, offered>>

InvitesSentTypeOK ==
    /\ hasTicket \in BOOLEAN /\ nodeReady \in BOOLEAN /\ sheet \in BOOLEAN
    /\ copied \in BOOLEAN /\ online \subseteq Peers \ NearbyPeers
    /\ status \in [Peers -> {"none", "sending", "sent", "failed"}]
    /\ flights \in [Peers -> 0..MaxFlights] /\ fades \in [Peers -> 0..MaxFlights]
    /\ counts \in [Peers -> 0..MaxCounted]
    /\ code \subseteq NearbyPeers /\ offered \subseteq Peers

SendInvitesInit ==
    /\ hasTicket = FALSE /\ nodeReady = TRUE /\ online = {}
    /\ status = [p \in Peers |-> "none"]
    /\ flights = [p \in Peers |-> 0] /\ fades = [p \in Peers |-> 0]
    /\ counts = [p \in Peers |-> 0]
    /\ sheet = FALSE /\ code = {} /\ copied = FALSE /\ offered = {}

-----------------------------------------------------------------------------
\* "none" is a device without an entry in pairedInviteStatus.
SetInviteStatus(p, s) == status' = [status EXCEPT ![p] = s]

\* A row of the list is enabled.
AnotherInviteInFlight(p) == \E q \in Peers \ {p} : status[q] \in {"sending", "sent"}

PairedRowEnabled(p) ==
    /\ nodeReady /\ hasTicket /\ p \in online
    /\ status[p] \notin {"sending", "sent"} /\ ~AnotherInviteInFlight(p)

NearbyRowEnabled(p) ==
    /\ nodeReady /\ hasTicket
    /\ status[p] \notin {"sending", "sent"} /\ ~AnotherInviteInFlight(p)

\* onInvitePairedDevice up to its await; the count ranks the list.
IncrementPairedSendCount(p) ==
    counts' = [counts EXCEPT ![p] = IF @ < MaxCounted THEN @ + 1 ELSE @]

OnInvitePairedDevice(p) ==
    /\ p \notin NearbyPeers /\ sheet /\ PairedRowEnabled(p) /\ flights[p] < MaxFlights
    /\ IncrementPairedSendCount(p)
    /\ SetInviteStatus(p, "sending")
    /\ flights' = [flights EXCEPT ![p] = @ + 1]
    /\ offered' = offered \cup {p}
    /\ UNCHANGED <<hasTicket, nodeReady, online, fades, sheet, code, copied>>

OnInviteNearbyDevice(p) ==
    /\ p \in NearbyPeers /\ sheet /\ NearbyRowEnabled(p) /\ flights[p] < MaxFlights
    /\ SetInviteStatus(p, "sending")
    /\ flights' = [flights EXCEPT ![p] = @ + 1]
    /\ offered' = offered \cup {p}
    /\ UNCHANGED <<hasTicket, nodeReady, online, fades, counts, sheet, code, copied>>

\* Mutant: an error leaves the status as it is.
InviteErrorIgnored(p, delivered) ==
    /\ flights[p] > 0 /\ flights' = [flights EXCEPT ![p] = @ - 1]
    /\ IF delivered THEN SetInviteStatus(p, "sent") ELSE UNCHANGED status
    /\ sheet' = (sheet /\ ~delivered)
    /\ code' = IF delivered /\ p \in NearbyPeers THEN {p} ELSE code
    /\ UNCHANGED <<hasTicket, nodeReady, online, fades, counts, copied, offered>>

\* ... and after it.  A delivered invite closes the sheet and, for a nearby
\* device, shows the code; a failed one is forgotten after four seconds.
InviteAnswered(p, delivered) ==
    /\ flights[p] > 0 /\ flights' = [flights EXCEPT ![p] = @ - 1]
    /\ SetInviteStatus(p, IF delivered THEN "sent" ELSE "failed")
    /\ IF delivered THEN UNCHANGED fades
       ELSE fades[p] < MaxFlights /\ fades' = [fades EXCEPT ![p] = @ + 1]
    /\ sheet' = (sheet /\ ~delivered)
    /\ code' = IF delivered /\ p \in NearbyPeers THEN {p} ELSE code
    /\ UNCHANGED <<hasTicket, nodeReady, online, counts, copied, offered>>

FailureFades(p) ==
    /\ fades[p] > 0 /\ fades' = [fades EXCEPT ![p] = @ - 1]
    /\ SetInviteStatus(p, "none")
    /\ UNCHANGED <<hasTicket, nodeReady, online, flights, counts, sheet, code,
                   copied, offered>>

\* paired-invite-response, accepted or declined.
OnInviteResponse(p) ==
    /\ p \in offered
    /\ SetInviteStatus(p, "none")
    /\ UNCHANGED <<hasTicket, nodeReady, online, flights, fades, counts, sheet,
                   code, copied, offered>>

\* A share starts or ends; the effect on the ticket clears the statuses, and the
\* sheet is open beside a new share on desktop.
TicketChanges ==
    /\ hasTicket' = ~hasTicket
    /\ status' = IF hasTicket THEN [p \in Peers |-> "none"] ELSE status
    /\ sheet' = ~hasTicket /\ offered' = {} /\ copied' = FALSE
    /\ UNCHANGED <<nodeReady, online, flights, fades, counts, code>>

SetSheet ==
    /\ hasTicket /\ sheet' = ~sheet
    /\ UNCHANGED <<hasTicket, nodeReady, online, status, flights, fades, counts,
                   code, copied, offered>>

\* NearbyVerificationDialog is closed.
DismissCode ==
    /\ code # {} /\ code' = {}
    /\ UNCHANGED <<hasTicket, nodeReady, online, status, flights, fades, counts,
                   sheet, copied, offered>>

\* useNodeCapability and usePairedDeviceEvents.
NodeChanges ==
    /\ nodeReady' = ~nodeReady
    /\ UNCHANGED <<hasTicket, online, status, flights, fades, counts, sheet, code,
                   copied, offered>>

PresenceChanges(p) ==
    /\ p \notin NearbyPeers
    /\ online' = IF p \in online THEN online \ {p} ELSE online \cup {p}
    /\ UNCHANGED <<hasTicket, nodeReady, status, flights, fades, counts, sheet,
                   code, copied, offered>>

\* shareTicket: the link is copied and says so for two seconds.
ShareTicket ==
    /\ hasTicket /\ ~copied /\ copied' = TRUE
    /\ UNCHANGED <<hasTicket, nodeReady, online, status, flights, fades, counts,
                   sheet, code, offered>>

CopyMarkFades ==
    /\ copied /\ copied' = FALSE
    /\ UNCHANGED <<hasTicket, nodeReady, online, status, flights, fades, counts,
                   sheet, code, offered>>

-----------------------------------------------------------------------------
SendInvitesNext ==
    \/ \E p \in Peers :
          \/ OnInvitePairedDevice(p) \/ OnInviteNearbyDevice(p) \/ FailureFades(p)
          \/ \E delivered \in BOOLEAN : InviteAnswered(p, delivered)
          \/ OnInviteResponse(p) \/ PresenceChanges(p)
    \/ TicketChanges \/ SetSheet \/ DismissCode \/ NodeChanges
    \/ ShareTicket \/ CopyMarkFades

SendInvitesSpec == SendInvitesInit /\ [][SendInvitesNext]_inviteVars

-----------------------------------------------------------------------------
\* PROPERTIES

\* A row that says "sending" has an invite under way that will answer: the list
\* is not blocked by an invite nobody is waiting for (the one-in-flight rule of
\* onInvitePairedDevice), also when the share changed in between.
SendingHasCall == \A p \in Peers : status[p] = "sending" => flights[p] > 0
=============================================================================
