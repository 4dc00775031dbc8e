---------------------------- MODULE HostPairing -----------------------------
(***************************************************************************)
(* The top of the devices page: the pairing code of this device and the    *)
(* window during which it accepts a peer (openHostPairing, its countdown,  *)
(* closeHostPairing), the dialog that joins another device's window and    *)
(* the one that renames this device.                                       *)
(*                                                                         *)
(* start_pairing_host, stop_pairing_host, join_pairing and                 *)
(* set_device_display_name (external here) run in the background; their    *)
(* answers and the window's events overtake each other.                    *)
(***************************************************************************)
EXTENDS Naturals, Sequences

CONSTANTS
    HostTTL,      \* PAIRING_HOST_TTL_SECS, in ticks of the countdown
    MaxOpens,     \* bound on the pairing windows opened
    MaxHostFeed   \* bound on events on their way

ASSUME HostPairingAssumption == HostTTL \in Nat \ {0} /\ {MaxOpens, MaxHostFeed} \subseteq Nat

VARIABLES
    hostOpen,       \* the backend accepts a peer
    opens,          \* windows opened so far
    hostFeed,       \* device-paired and pairing-host-expired on their way
    pairingCode,    \* the stable code is loaded
    pairingTicket,  \* a ticket is held by usePairing
    ticketRef,      \* pairingTicketRef, set by an effect
    hostExpiresIn,  \* seconds left on the countdown, 0 for null
    isLoading,
    start,          \* start_pairing_host: none, asked, ok, err
    copyAfter,      \* copyPairingCode waits for the ticket
    stops,          \* stop_pairing_host calls in flight
    copyMark,       \* copied
    joinOpen, joinText, isJoining, joinCall,
    nameOpen, nameSaving, nameCall

hostVars == <<hostOpen, opens, hostFeed, pairingCode, pairingTicket, ticketRef,
              hostExpiresIn, isLoading, start, copyAfter, stops, copyMark>>
joinVars == <<joinOpen, joinText, isJoining, joinCall>>
nameVars == <<nameOpen, nameSaving, nameCall>>
hostPairingVars == <<hostVars, joinVars, nameVars>>

CallStates == {"none", "asked", "ok", "err"}

HostPairingTypeOK ==
    /\ {hostOpen, pairingCode, pairingTicket, ticketRef, isLoading, copyAfter,
        copyMark, joinOpen, joinText, isJoining, nameOpen, nameSaving}
         \subseteq BOOLEAN
    /\ opens \in 0..MaxOpens /\ hostExpiresIn \in 0..HostTTL
    /\ hostFeed \in Seq({"paired", "expired"}) /\ Len(hostFeed) <= MaxHostFeed
    /\ {start, joinCall, nameCall} \subseteq CallStates
    /\ stops \in 0..MaxOpens

HostPairingInit ==
    /\ hostOpen = FALSE /\ opens = 0 /\ hostFeed = <<>>
    /\ pairingCode \in BOOLEAN
    /\ pairingTicket = FALSE /\ ticketRef = FALSE /\ hostExpiresIn = 0
    /\ isLoading = FALSE /\ start = "none" /\ copyAfter = FALSE /\ stops = 0
    /\ copyMark = FALSE
    /\ joinOpen = FALSE /\ joinText = FALSE /\ isJoining = FALSE /\ joinCall = "none"
    /\ nameOpen = FALSE /\ nameSaving = FALSE /\ nameCall = "none"

-----------------------------------------------------------------------------
\* The backend's pairing window.

HostRoom == Len(hostFeed) < MaxHostFeed

\* A peer completes the handshake, or the window's time is over.
HostCloses(e) ==
    /\ hostOpen /\ HostRoom /\ hostOpen' = FALSE /\ hostFeed' = Append(hostFeed, e)
    /\ UNCHANGED <<opens, pairingCode, pairingTicket, ticketRef, hostExpiresIn,
                   isLoading, start, copyAfter, stops, copyMark, joinVars, nameVars>>

HostStarts ==
    /\ start = "asked"
    /\ \/ start' = "ok" /\ hostOpen' = TRUE
       \/ start' = "err" /\ UNCHANGED hostOpen
    /\ UNCHANGED <<opens, hostFeed, pairingCode, pairingTicket, ticketRef,
                   hostExpiresIn, isLoading, copyAfter, stops, copyMark, joinVars, nameVars>>

HostStops ==
    /\ stops > 0 /\ stops' = stops - 1 /\ hostOpen' = FALSE
    /\ UNCHANGED <<opens, hostFeed, pairingCode, pairingTicket, ticketRef,
                   hostExpiresIn, isLoading, start, copyAfter, copyMark, joinVars, nameVars>>

-----------------------------------------------------------------------------
\* usePairing

\* copyPairingCode: a code that is known is copied at once, and the window
\* opens in the background; otherwise the ticket is awaited and copied.
CopyPairingCode ==
    /\ ~joinOpen /\ ~nameOpen /\ ~isLoading /\ opens < MaxOpens
    /\ opens' = opens + 1 /\ isLoading' = TRUE /\ start' = "asked"
    /\ copyMark' = (copyMark \/ pairingCode \/ pairingTicket)
    /\ copyAfter' = ~(pairingCode \/ pairingTicket)
    /\ UNCHANGED <<hostOpen, hostFeed, pairingCode, pairingTicket, ticketRef,
                   hostExpiresIn, stops, joinVars, nameVars>>

\* Mutant: the flag is only cleared when the window opened.
OpenErrorKeepsLoading ==
    /\ start \in {"ok", "err"} /\ start' = "none"
    /\ isLoading' = (start = "err") /\ copyAfter' = FALSE
    /\ IF start = "ok"
         THEN /\ pairingTicket' = TRUE /\ hostExpiresIn' = HostTTL
              /\ copyMark' = (copyMark \/ copyAfter)
         ELSE UNCHANGED <<pairingTicket, hostExpiresIn, copyMark>>
    /\ UNCHANGED <<hostOpen, opens, hostFeed, pairingCode, ticketRef, stops,
                   joinVars, nameVars>>

OpenHostPairingEnds ==
    /\ start \in {"ok", "err"} /\ start' = "none"
    /\ isLoading' = FALSE /\ copyAfter' = FALSE
    /\ IF start = "ok"
         THEN /\ pairingTicket' = TRUE /\ hostExpiresIn' = HostTTL
              /\ copyMark' = (copyMark \/ copyAfter)
         ELSE UNCHANGED <<pairingTicket, hostExpiresIn, copyMark>>
    /\ UNCHANGED <<hostOpen, opens, hostFeed, pairingCode, ticketRef, stops,
                   joinVars, nameVars>>

hostWindowOpen == hostExpiresIn > 0 /\ pairingTicket

CloseHostPairing ==
    /\ ~joinOpen /\ ~nameOpen /\ hostWindowOpen /\ stops < MaxOpens
    /\ pairingTicket' = FALSE /\ hostExpiresIn' = 0 /\ stops' = stops + 1
    /\ UNCHANGED <<hostOpen, opens, hostFeed, pairingCode, ticketRef, isLoading,
                   start, copyAfter, copyMark, joinVars, nameVars>>

\* The effect that mirrors the ticket for the listener of device-paired.
TicketEffect ==
    /\ ticketRef # pairingTicket /\ ticketRef' = pairingTicket
    /\ UNCHANGED <<hostOpen, opens, hostFeed, pairingCode, pairingTicket,
                   hostExpiresIn, isLoading, start, copyAfter, stops, copyMark,
                   joinVars, nameVars>>

\* Mutant: the interval stops at one second without a last update.
CountdownStopsAtOne ==
    /\ hostExpiresIn > 1 /\ hostExpiresIn' = hostExpiresIn - 1
    /\ UNCHANGED <<hostOpen, opens, hostFeed, pairingCode, pairingTicket, ticketRef,
                   isLoading, start, copyAfter, stops, copyMark, joinVars, nameVars>>

\* Mutant: the interval runs as long as the ticket is shown.
CountdownPastZero ==
    /\ pairingTicket /\ hostExpiresIn' = hostExpiresIn - 1
    /\ UNCHANGED <<hostOpen, opens, hostFeed, pairingCode, pairingTicket, ticketRef,
                   isLoading, start, copyAfter, stops, copyMark, joinVars, nameVars>>

Countdown ==
    /\ hostExpiresIn > 0 /\ hostExpiresIn' = hostExpiresIn - 1
    /\ UNCHANGED <<hostOpen, opens, hostFeed, pairingCode, pairingTicket, ticketRef,
                   isLoading, start, copyAfter, stops, copyMark, joinVars, nameVars>>

\* device-paired takes the ticket back only when its effect has seen it, and
\* loads the pairing data; pairing-host-expired always takes it back.
OnHostEvent ==
    /\ hostFeed # <<>> /\ hostFeed' = Tail(hostFeed)
    /\ IF Head(hostFeed) = "expired" \/ ticketRef
         THEN pairingTicket' = FALSE /\ hostExpiresIn' = 0
         ELSE UNCHANGED <<pairingTicket, hostExpiresIn>>
    /\ pairingCode' = (pairingCode \/ Head(hostFeed) = "paired")
    /\ UNCHANGED <<hostOpen, opens, ticketRef, isLoading, start, copyAfter, stops,
                   copyMark, joinVars, nameVars>>

CopiedFades ==
    /\ copyMark /\ copyMark' = FALSE
    /\ UNCHANGED <<hostOpen, opens, hostFeed, pairingCode, pairingTicket, ticketRef,
                   hostExpiresIn, isLoading, start, copyAfter, stops, joinVars, nameVars>>

-----------------------------------------------------------------------------
\* PairJoinModal

OpenJoin ==
    /\ ~joinOpen /\ ~nameOpen /\ joinOpen' = TRUE
    /\ UNCHANGED <<hostVars, joinText, isJoining, joinCall, nameVars>>

\* Escape clears the text, the Cancel button keeps it.
CloseJoin ==
    /\ joinOpen /\ joinOpen' = FALSE /\ joinText' \in {joinText, FALSE}
    /\ UNCHANGED <<hostVars, isJoining, joinCall, nameVars>>

TypeCode ==
    /\ joinOpen /\ joinText' = ~joinText
    /\ UNCHANGED <<hostVars, joinOpen, isJoining, joinCall, nameVars>>

HandleJoin ==
    /\ joinOpen /\ joinText /\ ~isJoining
    /\ isJoining' = TRUE /\ joinCall' = "asked"
    /\ UNCHANGED <<hostVars, joinOpen, joinText, nameVars>>

PeerJoined ==
    /\ joinCall = "asked" /\ joinCall' \in {"ok", "err"}
    /\ UNCHANGED <<hostVars, joinOpen, joinText, isJoining, nameVars>>

\* The answer, after the reload of the pairing data: success empties and
\* closes whatever dialog is open by now.
JoinEnds ==
    /\ joinCall \in {"ok", "err"} /\ joinCall' = "none" /\ isJoining' = FALSE
    /\ IF joinCall = "ok"
         THEN joinText' = FALSE /\ joinOpen' = FALSE
         ELSE UNCHANGED <<joinText, joinOpen>>
    /\ UNCHANGED <<hostVars, nameVars>>

\* RenameDeviceModal for this device.
OpenRename ==
    /\ ~nameOpen /\ ~joinOpen /\ nameOpen' = TRUE
    /\ UNCHANGED <<hostVars, joinVars, nameSaving, nameCall>>

CloseRename ==
    /\ nameOpen /\ nameOpen' = FALSE
    /\ UNCHANGED <<hostVars, joinVars, nameSaving, nameCall>>

HandleSaveName ==
    /\ nameOpen /\ ~nameSaving  \* and the name is not blank
    /\ nameSaving' = TRUE /\ nameCall' = "asked"
    /\ UNCHANGED <<hostVars, joinVars, nameOpen>>

NameSaved ==
    /\ nameCall = "asked" /\ nameCall' \in {"ok", "err"}
    /\ UNCHANGED <<hostVars, joinVars, nameOpen, nameSaving>>

SaveNameEnds ==
    /\ nameCall \in {"ok", "err"} /\ nameCall' = "none" /\ nameSaving' = FALSE
    /\ nameOpen' = (nameOpen /\ nameCall = "err")
    /\ UNCHANGED <<hostVars, joinVars>>

HostPairingNext ==
    \/ HostCloses("paired") \/ HostCloses("expired") \/ HostStarts \/ HostStops
    \/ CopyPairingCode \/ OpenHostPairingEnds \/ CloseHostPairing \/ TicketEffect
    \/ Countdown \/ OnHostEvent \/ CopiedFades
    \/ OpenJoin \/ CloseJoin \/ TypeCode \/ HandleJoin \/ PeerJoined \/ JoinEnds
    \/ OpenRename \/ CloseRename \/ HandleSaveName \/ NameSaved
    \/ SaveNameEnds

\* The countdown's timer fires, commands are answered and events delivered.
HostPairingFairness ==
    /\ WF_hostPairingVars(Countdown) /\ WF_hostPairingVars(HostStarts)
    /\ WF_hostPairingVars(OpenHostPairingEnds) /\ WF_hostPairingVars(OnHostEvent)

-----------------------------------------------------------------------------
\* A button of the page is busy only while the command it started is on its
\* way: no answer, failed or late, leaves the copy, the pair or the save
\* button disabled for good.
PageBusyHasCall ==
    /\ isLoading => start # "none"
    /\ isJoining => joinCall # "none"
    /\ nameSaving => nameCall # "none"

\* A pairing window that closed behind the page's back, because the peer was
\* faster than the answer that opened it, is not shown as open for ever.
StaleWindowCloses == (hostWindowOpen /\ ~hostOpen) ~> (~hostWindowOpen \/ hostOpen)
=============================================================================
