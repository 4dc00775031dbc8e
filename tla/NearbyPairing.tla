--------------------------- MODULE NearbyPairing ----------------------------
(***************************************************************************)
(* Pairing with a nearby device.  On the side that asks: the Pair button   *)
(* of NearbyDevices and the dialog with this device's code.  On the side   *)
(* that is asked: NearbyPairRequestDialog.  request_nearby_pair and        *)
(* respond_nearby_invite are external here.                                *)
(***************************************************************************)
EXTENDS Naturals, FiniteSets

CONSTANTS
    Others,       \* endpoint ids of the other devices
    Nobody,       \* no dialog is open
    MaxAsks       \* bound on requests and timers of one device at the same time

ASSUME NearbyPairingAssumption == Nobody \notin Others /\ MaxAsks \in Nat \ {0}

VARIABLES
    pairState,    \* the state of the row's button
    pairCalls,    \* request_nearby_pair commands on their way to the device
    landed,       \* those that reached it and have not answered
    pairTimers,   \* pending 2 s timers
    reached,      \* devices that a request was ever delivered to
    deciding,     \* devices whose user has not answered yet
    target,       \* useNearbyVerificationStore
    hydrated,     \* the paired devices are loaded
    known,        \* the devices that are paired
    unsorted,     \* requests that wait for the paired devices
    request,      \* the state of the dialog
    shown,        \* the request on screen, of the last render
    granted,      \* devices paired by Accept
    refused       \* devices answered by Decline

askVars == <<pairState, pairCalls, landed, pairTimers, reached, deciding, target>>
promptVars == <<hydrated, known, unsorted, request, shown, granted, refused>>
nearbyPairingVars == <<askVars, promptVars>>

NearbyPairingTypeOK ==
    /\ pairState \in [Others -> {"none", "pairing", "sent", "failed"}]
    /\ pairCalls \in [Others -> 0..MaxAsks] /\ pairTimers \in [Others -> 0..MaxAsks]
    /\ landed \in [Others -> 0..MaxAsks]
    /\ target \in Others \cup {Nobody} /\ hydrated \in BOOLEAN
    /\ \A s \in {reached, deciding, known, unsorted, granted, refused} : s \subseteq Others
    /\ {request, shown} \subseteq Others \cup {Nobody}

NearbyPairingInit ==
    /\ pairState = [d \in Others |-> "none"]
    /\ pairCalls = [d \in Others |-> 0] /\ pairTimers = [d \in Others |-> 0]
    /\ landed = [d \in Others |-> 0] /\ reached = {} /\ deciding = {} /\ target = Nobody
    /\ hydrated = FALSE /\ known \in SUBSET Others /\ unsorted = {}
    /\ request = Nobody /\ shown = Nobody /\ granted = {} /\ refused = {}

-----------------------------------------------------------------------------
\* NearbyDevices and NearbyVerificationDialog

HandlePair(d) ==
    /\ target = Nobody /\ pairState[d] # "pairing" /\ pairCalls[d] + landed[d] < MaxAsks
    /\ pairState' = [pairState EXCEPT ![d] = "pairing"]
    /\ pairCalls' = [pairCalls EXCEPT ![d] = @ + 1]
    /\ UNCHANGED <<landed, pairTimers, reached, deciding, target, promptVars>>

PairRequestLands(d) ==
    /\ pairCalls[d] > 0 /\ pairCalls' = [pairCalls EXCEPT ![d] = @ - 1]
    /\ landed' = [landed EXCEPT ![d] = @ + 1]
    /\ reached' = reached \cup {d} /\ deciding' = deciding \cup {d}
    /\ UNCHANGED <<pairState, pairTimers, target, promptVars>>

\* finally: the timer that clears the button starts.
StartPairTimer(d) ==
    pairTimers[d] < MaxAsks /\ pairTimers' = [pairTimers EXCEPT ![d] = @ + 1]

PairDelivered(d) ==
    /\ landed[d] > 0 /\ landed' = [landed EXCEPT ![d] = @ - 1]
    /\ pairState' = [pairState EXCEPT ![d] = "sent"] /\ target' = d
    /\ StartPairTimer(d)
    /\ UNCHANGED <<pairCalls, reached, deciding, promptVars>>

\* The answer is that the request was not delivered, or an error.
PairFails(d) ==
    /\ pairCalls[d] > 0 /\ pairCalls' = [pairCalls EXCEPT ![d] = @ - 1]
    /\ pairState' = [pairState EXCEPT ![d] = "failed"]
    /\ StartPairTimer(d)
    /\ UNCHANGED <<landed, reached, deciding, target, promptVars>>

PairStateFades(d) ==
    /\ pairTimers[d] > 0 /\ pairTimers' = [pairTimers EXCEPT ![d] = @ - 1]
    /\ pairState' = [pairState EXCEPT ![d] = IF @ \in {"failed", "sent"} THEN "none" ELSE @]
    /\ UNCHANGED <<pairCalls, landed, reached, deciding, target, promptVars>>

\* paired-invite-response of a peer clears the button and its dialog, also
\* before the command that carried the request has answered.
OnPairResponse(d) ==
    /\ d \in deciding /\ deciding' = deciding \ {d}
    /\ pairState' = [pairState EXCEPT ![d] = "none"]
    /\ target' = IF target = d THEN Nobody ELSE target
    /\ UNCHANGED <<pairCalls, landed, pairTimers, reached, promptVars>>

\* device-paired names no device: the dialog closes on any pairing.  Closing
\* it by hand does the same.
ClearVerification ==
    /\ target # Nobody /\ target' = Nobody
    /\ UNCHANGED <<pairState, pairCalls, landed, pairTimers, reached, deciding, promptVars>>

-----------------------------------------------------------------------------
\* NearbyPairRequestDialog

RequestArrives(d) ==
    /\ d \notin granted \cup refused \cup unsorted /\ request # d
    /\ unsorted' = unsorted \cup {d}
    /\ UNCHANGED <<askVars, hydrated, known, request, shown, granted, refused>>

PairedDevicesLoad ==
    /\ ~hydrated /\ unsorted # {} /\ hydrated' = TRUE
    /\ UNCHANGED <<askVars, known, unsorted, request, shown, granted, refused>>

\* Once the devices are loaded, or HYDRATION_WAIT_MAX_MS later, a request of a
\* device that is listed as paired is dropped and any other becomes the
\* dialog's, in place of one that is still open.
RequestSorted(d) ==
    /\ d \in unsorted /\ unsorted' = unsorted \ {d}
    /\ request' = IF hydrated /\ d \in known THEN request ELSE d
    /\ UNCHANGED <<askVars, hydrated, known, shown, granted, refused>>

RenderPrompt ==
    /\ shown # request /\ shown' = request
    /\ UNCHANGED <<askVars, hydrated, known, unsorted, request, granted, refused>>

\* Mutant: the handler reads the state of the moment instead of the render's.
AcceptsLatest ==
    /\ shown # Nobody /\ request # Nobody /\ request' = Nobody
    /\ granted' = granted \cup {request} /\ known' = known \cup {request}
    /\ UNCHANGED <<askVars, hydrated, unsorted, shown, refused>>

\* The handler of the button on screen belongs to the last render.
AcceptRequest ==
    /\ shown # Nobody /\ request' = Nobody
    /\ granted' = granted \cup {shown} /\ known' = known \cup {shown}
    /\ UNCHANGED <<askVars, hydrated, unsorted, shown, refused>>

\* Decline, Escape or the backdrop answer whatever request is held.
DeclineRequest ==
    /\ shown # Nobody /\ request # Nobody /\ request' = Nobody
    /\ refused' = refused \cup {request}
    /\ UNCHANGED <<askVars, hydrated, known, unsorted, shown, granted>>

AskNext ==
    \/ \E d \in Others : \/ HandlePair(d) \/ PairRequestLands(d) \/ PairDelivered(d)
                         \/ PairFails(d) \/ PairStateFades(d) \/ OnPairResponse(d)
    \/ ClearVerification

PromptNext ==
    \/ \E d \in Others : RequestArrives(d) \/ RequestSorted(d)
    \/ PairedDevicesLoad \/ RenderPrompt \/ AcceptRequest \/ DeclineRequest

-----------------------------------------------------------------------------
\* The verification code is read out only for a request that arrived.
CodeOnlyIfDelivered == target # Nobody => target \in reached

\* A row that says it is pairing has a command in flight.
PairingHasCall == \A d \in Others : pairState[d] = "pairing" => pairCalls[d] + landed[d] > 0

\* Accept pairs the device whose code was on screen, never one whose request
\* replaced it between the render and the click.
GrantsWhatWasShown == [][granted' \subseteq granted \cup {shown}]_nearbyPairingVars
=============================================================================
