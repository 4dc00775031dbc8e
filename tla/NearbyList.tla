----------------------------- MODULE NearbyList -----------------------------
(***************************************************************************)
(* The list of nearby devices: nearby-store is filled by list_nearby and   *)
(* kept up to date by discovery events that carry only an endpoint id, so  *)
(* a sighting is followed by another list_nearby of which one row is used. *)
(* The registry of the backend (external here) changes at any time, and    *)
(* not every change is announced.                                          *)
(***************************************************************************)
EXTENDS Naturals, Sequences, FiniteSets

CONSTANTS
    Nearby,        \* endpoint ids
    WholeList,     \* marks a request made by hydrate
    MaxSightings,  \* bound on changes of the registry
    MaxRequests    \* bound on list_nearby requests in flight

ASSUME NearbyListAssumption ==
    WholeList \notin Nearby /\ MaxSightings \in Nat /\ MaxRequests \in Nat \ {0}

VARIABLES
    air,          \* devices in the registry
    noDiscovery,  \* the reason of nearby_status is set
    sightings,    \* changes of the registry so far
    discovery,    \* events on their way
    hears,        \* the listeners are registered
    panel,        \* the page with the list is open
    requests,     \* list_nearby requests in flight, with the answer once read
    nearbyRows,   \* devices of the store
    banner,       \* unavailableReason is set
    overtaken,    \* a change was reported while an older answer was pending
    unsaid,       \* devices dropped without an event, and not heard of since
    unsaidReason  \* so was the reason

unsaidVars == <<unsaid, unsaidReason>>
nearbyListVars == <<air, noDiscovery, sightings, discovery, hears, panel, requests,
                    nearbyRows, banner, overtaken, unsaidVars>>

\* device-paired has no id: the page reads the whole list again.
NearbyEvent == [kind : {"found", "identified", "lost", "paired"}, id : Nearby]
               \cup [kind : {"unavailable"}]
Pending(i) == requests[i].answer # <<>>

NearbyListTypeOK ==
    /\ air \subseteq Nearby /\ nearbyRows \subseteq Nearby
    /\ {noDiscovery, hears, panel, banner, overtaken, unsaidReason} \subseteq BOOLEAN
    /\ unsaid \subseteq Nearby
    /\ sightings \in 0..MaxSightings
    /\ discovery \in Seq(NearbyEvent) /\ Len(discovery) <= MaxSightings
    /\ Len(requests) <= MaxRequests
    /\ \A i \in DOMAIN requests :
         /\ requests[i].for \in Nearby \cup {WholeList}
         /\ Pending(i) => /\ requests[i].answer[1] \subseteq Nearby
                          /\ requests[i].answer[2] \in BOOLEAN

NearbyListInit ==
    /\ air \in SUBSET Nearby /\ noDiscovery = FALSE /\ sightings = 0 /\ discovery = <<>>
    /\ hears = FALSE /\ panel = FALSE /\ requests = <<>> /\ nearbyRows = {}
    /\ banner = FALSE /\ overtaken = FALSE /\ unsaid = {} /\ unsaidReason = FALSE

-----------------------------------------------------------------------------
\* The registry.

Reports(e) ==
    /\ sightings < MaxSightings /\ sightings' = sightings + 1
    /\ discovery' = IF hears THEN Append(discovery, e) ELSE discovery
    /\ overtaken' = (overtaken \/ (panel /\ ~hears))
    /\ UNCHANGED <<hears, panel, requests, nearbyRows, banner>>

\* The lan event loop and its probes.  Sightings come from an mDNS pump that
\* started, so discovery is available then.
DeviceFound(d) ==
    /\ ~noDiscovery /\ d \notin air /\ air' = air \cup {d} /\ UNCHANGED noDiscovery
    /\ unsaid' = unsaid \ {d} /\ unsaidReason' = FALSE
    /\ Reports([kind |-> "found", id |-> d])

DeviceIdentified(d) ==
    /\ d \in air /\ UNCHANGED <<air, noDiscovery, unsaidVars>>
    /\ Reports([kind |-> "identified", id |-> d])

DeviceLost(d) ==
    /\ ~noDiscovery /\ d \in air /\ air' = air \ {d} /\ UNCHANGED <<noDiscovery, unsaidVars>>
    /\ Reports([kind |-> "lost", id |-> d])

\* A device is paired: it leaves the registry, and device-paired follows.
DevicePaired(d) ==
    /\ air' = air \ {d} /\ unsaid' = unsaid \ {d} /\ UNCHANGED <<noDiscovery, unsaidReason>>
    /\ Reports([kind |-> "paired", id |-> d])

\* start_lan_discovery fails.
DiscoveryFails ==
    /\ noDiscovery' = TRUE /\ unsaidReason' = FALSE /\ UNCHANGED <<air, unsaid>>
    /\ Reports([kind |-> "unavailable"])

\* Changes that nothing announces.
Silently ==
    /\ sightings < MaxSightings /\ sightings' = sightings + 1
    /\ UNCHANGED <<discovery, hears, panel, requests, nearbyRows, banner, overtaken>>

\* decline_nearby_invite that also blocks the device
DeviceBlocked(d) ==
    /\ d \in air /\ air' = air \ {d} /\ unsaid' = unsaid \cup {d}
    /\ UNCHANGED <<noDiscovery, unsaidReason>> /\ Silently

\* rebuild_network or start-up: start_lan_discovery succeeds and clears the reason
DiscoveryRestarts ==
    /\ noDiscovery /\ noDiscovery' = FALSE /\ unsaidReason' = TRUE
    /\ UNCHANGED <<air, unsaid>> /\ Silently

\* set_discoverability to off: the reason goes and the registry is cleared
DiscoverabilityOff ==
    /\ air' = {} /\ unsaid' = unsaid \cup air
    /\ noDiscovery' = FALSE /\ unsaidReason' = (unsaidReason \/ noDiscovery)
    /\ Silently

RequestRuns(i) ==
    /\ ~Pending(i)
    /\ requests' = [requests EXCEPT ![i].answer = <<air, noDiscovery>>]
    /\ UNCHANGED <<air, noDiscovery, sightings, discovery, hears, panel,
                   nearbyRows, banner, overtaken, unsaidVars>>

-----------------------------------------------------------------------------
\* nearby-store

Request(d) == requests' = Append(requests, [for |-> d, answer |-> <<>>])
CanRequest == Len(requests) < MaxRequests

\* The page mounts: hydrate and the registration of the listeners start.
OpenPanel ==
    /\ ~panel /\ CanRequest /\ panel' = TRUE /\ Request(WholeList)
    /\ overtaken' = (requests # <<>>) /\ unsaid' = {} /\ unsaidReason' = FALSE
    /\ UNCHANGED <<air, noDiscovery, sightings, discovery, hears, nearbyRows, banner>>

StartNearbyListeners ==
    /\ panel /\ ~hears /\ hears' = TRUE
    /\ UNCHANGED <<air, noDiscovery, sightings, discovery, panel, requests,
                   nearbyRows, banner, overtaken, unsaidVars>>

\* The store outlives the page; requests in flight still answer.
ClosePanel ==
    /\ panel /\ hears /\ panel' = FALSE /\ hears' = FALSE /\ discovery' = <<>>
    /\ UNCHANGED <<air, noDiscovery, sightings, requests, nearbyRows, banner, overtaken,
                   unsaidVars>>

Without(s, i) == SubSeq(s, 1, i - 1) \o SubSeq(s, i + 1, Len(s))

HydrateEnds(i) ==
    /\ Pending(i) /\ requests[i].for = WholeList /\ requests' = Without(requests, i)
    /\ \/ /\ nearbyRows' = requests[i].answer[1] /\ banner' = requests[i].answer[2]
          /\ UNCHANGED overtaken
       \/ overtaken' = TRUE /\ UNCHANGED <<nearbyRows, banner>>
    /\ UNCHANGED <<air, noDiscovery, sightings, discovery, hears, panel, unsaidVars>>

RefreshOneEnds(i) ==
    /\ Pending(i) /\ requests[i].for # WholeList /\ requests' = Without(requests, i)
    /\ \/ /\ nearbyRows' = nearbyRows \cup ({requests[i].for} \cap requests[i].answer[1])
          /\ UNCHANGED overtaken
       \/ overtaken' = TRUE /\ UNCHANGED nearbyRows
    /\ UNCHANGED <<air, noDiscovery, sightings, discovery, hears, panel, banner, unsaidVars>>

\* An event is applied at once, whatever answers are still on their way.
Overtakes(d) ==
    \E i \in DOMAIN requests : Pending(i) /\ requests[i].for \in {d, WholeList}

OnSighting ==
    /\ discovery # <<>> /\ Head(discovery).kind \in {"found", "identified"} /\ CanRequest
    /\ discovery' = Tail(discovery) /\ Request(Head(discovery).id)
    /\ banner' = (banner /\ Head(discovery).kind # "found")
    /\ overtaken' = (overtaken \/ Overtakes(Head(discovery).id))
    /\ UNCHANGED <<air, noDiscovery, sightings, hears, panel, nearbyRows, unsaidVars>>

\* device-paired: hydrate
OnPairedNearby ==
    /\ discovery # <<>> /\ Head(discovery).kind = "paired" /\ CanRequest
    /\ discovery' = Tail(discovery) /\ Request(WholeList)
    /\ overtaken' = (overtaken \/ Overtakes(Head(discovery).id))
    /\ UNCHANGED <<air, noDiscovery, sightings, hears, panel, nearbyRows, banner, unsaidVars>>

OnLost ==
    /\ discovery # <<>> /\ Head(discovery).kind = "lost"
    /\ discovery' = Tail(discovery) /\ nearbyRows' = nearbyRows \ {Head(discovery).id}
    /\ overtaken' = (overtaken \/ Overtakes(Head(discovery).id))
    /\ UNCHANGED <<air, noDiscovery, sightings, hears, panel, requests, banner, unsaidVars>>

OnUnavailable ==
    /\ discovery # <<>> /\ Head(discovery).kind = "unavailable"
    /\ discovery' = Tail(discovery) /\ banner' = TRUE
    /\ overtaken' = (overtaken \/ Overtakes(WholeList))
    /\ UNCHANGED <<air, noDiscovery, sightings, hears, panel, requests, nearbyRows,
                   unsaidVars>>

NearbyListNext ==
    \/ \E d \in Nearby : \/ DeviceFound(d) \/ DeviceIdentified(d) \/ DeviceLost(d)
                         \/ DevicePaired(d) \/ DeviceBlocked(d)
    \/ DiscoveryFails \/ DiscoveryRestarts \/ DiscoverabilityOff
    \/ \E i \in DOMAIN requests : RequestRuns(i) \/ HydrateEnds(i) \/ RefreshOneEnds(i)
    \/ OpenPanel \/ StartNearbyListeners \/ ClosePanel
    \/ OnSighting \/ OnPairedNearby \/ OnLost \/ OnUnavailable

-----------------------------------------------------------------------------
\* When nothing is on its way the list shows exactly the devices of the
\* registry, and the banner exactly while discovery is unavailable, although
\* events name only an id and answers are applied in any order.  What may be left
\* over on the page is what the backend drops without an event: a device that was
\* blocked, the registry when discoverability is turned off, the reason when
\* discovery works again.  Not promised when an event overtook an answer that was
\* already read (overtaken).
NearbyMatchesRegistry ==
    (panel /\ hears /\ discovery = <<>> /\ requests = <<>> /\ ~overtaken)
        => nearbyRows \ unsaid = air /\ (banner /\ ~unsaidReason) = noDiscovery
=============================================================================
