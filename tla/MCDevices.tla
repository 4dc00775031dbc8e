----------------------------- MODULE MCDevices ------------------------------
(***************************************************************************)
(* The devices page for TLC: the status of the node, the pairing window on *)
(* the page and in the engine, the rows of the paired devices, the list of *)
(* nearby devices and pairing with one of them, side by side; part names   *)
(* the one that a behaviour exercises.  The rows are taken twice: without  *)
(* the dialog for a name and without the commands for trust.               *)
(***************************************************************************)
EXTENDS NodeStatus, HostPairing, PairingWindow, DeviceRows, NearbyList, NearbyPairing

CONSTANTS d1, n1, n2, w1, w2, w3

VARIABLE part

OneDevice == {d1}
TwoNearby == {n1, n2}
TwoStarts == {w1, w2}
OneStop == {w3}

Parts == {"node", "host", "window", "rows", "names", "list", "ask", "prompt"}

Init ==
    /\ part \in Parts
    /\ NodeStatusInit /\ HostPairingInit /\ DeviceRowsInit /\ NearbyListInit
    /\ NearbyPairingInit /\ WindowInit
    /\ part # "node" => phase = "starting" /\ ~ipcBreaks
    /\ part # "host" => ~pairingCode
    /\ part \notin {"rows", "names"} => \A d \in Devices : rows[d] = Absent
    /\ part # "list" => air = {}
    /\ part # "prompt" => known = {}

Next ==
    /\ UNCHANGED part
    /\ \/ /\ part = "node" /\ NodeStatusNext
          /\ UNCHANGED <<hostPairingVars, windowVars, deviceRowsVars, nearbyListVars,
                         nearbyPairingVars>>
       \/ /\ part = "host" /\ HostPairingNext
          /\ UNCHANGED <<nodeStatusVars, windowVars, deviceRowsVars, nearbyListVars,
                         nearbyPairingVars>>
       \/ /\ part = "window" /\ WindowNext
          /\ UNCHANGED <<nodeStatusVars, hostPairingVars, deviceRowsVars, nearbyListVars,
                         nearbyPairingVars>>
       \/ /\ \/ part = "rows" /\ renamePeer' = NoDevice
             \/ part = "names" /\ UNCHANGED <<trustPeer, trustCalls>>
          /\ DeviceRowsNext
          /\ UNCHANGED <<nodeStatusVars, hostPairingVars, windowVars, nearbyListVars,
                         nearbyPairingVars>>
       \/ /\ part = "list" /\ NearbyListNext
          /\ UNCHANGED <<nodeStatusVars, hostPairingVars, windowVars, deviceRowsVars,
                         nearbyPairingVars>>
       \/ /\ \/ part = "ask" /\ AskNext
             \/ part = "prompt" /\ PromptNext
          /\ UNCHANGED <<nodeStatusVars, hostPairingVars, windowVars, deviceRowsVars,
                         nearbyListVars>>

vars == <<part, nodeStatusVars, hostPairingVars, windowVars, deviceRowsVars,
          nearbyListVars, nearbyPairingVars>>

Spec == Init /\ [][Next]_vars
FairSpec == Spec /\ NodeStatusFairness /\ HostPairingFairness

\* The types of the parts.
TypeOK ==
    /\ NodeStatusTypeOK /\ HostPairingTypeOK /\ WindowTypeOK /\ DeviceRowsTypeOK
    /\ NearbyListTypeOK /\ NearbyPairingTypeOK

\* No control of the page is left busy without a command that will answer: the
\* code, join and save buttons, a row being removed, a nearby row being paired; and
\* the code to read out belongs to a request that arrived.
BusyHasCall ==
    PageBusyHasCall /\ RemovingHasCall /\ PairingHasCall /\ CodeOnlyIfDelivered

\* When all is quiet both lists show what the backend has: the paired devices and
\* their trust (pairing-data-store), and the nearby devices (nearby-store).
ListsMatchBackend == RowsMatchRecords /\ NearbyMatchesRegistry

\* Trust and pairing are granted to the device the user confirmed and to no other,
\* whatever changed between the dialog and the click.
OnlyConfirmed == TrustIsConfirmed /\ GrantsWhatWasShown
=============================================================================
