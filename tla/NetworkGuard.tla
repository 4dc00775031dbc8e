----------------------------- MODULE NetworkGuard ----------------------------
(***************************************************************************)
(* Network settings and the device node: what leaving the settings pages   *)
(* does (relay-change-guard.tsx, relay-change-warning.ts,                  *)
(* discovery-change-warning.ts), the sync at startup (DeviceNodeSync.tsx)  *)
(* and reconfigure_node_relay, which refuses while something is shared.    *)
(* The guard is mounted by SettingLayout: leaving the settings route       *)
(* unmounts it in the commit that changes the location, so the effect that *)
(* compares the locations never sees the new one.                          *)
(* The texts (relay URLs, token, pkarr URL, DNS origin) are one value.     *)
(***************************************************************************)
EXTENDS Integers, Sequences

CONSTANTS
  Texts,           \* values of the free text fields
  Networks         \* the configurations the user moves between

NetConfigs == [mode : {"default", "custom", "disabled"},
               fallback : {"strict", "public"},
               text : Texts, discovery : {"default", "custom"}]

ASSUME GuardAssumption == Networks \subseteq NetConfigs

VARIABLES
  ncfg,            \* the settings
  nnode,           \* the configuration the node runs with
  nready,          \* isNodeReady
  ndid,            \* didSyncRelay of DeviceNodeSync
  nsyncs,          \* reconfigure_node_relay calls under way
  nsharing,        \* a share is active or starting
  npage,           \* the settings pages are open
  ninit,           \* the guard's snapshot of the settings
  nblocked,        \* the blocker holds a navigation: the dialog is open
  nleft,           \* history: how settings were left with changes: NotLeft, "warned", "silent"
  nlost            \* history: a call was refused, failed or was overtaken

NotLeft == ""

gVars == <<ncfg, nnode, nready, ndid, nsyncs, nsharing, npage, ninit,
           nblocked, nleft, nlost>>

\* The node starts with what the settings file says.
GInit ==
  /\ ncfg \in Networks
  /\ nnode = ncfg
  /\ nready = FALSE /\ ndid = FALSE /\ nsyncs = <<>> /\ nsharing = FALSE
  /\ npage = FALSE /\ ninit = ncfg /\ nblocked = FALSE
  /\ nleft = NotLeft /\ nlost = FALSE

-----------------------------------------------------------------------------
getRelayChangeWarningType ==
  IF ncfg.mode # ninit.mode
  THEN IF ncfg.mode = "default" THEN "none" ELSE ncfg.mode
  ELSE IF ncfg.mode = "custom" /\ ncfg.fallback # ninit.fallback
       THEN "custom" ELSE "none"

shouldWarnDiscoveryChange ==
  ncfg.discovery # ninit.discovery /\ ncfg.discovery = "custom"

ShouldWarnLeave ==
  getRelayChangeWarningType # "none" \/ shouldWarnDiscoveryChange

EnterSettings ==
  /\ ~npage
  /\ npage' = TRUE /\ ninit' = ncfg /\ nleft' = NotLeft
  /\ UNCHANGED <<ncfg, nnode, nready, ndid, nsyncs, nsharing, nblocked, nlost>>

EditNetwork(c) ==
  /\ npage /\ ~nblocked /\ c # ncfg
  /\ ncfg' = c
  /\ UNCHANGED <<nnode, nready, ndid, nsyncs, nsharing, npage, ninit,
                 nblocked, nleft, nlost>>

\* The blocker holds the navigation when there is something to warn about.
BlockLeave ==
  /\ npage /\ ~nblocked /\ ShouldWarnLeave
  /\ nblocked' = TRUE
  /\ UNCHANGED <<ncfg, nnode, nready, ndid, nsyncs, nsharing, npage, ninit,
                 nleft, nlost>>

CancelLeave ==
  /\ nblocked
  /\ nblocked' = FALSE
  /\ UNCHANGED <<ncfg, nnode, nready, ndid, nsyncs, nsharing, npage, ninit,
                 nleft, nlost>>

SyncNodeNetworkSettings(c) ==
  /\ Len(nsyncs) < 2
  /\ nsyncs' = Append(nsyncs, [cfg |-> c, late |-> FALSE])

ConfirmLeave ==
  /\ nblocked
  /\ nblocked' = FALSE /\ npage' = FALSE
  /\ IF nready THEN SyncNodeNetworkSettings(ncfg) /\ nleft' = "warned"
               ELSE UNCHANGED <<nsyncs, nleft>>
  /\ UNCHANGED <<ncfg, nnode, nready, ndid, nsharing, ninit, nlost>>

\* Nothing to warn about: the route changes, the guard is gone, and with it
\* the effect that would have applied the edits.
LeaveQuietly ==
  /\ npage /\ ~nblocked /\ ~ShouldWarnLeave
  /\ npage' = FALSE
  /\ nleft' = IF ncfg # ninit /\ nready THEN "silent" ELSE NotLeft
  /\ UNCHANGED <<ncfg, nnode, nready, ndid, nsyncs, nsharing, ninit, nblocked,
                 nlost>>

-----------------------------------------------------------------------------
(* The node. *)

\* The effect depends on isNodeReady: it runs when that changes.
NodeReadyChanges ==
  /\ nready' = ~nready
  /\ IF nready' /\ ~ndid
     THEN SyncNodeNetworkSettings(ncfg) /\ ndid' = TRUE
     ELSE UNCHANGED <<nsyncs, ndid>>
  /\ UNCHANGED <<ncfg, nnode, nsharing, npage, ninit, nblocked, nleft, nlost>>

SharingChanges ==
  /\ nsharing' = ~nsharing
  /\ UNCHANGED <<ncfg, nnode, nready, ndid, nsyncs, npage, ninit, nblocked,
                 nleft, nlost>>

\* Two calls may run in either order; a refusal is logged and forgotten,
\* except that the startup sync may be tried again.
ReconfigureNodeRelay(i) ==
  /\ nsyncs' = LET marked == [j \in DOMAIN nsyncs |->
                                [nsyncs[j] EXCEPT !.late = @ \/ j < i]]
               IN  [j \in 1..(Len(nsyncs) - 1) |->
                      IF j < i THEN marked[j] ELSE marked[j + 1]]
  /\ \/ /\ ~nsharing
        /\ nnode' = nsyncs[i].cfg
        /\ nlost' = nsyncs[i].late
        /\ UNCHANGED ndid
     \/ /\ nlost' = TRUE
        /\ ndid' \in {ndid, FALSE}
        /\ UNCHANGED nnode
  /\ UNCHANGED <<ncfg, nready, nsharing, npage, ninit, nblocked, nleft>>

GNext ==
  \/ EnterSettings \/ BlockLeave \/ CancelLeave \/ ConfirmLeave \/ LeaveQuietly
  \/ \E c \in Networks : EditNetwork(c)
  \/ NodeReadyChanges \/ SharingChanges
  \/ \E i \in DOMAIN nsyncs : ReconfigureNodeRelay(i)

-----------------------------------------------------------------------------
GTypeOK ==
  /\ {ncfg, nnode, ninit} \subseteq Networks
  /\ {nready, ndid, nsharing, npage, nblocked, nlost} \subseteq BOOLEAN
  /\ Len(nsyncs) =< 2 /\ nleft \in {NotLeft, "warned", "silent"}

(***************************************************************************)
(* A change the user was warned about takes effect: after a confirmed      *)
(* leave with a ready node, once every reconfigure call has ended and none *)
(* was refused, failed or overtaken, the node runs with the settings       *)
(* (confirmLeave, reconfigure_node_relay).                                 *)
(***************************************************************************)
WarnedChangeReachesNode ==
  nleft = "warned" /\ nsyncs = <<>> /\ ~nlost => nnode = ncfg

(***************************************************************************)
(* relay-change-guard.tsx: "Also applies silent network edits (URL/token)  *)
(* to the device node when leaving settings, so pairing keeps using the    *)
(* latest config."  The guard is unmounted by the leave it waits for.      *)
(***************************************************************************)
SilentEditReachesNode ==
  nleft = "silent" /\ nsyncs = <<>> /\ ~nlost => nnode = ncfg
=============================================================================
