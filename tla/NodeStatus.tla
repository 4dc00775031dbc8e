----------------------------- MODULE NodeStatus -----------------------------
(***************************************************************************)
(* What the interface knows of the device node: node-capability-store      *)
(* polls get_node_status and listens to the node's lifecycle events, and   *)
(* pairing-data-store loads the paired devices once the node is ready.     *)
(*                                                                         *)
(* The node (external here) starts, becomes ready or fails, and reaches or *)
(* loses its home relay.  Answers to commands and events travel on         *)
(* separate paths and overtake each other; an event emitted before its     *)
(* listener is registered is lost.                                         *)
(***************************************************************************)
EXTENDS Naturals, Sequences, FiniteSets

CONSTANTS
    MaxFeed,      \* bound on events on their way to the interface
    MaxLoads,     \* bound on loads of the pairing data at the same time
    MaxWarm,      \* bound on changes of the relay settings
    MaxExtras     \* bound on device-paired and pairing-host-expired events

ASSUME NodeStatusAssumption ==
    {MaxFeed, MaxLoads, MaxWarm, MaxExtras} \subseteq Nat /\ MaxLoads > 0

VARIABLES
    phase,        \* the node itself: starting, ready, failed
    home,         \* the node's network_ready
    warms,        \* changes of the relay settings so far
    extras,       \* other events so far that make the interface ask again
    feed,         \* events on their way
    listening,    \* the lifecycle listeners are registered
    ipcBreaks,    \* get_node_status may fail on its way
    nodeStatus,   \* nodeStatus.status
    hasResolved,
    isNetworkReady,
    poll,         \* refreshInFlight: none, asked, or the answer on its way
    fallback,     \* fallbackTimer is set
    waiting,      \* waitStartedAt: no, yes, over (WAIT_MAX_MS ago)
    preloading,   \* preloadPairingData still awaits its refresh
    seen,         \* what the last effects saw: resolved and ready
    page,         \* the devices page is open
    loads,        \* loads of the pairing data in flight
    data,         \* the devices of the store: none, empty, loaded
    hasHydrated,
    sync          \* the relay sync at start-up: todo, asked, done

nodeVars == <<phase, home, warms, extras, feed, listening, ipcBreaks>>
capVars == <<nodeStatus, hasResolved, isNetworkReady, poll, fallback, waiting, preloading>>
dataVars == <<loads, data, hasHydrated>>
nodeStatusVars == <<nodeVars, capVars, dataVars, seen, page, sync>>

Answers == {"starting", "ready", "readyNet", "failed", "error"}
Events == {"ready", "netReady", "warming", "failed", "paired"}

NodeStatusTypeOK ==
    /\ phase \in {"starting", "ready", "failed"} /\ home \in BOOLEAN
    /\ warms \in 0..MaxWarm /\ extras \in 0..MaxExtras
    /\ feed \in Seq(Events) /\ Len(feed) <= MaxFeed
    /\ listening \in BOOLEAN /\ ipcBreaks \in BOOLEAN
    /\ nodeStatus \in {"starting", "ready", "unavailable"}
    /\ hasResolved \in BOOLEAN /\ isNetworkReady \in BOOLEAN
    /\ poll \in Answers \cup {"none", "asked"}
    /\ fallback \in BOOLEAN /\ waiting \in {"no", "yes", "over"}
    /\ preloading \in BOOLEAN /\ seen \in [resolved : BOOLEAN, ready : BOOLEAN]
    /\ page \in BOOLEAN /\ loads \in 0..MaxLoads
    /\ data \in {"none", "empty", "loaded"} /\ hasHydrated \in BOOLEAN
    /\ sync \in {"todo", "asked", "done"}

\* DeviceNodeSync mounts: the listeners are being registered and the first
\* refresh, awaited by preloadPairingData, is asked.
NodeStatusInit ==
    /\ phase \in {"starting", "ready", "failed"} /\ home = FALSE
    /\ warms = 0 /\ extras = 0 /\ feed = <<>> /\ listening = FALSE
    /\ ipcBreaks \in BOOLEAN
    /\ nodeStatus = "starting" /\ hasResolved = FALSE /\ isNetworkReady = FALSE
    /\ poll = "none" /\ fallback = FALSE /\ waiting = "no" /\ preloading = TRUE
    /\ seen = [resolved |-> FALSE, ready |-> FALSE] /\ page = FALSE
    /\ loads = 0 /\ data = "none" /\ hasHydrated = FALSE /\ sync = "todo"

-----------------------------------------------------------------------------
\* The node.

Emit(e) ==
    feed' = IF listening /\ Len(feed) < MaxFeed THEN Append(feed, e) ELSE feed

Room == Len(feed) < MaxFeed

NodeStarts ==
    /\ phase = "starting" /\ Room
    /\ \/ phase' = "ready" /\ Emit("ready")
       \/ phase' = "failed" /\ Emit("failed")
    /\ UNCHANGED <<home, warms, extras, listening, ipcBreaks, capVars, dataVars,
                   seen, page, sync>>

HomeReached ==
    /\ phase = "ready" /\ ~home /\ Room
    /\ home' = TRUE /\ Emit("netReady")
    /\ UNCHANGED <<phase, warms, extras, listening, ipcBreaks, capVars, dataVars,
                   seen, page, sync>>

\* reconfigure_node_relay binds a new endpoint.
RelayChanged ==
    /\ phase = "ready" /\ warms < MaxWarm /\ Room
    /\ warms' = warms + 1 /\ home' = FALSE /\ Emit("warming")
    /\ UNCHANGED <<phase, extras, listening, ipcBreaks, capVars, dataVars, seen,
                   page, sync>>

PeerPairs ==
    /\ phase = "ready" /\ extras < MaxExtras /\ Room
    /\ extras' = extras + 1 /\ Emit("paired")
    /\ UNCHANGED <<phase, home, warms, listening, ipcBreaks, capVars, dataVars,
                   seen, page, sync>>

Register ==
    /\ ~listening /\ (poll # "none" \/ ~preloading) /\ listening' = TRUE
    /\ UNCHANGED <<phase, home, warms, extras, feed, ipcBreaks, capVars, dataVars,
                   seen, page, sync>>

\* node_status_from_state reads the state when the command runs.
NodeAnswers ==
    /\ poll = "asked"
    /\ poll' \in {CASE phase = "starting" -> "starting"
                    [] phase = "failed" -> "failed"
                    [] OTHER -> IF home THEN "readyNet" ELSE "ready"}
                 \cup (IF ipcBreaks THEN {"error"} ELSE {})
    /\ UNCHANGED <<nodeVars, nodeStatus, hasResolved, isNetworkReady, fallback,
                   waiting, preloading, dataVars, seen, page, sync>>

-----------------------------------------------------------------------------
\* node-capability-store

isNodeStatusSettled(a) == a \in {"ready", "readyNet", "failed"}

Refresh == poll' = IF poll = "none" THEN "asked" ELSE poll

Settle(s, net) ==
    /\ nodeStatus' = s /\ hasResolved' = TRUE /\ isNetworkReady' = net
    /\ fallback' = FALSE /\ waiting' = "no"

\* hydrate of pairing-data-store, in the state the step leaves behind.
Hydrate ==
    \/ /\ ~hasResolved' \/ nodeStatus' = "starting"
       /\ UNCHANGED dataVars
    \/ /\ hasResolved' /\ nodeStatus' = "unavailable"
       /\ data' = "empty" /\ hasHydrated' = TRUE /\ UNCHANGED loads
    \/ /\ hasResolved' /\ nodeStatus' = "ready" /\ loads < MaxLoads
       /\ loads' = loads + 1 /\ UNCHANGED <<data, hasHydrated>>

AfterPreload == IF preloading THEN Hydrate ELSE UNCHANGED dataVars

FirstRefresh ==
    /\ preloading /\ poll = "none" /\ Refresh
    /\ UNCHANGED <<nodeVars, nodeStatus, hasResolved, isNetworkReady, fallback,
                   waiting, preloading, dataVars, seen, page, sync>>

RefreshSettles ==
    /\ isNodeStatusSettled(poll) /\ poll' = "none" /\ preloading' = FALSE
    /\ Settle(IF poll = "failed" THEN "unavailable" ELSE "ready", poll = "readyNet")
    /\ AfterPreload
    /\ UNCHANGED <<nodeVars, seen, page, sync>>

RefreshGivesUp ==
    /\ \/ poll = "error"
       \/ poll = "starting" /\ waiting = "over"
    /\ poll' = "none" /\ preloading' = FALSE
    /\ Settle("unavailable", FALSE)
    /\ AfterPreload
    /\ UNCHANGED <<nodeVars, seen, page, sync>>

\* Mutant: the wait is only bounded, nothing asks again.
WaitsForEvent ==
    /\ poll = "starting" /\ waiting # "over" /\ poll' = "none" /\ preloading' = FALSE
    /\ nodeStatus' = "starting" /\ hasResolved' = FALSE /\ isNetworkReady' = FALSE
    /\ waiting' = "yes" /\ UNCHANGED fallback
    /\ AfterPreload
    /\ UNCHANGED <<nodeVars, seen, page, sync>>

RefreshWaits ==
    /\ poll = "starting" /\ waiting # "over" /\ poll' = "none" /\ preloading' = FALSE
    /\ nodeStatus' = "starting" /\ hasResolved' = FALSE /\ isNetworkReady' = FALSE
    /\ waiting' = "yes" /\ fallback' = TRUE
    /\ AfterPreload
    /\ UNCHANGED <<nodeVars, seen, page, sync>>

FallbackFires ==
    /\ fallback /\ fallback' = FALSE /\ Refresh
    /\ UNCHANGED <<nodeVars, nodeStatus, hasResolved, isNetworkReady, waiting,
                   preloading, dataVars, seen, page, sync>>

\* The 30 s end in one of the 1 s pauses between two polls, long after the
\* listeners are registered.
WaitMaxPasses ==
    /\ waiting = "yes" /\ listening /\ fallback /\ poll = "none"
    /\ waiting' = "over"
    /\ UNCHANGED <<nodeVars, nodeStatus, hasResolved, isNetworkReady, poll, fallback,
                   preloading, dataVars, seen, page, sync>>

OnNodeReady ==
    /\ Refresh /\ fallback' = FALSE /\ waiting' = "no"
    /\ UNCHANGED <<nodeStatus, hasResolved, isNetworkReady>>

OnLifecycleEvent ==
    /\ feed # <<>> /\ feed' = Tail(feed)
    /\ \/ Head(feed) = "ready" /\ OnNodeReady
       \/ /\ Head(feed) = "netReady" /\ Refresh /\ isNetworkReady' = TRUE
          /\ UNCHANGED <<nodeStatus, hasResolved, fallback, waiting>>
       \/ /\ Head(feed) = "warming" /\ isNetworkReady' = FALSE
          /\ UNCHANGED <<nodeStatus, hasResolved, poll, fallback, waiting>>
       \/ /\ Head(feed) = "failed" /\ Settle("unavailable", FALSE) /\ UNCHANGED poll
       \/ /\ Head(feed) = "paired" /\ Refresh
          /\ UNCHANGED <<nodeStatus, hasResolved, isNetworkReady, fallback, waiting>>
    /\ IF Head(feed) = "paired" /\ page THEN Hydrate ELSE UNCHANGED dataVars
    /\ UNCHANGED <<phase, home, warms, extras, listening, ipcBreaks, preloading,
                   seen, page, sync>>

-----------------------------------------------------------------------------
\* Effects of DeviceNodeSync and usePairing, and the devices page.

\* React runs the effects whose dependencies changed: isNodeReady hydrates
\* and syncs the relay, hasResolved hydrates when the page is open.
RunEffects ==
    LET now == [resolved |-> hasResolved, ready |-> nodeStatus = "ready"]
        hydrates == \/ now.ready /\ ~seen.ready
                    \/ page /\ now.resolved /\ ~seen.resolved
    IN  /\ seen # now /\ seen' = now
        /\ sync' = IF now.ready /\ ~seen.ready /\ sync = "todo" THEN "asked" ELSE sync
        /\ UNCHANGED <<nodeVars, capVars, page>>
        /\ IF hydrates THEN Hydrate ELSE UNCHANGED dataVars

\* A failed relay sync may be tried again when the node is next ready.
SyncAnswers ==
    /\ sync = "asked" /\ sync' \in {"todo", "done"}
    /\ UNCHANGED <<nodeVars, capVars, dataVars, seen, page>>

OpenPage ==
    /\ ~page /\ page' = TRUE /\ Refresh
    /\ UNCHANGED <<nodeVars, nodeStatus, hasResolved, isNetworkReady, fallback,
                   waiting, preloading, seen, sync>>
    /\ IF hasResolved THEN Hydrate ELSE UNCHANGED dataVars

ClosePage ==
    /\ page /\ page' = FALSE
    /\ UNCHANGED <<nodeVars, capVars, dataVars, seen, sync>>

LoadAnswers ==
    /\ loads > 0 /\ loads' = loads - 1 /\ hasHydrated' = TRUE
    /\ data' \in {"loaded", data}
    /\ UNCHANGED <<nodeVars, capVars, seen, page, sync>>

\* What the devices page shows.
isPairingDataPending == ~hasResolved \/ (nodeStatus = "ready" /\ ~hasHydrated)

PageShows ==
    IF isPairingDataPending THEN "loading"
    ELSE IF nodeStatus # "ready" THEN "unavailable" ELSE "devices"

\* The status of an active device that is not online.
OfflineLabel ==
    IF nodeStatus = "ready" /\ ~isNetworkReady THEN "connecting" ELSE "offline"

NodeStatusNext ==
    \/ NodeStarts \/ HomeReached \/ RelayChanged \/ PeerPairs \/ Register
    \/ NodeAnswers \/ FirstRefresh \/ RefreshSettles \/ RefreshGivesUp
    \/ RefreshWaits \/ FallbackFires \/ WaitMaxPasses \/ OnLifecycleEvent
    \/ RunEffects \/ SyncAnswers \/ OpenPage \/ ClosePage \/ LoadAnswers

\* Commands are answered, events delivered, timers fire, React renders.  The
\* node itself owes nothing: it may start forever.  Strong fairness: the 30 s
\* pass however often the pauses between the polls are interrupted.
NodeStatusFairness ==
    /\ WF_nodeStatusVars(NodeAnswers) /\ WF_nodeStatusVars(RefreshSettles)
    /\ WF_nodeStatusVars(RefreshGivesUp) /\ WF_nodeStatusVars(RefreshWaits)
    /\ WF_nodeStatusVars(FallbackFires) /\ SF_nodeStatusVars(WaitMaxPasses)
    /\ WF_nodeStatusVars(OnLifecycleEvent) /\ WF_nodeStatusVars(RunEffects)
    /\ WF_nodeStatusVars(LoadAnswers) /\ WF_nodeStatusVars(Register)

-----------------------------------------------------------------------------
\* The devices page never spins forever: once the first status was asked, it
\* comes to show devices or the reason why there are none, whether the node
\* starts, fails or hangs, whichever events are lost and whatever fails.
PageSettles == (poll # "none" /\ PageShows = "loading") ~> PageShows # "loading"

\* A node that is ready is shown as ready in the end, also when it came up
\* after the interface had given up on it or when its event was missed.
ReadyReachesPage == (phase = "ready" /\ poll # "none" /\ ~ipcBreaks) ~> nodeStatus = "ready"

\* The page gets where the node is: it settles, and on a ready node as ready
\* (node-capability-store).
NodeReachesPage == PageSettles /\ ReadyReachesPage
=============================================================================
