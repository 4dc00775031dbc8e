---------------------------- MODULE PairingWindow ---------------------------
(***************************************************************************)
(* The engine's pairing window: start_pairing_host and stop_pairing_host   *)
(* run concurrently with each other, with the tasks that close a window    *)
(* when its time is over, and with the sessions of peers that join.  A     *)
(* command is split at its awaits.  Every caller passes a TTL, so the flag *)
(* pairing_host_persistent stays FALSE.  The handshake is one step: it     *)
(* completes or the connection is lost; the other messages of such a       *)
(* session do not touch the window.                                        *)
(***************************************************************************)
EXTENDS Naturals

CONSTANTS
    Starts,       \* invocations of start_pairing_host, each with its task
    Stops,        \* invocations of stop_pairing_host
    Joiners,      \* inbound connections of peers that are not allowed
    NoTask

ASSUME WindowAssumption == Starts \cap Stops = {} /\ NoTask \notin Starts

VARIABLES
    command,      \* where each invocation is
    flag,         \* NodeService.pairing_host_open
    accepting,    \* AccessState.pairing_host_open
    expiry,       \* the task each start spawned
    aborted,      \* tasks that were aborted
    handle,       \* pairing_expire_task
    joiner        \* where the session of each peer is

windowVars == <<command, flag, accepting, expiry, aborted, handle, joiner>>

Commands == Starts \cup Stops

WindowTypeOK ==
    /\ command \in [Commands -> {"idle", "stop", "shut", "open", "spawn", "store", "done"}]
    /\ flag \in BOOLEAN /\ accepting \in BOOLEAN
    /\ expiry \in [Starts -> {"none", "asleep", "shut", "over"}]
    /\ aborted \subseteq Starts /\ handle \in Starts \cup {NoTask}
    /\ joiner \in [Joiners -> {"none", "accepted", "pairing", "paired", "over"}]

WindowInit ==
    /\ command = [c \in Commands |-> "idle"]
    /\ flag = FALSE /\ accepting = FALSE
    /\ expiry = [t \in Starts |-> "none"] /\ aborted = {} /\ handle = NoTask
    /\ joiner = [j \in Joiners |-> "none"]

-----------------------------------------------------------------------------
\* The commands

CallHost(c) ==
    /\ command[c] = "idle" /\ command' = [command EXCEPT ![c] = "stop"]
    /\ UNCHANGED <<flag, accepting, expiry, aborted, handle, joiner>>

\* Mutant: a window whose flag is already down is not closed again.
StopUnlessDown(c) ==
    /\ command[c] = "stop"
    /\ aborted' = aborted \cup ({handle} \ {NoTask}) /\ handle' = NoTask
    /\ flag' = (c \in Starts /\ ~flag)
    /\ command' = [command EXCEPT ![c] =
                     IF flag THEN "shut" ELSE IF c \in Starts THEN "open" ELSE "done"]
    /\ UNCHANGED <<accepting, expiry, joiner>>

\* stop_pairing_host, which start_pairing_host calls first: the task of the last
\* window is aborted and the flag taken down; then the access lock is awaited.
StopHost(c) ==
    /\ command[c] = "stop"
    /\ aborted' = aborted \cup ({handle} \ {NoTask}) /\ handle' = NoTask
    /\ flag' = FALSE
    /\ command' = [command EXCEPT ![c] = "shut"]
    /\ UNCHANGED <<accepting, expiry, joiner>>

\* ... and the window is closed.  A start raises the flag before it awaits the
\* lock again.
ShutHost(c) ==
    /\ command[c] = "shut" /\ accepting' = FALSE
    /\ flag' = (flag \/ c \in Starts)
    /\ command' = [command EXCEPT ![c] = IF c \in Starts THEN "open" ELSE "done"]
    /\ UNCHANGED <<expiry, aborted, handle, joiner>>

OpenHost(c) ==
    /\ command[c] = "open" /\ accepting' = TRUE
    /\ command' = [command EXCEPT ![c] = "spawn"]
    /\ UNCHANGED <<flag, expiry, aborted, handle, joiner>>

SpawnExpiry(c) ==
    /\ command[c] = "spawn" /\ expiry' = [expiry EXCEPT ![c] = "asleep"]
    /\ command' = [command EXCEPT ![c] = "store"]
    /\ UNCHANGED <<flag, accepting, aborted, handle, joiner>>

\* The handle replaces whatever a concurrent start stored; that task runs on.
StoreExpiry(c) ==
    /\ command[c] = "store" /\ handle' = c
    /\ command' = [command EXCEPT ![c] = "done"]
    /\ UNCHANGED <<flag, accepting, expiry, aborted, joiner>>

-----------------------------------------------------------------------------
\* The task of a window: an abort ends it while it sleeps, or at the access lock
\* if that is held by someone else.
ExpiryFires(t) ==
    /\ expiry[t] = "asleep" /\ t \notin aborted
    /\ expiry' = [expiry EXCEPT ![t] = "shut"] /\ flag' = FALSE
    /\ UNCHANGED <<command, accepting, aborted, handle, joiner>>

ExpiryShuts(t) ==
    /\ expiry[t] = "shut" /\ accepting' = FALSE
    /\ expiry' = [expiry EXCEPT ![t] = "over"]
    /\ UNCHANGED <<command, flag, aborted, handle, joiner>>

ExpiryCancelled(t) ==
    /\ t \in aborted /\ expiry[t] \in {"asleep", "shut"}
    /\ expiry' = [expiry EXCEPT ![t] = "over"]
    /\ UNCHANGED <<command, flag, accepting, aborted, handle, joiner>>

-----------------------------------------------------------------------------
\* A peer's session: the handshake hook and handle_connection each look at the
\* window; without it the reduced service takes over.
Accept(j) ==
    /\ joiner[j] = "none" /\ accepting
    /\ joiner' = [joiner EXCEPT ![j] = "accepted"]
    /\ UNCHANGED <<command, flag, accepting, expiry, aborted, handle>>

HandleConnection(j) ==
    /\ joiner[j] = "accepted"
    /\ joiner' = [joiner EXCEPT ![j] = IF accepting THEN "pairing" ELSE "over"]
    /\ UNCHANGED <<command, flag, accepting, expiry, aborted, handle>>

\* Both messages arrived: the device is remembered and allowed, and the answer is
\* written before the window is looked at again.  Or the connection is lost.
PairingDecided(j) ==
    /\ joiner[j] = "pairing"
    /\ \E outcome \in {"paired", "over"} : joiner' = [joiner EXCEPT ![j] = outcome]
    /\ UNCHANGED <<command, flag, accepting, expiry, aborted, handle>>

\* A completed pairing closes the window that is open by now.
PairingCloses(j) ==
    /\ joiner[j] = "paired" /\ accepting' = FALSE
    /\ joiner' = [joiner EXCEPT ![j] = "over"]
    /\ UNCHANGED <<command, flag, expiry, aborted, handle>>

-----------------------------------------------------------------------------
WindowNext ==
    \/ \E c \in Commands : CallHost(c) \/ StopHost(c) \/ ShutHost(c)
    \/ \E c \in Starts : \/ OpenHost(c) \/ SpawnExpiry(c) \/ StoreExpiry(c)
                         \/ ExpiryFires(c) \/ ExpiryShuts(c) \/ ExpiryCancelled(c)
    \/ \E j \in Joiners : \/ Accept(j) \/ HandleConnection(j)
                          \/ PairingDecided(j) \/ PairingCloses(j)

WindowSpec == WindowInit /\ [][WindowNext]_windowVars

-----------------------------------------------------------------------------
\* A window that accepts strangers is never left open: whatever starts, stops,
\* expiries and pairings interleave, someone is still going to close it - its
\* start has yet to spawn the task, a task that no one aborted is due, or a stop
\* that aborted one is at the lock (start_pairing_host, stop_pairing_host).
ClosesWindow(t) == expiry[t] \in {"asleep", "shut"} /\ t \notin aborted

WindowHasCloser ==
    accepting => \/ \E c \in Commands : command[c] \in {"shut", "spawn"}
                 \/ \E t \in Starts : ClosesWindow(t)
=============================================================================
