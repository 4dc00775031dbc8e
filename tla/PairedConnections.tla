-------------------------- MODULE PairedConnections --------------------------
(***************************************************************************)
(* One node's PairedConnectionManager                                      *)
(* (engine/native/src/paired_connections.rs) together with the parts of    *)
(* node.rs that share its state: the control-session handler of an inbound *)
(* connection, forget_paired and the commit of a pairing.                  *)
(*                                                                         *)
(* The manager keeps one connect task per paired device, a map from device *)
(* to the stored session, and the presence map the UI reads.  The node     *)
(* runs on a multi-threaded tokio runtime: other tasks run between any two *)
(* lock acquisitions, and handle.abort() cancels a task at an await point  *)
(* but does not stop it in the middle of a poll.  A pc in AwaitPoints is a *)
(* place where an abort takes effect at once; at a pc in LockPoints the    *)
(* task awaits a lock, and the abort takes effect only if the lock is      *)
(* contended; at any other pc the task runs on to its next await point.    *)
(***************************************************************************)
EXTENDS Naturals, FiniteSets

CONSTANTS
    Devices,      \* remote endpoint ids
    Tasks,        \* identities of spawned connect tasks (JoinHandles)
    Conns,        \* identities of QUIC control connections (stable_id)
    None,         \* absent map entry
    Environment   \* which of EnvironmentEvents occur in this instance

EnvironmentEvents ==
    {"forget", "pair", "repair", "nudge", "restart", "rotate", "shutdown",
     "inbound", "refuse", "dialfail"}

ASSUME DevicesAssumption == Devices # {}
ASSUME NoneAssumption == None \notin Tasks /\ None \notin Conns
ASSUME EnvironmentAssumption == Environment \subseteq EnvironmentEvents

VARIABLES
    status,     \* paired-devices.json: pairing status of the record, if any
    settled,    \* RECENT_PAIRING_GRACE_MS has passed since paired_at
    allowed,    \* AccessState.allowed
    presence,   \* presence map (a missing key reads as offline)
    sessions,   \* the stored session per device
    tasks,      \* the connect-task handle per device
    task,       \* the spawned connect tasks
    conn,       \* the control connections
    hdl,        \* the session handler of each inbound connection
    refresh,    \* refresh() calls between reading the store and locking tasks
    op,         \* per device: forget_paired, pairing commit, nudge in progress
    phase       \* PairedConnectionManager.shutdown: up, draining, down

vars == <<status, settled, allowed, presence, sessions, tasks, task, conn,
          hdl, refresh, op, phase>>

-----------------------------------------------------------------------------
\* PairingStatus, with "absent" for a device that has no record.
Status == {"absent", "active", "unpaired", "stale"}

IsActive(s) == s = "active"
IsConnectable(s) == s \in {"active", "stale"}

AwaitPoints == {"loop", "dial", "live", "sleep"}
LockPoints == {"opened", "teardown", "revoke"}
TaskPcs == AwaitPoints \cup LockPoints \cup
           {"done", "inserted", "cleared", "judge", "offline"}
HandlerPcs == {"none", "wait", "seen", "store", "stored", "act", "revoke",
               "offline", "drop", "clear", "unreg", "unregged"}
Messages == {"recognition", "invite", "forget"}

Task == [dev : Devices, pc : TaskPcs, conn : Conns \cup {None},
         brk : BOOLEAN, aborted : BOOLEAN]
Handler == [pc : HandlerPcs, paired : BOOLEAN, reg : BOOLEAN, msg : Messages]
Conn == [dev : Devices, state : {"open", "closed", "refused"}]
Operation == [forget : {"idle", "allow", "store", "abort", "session", "offline"},
              commit : {"idle", "remembered", "allowed"},
              nudge  : BOOLEAN]

\* The two callers of refresh(): the supervisor and a committing pairing.
Refreshers == {"supervisor", "commit"}

TypeOK ==
    /\ status \in [Devices -> Status]
    /\ settled \in [Devices -> BOOLEAN]
    /\ allowed \in SUBSET Devices
    /\ presence \in [Devices -> BOOLEAN]
    /\ sessions \in [Devices -> Conns \cup {None}]
    /\ tasks \in [Devices -> Tasks \cup {None}]
    /\ task \in [Tasks -> Task]
    /\ conn \in [Conns -> Conn]
    /\ hdl \in [Conns -> Handler]
    /\ refresh \in [Refreshers -> [pending : BOOLEAN, active : SUBSET Devices]]
    /\ op \in [Devices -> Operation]
    /\ phase \in {"up", "draining", "down"}

AnyDevice == CHOOSE d \in Devices : TRUE
Finished(r) == [r EXCEPT !.pc = "done", !.conn = None, !.brk = FALSE,
                         !.aborted = FALSE]
NewTask(d) == [dev |-> d, pc |-> "loop", conn |-> None, brk |-> FALSE,
               aborted |-> FALSE]
NoHandler == [pc |-> "none", paired |-> FALSE, reg |-> FALSE,
              msg |-> "recognition"]
NotRefreshing == [pending |-> FALSE, active |-> {}]

\* load_allowed_from_store and mark_stale_after_local_identity_rotation, on the
\* records st.
AllowedFromStore(st) == {d \in Devices : IsConnectable(st[d])}
MarkStale(st) == [d \in Devices |-> IF IsActive(st[d]) THEN "stale" ELSE st[d]]

\* set_presence
SetPresence(d, online) == presence' = [presence EXCEPT ![d] = online]

\* PairedConnectionManager::new and NodeService::start: every volatile
\* structure starts empty.
AllOffline == [d \in Devices |-> FALSE]
EmptyMap == [d \in Devices |-> None]
NoTaskRunning == [t \in Tasks |-> Finished(NewTask(AnyDevice))]
NoConnection == [c \in Conns |-> [dev |-> AnyDevice, state |-> "closed"]]
NoHandlers == [c \in Conns |-> NoHandler]
NoRefresh == [r \in Refreshers |-> NotRefreshing]
NoOperation == [d \in Devices |-> [forget |-> "idle", commit |-> "idle",
                                   nudge |-> FALSE]]

Init ==
    /\ status \in [Devices -> {"absent", "active"}]
    /\ settled = [d \in Devices |-> TRUE]
    /\ allowed = AllowedFromStore(status)
    /\ presence = AllOffline /\ sessions = EmptyMap /\ tasks = EmptyMap
    /\ task = NoTaskRunning /\ conn = NoConnection /\ hdl = NoHandlers
    /\ refresh = NoRefresh /\ op = NoOperation /\ phase = "up"

-----------------------------------------------------------------------------
\* Connections.  A connection nobody holds a handle to is closed by iroh and
\* its identity is free for the next connection.
Held(c) == \/ \E d \in Devices : sessions[d] = c
           \/ \E t \in Tasks : task[t].conn = c
           \/ hdl[c].pc # "none"
Open(c) == conn[c].state = "open"

\* The peer, the network or a rebuilt endpoint closes a connection.
PeerCloses(c) ==
    /\ Held(c) /\ Open(c)
    /\ conn' = [conn EXCEPT ![c].state = "closed"]
    /\ UNCHANGED <<status, settled, allowed, presence, sessions, tasks, task,
                   hdl, refresh, op, phase>>

\* The peer no longer knows us: its session handler closes the connection we
\* dialed with b"not permitted for unpaired peer".
PeerRefuses(c) ==
    /\ "refuse" \in Environment
    /\ Open(c) /\ \E t \in Tasks : task[t].conn = c
    /\ conn' = [conn EXCEPT ![c].state = "refused"]
    /\ UNCHANGED <<status, settled, allowed, presence, sessions, tasks, task,
                   hdl, refresh, op, phase>>

-----------------------------------------------------------------------------
\* Connect tasks: spawning and aborting.
FreeTasks == {t \in Tasks : task[t].pc = "done" /\ \A d \in Devices : tasks[d] # t}

\* JoinHandle::abort
Abort(r) == IF r.pc = "done" THEN r
            ELSE IF r.pc \in AwaitPoints THEN Finished(r)
            ELSE [r EXCEPT !.aborted = TRUE]

\* Task t continues at pc; an abort requested meanwhile takes effect when pc
\* is an await point.
Goto(t, pc) ==
    IF pc = "done" \/ (task[t].aborted /\ pc \in AwaitPoints)
    THEN Finished(task[t])
    ELSE [task[t] EXCEPT !.pc = pc]

\* An aborted task finds the lock it wants taken, and is cancelled there.
CancelledAtLock(t) ==
    /\ task[t].aborted /\ task[t].pc \in LockPoints
    /\ task' = [task EXCEPT ![t] = Finished(@)]
    /\ UNCHANGED <<status, settled, allowed, presence, sessions, tasks, conn,
                   hdl, refresh, op, phase>>

\* Under the tasks lock: drop and abort the handles of the devices in S, then
\* spawn a connect task for each device in N.
Rewire(S, N) ==
    \E f \in [N -> FreeTasks] :
        /\ \A a, b \in N : f[a] = f[b] => a = b
        /\ tasks' = [d \in Devices |-> IF d \in N THEN f[d]
                                       ELSE IF d \in S THEN None ELSE tasks[d]]
        /\ task' = [t \in Tasks |->
                      IF \E d \in N : f[d] = t
                      THEN NewTask(CHOOSE d \in N : f[d] = t)
                      ELSE IF \E d \in S : tasks[d] = t
                      THEN Abort(task[t])
                      ELSE task[t]]

\* refresh(): the store is read before the tasks lock is taken, so the set
\* acted on can be stale.
RefreshRead(r) ==
    refresh' = [refresh EXCEPT ![r] =
        [pending |-> TRUE,
         active  |-> {d \in Devices : IsConnectable(status[d])}]]

\* A handle already in the map is kept whether or not its task still runs.
RefreshApply(r) ==
    /\ refresh[r].pending
    /\ phase # "draining"
    /\ LET active == refresh[r].active
       IN  Rewire({d \in Devices : d \notin active},
                  {d \in active : tasks[d] = None})
    /\ refresh' = [refresh EXCEPT ![r] = NotRefreshing]
    /\ UNCHANGED <<status, settled, allowed, presence, sessions, conn, hdl,
                   op, phase>>

\* run_supervisor: refresh at start and every 30 seconds until shutdown.
SupervisorRefresh ==
    /\ phase = "up"
    /\ ~refresh["supervisor"].pending
    /\ RefreshRead("supervisor")
    /\ UNCHANGED <<status, settled, allowed, presence, sessions, tasks, task,
                   conn, hdl, op, phase>>

\* nudge_reconnect, reached from a LAN sighting of an allowed device: the
\* session map is checked before the tasks lock is taken.
NudgeCheck(d) ==
    /\ "nudge" \in Environment
    /\ d \in allowed /\ IsConnectable(status[d]) /\ sessions[d] = None
    /\ ~op[d].nudge
    /\ op' = [op EXCEPT ![d].nudge = TRUE]
    /\ UNCHANGED <<status, settled, allowed, presence, sessions, tasks, task,
                   conn, hdl, refresh, phase>>

\* Mutant: the old handle is dropped from the map but not aborted.
RespawnWithoutAbort(d) ==
    /\ op[d].nudge
    /\ phase # "draining"
    /\ Rewire({}, {d})
    /\ op' = [op EXCEPT ![d].nudge = FALSE]
    /\ UNCHANGED <<status, settled, allowed, presence, sessions, conn, hdl,
                   refresh, phase>>

RespawnConnectTask(d) ==
    /\ op[d].nudge
    /\ phase # "draining"
    /\ Rewire({d}, {d})
    /\ op' = [op EXCEPT ![d].nudge = FALSE]
    /\ UNCHANGED <<status, settled, allowed, presence, sessions, conn, hdl,
                   refresh, phase>>

-----------------------------------------------------------------------------
\* connect_loop, one action per stretch between two shared-state accesses.
At(t, pc) == task[t].pc = pc
Dev(t) == task[t].dev

\* Mutant: the loop does not look at the record before it dials.
LoopHeadUnchecked(t) ==
    /\ At(t, "loop")
    /\ task' = [task EXCEPT ![t] = Goto(t, IF phase # "up" THEN "done" ELSE "dial")]
    /\ UNCHANGED <<status, settled, allowed, presence, sessions, tasks, conn,
                   hdl, refresh, op, phase>>

LoopHead(t) ==
    /\ At(t, "loop")
    /\ task' = [task EXCEPT ![t] =
         Goto(t, IF phase # "up" \/ ~IsActive(status[Dev(t)]) THEN "done" ELSE "dial")]
    /\ UNCHANGED <<status, settled, allowed, presence, sessions, tasks, conn,
                   hdl, refresh, op, phase>>

\* connect_and_recognize succeeds.
DialSucceeds(t) ==
    /\ At(t, "dial")
    /\ \E c \in Conns :
         /\ ~Held(c)
         /\ conn' = [conn EXCEPT ![c] = [dev |-> Dev(t), state |-> "open"]]
         /\ task' = [task EXCEPT ![t].pc = "opened", ![t].conn = c]
    /\ UNCHANGED <<status, settled, allowed, presence, sessions, tasks, hdl,
                   refresh, op, phase>>

\* Mutant: the presence entry is removed instead of set to false.
DialFailsRemovesEntry(t) ==
    /\ "dialfail" \in Environment
    /\ At(t, "dial")
    /\ presence' = [d \in Devices \ {Dev(t)} |-> presence[d]]
    /\ task' = [task EXCEPT ![t] = Goto(t, IF phase = "up" THEN "sleep" ELSE "done")]
    /\ UNCHANGED <<status, settled, allowed, sessions, tasks, conn, hdl,
                   refresh, op, phase>>

\* Mutant: a failed dial leaves presence as it was.
DialFailsSilently(t) ==
    /\ "dialfail" \in Environment
    /\ At(t, "dial")
    /\ task' = [task EXCEPT ![t] = Goto(t, IF phase = "up" THEN "sleep" ELSE "done")]
    /\ UNCHANGED <<status, settled, allowed, presence, sessions, tasks, conn,
                   hdl, refresh, op, phase>>

\* connect_and_recognize fails: the device is shown offline, whatever
\* session is stored for it.
DialFails(t) ==
    /\ "dialfail" \in Environment
    /\ At(t, "dial")
    /\ SetPresence(Dev(t), FALSE)
    /\ task' = [task EXCEPT ![t] = Goto(t, IF phase = "up" THEN "sleep" ELSE "done")]
    /\ UNCHANGED <<status, settled, allowed, sessions, tasks, conn, hdl,
                   refresh, op, phase>>

\* set_session: the map entry first, presence after the lock is released.
SetSession(t) ==
    /\ At(t, "opened")
    /\ sessions' = [sessions EXCEPT ![Dev(t)] = task[t].conn]
    /\ task' = [task EXCEPT ![t] = Goto(t, "inserted")]
    /\ UNCHANGED <<status, settled, allowed, presence, tasks, conn, hdl,
                   refresh, op, phase>>

SetSessionOnline(t) ==
    /\ At(t, "inserted")
    /\ SetPresence(Dev(t), TRUE)
    /\ task' = [task EXCEPT ![t] = Goto(t, "live")]
    /\ UNCHANGED <<status, settled, allowed, sessions, tasks, conn, hdl,
                   refresh, op, phase>>

\* The select! resolves because the connection closed.  It can also drop the
\* read loop while apply_remote_unpair waits for the access lock.
ConnectionClosed(t) ==
    /\ At(t, "live") \/ (At(t, "revoke") /\ task[t].brk)
    /\ ~Open(task[t].conn)
    /\ task' = [task EXCEPT ![t].pc = "teardown", ![t].brk = FALSE]
    /\ UNCHANGED <<status, settled, allowed, presence, sessions, tasks, conn,
                   hdl, refresh, op, phase>>

\* apply_remote_unpair up to the store write; the caller continues at
\* "revoke" when an active record was marked.
MarkUnpaired(d) == status' = [status EXCEPT ![d] = "unpaired"]

\* read_outbound_control_loop receives a signed Forget for an active record.
\* Invites only raise events; the accepting side of a link sends no Recognition,
\* and the keying material of an established connection can be exported.
ReadForget(t) ==
    /\ At(t, "live") /\ Open(task[t].conn)
    /\ IsActive(status[Dev(t)])
    /\ MarkUnpaired(Dev(t))
    /\ task' = [task EXCEPT ![t].pc = "revoke", ![t].brk = TRUE]
    /\ UNCHANGED <<settled, allowed, presence, sessions, tasks, conn, hdl,
                   refresh, op, phase>>

\* Mutant: remove_session without the stable_id comparison.
TeardownAnySession(t) ==
    /\ At(t, "teardown")
    /\ sessions' = [sessions EXCEPT ![Dev(t)] = None]
    /\ task' = [task EXCEPT ![t] = Goto(t, "cleared")]
    /\ UNCHANGED <<status, settled, allowed, presence, tasks, conn, hdl,
                   refresh, op, phase>>

\* remove_session_if
TeardownSession(t) ==
    /\ At(t, "teardown")
    /\ LET mine == sessions[Dev(t)] = task[t].conn
       IN  /\ sessions' = [sessions EXCEPT ![Dev(t)] = IF mine THEN None ELSE @]
           /\ task' = [task EXCEPT ![t] = Goto(t, IF mine THEN "cleared" ELSE "judge")]
    /\ UNCHANGED <<status, settled, allowed, presence, tasks, conn, hdl,
                   refresh, op, phase>>

TeardownOffline(t) ==
    /\ At(t, "cleared")
    /\ SetPresence(Dev(t), FALSE)
    /\ task' = [task EXCEPT ![t] = Goto(t, "judge")]
    /\ UNCHANGED <<status, settled, allowed, sessions, tasks, conn, hdl,
                   refresh, op, phase>>

\* The record is younger than RECENT_PAIRING_GRACE_MS (pairing_is_settling).
Settling(d) == status[d] # "absent" /\ ~settled[d]

\* Mutant: the loop ends with its connection instead of backing off.
JudgeCloseGivesUp(t) ==
    /\ At(t, "judge")
    /\ task' = [task EXCEPT ![t] = Goto(t, "done")]
    /\ UNCHANGED <<status, settled, allowed, presence, sessions, tasks, conn,
                   hdl, refresh, op, phase>>

\* After the teardown: stop if a Forget was applied; treat a refused
\* Recognition as a remote unpair unless the pairing is settling; otherwise
\* back off and reconnect.
JudgeClose(t) ==
    LET d == Dev(t)
        unpair == /\ ~task[t].brk
                  /\ conn[task[t].conn].state = "refused"
                  /\ ~Settling(d) /\ IsActive(status[d])
    IN  /\ At(t, "judge")
        /\ status' = [status EXCEPT ![d] = IF unpair THEN "unpaired" ELSE @]
        /\ task' = [task EXCEPT ![t] =
             Goto(t, IF task[t].brk THEN "done"
                     ELSE IF unpair THEN "revoke"
                     ELSE IF phase = "up" THEN "sleep" ELSE "done")]
        /\ UNCHANGED <<settled, allowed, presence, sessions, tasks, conn, hdl,
                       refresh, op, phase>>

\* apply_remote_unpair after the store write: allowlist, then presence.
RevokeAccess(t) ==
    /\ At(t, "revoke")
    /\ allowed' = allowed \ {Dev(t)}
    /\ task' = [task EXCEPT ![t] = Goto(t, "offline")]
    /\ UNCHANGED <<status, settled, presence, sessions, tasks, conn, hdl,
                   refresh, op, phase>>

RevokeOffline(t) ==
    /\ At(t, "offline")
    /\ SetPresence(Dev(t), FALSE)
    /\ task' = [task EXCEPT ![t] =
         Goto(t, IF task[t].brk THEN "teardown" ELSE "done")]
    /\ UNCHANGED <<status, settled, allowed, sessions, tasks, conn, hdl,
                   refresh, op, phase>>

\* The backoff (settling retry, or doubling up to PAIRED_RECONNECT_MAX_SECS).
BackoffElapses(t) ==
    /\ At(t, "sleep")
    /\ task' = [task EXCEPT ![t] = [Goto(t, "loop") EXCEPT !.conn = None]]
    /\ UNCHANGED <<status, settled, allowed, presence, sessions, tasks, conn,
                   hdl, refresh, op, phase>>

Dial(t) == DialSucceeds(t) \/ DialFails(t)

TaskStep(t) ==
    \/ LoopHead(t) \/ Dial(t)
    \/ SetSession(t) \/ SetSessionOnline(t)
    \/ ConnectionClosed(t)
    \/ TeardownSession(t) \/ TeardownOffline(t) \/ JudgeClose(t)
    \/ RevokeAccess(t) \/ RevokeOffline(t)
    \/ BackoffElapses(t)
    \/ CancelledAtLock(t)

-----------------------------------------------------------------------------
\* handle_control_session for the inbound connection c.
HAt(c, pc) == hdl[c].pc = pc
HDev(c) == conn[c].dev
HGoto(c, pc) == hdl' = [hdl EXCEPT ![c] = IF pc = "none" THEN NoHandler
                                          ELSE [@ EXCEPT !.pc = pc]]

\* The endpoint hook let the peer in; whether it counts as paired is read here.
AcceptInbound(c, d) ==
    /\ "inbound" \in Environment
    /\ phase = "up"
    /\ ~Held(c)
    /\ conn' = [conn EXCEPT ![c] = [dev |-> d, state |-> "open"]]
    /\ hdl' = [hdl EXCEPT ![c] = [NoHandler EXCEPT !.pc = "wait",
                                                   !.paired = d \in allowed]]
    /\ UNCHANGED <<status, settled, allowed, presence, sessions, tasks, task,
                   refresh, op, phase>>

\* A message that an unpaired peer may not send re-reads the allowlist; a
\* refused peer is disconnected.  The first message of a paired peer
\* registers the connection, unless a session is already stored.
ReceiveMessage(c, m) ==
    LET paired == hdl[c].paired \/ (m # "invite" /\ HDev(c) \in allowed)
    IN  /\ HAt(c, "wait") /\ Open(c)
        /\ hdl' = [hdl EXCEPT ![c] =
             [@ EXCEPT !.paired = paired, !.msg = m,
                       !.pc = IF ~paired THEN IF m = "invite" THEN "wait" ELSE "unreg"
                              ELSE IF hdl[c].reg THEN "act"
                              ELSE IF sessions[HDev(c)] # None THEN "seen"
                              ELSE "store"]]
        /\ conn' = [conn EXCEPT ![c].state =
             IF ~paired /\ m # "invite" THEN "closed" ELSE @]
        /\ UNCHANGED <<status, settled, allowed, presence, sessions, tasks,
                       task, refresh, op, phase>>

\* register_inbound with a session already held: presence only.
RegisterSeen(c) ==
    /\ HAt(c, "seen")
    /\ SetPresence(HDev(c), TRUE)
    /\ hdl' = [hdl EXCEPT ![c].pc = "act", ![c].reg = TRUE]
    /\ UNCHANGED <<status, settled, allowed, sessions, tasks, task, conn,
                   refresh, op, phase>>

\* register_inbound without one: set_session, after the check was made.
RegisterStore(c) ==
    /\ HAt(c, "store")
    /\ sessions' = [sessions EXCEPT ![HDev(c)] = c]
    /\ HGoto(c, "stored")
    /\ UNCHANGED <<status, settled, allowed, presence, tasks, task, conn,
                   refresh, op, phase>>

RegisterOnline(c) ==
    /\ HAt(c, "stored")
    /\ SetPresence(HDev(c), TRUE)
    /\ hdl' = [hdl EXCEPT ![c].pc = "act", ![c].reg = TRUE]
    /\ UNCHANGED <<status, settled, allowed, sessions, tasks, task, conn,
                   refresh, op, phase>>

\* handle_paired_control_message: an invite only raises a UI event, a
\* Recognition marks the peer online, a Forget marks the record (if any).
ActOnMessage(c) ==
    LET d == HDev(c)
        m == hdl[c].msg
    IN  /\ HAt(c, "act")
        /\ presence' = [presence EXCEPT ![d] = @ \/ m = "recognition"]
        /\ status' = [status EXCEPT ![d] =
             IF m = "forget" /\ @ # "absent" THEN "unpaired" ELSE @]
        /\ HGoto(c, IF m # "forget" THEN "wait"
                    ELSE IF status[d] # "absent" THEN "revoke" ELSE "unreg")
        /\ conn' = [conn EXCEPT ![c].state =
             IF m = "forget" /\ status[d] = "absent" THEN "closed" ELSE @]
        /\ UNCHANGED <<settled, allowed, sessions, tasks, task, refresh, op,
                       phase>>

\* A Forget that marked a record goes on: allowlist, presence, connect task,
\* stored session; then the connection is closed with b"unpaired".
ForgetRevoke(c) ==
    /\ HAt(c, "revoke")
    /\ allowed' = allowed \ {HDev(c)}
    /\ HGoto(c, "offline")
    /\ UNCHANGED <<status, settled, presence, sessions, tasks, task, conn,
                   refresh, op, phase>>

ForgetOffline(c) ==
    /\ HAt(c, "offline")
    /\ SetPresence(HDev(c), FALSE)
    /\ HGoto(c, "drop")
    /\ UNCHANGED <<status, settled, allowed, sessions, tasks, task, conn,
                   refresh, op, phase>>

ForgetDropTask(c) ==
    /\ HAt(c, "drop") /\ phase # "draining"
    /\ Rewire({HDev(c)}, {})
    /\ HGoto(c, "clear")
    /\ UNCHANGED <<status, settled, allowed, presence, sessions, conn,
                   refresh, op, phase>>

\* remove_session: presence is written only when a session was stored.
RemoveSession(d) ==
    /\ sessions' = [sessions EXCEPT ![d] = None]
    /\ presence' = [presence EXCEPT ![d] = @ /\ sessions[d] = None]

ForgetClearSession(c) ==
    /\ HAt(c, "clear")
    /\ RemoveSession(HDev(c))
    /\ conn' = [conn EXCEPT ![c].state = "closed"]
    /\ HGoto(c, "unreg")
    /\ UNCHANGED <<status, settled, allowed, tasks, task, refresh, op, phase>>

\* accept_bi fails: the session is over.
SessionEnds(c) ==
    /\ HAt(c, "wait") /\ ~Open(c)
    /\ HGoto(c, "unreg")
    /\ UNCHANGED <<status, settled, allowed, presence, sessions, tasks, task,
                   conn, refresh, op, phase>>

\* unregister_inbound, for a session that was registered.
Unregister(c) ==
    LET mine == hdl[c].reg /\ sessions[HDev(c)] = c
    IN  /\ HAt(c, "unreg")
        /\ sessions' = [sessions EXCEPT ![HDev(c)] = IF mine THEN None ELSE @]
        /\ HGoto(c, IF mine THEN "unregged" ELSE "none")
        /\ UNCHANGED <<status, settled, allowed, presence, tasks, task, conn,
                       refresh, op, phase>>

UnregisterOffline(c) ==
    /\ HAt(c, "unregged")
    /\ SetPresence(HDev(c), FALSE)
    /\ HGoto(c, "none")
    /\ UNCHANGED <<status, settled, allowed, sessions, tasks, task, conn,
                   refresh, op, phase>>

\* What the handler does without waiting for the peer.
HandlerStep(c) ==
    \/ RegisterSeen(c) \/ RegisterStore(c) \/ RegisterOnline(c)
    \/ ActOnMessage(c)
    \/ ForgetRevoke(c) \/ ForgetOffline(c) \/ ForgetDropTask(c)
    \/ ForgetClearSession(c)
    \/ SessionEnds(c) \/ Unregister(c) \/ UnregisterOffline(c)

-----------------------------------------------------------------------------
\* NodeService::forget_paired, after the best-effort notification of the peer.
ForgetAt(d, pc) == op[d].forget = pc
ForgetGoto(d, pc) == op' = [op EXCEPT ![d].forget = pc]

UserForgets(d) ==
    /\ "forget" \in Environment /\ phase = "up"
    /\ status[d] # "absent" /\ ForgetAt(d, "idle")
    /\ ForgetGoto(d, "allow")
    /\ UNCHANGED <<status, settled, allowed, presence, sessions, tasks, task,
                   conn, hdl, refresh, phase>>

UserForgetRevoke(d) ==
    /\ ForgetAt(d, "allow")
    /\ allowed' = allowed \ {d}
    /\ ForgetGoto(d, "store")
    /\ UNCHANGED <<status, settled, presence, sessions, tasks, task, conn, hdl,
                   refresh, phase>>

UserForgetRecord(d) ==
    /\ ForgetAt(d, "store")
    /\ status' = [status EXCEPT ![d] = "absent"]
    /\ settled' = [settled EXCEPT ![d] = TRUE]
    /\ ForgetGoto(d, "abort")
    /\ UNCHANGED <<allowed, presence, sessions, tasks, task, conn, hdl,
                   refresh, phase>>

UserForgetDropTask(d) ==
    /\ ForgetAt(d, "abort") /\ phase # "draining"
    /\ Rewire({d}, {})
    /\ ForgetGoto(d, "session")
    /\ UNCHANGED <<status, settled, allowed, presence, sessions, conn, hdl,
                   refresh, phase>>

UserForgetClearSession(d) ==
    /\ ForgetAt(d, "session")
    /\ RemoveSession(d)
    /\ ForgetGoto(d, "offline")
    /\ UNCHANGED <<status, settled, allowed, tasks, task, conn, hdl, refresh,
                   phase>>

UserForgetOffline(d) ==
    /\ ForgetAt(d, "offline")
    /\ SetPresence(d, FALSE)
    /\ ForgetGoto(d, "idle")
    /\ UNCHANGED <<status, settled, allowed, sessions, tasks, task, conn, hdl,
                   refresh, phase>>

ForgetStep(d) ==
    \/ UserForgetRevoke(d) \/ UserForgetRecord(d) \/ UserForgetDropTask(d)
    \/ UserForgetClearSession(d) \/ UserForgetOffline(d)

-----------------------------------------------------------------------------
\* The commit of a pairing: remember the record, allow the peer, refresh.
\* remember() sets paired_at only on a new record.
CommitRemember(d) ==
    /\ phase = "up" /\ op[d].commit = "idle"
    /\ (IF status[d] = "absent" THEN "pair" ELSE "repair") \in Environment
    /\ status' = [status EXCEPT ![d] = "active"]
    /\ settled' = [settled EXCEPT ![d] = @ /\ status[d] # "absent"]
    /\ op' = [op EXCEPT ![d].commit = "remembered"]
    /\ UNCHANGED <<allowed, presence, sessions, tasks, task, conn, hdl,
                   refresh, phase>>

CommitAllow(d) ==
    /\ op[d].commit = "remembered"
    /\ allowed' = allowed \cup {d}
    /\ op' = [op EXCEPT ![d].commit = "allowed"]
    /\ UNCHANGED <<status, settled, presence, sessions, tasks, task, conn, hdl,
                   refresh, phase>>

CommitRefresh(d) ==
    /\ op[d].commit = "allowed" /\ ~refresh["commit"].pending
    /\ RefreshRead("commit")
    /\ op' = [op EXCEPT ![d].commit = "idle"]
    /\ UNCHANGED <<status, settled, allowed, presence, sessions, tasks, task,
                   conn, hdl, phase>>

CommitStep(d) == CommitAllow(d) \/ CommitRefresh(d)

\* RECENT_PAIRING_GRACE_MS passes.
GracePasses(d) ==
    /\ ~settled[d]
    /\ settled' = [settled EXCEPT ![d] = TRUE]
    /\ UNCHANGED <<status, allowed, presence, sessions, tasks, task, conn, hdl,
                   refresh, op, phase>>

-----------------------------------------------------------------------------
\* shutdown(): the flag and the tasks, then (tasks still locked) the sessions;
\* the router and the endpoint are closed after it.
Shutdown ==
    /\ "shutdown" \in Environment /\ phase = "up"
    /\ Rewire(Devices, {})
    /\ phase' = "draining"
    /\ UNCHANGED <<status, settled, allowed, presence, sessions, conn, hdl,
                   refresh, op>>

ShutdownClear ==
    /\ phase = "draining"
    /\ sessions' = [d \in Devices |-> None]
    /\ conn' = [c \in Conns |-> [conn[c] EXCEPT !.state = "closed"]]
    /\ phase' = "down"
    /\ UNCHANGED <<status, settled, allowed, presence, tasks, task, hdl,
                   refresh, op>>

\* The process stops at any point and starts again on the same data
\* directory, possibly with a new identity (mark_stale_after_local_identity_
\* rotation); load_allowed_from_store rebuilds the allowlist.
Restart ==
    /\ "restart" \in Environment
    /\ \/ UNCHANGED status
       \/ "rotate" \in Environment /\ status' = MarkStale(status)
    /\ allowed' = AllowedFromStore(status)
    /\ presence' = AllOffline /\ sessions' = EmptyMap /\ tasks' = EmptyMap
    /\ task' = NoTaskRunning /\ conn' = NoConnection /\ hdl' = NoHandlers
    /\ refresh' = NoRefresh /\ op' = NoOperation /\ phase' = "up"
    /\ UNCHANGED settled

-----------------------------------------------------------------------------
Next ==
    \/ \E t \in Tasks : TaskStep(t) \/ ReadForget(t)
    \/ \E c \in Conns :
         \/ PeerCloses(c) \/ PeerRefuses(c) \/ HandlerStep(c)
         \/ \E d \in Devices : AcceptInbound(c, d)
         \/ \E m \in Messages : ReceiveMessage(c, m)
    \/ \E r \in Refreshers : RefreshApply(r)
    \/ SupervisorRefresh
    \/ \E d \in Devices :
         \/ NudgeCheck(d) \/ RespawnConnectTask(d)
         \/ UserForgets(d) \/ ForgetStep(d)
         \/ CommitRemember(d) \/ CommitStep(d)
         \/ GracePasses(d)
    \/ Shutdown \/ ShutdownClear \/ Restart

Spec == Init /\ [][Next]_vars

\* The tokio scheduler polls every ready task and every timer fires; nothing
\* is promised about the peer, the network or the user.
Fairness ==
    /\ \A t \in Tasks : WF_vars(TaskStep(t))
    /\ \A c \in Conns : WF_vars(HandlerStep(c))
    /\ \A r \in Refreshers : WF_vars(RefreshApply(r))
    /\ WF_vars(SupervisorRefresh)
    /\ \A d \in Devices : /\ WF_vars(RespawnConnectTask(d))
                         /\ WF_vars(ForgetStep(d))
                         /\ WF_vars(CommitStep(d))
                         /\ WF_vars(GracePasses(d))

FairSpec == Spec /\ Fairness

-----------------------------------------------------------------------------
\* PROPERTIES

Running(t) == task[t].pc # "done"

\* A connect task that has not been aborted is the one the tasks map holds for
\* its device, so a device never has two connect loops that both keep
\* redialing it.
SingleConnector ==
    \A t \in Tasks : Running(t) /\ ~task[t].aborted => tasks[Dev(t)] = t

\* Each handle in the tasks map is that of a connect task of its device.
HandleOwner == \A d \in Devices : tasks[d] # None => Dev(tasks[d]) = d

\* Once forget_paired has dropped the connect task of a removed record, no
\* live connect loop gets past the check at its head: a task that a refresh
\* spawned from an outdated list stops before it dials the device.
ForgottenNotDialed ==
    \A t \in Tasks :
        Running(t) /\ ~task[t].aborted /\ status[Dev(t)] = "absent"
          => At(t, "loop") \/ ForgetAt(Dev(t), "abort")

\* A forget of the device is under way: forget_paired, or a Forget message
\* received on an inbound or an outbound connection.
ForgetInProgress(d) ==
    \/ ~ForgetAt(d, "idle")
    \/ \E c \in Conns : HDev(c) = d /\ hdl[c].pc \in {"revoke", "offline", "drop", "clear"}
    \/ \E t \in Tasks : Dev(t) = d /\ task[t].brk

\* The stored session of a device is dropped while its connection is open only
\* because the device is being forgotten or the node stops: an old teardown
\* cannot clear a newer live link.
NewerLinkSurvives ==
    [][\A d \in Devices :
         sessions[d] # None /\ Open(sessions[d]) /\ sessions'[d] = None
           => ForgetInProgress(d) \/ phase # "up" \/ Restart]_vars

ConnectLoopAlive(d) == \E t \in Tasks : Running(t) /\ Dev(t) = d
StaysPaired(d) == IsActive(status[d]) /\ op[d].commit = "idle"

\* Persistent outbound connections: a device that from some time on stays
\* active, with no pairing being committed for it, has a connect loop again
\* and again.
ActiveDeviceRetried ==
    \A d \in Devices : <>[]StaysPaired(d) => []<>ConnectLoopAlive(d)

Linked(d) == \E c \in Conns : HDev(c) = d /\ Held(c) /\ Open(c)

\* A device shown online with no open connection left is shown offline, or
\* reached again, after a while.
OfflineDetected ==
    \A d \in Devices :
        IsActive(status[d]) /\ presence[d] /\ ~Linked(d)
          ~> ~IsActive(status[d]) \/ ~presence[d] \/ Linked(d)
=============================================================================
