----------------------- MODULE PairedConnections_proof -----------------------
(***************************************************************************)
(* Proofs about PairedConnections, for any sets of devices, connect tasks  *)
(* and connections and any environment.                                    *)
(***************************************************************************)
EXTENDS PairedConnections, TLAPS

\* The device of an idle task slot is some device.
LEMMA AnyDeviceType == AnyDevice \in Devices
BY DevicesAssumption DEF AnyDevice

\* A new task, and a finished one.
LEMMA TaskConstructors ==
    /\ \A d \in Devices : NewTask(d) \in Task /\ NewTask(d).dev = d
    /\ \A r \in Task : /\ Finished(r) \in Task /\ Finished(r).dev = r.dev
                       /\ Finished(r).pc = "done"
BY DEF NewTask, Finished, Task, TaskPcs, AwaitPoints, LockPoints

\* JoinHandle::abort keeps the task's device; the task is done, or will be.
LEMMA AbortFacts ==
    ASSUME NEW r \in Task
    PROVE  /\ Abort(r) \in Task
           /\ Abort(r).dev = r.dev
           /\ Abort(r).pc = "done" \/ Abort(r).aborted
BY TaskConstructors DEF Abort, Task, TaskPcs, AwaitPoints, LockPoints

\* A step of task t: Goto keeps the device and an abort request.
LEMMA GotoFacts ==
    ASSUME task \in [Tasks -> Task], NEW t \in Tasks, NEW pc \in TaskPcs
    PROVE  /\ Goto(t, pc) \in Task
           /\ Goto(t, pc).dev = task[t].dev
           /\ Goto(t, pc).pc = "done" \/ (/\ Goto(t, pc).pc = pc
                                          /\ Goto(t, pc).aborted = task[t].aborted)
BY TaskConstructors DEF Goto, Task

\* Dropping, aborting and spawning connect tasks keeps the types.
LEMMA RewireType ==
    ASSUME TypeOK, NEW S \in SUBSET Devices, NEW N \in SUBSET Devices,
           Rewire(S, N)
    PROVE  tasks' \in [Devices -> Tasks \cup {None}] /\ task' \in [Tasks -> Task]
<1>1. PICK f \in [N -> FreeTasks] : Rewire(S, N)!(f)
  BY DEF Rewire
<1>2. tasks' \in [Devices -> Tasks \cup {None}]
  BY <1>1 DEF TypeOK, FreeTasks
<1>3. ASSUME NEW t \in Tasks
      PROVE  task'[t] \in Task
  <2>1. task[t] \in Task
    BY DEF TypeOK
  <2>2. CASE \E d \in N : f[d] = t
    <3>1. (CHOOSE d \in N : f[d] = t) \in Devices
      BY <2>2
    <3> QED
      BY <1>1, <2>2, <3>1, TaskConstructors
  <2>3. CASE ~\E d \in N : f[d] = t
    BY <1>1, <2>1, <2>3, AbortFacts
  <2> QED
    BY <2>2, <2>3
<1>4. DOMAIN task' = Tasks /\ task' = [t \in Tasks |-> task'[t]]
  BY <1>1
<1> QED
  BY <1>2, <1>3, <1>4

-----------------------------------------------------------------------------
\* The node starts with its types.
LEMMA InitTypeOK == Init => TypeOK
BY AnyDeviceType, TaskConstructors
   DEF Init, TypeOK, Status, AllowedFromStore, AllOffline, EmptyMap,
       NoTaskRunning, NoConnection, NoHandlers, NoRefresh, NoOperation, Conn,
       Handler, HandlerPcs, Messages, NoHandler, NotRefreshing, Refreshers,
       Operation

\* A step of a connect task keeps the types.
LEMMA TaskStepType ==
    ASSUME TypeOK, NEW t \in Tasks, TaskStep(t) \/ ReadForget(t)
    PROVE  TypeOK'
<1> USE DEF TypeOK, SetPresence
<1>0. /\ task[t] \in Task /\ Dev(t) \in Devices
      /\ \A pc \in TaskPcs : Goto(t, pc) \in Task
  BY GotoFacts DEF Dev, Task
<1>1. ASSUME NEW r \in Task, task' = [task EXCEPT ![t] = r]
      PROVE  task' \in [Tasks -> Task]
  BY <1>1
<1>2. CASE LoopHead(t)
  BY <1>0, <1>1, <1>2 DEF LoopHead, TaskPcs, AwaitPoints
<1>3. CASE DialSucceeds(t)
  <2>1. PICK c \in Conns :
          /\ conn' = [conn EXCEPT ![c] = [dev |-> Dev(t), state |-> "open"]]
          /\ task' = [task EXCEPT ![t].pc = "opened", ![t].conn = c]
    BY <1>3 DEF DialSucceeds
  <2>2. conn' \in [Conns -> Conn]
    BY <1>0, <2>1 DEF Conn
  <2>3. task' \in [Tasks -> Task]
    BY <1>0, <2>1 DEF Task, TaskPcs, LockPoints
  <2> QED
    BY <1>3, <2>2, <2>3 DEF DialSucceeds
<1>4. CASE DialFails(t)
  BY <1>0, <1>1, <1>4 DEF DialFails, TaskPcs, AwaitPoints
<1>5. CASE SetSession(t)
  BY <1>0, <1>1, <1>5 DEF SetSession, TaskPcs, Task
<1>6. CASE SetSessionOnline(t)
  BY <1>0, <1>1, <1>6 DEF SetSessionOnline, TaskPcs, AwaitPoints
<1>7. CASE ConnectionClosed(t)
  BY <1>0, <1>7 DEF ConnectionClosed, TaskPcs, Task, LockPoints
<1>8. CASE TeardownSession(t)
  BY <1>0, <1>1, <1>8 DEF TeardownSession, TaskPcs
<1>9. CASE TeardownOffline(t)
  BY <1>0, <1>1, <1>9 DEF TeardownOffline, TaskPcs
<1>10. CASE JudgeClose(t)
  BY <1>0, <1>1, <1>10 DEF JudgeClose, TaskPcs, AwaitPoints, LockPoints, Status
<1>11. CASE RevokeAccess(t)
  BY <1>0, <1>1, <1>11 DEF RevokeAccess, TaskPcs
<1>12. CASE RevokeOffline(t)
  BY <1>0, <1>1, <1>12 DEF RevokeOffline, TaskPcs, LockPoints
<1>13. CASE BackoffElapses(t)
  <2>1. [Goto(t, "loop") EXCEPT !.conn = None] \in Task
    BY <1>0 DEF Task, TaskPcs, AwaitPoints
  <2> QED
    BY <2>1, <1>13 DEF BackoffElapses
<1>14. CASE CancelledAtLock(t)
  BY <1>0, <1>1, <1>14, TaskConstructors DEF CancelledAtLock
<1>15. CASE ReadForget(t)
  BY <1>0, <1>15 DEF ReadForget, MarkUnpaired, TaskPcs, Task, LockPoints, Status
<1> QED
  BY <1>2, <1>3, <1>4, <1>5, <1>6, <1>7, <1>8, <1>9, <1>10, <1>11, <1>12,
     <1>13, <1>14, <1>15 DEF TaskStep, Dial

\* A step of a session handler or of a peer keeps the types.
LEMMA HandlerStepType ==
    ASSUME TypeOK, NEW c \in Conns,
           \/ HandlerStep(c) \/ PeerCloses(c) \/ PeerRefuses(c)
           \/ \E d \in Devices : AcceptInbound(c, d)
           \/ \E m \in Messages : ReceiveMessage(c, m)
    PROVE  TypeOK'
<1> USE DEF TypeOK, SetPresence
<1>0. hdl[c] \in Handler /\ HDev(c) \in Devices /\ conn[c] \in Conn
  BY DEF HDev, Conn
<1>1. ASSUME NEW pc \in HandlerPcs, HGoto(c, pc)
      PROVE  hdl' \in [Conns -> Handler]
  BY <1>0, <1>1 DEF HGoto, Handler, NoHandler, HandlerPcs, Messages
<1>2. ASSUME NEW st \in {"open", "closed", "refused"},
             conn' = [conn EXCEPT ![c].state = st]
      PROVE  conn' \in [Conns -> Conn]
  BY <1>0, <1>2 DEF Conn
<1>3. CASE PeerCloses(c) \/ PeerRefuses(c)
  BY <1>2, <1>3 DEF PeerCloses, PeerRefuses
<1>4. CASE \E d \in Devices : AcceptInbound(c, d)
  <2>1. PICK d \in Devices : AcceptInbound(c, d)
    BY <1>4
  <2>2. conn' \in [Conns -> Conn]
    BY <2>1 DEF AcceptInbound, Conn
  <2>3. hdl' \in [Conns -> Handler]
    <3> DEFINE p == d \in allowed
    <3>1. hdl' = [hdl EXCEPT ![c] = [NoHandler EXCEPT !.pc = "wait", !.paired = p]]
      BY <2>1 DEF AcceptInbound
    <3>2. p \in BOOLEAN
      OBVIOUS
    <3> HIDE DEF p
    <3>3. [NoHandler EXCEPT !.pc = "wait", !.paired = p] \in Handler
      BY <3>2 DEF Handler, NoHandler, HandlerPcs, Messages
    <3> QED
      BY <3>1, <3>3
  <2> QED
    BY <2>1, <2>2, <2>3 DEF AcceptInbound
<1>5. CASE \E m \in Messages : ReceiveMessage(c, m)
  <2>1. PICK m \in Messages : ReceiveMessage(c, m)
    BY <1>5
  <2>2. conn' \in [Conns -> Conn]
    BY <1>0, <2>1 DEF ReceiveMessage, Conn
  <2>3. PICK p \in BOOLEAN, pc \in HandlerPcs :
          hdl' = [hdl EXCEPT ![c] = [@ EXCEPT !.paired = p, !.msg = m, !.pc = pc]]
    <3> DEFINE p == hdl[c].paired \/ (m # "invite" /\ HDev(c) \in allowed)
               pc == IF ~p THEN IF m = "invite" THEN "wait" ELSE "unreg"
                     ELSE IF hdl[c].reg THEN "act"
                     ELSE IF sessions[HDev(c)] # None THEN "seen"
                     ELSE "store"
    <3>1. p \in BOOLEAN /\ pc \in HandlerPcs
      BY DEF HandlerPcs
    <3>2. hdl' = [hdl EXCEPT ![c] = [@ EXCEPT !.paired = p, !.msg = m, !.pc = pc]]
      BY <2>1 DEF ReceiveMessage
    <3> HIDE DEF p, pc
    <3> QED
      BY <3>1, <3>2
  <2>4. hdl' \in [Conns -> Handler]
    BY <1>0, <2>3 DEF Handler
  <2> QED
    BY <2>1, <2>2, <2>4 DEF ReceiveMessage
<1>6. CASE RegisterSeen(c) \/ RegisterOnline(c)
  <2>1. hdl' \in [Conns -> Handler]
    <3>1. hdl' = [hdl EXCEPT ![c].pc = "act", ![c].reg = TRUE]
      BY <1>6 DEF RegisterSeen, RegisterOnline
    <3>2. \A h \in Handler : [[h EXCEPT !.pc = "act"] EXCEPT !.reg = TRUE] \in Handler
      BY DEF Handler, HandlerPcs
    <3>3. hdl' = [hdl EXCEPT ![c] = [[@ EXCEPT !.pc = "act"] EXCEPT !.reg = TRUE]]
      BY <1>0, <3>1
    <3> QED
      BY <1>0, <3>2, <3>3
  <2>2. presence' \in [Devices -> BOOLEAN]
    BY <1>0, <1>6 DEF RegisterSeen, RegisterOnline
  <2> QED
    BY <1>6, <2>1, <2>2 DEF RegisterSeen, RegisterOnline
<1>7. CASE RegisterStore(c)
  BY <1>0, <1>1, <1>7 DEF RegisterStore, HandlerPcs
<1>8. CASE ActOnMessage(c)
  <2>1. hdl' \in [Conns -> Handler]
    BY <1>1, <1>8 DEF ActOnMessage, HandlerPcs
  <2>2. conn' \in [Conns -> Conn]
    BY <1>0, <1>8 DEF ActOnMessage, Conn
  <2>3. status' \in [Devices -> Status] /\ presence' \in [Devices -> BOOLEAN]
    BY <1>0, <1>8 DEF ActOnMessage, Status
  <2> QED
    BY <1>8, <2>1, <2>2, <2>3 DEF ActOnMessage
<1>9. CASE ForgetRevoke(c)
  BY <1>0, <1>1, <1>9 DEF ForgetRevoke, HandlerPcs
<1>10. CASE ForgetOffline(c)
  BY <1>0, <1>1, <1>10 DEF ForgetOffline, HandlerPcs
<1>11. CASE ForgetDropTask(c)
  <2>1. tasks' \in [Devices -> Tasks \cup {None}] /\ task' \in [Tasks -> Task]
    <3> DEFINE S == {HDev(c)}
               N == {}
    <3>1. S \in SUBSET Devices /\ N \in SUBSET Devices /\ Rewire(S, N)
      BY <1>0, <1>11 DEF ForgetDropTask
    <3> HIDE DEF S, N
    <3> QED
      BY <3>1, RewireType
  <2> QED
    BY <1>1, <1>11, <2>1 DEF ForgetDropTask, HandlerPcs
<1>12. CASE ForgetClearSession(c)
  BY <1>0, <1>1, <1>2, <1>12 DEF ForgetClearSession, RemoveSession, HandlerPcs
<1>13. CASE SessionEnds(c)
  BY <1>1, <1>13 DEF SessionEnds, HandlerPcs
<1>14. CASE Unregister(c)
  BY <1>0, <1>1, <1>14 DEF Unregister, HandlerPcs
<1>15. CASE UnregisterOffline(c)
  BY <1>0, <1>1, <1>15 DEF UnregisterOffline, HandlerPcs
<1> QED
  BY <1>3, <1>4, <1>5, <1>6, <1>7, <1>8, <1>9, <1>10, <1>11, <1>12, <1>13,
     <1>14, <1>15 DEF HandlerStep

\* A step of an operation on a device keeps the types.
LEMMA DeviceStepType ==
    ASSUME TypeOK, NEW d \in Devices,
           \/ NudgeCheck(d) \/ RespawnConnectTask(d)
           \/ UserForgets(d) \/ ForgetStep(d)
           \/ CommitRemember(d) \/ CommitStep(d) \/ GracePasses(d)
    PROVE  TypeOK'
<1> USE DEF TypeOK, SetPresence
<1>0. op[d] \in Operation /\ {d} \in SUBSET Devices
  OBVIOUS
<1>1. ASSUME NEW pc \in {"idle", "allow", "store", "abort", "session", "offline"},
             ForgetGoto(d, pc)
      PROVE  op' \in [Devices -> Operation]
  BY <1>0, <1>1 DEF ForgetGoto, Operation
<1>2. CASE NudgeCheck(d)
  BY <1>0, <1>2 DEF NudgeCheck, Operation
<1>3. CASE RespawnConnectTask(d)
  <2>1. tasks' \in [Devices -> Tasks \cup {None}] /\ task' \in [Tasks -> Task]
    BY <1>0, <1>3, RewireType DEF RespawnConnectTask
  <2> QED
    BY <1>0, <1>3, <2>1 DEF RespawnConnectTask, Operation
<1>4. CASE UserForgets(d)
  BY <1>1, <1>4 DEF UserForgets
<1>5. CASE UserForgetRevoke(d)
  BY <1>1, <1>5 DEF UserForgetRevoke
<1>6. CASE UserForgetRecord(d)
  BY <1>1, <1>6 DEF UserForgetRecord, Status
<1>7. CASE UserForgetDropTask(d)
  <2>1. tasks' \in [Devices -> Tasks \cup {None}] /\ task' \in [Tasks -> Task]
    BY <1>0, <1>7, RewireType DEF UserForgetDropTask
  <2> QED
    BY <1>1, <1>7, <2>1 DEF UserForgetDropTask
<1>8. CASE UserForgetClearSession(d)
  BY <1>1, <1>8 DEF UserForgetClearSession, RemoveSession
<1>9. CASE UserForgetOffline(d)
  BY <1>1, <1>9 DEF UserForgetOffline
<1>10. CASE CommitRemember(d)
  BY <1>0, <1>10 DEF CommitRemember, Status, Operation
<1>11. CASE CommitAllow(d)
  BY <1>0, <1>11 DEF CommitAllow, Operation
<1>12. CASE CommitRefresh(d)
  BY <1>0, <1>12 DEF CommitRefresh, RefreshRead, Operation, Refreshers
<1>13. CASE GracePasses(d)
  BY <1>13 DEF GracePasses
<1> QED
  BY <1>2, <1>3, <1>4, <1>5, <1>6, <1>7, <1>8, <1>9, <1>10, <1>11, <1>12,
     <1>13 DEF ForgetStep, CommitStep

\* A step of refresh, shutdown or restart keeps the types.
LEMMA NodeStepType ==
    ASSUME TypeOK,
           \/ \E r \in Refreshers : RefreshApply(r)
           \/ SupervisorRefresh \/ Shutdown \/ ShutdownClear \/ Restart
    PROVE  TypeOK'
<1> USE DEF TypeOK, SetPresence
<1>1. CASE \E r \in Refreshers : RefreshApply(r)
  <2>1. PICK r \in Refreshers : RefreshApply(r)
    BY <1>1
  <2>2. refresh[r].active \in SUBSET Devices
    OBVIOUS
  <2>3. tasks' \in [Devices -> Tasks \cup {None}] /\ task' \in [Tasks -> Task]
    <3> DEFINE S == {d \in Devices : d \notin refresh[r].active}
               N == {d \in refresh[r].active : tasks[d] = None}
    <3>1. S \in SUBSET Devices /\ N \in SUBSET Devices /\ Rewire(S, N)
      BY <2>1, <2>2 DEF RefreshApply
    <3> HIDE DEF S, N
    <3> QED
      BY <3>1, RewireType
  <2>4. refresh' \in [Refreshers -> [pending : BOOLEAN, active : SUBSET Devices]]
    BY <2>1 DEF RefreshApply, NotRefreshing
  <2> QED
    BY <2>1, <2>3, <2>4 DEF RefreshApply
<1>2. CASE SupervisorRefresh
  BY <1>2 DEF SupervisorRefresh, RefreshRead, Refreshers
<1>3. CASE Shutdown
  BY <1>3, RewireType DEF Shutdown
<1>4. CASE ShutdownClear
  BY <1>4 DEF ShutdownClear, Conn
<1>5. CASE Restart
  <2>1. status' \in [Devices -> Status] /\ allowed' \in SUBSET Devices
    BY <1>5 DEF Restart, AllowedFromStore, MarkStale, Status
  <2> QED
    BY <1>5, <2>1, AnyDeviceType, TaskConstructors
       DEF Restart, AllOffline, EmptyMap, NoTaskRunning, NoConnection, NoHandlers,
           NoRefresh, NoOperation, Conn, Handler, HandlerPcs, Messages, NoHandler,
           NotRefreshing, Refreshers, Operation
<1> QED
  BY <1>1, <1>2, <1>3, <1>4, <1>5

\* Every step keeps the types.
LEMMA TypeOKStep == TypeOK /\ [Next]_vars => TypeOK'
<1> SUFFICES ASSUME TypeOK, [Next]_vars PROVE TypeOK'
  OBVIOUS
<1>1. CASE UNCHANGED vars
  BY <1>1 DEF vars, TypeOK
<1>2. CASE Next
  BY <1>2, TaskStepType, HandlerStepType, DeviceStepType, NodeStepType DEF Next
<1> QED
  BY <1>1, <1>2

\* The tasks, sessions and presence maps and every task, handler and
\* operation of the manager keep their types.
THEOREM TypeCorrect == Spec => []TypeOK
BY InitTypeOK, TypeOKStep, PTL DEF Spec

-----------------------------------------------------------------------------
\* The inductive invariant: SingleConnector alone is not inductive, because
\* aborting the handle of a device must reach the task of that device
\* (HandleOwner); ForgottenNotDialed needs both.
LoopInv == SingleConnector /\ HandleOwner /\ ForgottenNotDialed

\* Under the tasks lock: a live task after the step was just spawned, or was
\* alive before it and belongs to a device whose handle was not dropped.
LEMMA RewireKeeps ==
    ASSUME TypeOK, SingleConnector, HandleOwner,
           NEW S \in SUBSET Devices, NEW N \in SUBSET Devices, Rewire(S, N),
           \A d \in N : d \in S \/ tasks[d] = None
    PROVE  /\ SingleConnector' /\ HandleOwner'
           /\ \A t \in Tasks : Running(t)' /\ ~task'[t].aborted
                => task'[t].pc = "loop" \/ (task'[t] = task[t] /\ Dev(t) \notin S)
<1> USE DEF TypeOK, SetPresence
<1>1. PICK f \in [N -> FreeTasks] :
        /\ \A a, b \in N : f[a] = f[b] => a = b
        /\ tasks' = [d \in Devices |-> IF d \in N THEN f[d]
                                       ELSE IF d \in S THEN None ELSE tasks[d]]
        /\ task' = [t \in Tasks |->
                      IF \E d \in N : f[d] = t
                      THEN NewTask(CHOOSE d \in N : f[d] = t)
                      ELSE IF \E d \in S : tasks[d] = t
                      THEN Abort(task[t])
                      ELSE task[t]]
  BY DEF Rewire
<1>2. ASSUME NEW d \in N
      PROVE  /\ f[d] \in Tasks /\ task'[f[d]] = NewTask(d)
             /\ tasks'[d] = f[d] /\ \A e \in Devices : tasks[e] # f[d]
  <2>1. f[d] \in FreeTasks
    BY <1>2
  <2>2. (CHOOSE e \in N : f[e] = f[d]) = d
    BY <1>1, <1>2
  <2> QED
    BY <1>1, <1>2, <2>1, <2>2 DEF FreeTasks
<1>3. ASSUME NEW t \in Tasks, ~\E d \in N : f[d] = t, \E d \in S : tasks[d] = t
      PROVE  /\ task'[t].dev = task[t].dev
             /\ task'[t].pc = "done" \/ task'[t].aborted
  BY <1>1, <1>3, AbortFacts
<1>4. ASSUME NEW t \in Tasks, ~\E d \in N : f[d] = t, ~\E d \in S : tasks[d] = t
      PROVE  task'[t] = task[t]
  BY <1>1, <1>4
<1>5. ASSUME NEW t \in Tasks, task'[t].pc # "done", ~task'[t].aborted
      PROVE  /\ tasks'[task'[t].dev] = t
             /\ task'[t].pc = "loop" \/ (task'[t] = task[t] /\ Dev(t) \notin S)
  <2>1. CASE \E d \in N : f[d] = t
    <3>1. PICK d \in N : f[d] = t
      BY <2>1
    <3>2. task'[t] = NewTask(d) /\ tasks'[d] = t
      BY <1>2, <3>1
    <3> QED
      BY <3>2 DEF NewTask
  <2>2. CASE ~\E d \in N : f[d] = t
    <3>1. task'[t] = task[t] /\ ~\E d \in S : tasks[d] = t
      BY <1>3, <1>4, <1>5, <2>2
    <3>2. tasks[Dev(t)] = t /\ Dev(t) \in Devices
      BY <1>5, <3>1 DEF SingleConnector, Running, Dev, Task
    <3>3. Dev(t) \notin S /\ Dev(t) \notin N
      BY <3>1, <3>2, NoneAssumption
    <3> QED
      BY <1>1, <3>1, <3>2, <3>3 DEF Dev
  <2> QED
    BY <2>1, <2>2
<1>6. ASSUME NEW d \in Devices, tasks'[d] # None
      PROVE  task'[tasks'[d]].dev = d
  <2>1. CASE d \in N
    <3>1. task'[tasks'[d]] = NewTask(d)
      BY <1>2, <2>1
    <3> QED
      BY <3>1 DEF NewTask
  <2>2. CASE d \notin N
    <3>1. tasks'[d] = tasks[d] /\ tasks[d] \in Tasks
      BY <1>1, <1>6, <2>2
    <3>2. task[tasks[d]].dev = d
      BY <1>6, <3>1 DEF HandleOwner, Dev
    <3>3. ~\E e \in N : f[e] = tasks[d]
      BY <1>2
    <3> QED
      BY <1>3, <1>4, <3>1, <3>2, <3>3
  <2> QED
    BY <2>1, <2>2
<1> QED
  BY <1>5, <1>6 DEF SingleConnector, HandleOwner, Running, Dev

\* A step of one connect task.
LEMMA TaskMoveKeeps ==
    ASSUME TypeOK, LoopInv, NEW t \in Tasks, NEW r \in Task,
           task' = [task EXCEPT ![t] = r], UNCHANGED <<tasks, op>>,
           r.dev = Dev(t),
           r.pc = "done" \/ (Running(t) /\ r.aborted = task[t].aborted),
           r.pc \in {"done", "loop"} \/ ~At(t, "loop") \/ status[Dev(t)] # "absent",
           \A d \in Devices : status'[d] = "absent" => status[d] = "absent"
    PROVE  LoopInv'
<1> USE DEF LoopInv, TypeOK
<1>1. /\ task'[t] = r
      /\ \A u \in Tasks : u # t => task'[u] = task[u]
      /\ \A u \in Tasks : task'[u].dev = task[u].dev /\ task[u].dev \in Devices
  BY DEF Dev, Task
<1>2. SingleConnector'
  BY <1>1 DEF SingleConnector, Running, Dev
<1>3. HandleOwner'
  BY <1>1 DEF HandleOwner, Dev
<1>4. ForgottenNotDialed'
  BY <1>1 DEF ForgottenNotDialed, Running, Dev, At, ForgetAt
<1> QED
  BY <1>2, <1>3, <1>4

\* A step that touches no connect task.
LEMMA FrameKeeps ==
    ASSUME TypeOK, LoopInv, UNCHANGED <<tasks, task>>,
           \A d \in Devices : status'[d] = "absent" =>
              \/ ForgetAt(d, "abort")'
              \/ status[d] = "absent" /\ ~ForgetAt(d, "abort")
    PROVE  LoopInv'
<1>1. \A t \in Tasks : Dev(t) \in Devices
  BY DEF TypeOK, Task, Dev
<1> QED
  BY <1>1 DEF LoopInv, SingleConnector, HandleOwner, ForgottenNotDialed, Running,
              Dev, At, ForgetAt

\* A rewiring of the tasks map, status unchanged.
LEMMA RewireLoopInv ==
    ASSUME TypeOK, LoopInv, UNCHANGED status,
           NEW S \in SUBSET Devices, NEW N \in SUBSET Devices, Rewire(S, N),
           \A d \in N : d \in S \/ tasks[d] = None,
           \A d \in Devices : ForgetAt(d, "abort") => d \in S \/ ForgetAt(d, "abort")'
    PROVE  LoopInv'
<1>1. /\ SingleConnector' /\ HandleOwner'
      /\ \A t \in Tasks : Running(t)' /\ ~task'[t].aborted
           => task'[t].pc = "loop" \/ (task'[t] = task[t] /\ Dev(t) \notin S)
  BY RewireKeeps DEF LoopInv
<1>2. \A t \in Tasks : Dev(t) \in Devices
  BY DEF TypeOK, Task, Dev
<1>3. ForgottenNotDialed'
  BY <1>1, <1>2 DEF LoopInv, ForgottenNotDialed, Running, Dev, At, ForgetAt
<1> QED
  BY <1>1, <1>3 DEF LoopInv

-----------------------------------------------------------------------------
\* The node starts without connect tasks.
LEMMA InitLoopInv == Init => LoopInv
BY TaskConstructors, AnyDeviceType
   DEF Init, LoopInv, SingleConnector, HandleOwner, ForgottenNotDialed, Running,
       NoTaskRunning, EmptyMap

\* A step of a connect task keeps the loop invariant.
LEMMA TaskStepLoopInv ==
    ASSUME TypeOK, LoopInv, NEW t \in Tasks, TaskStep(t) \/ ReadForget(t)
    PROVE  LoopInv'
<1>0. /\ task \in [Tasks -> Task] /\ task[t] \in Task
      /\ Dev(t) \in Devices /\ status \in [Devices -> Status]
  BY DEF TypeOK, Dev, Task
<1>1. ASSUME NEW pc \in TaskPcs, Running(t), UNCHANGED <<tasks, op>>,
             task' = [task EXCEPT ![t] = Goto(t, pc)],
             pc \in {"done", "loop"} \/ ~At(t, "loop") \/ status[Dev(t)] # "absent",
             \A d \in Devices : status'[d] = "absent" => status[d] = "absent"
      PROVE  LoopInv'
  BY <1>0, <1>1, GotoFacts, TaskMoveKeeps DEF Dev
<1>2. CASE LoopHead(t)
  BY <1>0, <1>1, <1>2 DEF LoopHead, At, Running, TaskPcs, AwaitPoints, IsActive
<1>3. CASE DialSucceeds(t)
  <2>1. PICK c \in Conns : task' = [task EXCEPT ![t].pc = "opened", ![t].conn = c]
    BY <1>3 DEF DialSucceeds
  <2> DEFINE r == [task[t] EXCEPT !.pc = "opened", !.conn = c]
  <2>2. task' = [task EXCEPT ![t] = r]
    BY <1>0, <2>1
  <2>3. r \in Task /\ r.dev = Dev(t) /\ r.aborted = task[t].aborted
    BY <1>0 DEF Task, TaskPcs, LockPoints, Dev
  <2> HIDE DEF r
  <2> QED
    BY <1>3, <2>2, <2>3, TaskMoveKeeps DEF DialSucceeds, At, Running
<1>4. CASE DialFails(t)
  BY <1>0, <1>1, <1>4 DEF DialFails, At, Running, TaskPcs, AwaitPoints
<1>5. CASE SetSession(t)
  BY <1>0, <1>1, <1>5 DEF SetSession, At, Running, TaskPcs
<1>6. CASE SetSessionOnline(t)
  BY <1>0, <1>1, <1>6 DEF SetSessionOnline, At, Running, TaskPcs, AwaitPoints
<1>7. CASE ConnectionClosed(t)
  <2> DEFINE r == [task[t] EXCEPT !.pc = "teardown", !.brk = FALSE]
  <2>1. task' = [task EXCEPT ![t] = r]
    BY <1>0, <1>7 DEF ConnectionClosed
  <2>2. r \in Task /\ r.dev = Dev(t) /\ r.aborted = task[t].aborted
    BY <1>0 DEF Task, TaskPcs, LockPoints, Dev
  <2> HIDE DEF r
  <2> QED
    BY <1>7, <2>1, <2>2, TaskMoveKeeps DEF ConnectionClosed, At, Running
<1>8. CASE TeardownSession(t)
  BY <1>0, <1>1, <1>8 DEF TeardownSession, At, Running, TaskPcs
<1>9. CASE TeardownOffline(t)
  BY <1>0, <1>1, <1>9 DEF TeardownOffline, At, Running, TaskPcs
<1>10. CASE JudgeClose(t)
  BY <1>0, <1>1, <1>10
     DEF JudgeClose, At, Running, TaskPcs, AwaitPoints, LockPoints
<1>11. CASE RevokeAccess(t)
  BY <1>0, <1>1, <1>11 DEF RevokeAccess, At, Running, TaskPcs
<1>12. CASE RevokeOffline(t)
  BY <1>0, <1>1, <1>12 DEF RevokeOffline, At, Running, TaskPcs, LockPoints
<1>13. CASE BackoffElapses(t)
  <2> DEFINE r == [Goto(t, "loop") EXCEPT !.conn = None]
  <2>1. "loop" \in TaskPcs
    BY DEF TaskPcs, AwaitPoints
  <2>2. /\ r \in Task /\ r.dev = Dev(t) /\ r.pc \in {"done", "loop"}
        /\ r.pc = "done" \/ r.aborted = task[t].aborted
    BY <1>0, <2>1, GotoFacts DEF Task, Dev
  <2>3. task' = [task EXCEPT ![t] = r]
    BY <1>13 DEF BackoffElapses
  <2> HIDE DEF r
  <2> QED
    BY <1>13, <2>2, <2>3, TaskMoveKeeps DEF BackoffElapses, At, Running
<1>14. CASE CancelledAtLock(t)
  BY <1>0, <1>14, TaskConstructors, TaskMoveKeeps DEF CancelledAtLock, Dev
<1>15. CASE ReadForget(t)
  <2> DEFINE r == [task[t] EXCEPT !.pc = "revoke", !.brk = TRUE]
  <2>1. task' = [task EXCEPT ![t] = r]
    BY <1>0, <1>15 DEF ReadForget
  <2>2. r \in Task /\ r.dev = Dev(t) /\ r.aborted = task[t].aborted
    BY <1>0 DEF Task, TaskPcs, LockPoints, Dev
  <2>3. \A d \in Devices : status'[d] = "absent" => status[d] = "absent"
    BY <1>0, <1>15 DEF ReadForget, MarkUnpaired
  <2> HIDE DEF r
  <2> QED
    BY <1>15, <2>1, <2>2, <2>3, TaskMoveKeeps DEF ReadForget, At, Running
<1> QED
  BY <1>2, <1>3, <1>4, <1>5, <1>6, <1>7, <1>8, <1>9, <1>10, <1>11, <1>12,
     <1>13, <1>14, <1>15 DEF TaskStep, Dial

\* A step of a session handler or of a peer keeps the loop invariant.
LEMMA HandlerStepLoopInv ==
    ASSUME TypeOK, LoopInv, NEW c \in Conns,
           \/ HandlerStep(c) \/ PeerCloses(c) \/ PeerRefuses(c)
           \/ \E d \in Devices : AcceptInbound(c, d)
           \/ \E m \in Messages : ReceiveMessage(c, m)
    PROVE  LoopInv'
<1>1. ASSUME UNCHANGED <<tasks, task, status, op>>
      PROVE  LoopInv'
  BY <1>1, FrameKeeps DEF ForgetAt
<1>2. CASE ForgetDropTask(c)
  <2> DEFINE S == {HDev(c)}
             N == {}
  <2>1. S \in SUBSET Devices /\ N \in SUBSET Devices
    BY DEF TypeOK, Conn, HDev
  <2>2. Rewire(S, N) /\ UNCHANGED <<status, op>>
    BY <1>2 DEF ForgetDropTask
  <2>3. \A d \in N : d \in S \/ tasks[d] = None
    OBVIOUS
  <2> HIDE DEF S, N
  <2> QED
    BY <2>1, <2>2, <2>3, RewireLoopInv DEF ForgetAt
<1>3. CASE ActOnMessage(c)
  <2>1. \A d \in Devices : status'[d] = "absent" => status[d] = "absent"
    BY <1>3 DEF ActOnMessage, TypeOK
  <2> QED
    BY <1>3, <2>1, FrameKeeps DEF ActOnMessage, ForgetAt
<1> QED
  BY <1>1, <1>2, <1>3
     DEF HandlerStep, PeerCloses, PeerRefuses, AcceptInbound, ReceiveMessage,
         RegisterSeen, RegisterStore, RegisterOnline, ForgetRevoke, ForgetOffline,
         ForgetClearSession, SessionEnds, Unregister, UnregisterOffline

\* A step of an operation on a device keeps the loop invariant.
LEMMA DeviceStepLoopInv ==
    ASSUME TypeOK, LoopInv, NEW d \in Devices,
           \/ NudgeCheck(d) \/ RespawnConnectTask(d)
           \/ UserForgets(d) \/ ForgetStep(d)
           \/ CommitRemember(d) \/ CommitStep(d) \/ GracePasses(d)
    PROVE  LoopInv'
<1>0. op \in [Devices -> Operation] /\ status \in [Devices -> Status]
  BY DEF TypeOK
<1>1. CASE RespawnConnectTask(d)
  <2> DEFINE S == {d}
  <2>1. S \in SUBSET Devices /\ \A e \in S : e \in S \/ tasks[e] = None
    OBVIOUS
  <2>2. Rewire(S, S) /\ UNCHANGED status
    BY <1>1 DEF RespawnConnectTask
  <2>3. \A e \in Devices : ForgetAt(e, "abort") => ForgetAt(e, "abort")'
    BY <1>0, <1>1 DEF RespawnConnectTask, ForgetAt, Operation
  <2> HIDE DEF S
  <2> QED
    BY <2>1, <2>2, <2>3, RewireLoopInv
<1>2. CASE UserForgetDropTask(d)
  <2> DEFINE S == {d}
             N == {}
  <2>1. S \in SUBSET Devices /\ N \in SUBSET Devices
    OBVIOUS
  <2>2. Rewire(S, N) /\ UNCHANGED status /\ \A e \in N : e \in S \/ tasks[e] = None
    BY <1>2 DEF UserForgetDropTask
  <2>3. \A e \in Devices : ForgetAt(e, "abort") => e \in S \/ ForgetAt(e, "abort")'
    BY <1>0, <1>2 DEF UserForgetDropTask, ForgetAt, ForgetGoto, Operation
  <2> HIDE DEF S, N
  <2> QED
    BY <2>1, <2>2, <2>3, RewireLoopInv
<1>3. ASSUME UNCHANGED <<tasks, task, status>>,
             \A e \in Devices : ForgetAt(e, "abort") => ForgetAt(e, "abort")'
      PROVE  LoopInv'
  BY <1>3, FrameKeeps
<1>4. CASE NudgeCheck(d)
  BY <1>0, <1>3, <1>4 DEF NudgeCheck, ForgetAt, Operation
<1>5. CASE UserForgets(d) \/ UserForgetRevoke(d) \/ UserForgetClearSession(d)
           \/ UserForgetOffline(d)
  BY <1>0, <1>3, <1>5
     DEF UserForgets, UserForgetRevoke, UserForgetClearSession, UserForgetOffline,
         ForgetAt, ForgetGoto, Operation
<1>6. CASE UserForgetRecord(d)
  BY <1>0, <1>6, FrameKeeps DEF UserForgetRecord, ForgetAt, ForgetGoto, Operation
<1>7. CASE CommitRemember(d)
  BY <1>0, <1>7, FrameKeeps DEF CommitRemember, ForgetAt, Operation
<1>8. CASE CommitAllow(d) \/ CommitRefresh(d) \/ GracePasses(d)
  BY <1>0, <1>3, <1>8
     DEF CommitAllow, CommitRefresh, GracePasses, ForgetAt, Operation
<1> QED
  BY <1>1, <1>2, <1>4, <1>5, <1>6, <1>7, <1>8 DEF ForgetStep, CommitStep

\* A step of refresh, shutdown or restart keeps the loop invariant.
LEMMA NodeStepLoopInv ==
    ASSUME TypeOK, LoopInv,
           \/ \E r \in Refreshers : RefreshApply(r)
           \/ SupervisorRefresh \/ Shutdown \/ ShutdownClear \/ Restart
    PROVE  LoopInv'
<1>1. CASE \E r \in Refreshers : RefreshApply(r)
  <2>1. PICK r \in Refreshers : RefreshApply(r)
    BY <1>1
  <2> DEFINE S == {d \in Devices : d \notin refresh[r].active}
             N == {d \in refresh[r].active : tasks[d] = None}
  <2>2. S \in SUBSET Devices /\ N \in SUBSET Devices
    BY DEF TypeOK
  <2>3. Rewire(S, N) /\ UNCHANGED <<status, op>> /\ \A d \in N : tasks[d] = None
    BY <2>1 DEF RefreshApply
  <2> HIDE DEF S, N
  <2> QED
    BY <2>2, <2>3, RewireLoopInv DEF ForgetAt
<1>2. CASE SupervisorRefresh \/ ShutdownClear
  BY <1>2, FrameKeeps DEF SupervisorRefresh, ShutdownClear, ForgetAt
<1>3. CASE Shutdown
  <2> DEFINE N == {}
  <2>1. N \in SUBSET Devices /\ Rewire(Devices, N) /\ UNCHANGED <<status, op>>
        /\ \A d \in N : tasks[d] = None
    BY <1>3 DEF Shutdown
  <2> HIDE DEF N
  <2> QED
    BY <2>1, RewireLoopInv DEF ForgetAt
<1>4. CASE Restart
  BY <1>4, TaskConstructors, AnyDeviceType
     DEF Restart, LoopInv, SingleConnector, HandleOwner, ForgottenNotDialed,
         Running, NoTaskRunning, EmptyMap
<1> QED
  BY <1>1, <1>2, <1>3, <1>4

\* Every step keeps the loop invariant.
LEMMA LoopInvStep == TypeOK /\ LoopInv /\ [Next]_vars => LoopInv'
<1> SUFFICES ASSUME TypeOK, LoopInv, [Next]_vars PROVE LoopInv'
  OBVIOUS
<1>1. CASE UNCHANGED vars
  BY <1>1, FrameKeeps DEF vars, ForgetAt
<1>2. CASE Next
  BY <1>2, TaskStepLoopInv, HandlerStepLoopInv, DeviceStepLoopInv, NodeStepLoopInv
     DEF Next
<1> QED
  BY <1>1, <1>2

\* The inductive invariant holds in every reachable state.
THEOREM LoopInvariant == Spec => []LoopInv
<1>1. Init /\ [][Next]_vars => [](TypeOK /\ LoopInv)
  BY InitTypeOK, InitLoopInv, TypeOKStep, LoopInvStep, PTL
<1> QED
  BY <1>1, PTL DEF Spec

\* No device ever has two connect loops that both go on redialing it, whatever
\* the interleaving of refreshes, nudges, forgets and re-pairings.
THEOREM OneConnector == Spec => []SingleConnector
<1>1. LoopInv => SingleConnector
  BY DEF LoopInv
<1> QED
  BY <1>1, LoopInvariant, PTL

\* After forget_paired has dropped its connect task, a device without a record
\* is never dialed by a live connect loop, although a refresh may have read
\* the device list before the forget and spawn a task after it.
THEOREM ForgottenIsNotDialed == Spec => []ForgottenNotDialed
<1>1. LoopInv => ForgottenNotDialed
  BY DEF LoopInv
<1> QED
  BY <1>1, LoopInvariant, PTL

-----------------------------------------------------------------------------
\* No teardown meets an open connection that is not being forgotten.

HoldingPcs == {"opened", "inserted", "live", "teardown", "cleared", "judge", "revoke", "offline"}

\* What task r knows of its connection, the connections being k.
LinkTask(r, k) ==
    /\ r.pc \in HoldingPcs => r.conn # None
    /\ r.pc = "teardown" => r.brk \/ k[r.conn].state # "open"

\* A connect task tears down a connection that is no longer open, or one on which
\* it was forgotten; a session handler unregisters one that is no longer open.
LinkInv ==
    /\ \A t \in Tasks : LinkTask(task[t], conn)
    /\ \A c \in Conns : hdl[c].pc = "unreg" => conn[c].state # "open"

\* Only a connection nobody holds is opened.
OpensUnheld ==
    \A c \in Conns : conn'[c].state = "open" => conn[c].state = "open" \/ ~Held(c)

\* What is known of a connection someone holds stays true.
LEMMA HeldStaysClosed ==
    ASSUME TypeOK, LinkInv, OpensUnheld
    PROVE  /\ \A t \in Tasks : LinkTask(task[t], conn')
           /\ \A c \in Conns : hdl[c].pc = "unreg" => conn'[c].state # "open"
<1>1. ASSUME NEW t \in Tasks PROVE LinkTask(task[t], conn')
  <2>1. LinkTask(task[t], conn) /\ task[t] \in Task
    BY DEF LinkInv, TypeOK
  <2>2. SUFFICES ASSUME task[t].pc = "teardown", conn[task[t].conn].state # "open"
                 PROVE  conn'[task[t].conn].state # "open"
    BY <2>1 DEF LinkTask
  <2>3. task[t].conn \in Conns
    BY <2>1, <2>2 DEF LinkTask, HoldingPcs, Task
  <2>4. Held(task[t].conn)
    BY DEF Held
  <2>5. QED
    BY <2>2, <2>3, <2>4 DEF OpensUnheld
<1>2. ASSUME NEW c \in Conns, hdl[c].pc = "unreg" PROVE conn'[c].state # "open"
  <2>1. conn[c].state # "open" /\ Held(c)
    BY <1>2 DEF LinkInv, Held
  <2>2. QED
    BY <2>1 DEF OpensUnheld
<1>3. QED
  BY <1>1, <1>2

\* Handles that are dropped, aborted and spawned.
LEMMA RewireTasks ==
    ASSUME TypeOK, LinkInv, NEW S \in SUBSET Devices, NEW N \in SUBSET Devices,
           Rewire(S, N), UNCHANGED conn
    PROVE  \A t \in Tasks : LinkTask(task'[t], conn')
<1>1. PICK f \in [N -> FreeTasks] : Rewire(S, N)!(f)
  BY DEF Rewire
<1>2. ASSUME NEW t \in Tasks
      PROVE  \/ task'[t].pc \in {"loop", "done"}
             \/ /\ task'[t].pc = task[t].pc /\ task'[t].conn = task[t].conn
                /\ task'[t].brk = task[t].brk
  <2>1. task[t] \in Task
    BY DEF TypeOK
  <2>2. CASE \E d \in N : f[d] = t
    <3>1. task'[t] = NewTask(CHOOSE d \in N : f[d] = t)
      BY <1>1, <2>2
    <3>2. QED
      BY <3>1 DEF NewTask
  <2>3. CASE ~\E d \in N : f[d] = t
    <3>1. task'[t] = task[t] \/ task'[t] = Abort(task[t])
      BY <1>1, <2>3
    <3>2. \/ Abort(task[t]).pc = "done"
          \/ /\ Abort(task[t]).pc = task[t].pc /\ Abort(task[t]).conn = task[t].conn
             /\ Abort(task[t]).brk = task[t].brk
      BY <2>1, TaskConstructors DEF Abort, Task
    <3>3. QED
      BY <3>1, <3>2
  <2>4. QED
    BY <2>2, <2>3
<1>3. QED
  BY <1>2 DEF LinkInv, LinkTask, HoldingPcs

\* So they know of their connections what they knew.
LEMMA RewireLinks ==
    ASSUME TypeOK, LinkInv, NEW S \in SUBSET Devices, NEW N \in SUBSET Devices,
           Rewire(S, N), UNCHANGED <<conn, hdl>>
    PROVE  LinkInv'
<1>1. \A t \in Tasks : LinkTask(task'[t], conn')
  BY RewireTasks
<1>2. QED
  BY <1>1 DEF LinkInv, LinkTask

\* The connect loop.
LEMMA TaskStepLinks ==
    ASSUME TypeOK, LinkInv, NEW t \in Tasks, TaskStep(t) \/ ReadForget(t)
    PROVE  LinkInv'
<1>1. UNCHANGED hdl /\ task[t] \in Task /\ LinkTask(task[t], conn)
  BY DEF TaskStep, ReadForget, LoopHead, Dial, DialSucceeds, DialFails, SetSession,
     SetSessionOnline, ConnectionClosed, TeardownSession, TeardownOffline, JudgeClose,
     RevokeAccess, RevokeOffline, BackoffElapses, CancelledAtLock, TypeOK, LinkInv
<1>2. ASSUME UNCHANGED conn, NEW r, task' = [task EXCEPT ![t] = r], LinkTask(r, conn)
      PROVE  LinkInv'
  <2>1. \A u \in Tasks : task'[u] = IF u = t THEN r ELSE task[u]
    BY <1>2 DEF TypeOK
  <2>2. \A u \in Tasks : LinkTask(task'[u], conn)
    BY <1>2, <2>1 DEF LinkInv
  <2>3. QED
    BY <1>1, <1>2, <2>2 DEF LinkInv, LinkTask
<1>3. ASSUME NEW pc \in TaskPcs, task[t].pc \in HoldingPcs \/ pc \notin HoldingPcs,
             pc = "teardown" => task[t].brk
      PROVE  LinkTask(Goto(t, pc), conn)
  BY <1>1, <1>3 DEF Goto, Finished, LinkTask, HoldingPcs, Task
<1>4. CASE LoopHead(t)
  <2>1. PICK pc \in {"done", "dial"} : task' = [task EXCEPT ![t] = Goto(t, pc)]
    BY <1>4 DEF LoopHead
  <2>2. LinkTask(Goto(t, pc), conn)
    BY <1>3, <1>4, <2>1 DEF LoopHead, At, TaskPcs, AwaitPoints, HoldingPcs
  <2>3. QED
    BY <1>2, <1>4, <2>1, <2>2 DEF LoopHead
<1>5. CASE DialSucceeds(t)
  <2>1. PICK c \in Conns :
          /\ ~Held(c) /\ conn' = [conn EXCEPT ![c] = [dev |-> Dev(t), state |-> "open"]]
          /\ task' = [task EXCEPT ![t].pc = "opened", ![t].conn = c]
    BY <1>5 DEF DialSucceeds
  <2>2. OpensUnheld
    BY <2>1 DEF OpensUnheld, TypeOK
  <2>3. \A u \in Tasks : u # t => task'[u] = task[u]
    BY <2>1 DEF TypeOK
  <2>4. task'[t].pc = "opened" /\ task'[t].conn = c
    BY <1>1, <2>1 DEF TypeOK, Task
  <2>5. LinkTask(task'[t], conn')
    BY <2>4, NoneAssumption DEF LinkTask
  <2>6. \A u \in Tasks : LinkTask(task'[u], conn')
    BY <2>2, <2>3, <2>5, HeldStaysClosed
  <2>7. QED
    BY <1>1, <2>2, <2>6, HeldStaysClosed DEF LinkInv, LinkTask
<1>6. CASE DialFails(t)
  <2>1. PICK pc \in {"done", "sleep"} : task' = [task EXCEPT ![t] = Goto(t, pc)]
    BY <1>6 DEF DialFails
  <2>2. LinkTask(Goto(t, pc), conn)
    BY <1>3, <1>6, <2>1 DEF DialFails, At, TaskPcs, AwaitPoints, HoldingPcs
  <2>3. QED
    BY <1>2, <1>6, <2>1, <2>2 DEF DialFails
<1>7. CASE SetSession(t)
  BY <1>2, <1>3, <1>7 DEF SetSession, At, TaskPcs, HoldingPcs
<1>8. CASE SetSessionOnline(t)
  BY <1>2, <1>3, <1>8 DEF SetSessionOnline, At, TaskPcs, AwaitPoints, HoldingPcs
<1>9. CASE ConnectionClosed(t)
  <2> DEFINE r == [task[t] EXCEPT !.pc = "teardown", !.brk = FALSE]
  <2>1. task' = [task EXCEPT ![t] = r] /\ UNCHANGED conn
    BY <1>9 DEF ConnectionClosed
  <2>2. r.pc = "teardown" /\ r.conn = task[t].conn
    BY <1>1 DEF Task
  <2>3. task[t].conn # None /\ conn[task[t].conn].state # "open"
    BY <1>1, <1>9 DEF ConnectionClosed, At, Open, LinkTask, HoldingPcs
  <2>4. LinkTask(r, conn)
    BY <2>2, <2>3 DEF LinkTask
  <2> HIDE DEF r
  <2>5. QED
    BY <1>2, <2>1, <2>4
<1>10. CASE TeardownSession(t)
  <2>1. PICK pc \in {"cleared", "judge"} : task' = [task EXCEPT ![t] = Goto(t, pc)]
    BY <1>10 DEF TeardownSession
  <2>2. LinkTask(Goto(t, pc), conn)
    BY <1>3, <1>10, <2>1 DEF TeardownSession, At, TaskPcs, AwaitPoints, HoldingPcs
  <2>3. QED
    BY <1>2, <1>10, <2>1, <2>2 DEF TeardownSession
<1>11. CASE TeardownOffline(t)
  BY <1>2, <1>3, <1>11 DEF TeardownOffline, At, TaskPcs, HoldingPcs
<1>12. CASE JudgeClose(t)
  BY <1>2, <1>3, <1>12 DEF JudgeClose, At, TaskPcs, AwaitPoints, LockPoints, HoldingPcs
<1>13. CASE RevokeAccess(t)
  BY <1>2, <1>3, <1>13 DEF RevokeAccess, At, TaskPcs, HoldingPcs
<1>14. CASE RevokeOffline(t)
  BY <1>2, <1>3, <1>14 DEF RevokeOffline, At, TaskPcs, LockPoints, HoldingPcs
<1>15. CASE BackoffElapses(t)
  <2> DEFINE r == [Goto(t, "loop") EXCEPT !.conn = None]
  <2>1. Goto(t, "loop") \in Task /\ Goto(t, "loop").pc \in {"done", "loop"}
    BY GotoFacts DEF TypeOK, TaskPcs, AwaitPoints
  <2>2. r.pc \in {"done", "loop"}
    BY <2>1 DEF Task
  <2>3. LinkTask(r, conn) /\ task' = [task EXCEPT ![t] = r] /\ UNCHANGED conn
    BY <1>15, <2>2 DEF BackoffElapses, LinkTask, HoldingPcs
  <2> HIDE DEF r
  <2>4. QED
    BY <1>2, <2>3
<1>16. CASE CancelledAtLock(t)
  <2>1. Finished(task[t]).pc = "done"
    BY <1>1, TaskConstructors
  <2>2. QED
    BY <1>2, <1>16, <2>1 DEF CancelledAtLock, LinkTask, HoldingPcs
<1>17. CASE ReadForget(t)
  <2> DEFINE r == [task[t] EXCEPT !.pc = "revoke", !.brk = TRUE]
  <2>1. task' = [task EXCEPT ![t] = r] /\ UNCHANGED conn
    BY <1>17 DEF ReadForget
  <2>2. r.pc = "revoke" /\ r.conn = task[t].conn
    BY <1>1 DEF Task
  <2>3. task[t].conn # None
    BY <1>1, <1>17 DEF ReadForget, At, LinkTask, HoldingPcs
  <2>4. LinkTask(r, conn)
    BY <2>2, <2>3 DEF LinkTask
  <2> HIDE DEF r
  <2>5. QED
    BY <1>2, <2>1, <2>4
<1>18. QED
  BY <1>4, <1>5, <1>6, <1>7, <1>8, <1>9, <1>10, <1>11, <1>12, <1>13, <1>14, <1>15,
     <1>16, <1>17 DEF TaskStep, Dial

\* The session handlers and the peers.
LEMMA HandlerStepLinks ==
    ASSUME TypeOK, LinkInv, NEW c \in Conns,
           \/ HandlerStep(c) \/ PeerCloses(c) \/ PeerRefuses(c)
           \/ \E d \in Devices : AcceptInbound(c, d)
           \/ \E m \in Messages : ReceiveMessage(c, m)
    PROVE  LinkInv'
<1>1. ASSUME OpensUnheld, UNCHANGED task,
             \A x \in Conns : x # c => hdl'[x].pc = hdl[x].pc,
             hdl'[c].pc = "unreg" => hdl[c].pc = "unreg" \/ conn'[c].state # "open"
      PROVE  LinkInv'
  BY <1>1, HeldStaysClosed DEF LinkInv, LinkTask
<1>2. ASSUME NEW pc, HGoto(c, pc), pc \in HandlerPcs
      PROVE  (\A x \in Conns : x # c => hdl'[x].pc = hdl[x].pc) /\ hdl'[c].pc = pc
  <2>1. hdl \in [Conns -> Handler]
    BY DEF TypeOK
  <2>2. CASE pc = "none"
    BY <1>2, <2>1, <2>2 DEF HGoto, NoHandler
  <2>3. CASE pc # "none"
    BY <1>2, <2>1, <2>3 DEF HGoto, Handler
  <2>4. QED
    BY <2>2, <2>3
<1>3. UNCHANGED conn => OpensUnheld
  BY DEF OpensUnheld
<1>4. ASSUME NEW st, st # "open", conn' = [conn EXCEPT ![c].state = st]
      PROVE  OpensUnheld /\ conn'[c].state # "open"
  BY <1>4 DEF OpensUnheld, TypeOK, Conn
<1>5. CASE PeerCloses(c)
  BY <1>1, <1>4, <1>5 DEF PeerCloses
<1>6. CASE PeerRefuses(c)
  BY <1>1, <1>4, <1>6 DEF PeerRefuses
<1>7. ASSUME NEW d \in Devices, AcceptInbound(c, d) PROVE LinkInv'
  <2>1. OpensUnheld
    BY <1>7 DEF AcceptInbound, OpensUnheld, TypeOK
  <2>2. (\A x \in Conns : x # c => hdl'[x] = hdl[x]) /\ hdl'[c].pc = "wait"
    BY <1>7 DEF AcceptInbound, TypeOK, NoHandler
  <2>3. QED
    BY <1>1, <1>7, <2>1, <2>2 DEF AcceptInbound
<1>8. ASSUME NEW m \in Messages, ReceiveMessage(c, m) PROVE LinkInv'
  <2> DEFINE p == hdl[c].paired \/ (m # "invite" /\ HDev(c) \in allowed)
             pc == IF ~p THEN IF m = "invite" THEN "wait" ELSE "unreg"
                   ELSE IF hdl[c].reg THEN "act"
                   ELSE IF sessions[HDev(c)] # None THEN "seen" ELSE "store"
  <2>1. /\ hdl' = [hdl EXCEPT ![c] = [@ EXCEPT !.paired = p, !.msg = m, !.pc = pc]]
        /\ conn' = [conn EXCEPT ![c].state = IF ~p /\ m # "invite" THEN "closed" ELSE @]
        /\ UNCHANGED task
    BY <1>8 DEF ReceiveMessage
  <2>2. pc = "unreg" <=> ~p /\ m # "invite"
    OBVIOUS
  <2> HIDE DEF p, pc
  <2>3. (\A x \in Conns : x # c => hdl'[x] = hdl[x]) /\ hdl'[c].pc = pc
    BY <2>1 DEF TypeOK, Handler
  <2>4. CASE ~p /\ m # "invite"
    BY <1>1, <1>4, <2>1, <2>3, <2>4
  <2>5. CASE ~(~p /\ m # "invite")
    <3>1. hdl'[c].pc # "unreg"
      BY <2>3, <2>2, <2>5
    <3>2. OpensUnheld
      BY <2>1, <2>5 DEF OpensUnheld, TypeOK, Conn
    <3>3. QED
      BY <1>1, <2>1, <2>3, <3>1, <3>2
  <2>6. QED
    BY <2>4, <2>5
<1>9. CASE RegisterSeen(c) \/ RegisterOnline(c)
  <2>1. (\A x \in Conns : x # c => hdl'[x] = hdl[x]) /\ hdl'[c].pc = "act"
    <3>1. hdl' = [hdl EXCEPT ![c].pc = "act", ![c].reg = TRUE]
      BY <1>9 DEF RegisterSeen, RegisterOnline
    <3>2. \A h \in Handler : [[h EXCEPT !.pc = "act"] EXCEPT !.reg = TRUE].pc = "act"
      BY DEF Handler
    <3>3. hdl' = [hdl EXCEPT ![c] = [[@ EXCEPT !.pc = "act"] EXCEPT !.reg = TRUE]]
      BY <3>1 DEF TypeOK
    <3>4. QED
      BY <3>2, <3>3 DEF TypeOK
  <2>2. QED
    BY <1>1, <1>3, <1>9, <2>1 DEF RegisterSeen, RegisterOnline
<1>10. CASE RegisterStore(c)
  BY <1>1, <1>2, <1>3, <1>10 DEF RegisterStore, HandlerPcs
<1>11. CASE ActOnMessage(c)
  <2>1. CASE hdl[c].msg = "forget" /\ status[HDev(c)] = "absent"
    <3>1. conn' = [conn EXCEPT ![c].state = "closed"] /\ HGoto(c, "unreg") /\ UNCHANGED task
      BY <1>11, <2>1 DEF ActOnMessage
    <3>2. QED
      BY <1>1, <1>2, <1>4, <3>1 DEF HandlerPcs
  <2>2. CASE ~(hdl[c].msg = "forget" /\ status[HDev(c)] = "absent")
    <3>1. PICK pc \in {"wait", "revoke"} : HGoto(c, pc)
      BY <1>11, <2>2 DEF ActOnMessage
    <3>2. UNCHANGED task /\ OpensUnheld
      BY <1>11, <2>2 DEF ActOnMessage, OpensUnheld, TypeOK, Conn
    <3>3. QED
      BY <1>1, <1>2, <3>1, <3>2 DEF HandlerPcs
  <2>3. QED
    BY <2>1, <2>2
<1>12. CASE ForgetRevoke(c)
  BY <1>1, <1>2, <1>3, <1>12 DEF ForgetRevoke, HandlerPcs
<1>13. CASE ForgetOffline(c)
  BY <1>1, <1>2, <1>3, <1>13 DEF ForgetOffline, HandlerPcs
<1>14. CASE ForgetDropTask(c)
  <2> DEFINE S == {HDev(c)}
             N == {}
  <2>1. S \in SUBSET Devices /\ N \in SUBSET Devices /\ Rewire(S, N) /\ UNCHANGED conn
    BY <1>14 DEF ForgetDropTask, HDev, TypeOK, Conn
  <2> HIDE DEF S, N
  <2>2. \A x \in Conns : hdl'[x].pc = "unreg" => hdl[x].pc = "unreg"
    BY <1>2, <1>14 DEF ForgetDropTask, HandlerPcs
  <2>3. \A t \in Tasks : LinkTask(task'[t], conn')
    BY <2>1, RewireTasks
  <2>4. QED
    BY <2>1, <2>2, <2>3 DEF LinkInv, LinkTask
<1>15. CASE ForgetClearSession(c)
  BY <1>1, <1>2, <1>4, <1>15 DEF ForgetClearSession, HandlerPcs
<1>16. CASE SessionEnds(c)
  BY <1>1, <1>2, <1>3, <1>16 DEF SessionEnds, Open, HandlerPcs
<1>17. CASE Unregister(c)
  <2>1. PICK pc \in {"unregged", "none"} : HGoto(c, pc)
    BY <1>17 DEF Unregister
  <2>2. QED
    BY <1>1, <1>2, <1>3, <1>17, <2>1 DEF Unregister, HandlerPcs
<1>18. CASE UnregisterOffline(c)
  BY <1>1, <1>2, <1>3, <1>18 DEF UnregisterOffline, HandlerPcs
<1>19. QED
  BY <1>5, <1>6, <1>7, <1>8, <1>9, <1>10, <1>11, <1>12, <1>13, <1>14, <1>15, <1>16,
     <1>17, <1>18 DEF HandlerStep

\* Every step.
LEMMA LinkInvStep == TypeOK /\ LinkInv /\ [Next]_vars => LinkInv'
<1> SUFFICES ASSUME TypeOK, LinkInv, [Next]_vars PROVE LinkInv'
  OBVIOUS
<1>1. CASE UNCHANGED vars
  BY <1>1 DEF vars, LinkInv, LinkTask
<1>2. ASSUME UNCHANGED <<task, conn, hdl>> PROVE LinkInv'
  BY <1>2 DEF LinkInv, LinkTask
<1>3. ASSUME NEW r \in Refreshers, RefreshApply(r) PROVE LinkInv'
  <2> DEFINE S == {d \in Devices : d \notin refresh[r].active}
             N == {d \in refresh[r].active : tasks[d] = None}
  <2>1. refresh[r].active \in SUBSET Devices
    BY DEF TypeOK
  <2>2. S \in SUBSET Devices /\ N \in SUBSET Devices /\ Rewire(S, N) /\ UNCHANGED <<conn, hdl>>
    BY <1>3, <2>1 DEF RefreshApply
  <2> HIDE DEF S, N
  <2>3. QED
    BY <2>2, RewireLinks
<1>4. ASSUME NEW d \in Devices, RespawnConnectTask(d) PROVE LinkInv'
  BY <1>4, RewireLinks DEF RespawnConnectTask
<1>5. ASSUME NEW d \in Devices, UserForgetDropTask(d) PROVE LinkInv'
  BY <1>5, RewireLinks DEF UserForgetDropTask
<1>6. CASE Shutdown
  BY <1>6, RewireLinks DEF Shutdown
<1>7. CASE ShutdownClear
  <2>1. OpensUnheld /\ UNCHANGED <<task, hdl>>
    BY <1>7 DEF ShutdownClear, OpensUnheld, TypeOK, Conn
  <2>2. QED
    BY <2>1, HeldStaysClosed DEF LinkInv, LinkTask
<1>8. CASE Restart
  <2>1. \A t \in Tasks : task'[t].pc = "done"
    BY <1>8, TaskConstructors, AnyDeviceType DEF Restart, NoTaskRunning
  <2>2. \A c \in Conns : hdl'[c].pc = "none"
    BY <1>8 DEF Restart, NoHandlers, NoHandler
  <2>3. QED
    BY <2>1, <2>2 DEF LinkInv, LinkTask, HoldingPcs
<1>9. CASE SupervisorRefresh
  BY <1>2, <1>9 DEF SupervisorRefresh
<1>10. ASSUME NEW d \in Devices, NudgeCheck(d) \/ UserForgets(d) \/ CommitRemember(d)
                                  \/ CommitStep(d) \/ GracePasses(d)
       PROVE  LinkInv'
  BY <1>2, <1>10 DEF NudgeCheck, UserForgets, CommitRemember, CommitStep, CommitAllow,
     CommitRefresh, GracePasses
<1>11. ASSUME NEW d \in Devices, UserForgetRevoke(d) \/ UserForgetRecord(d)
                                  \/ UserForgetClearSession(d) \/ UserForgetOffline(d)
       PROVE  LinkInv'
  BY <1>2, <1>11 DEF UserForgetRevoke, UserForgetRecord, UserForgetClearSession, UserForgetOffline
<1>12. CASE Next
  BY <1>3, <1>4, <1>5, <1>6, <1>7, <1>8, <1>9, <1>10, <1>11, <1>12, TaskStepLinks,
     HandlerStepLinks DEF Next, ForgetStep
<1>13. QED
  BY <1>1, <1>12

\* The steps that touch the stored sessions.
LEMMA LinkDropped ==
    ASSUME TypeOK, LinkInv, Next, ~Restart, phase = "up",
           NEW d \in Devices, sessions[d] # None, Open(sessions[d]), sessions'[d] = None
    PROVE  ForgetInProgress(d)
<1>1. ASSUME UNCHANGED sessions PROVE FALSE
  BY <1>1
<1>2. ASSUME NEW e \in Devices, NEW x, x # None, sessions' = [sessions EXCEPT ![e] = x] PROVE FALSE
  BY <1>2 DEF TypeOK
<1>3. ASSUME NEW e \in Devices, sessions' = [sessions EXCEPT ![e] = None] PROVE e = d
  BY <1>3 DEF TypeOK
<1>4. ASSUME NEW t \in Tasks, TaskStep(t) \/ ReadForget(t) PROVE ForgetInProgress(d)
  <2>1. Dev(t) \in Devices /\ LinkTask(task[t], conn)
    BY DEF TypeOK, Dev, Task, LinkInv
  <2>2. CASE SetSession(t)
    <3>1. task[t].conn # None
      BY <2>1, <2>2 DEF SetSession, At, LinkTask, HoldingPcs
    <3>2. QED
      BY <1>2, <2>1, <2>2, <3>1 DEF SetSession
  <2>3. CASE TeardownSession(t)
    <3>1. CASE sessions[Dev(t)] = task[t].conn
      <4>1. Dev(t) = d
        BY <1>3, <2>1, <2>3, <3>1 DEF TeardownSession
      <4>2. task[t].brk
        BY <2>1, <2>3, <3>1, <4>1 DEF TeardownSession, At, LinkTask, Open
      <4>3. QED
        BY <4>1, <4>2 DEF ForgetInProgress
    <3>2. CASE sessions[Dev(t)] # task[t].conn
      BY <1>1, <2>1, <2>3, <3>2 DEF TeardownSession, TypeOK
    <3>3. QED
      BY <3>1, <3>2
  <2>4. CASE ~SetSession(t) /\ ~TeardownSession(t)
    BY <1>1, <1>4, <2>4 DEF TaskStep, ReadForget, LoopHead, Dial, DialSucceeds, DialFails,
       SetSessionOnline, ConnectionClosed, TeardownOffline, JudgeClose,
       RevokeAccess, RevokeOffline, BackoffElapses, CancelledAtLock
  <2>5. QED
    BY <2>2, <2>3, <2>4
<1>5. ASSUME NEW c \in Conns,
             \/ HandlerStep(c) \/ PeerCloses(c) \/ PeerRefuses(c)
             \/ \E e \in Devices : AcceptInbound(c, e)
             \/ \E m \in Messages : ReceiveMessage(c, m)
      PROVE  ForgetInProgress(d)
  <2>1. HDev(c) \in Devices /\ c # None
    BY NoneAssumption DEF TypeOK, HDev, Conn
  <2>2. CASE RegisterStore(c)
    BY <1>2, <2>1, <2>2 DEF RegisterStore
  <2>3. CASE ForgetClearSession(c)
    <3>1. HDev(c) = d
      BY <1>3, <2>1, <2>3 DEF ForgetClearSession, RemoveSession
    <3>2. QED
      BY <2>3, <3>1 DEF ForgetClearSession, HAt, ForgetInProgress
  <2>4. CASE Unregister(c)
    <3>1. CASE hdl[c].reg /\ sessions[HDev(c)] = c
      <4>1. HDev(c) = d
        BY <1>3, <2>1, <2>4, <3>1 DEF Unregister
      <4>2. conn[c].state # "open"
        BY <2>4 DEF Unregister, HAt, LinkInv
      <4>3. QED
        BY <3>1, <4>1, <4>2 DEF Open
    <3>2. CASE ~(hdl[c].reg /\ sessions[HDev(c)] = c)
      BY <1>1, <2>1, <2>4, <3>2 DEF Unregister, TypeOK
    <3>3. QED
      BY <3>1, <3>2
  <2>5. CASE ~RegisterStore(c) /\ ~ForgetClearSession(c) /\ ~Unregister(c)
    BY <1>1, <1>5, <2>5 DEF HandlerStep, PeerCloses, PeerRefuses, AcceptInbound, ReceiveMessage,
       RegisterSeen, RegisterOnline, ActOnMessage, ForgetRevoke, ForgetOffline,
       ForgetDropTask, SessionEnds, UnregisterOffline
  <2>6. QED
    BY <2>2, <2>3, <2>4, <2>5
<1>6. ASSUME NEW e \in Devices, UserForgetClearSession(e) PROVE ForgetInProgress(d)
  <2>1. e = d
    BY <1>3, <1>6 DEF UserForgetClearSession, RemoveSession
  <2>2. QED
    BY <1>6, <2>1 DEF UserForgetClearSession, ForgetAt, ForgetInProgress
<1>7. ASSUME NEW e \in Devices,
             \/ NudgeCheck(e) \/ RespawnConnectTask(e) \/ UserForgets(e)
             \/ UserForgetRevoke(e) \/ UserForgetRecord(e) \/ UserForgetDropTask(e)
             \/ UserForgetOffline(e) \/ CommitRemember(e) \/ CommitStep(e) \/ GracePasses(e)
      PROVE  FALSE
  BY <1>1, <1>7 DEF NudgeCheck, RespawnConnectTask, UserForgets, UserForgetRevoke,
     UserForgetRecord, UserForgetDropTask, UserForgetOffline, CommitRemember, CommitStep,
     CommitAllow, CommitRefresh, GracePasses
<1>8. ASSUME \/ \E r \in Refreshers : RefreshApply(r)
             \/ SupervisorRefresh \/ Shutdown
      PROVE  FALSE
  BY <1>1, <1>8 DEF RefreshApply, SupervisorRefresh, Shutdown
<1>9. ~ShutdownClear
  BY DEF ShutdownClear
<1>10. QED
  BY <1>4, <1>5, <1>6, <1>7, <1>8, <1>9 DEF Next, ForgetStep

\* remove_session_if and unregister_inbound compare connection ids under the lock:
\* a teardown that comes late cannot clear a newer live link, whatever connects,
\* reconnects, aborts and re-pairings it races with.
THEOREM LiveLinkSurvives == Spec => NewerLinkSurvives
<1>1. Init => LinkInv
  <2> SUFFICES ASSUME Init PROVE LinkInv
    OBVIOUS
  <2>1. \A t \in Tasks : task[t].pc = "done"
    BY TaskConstructors, AnyDeviceType DEF Init, NoTaskRunning
  <2>2. \A c \in Conns : hdl[c].pc = "none"
    BY DEF Init, NoHandlers, NoHandler
  <2>3. QED
    BY <2>1, <2>2 DEF LinkInv, LinkTask, HoldingPcs
<1>2. ASSUME TypeOK, LinkInv, [Next]_vars
      PROVE  [\A d \in Devices :
                sessions[d] # None /\ Open(sessions[d]) /\ sessions'[d] = None
                  => ForgetInProgress(d) \/ phase # "up" \/ Restart]_vars
  BY <1>2, LinkDropped
<1>3. QED
  BY <1>1, <1>2, TypeCorrect, LinkInvStep, PTL DEF Spec, NewerLinkSurvives
=============================================================================
