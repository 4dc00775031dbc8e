----------------------------- MODULE ReceiverUI -----------------------------
(***************************************************************************)
(* The receive session of the user interface: the flags useReceiver keeps  *)
(* (frontend/src/hooks/useReceiver.ts), the backend events and the answers *)
(* of receive_file applied to them, and the screens that offer Download,   *)
(* Stop, Done and Open.  React commits state some time after it was set:   *)
(* buttons, callbacks and the stores other components read follow the      *)
(* committed flags (seen), setters change the next ones (s).  A click is   *)
(* committed before it returns, everything else at some later Commit.      *)
(***************************************************************************)
EXTENDS Naturals, Sequences

CONSTANTS
    Receives,     \* receive_file invocations in flight, reused when over
    MaxEvents,    \* bound: backend events on their way to the webview
    NoReceive

ASSUME ReceiverAssumption ==
    NoReceive \notin Receives /\ MaxEvents \in Nat \ {0}

VARIABLES
    android,    \* IS_ANDROID: every receive ends in an export
    s,          \* isReceiving, isTransporting, isCompleted, isExportPending
    seen,       \* the committed flags
    shown,      \* transferMetadata: whose completion is on screen
    names,      \* fileNames: whose names are held
    target,     \* androidOpenUriRef and androidMediaStoreUrisRef
    opened,     \* folderOpenTriggeredRef
    armed,      \* transferSeqRef.current is not 0
    current,    \* the receive that receiveWithTicket started last
    be,         \* backend progress of each invocation
    slot,       \* current_receive_cancel
    cancelCall, \* an invoke('cancel_receive') not yet handled
    events      \* events emitted and not yet handled

screenVars == <<shown, names, target, opened, armed, current>>
backendVars == <<be, slot, cancelCall, events>>
receiverVars == <<android, s, seen, screenVars, backendVars>>

Flags == [receiving : BOOLEAN, transporting : BOOLEAN, completed : BOOLEAN,
          export : BOOLEAN]
Idle == [receiving |-> FALSE, transporting |-> FALSE, completed |-> FALSE,
         export |-> FALSE]
EventTypes == {"started", "names", "completed", "fallback", "mediastore",
               "exported"}

ReceiverTypeOK ==
    /\ android \in BOOLEAN /\ s \in Flags /\ seen \in Flags
    /\ shown \in Receives \cup {NoReceive} /\ names \in Receives \cup {NoReceive}
    /\ target \in {"none", "tree", "media"} /\ opened \in BOOLEAN
    /\ armed \in BOOLEAN /\ current \in Receives \cup {NoReceive}
    /\ be \in [Receives -> {"free", "called", "running", "named", "exporting",
                            "cancelling", "ok", "failed", "cancelled"}]
    /\ slot \in Receives \cup {NoReceive} /\ cancelCall \in BOOLEAN
    /\ events \in Seq([type : EventTypes, of : Receives])
    /\ Len(events) <= MaxEvents

ReceiverInit ==
    /\ android \in BOOLEAN /\ s = Idle /\ seen = Idle
    /\ shown = NoReceive /\ names = NoReceive /\ target = "none"
    /\ opened = FALSE /\ armed = FALSE /\ current = NoReceive
    /\ be = [r \in Receives |-> "free"] /\ slot = NoReceive
    /\ cancelCall = FALSE /\ events = <<>>

-----------------------------------------------------------------------------
\* Mutant: a receive on screen counts as busy even after it completed.
BusyUntilDone(f) == f.receiving \/ f.export

\* isReceiveSessionBusy
SessionBusy(f) ==
    f.transporting \/ f.export \/ (f.receiving /\ ~f.completed)

\* What Receiver renders: the ticket form, the progress card with its Stop
\* button, or the success screen with Open and Done.
Screen(f) ==
    IF ~f.receiving THEN "form"
    ELSE IF f.completed /\ shown # NoReceive THEN "success" ELSE "active"

\* The Download button and the Enter key of the ticket field.
DownloadOffered == ~seen.receiving
StopOffered == Screen(seen) = "active"
DoneOffered == Screen(seen) = "success"
OpenOffered == Screen(seen) = "success" /\ ~seen.export

\* A render, after which effects publish isSessionBusy and the accept callback.
Commit ==
    /\ seen # s /\ seen' = s
    /\ UNCHANGED <<android, s, screenVars, backendVars>>

\* A receive_file invocation none of whose events is still under way.
Free(r) ==
    be[r] = "free" /\ \A n \in DOMAIN events : events[n].of # r

\* receiveWithTicket up to the answer of receive_file.  The names of the last
\* receive stay; Open points at the SAF folder if one was chosen.
ReceiveWithTicket(r) ==
    /\ Free(r)
    /\ s' = [receiving |-> TRUE, transporting |-> FALSE, completed |-> FALSE,
             export |-> android]
    /\ shown' = NoReceive /\ armed' = TRUE /\ current' = r /\ opened' = FALSE
    /\ target' \in IF android THEN {"none", "tree"} ELSE {"none"}
    /\ be' = [be EXCEPT ![r] = "called"]
    /\ UNCHANGED <<android, names, slot, cancelCall, events>>

HandleReceive(r) == DownloadOffered /\ ReceiveWithTicket(r) /\ seen' = s'

\* acceptPairedInvite, from the queue or the invite dialog: turned away with an
\* alert while the committed session is busy.
AcceptPairedInvite(r) ==
    ~SessionBusy(seen) /\ ReceiveWithTicket(r) /\ seen' \in {seen, s'}

\* Stop and Done.
ResetForNewTransfer ==
    /\ StopOffered \/ DoneOffered
    /\ s' = Idle /\ seen' = Idle
    /\ shown' = NoReceive /\ names' = NoReceive /\ armed' = FALSE
    /\ target' = "none" /\ opened' = FALSE
    /\ cancelCall' = TRUE
    /\ UNCHANGED <<android, current, be, slot, events>>

\* handleOpenFolder: once per receive, unless there is nowhere to go or the
\* platform's call fails.
HandleOpenFolder ==
    /\ OpenOffered /\ ~opened
    /\ opened' \in IF android /\ target = "none" THEN {FALSE} ELSE BOOLEAN
    /\ UNCHANGED <<android, s, seen, shown, names, target, armed, current,
                   backendVars>>

-----------------------------------------------------------------------------
\* The shell behind invoke and listen.
uiVars == <<android, s, seen, screenVars>>

Emit(type, r) ==
    /\ Len(events) < MaxEvents
    /\ events' = Append(events, [type |-> type, of |-> r])

BackendStarts(r) ==
    /\ be[r] = "called"
    /\ IF slot = NoReceive
       THEN /\ be' = [be EXCEPT ![r] = "running"] /\ slot' = r
            /\ Emit("started", r)
       ELSE be' = [be EXCEPT ![r] = "failed"] /\ UNCHANGED <<slot, events>>
    /\ UNCHANGED <<uiVars, cancelCall>>

BackendNames(r) ==
    /\ be[r] = "running"
    /\ be' = [be EXCEPT ![r] = "named"] /\ Emit("names", r)
    /\ UNCHANGED <<uiVars, slot, cancelCall>>

\* receive-completed is emitted before the Android export and the answer.
BackendCompletes(r) ==
    /\ be[r] = "named"
    /\ be' = [be EXCEPT ![r] = IF android THEN "exporting" ELSE "ok"]
    /\ slot' = NoReceive /\ Emit("completed", r)
    /\ UNCHANGED <<uiVars, cancelCall>>

\* The export ends in the SAF folder, in MediaStore or in the staging folder.
BackendExported(r) ==
    /\ be[r] = "exporting"
    /\ be' = [be EXCEPT ![r] = "ok"]
    /\ \/ Emit("exported", r)
       \/ \E kind \in {"fallback", "mediastore"} :
              /\ Len(events) + 1 < MaxEvents
              /\ events' = events \o <<[type |-> kind, of |-> r],
                                       [type |-> "exported", of |-> r]>>
    /\ UNCHANGED <<uiVars, slot, cancelCall>>

BackendFails(r) ==
    /\ be[r] \in {"called", "running", "named"}
    /\ be' = [be EXCEPT ![r] = "failed"]
    /\ slot' = IF be[r] = "called" THEN slot ELSE NoReceive
    /\ UNCHANGED <<uiVars, cancelCall, events>>

\* cancel_receive frees the slot at once; the download ends some time later.
BackendCancels ==
    /\ cancelCall
    /\ cancelCall' = FALSE /\ slot' = NoReceive
    /\ be' = [r \in Receives |-> IF r = slot THEN "cancelling" ELSE be[r]]
    /\ UNCHANGED <<uiVars, events>>

BackendCancelEnds(r) ==
    /\ be[r] = "cancelling"
    /\ \/ be' = [be EXCEPT ![r] = "cancelled"] /\ UNCHANGED events
       \/ be' = [be EXCEPT ![r] = IF android THEN "exporting" ELSE "ok"]
          /\ Emit("completed", r)
    /\ UNCHANGED <<uiVars, slot, cancelCall>>

-----------------------------------------------------------------------------
\* Listeners: some drop an event when no transfer is armed, none looks which
\* transfer an event belongs to.
Take(type) == events # <<>> /\ Head(events).type = type /\ events' = Tail(events)

\* Mutant: the listener does not look at transferSeqRef.
OnStartedUnguarded ==
    /\ Take("started")
    /\ s' = [s EXCEPT !.transporting = TRUE, !.completed = FALSE]
    /\ UNCHANGED <<android, seen, screenVars, be, slot, cancelCall>>

OnReceiveStarted ==
    /\ Take("started")
    /\ s' = IF armed THEN [s EXCEPT !.transporting = TRUE, !.completed = FALSE]
            ELSE s
    /\ UNCHANGED <<android, seen, screenVars, be, slot, cancelCall>>

\* receive-file-names; receive-progress and receive-conflicts are guarded alike.
OnReceiveFileNames ==
    /\ Take("names")
    /\ names' = IF armed THEN Head(events).of ELSE names
    /\ UNCHANGED <<android, s, seen, shown, target, opened, armed, current, be,
                   slot, cancelCall>>

OnReceiveCompleted ==
    /\ Take("completed")
    /\ s' = IF armed THEN [s EXCEPT !.transporting = FALSE, !.completed = TRUE]
            ELSE s
    /\ shown' = IF armed THEN Head(events).of ELSE shown
    /\ UNCHANGED <<android, seen, names, target, opened, armed, current, be,
                   slot, cancelCall>>

OnDownloadFallback ==
    /\ Take("fallback") /\ target' = IF target = "tree" THEN "none" ELSE target
    /\ UNCHANGED <<android, s, seen, shown, names, opened, armed, current, be,
                   slot, cancelCall>>

OnDownloadMediaStore ==
    /\ Take("mediastore") /\ target' = IF target = "tree" THEN target ELSE "media"
    /\ UNCHANGED <<android, s, seen, shown, names, opened, armed, current, be,
                   slot, cancelCall>>

OnExportFinished ==
    /\ Take("exported") /\ s' = [s EXCEPT !.export = FALSE]
    /\ UNCHANGED <<android, seen, screenVars, be, slot, cancelCall>>

\* The answer of receive_file: an error clears the pending export, and one that
\* is not "cancelled" the session as well.
OnInvokeResult(r) ==
    /\ be[r] \in {"ok", "cancelled", "failed"}
    /\ s' = CASE be[r] = "ok" -> s
              [] be[r] = "cancelled" -> [s EXCEPT !.export = FALSE]
              [] be[r] = "failed" -> Idle
    /\ be' = [be EXCEPT ![r] = "free"]
    /\ UNCHANGED <<android, seen, screenVars, slot, cancelCall, events>>

-----------------------------------------------------------------------------
Listeners ==
    \/ OnReceiveStarted \/ OnReceiveFileNames \/ OnReceiveCompleted
    \/ OnDownloadFallback \/ OnDownloadMediaStore \/ OnExportFinished

Answer == \E r \in Receives : OnInvokeResult(r)

\* What the shell does by itself; a transfer owes no progress.
Shell ==
    BackendCancels \/ \E r \in Receives : BackendStarts(r) \/ BackendCancelEnds(r)

Transfer ==
    \E r \in Receives :
        \/ BackendNames(r) \/ BackendCompletes(r) \/ BackendFails(r)
        \/ BackendExported(r)

ReceiverNext ==
    \/ \E r \in Receives : HandleReceive(r) \/ AcceptPairedInvite(r)
    \/ ResetForNewTransfer \/ HandleOpenFolder
    \/ Commit \/ Listeners \/ Answer \/ Shell \/ Transfer

ReceiverSpec == ReceiverInit /\ [][ReceiverNext]_receiverVars

\* Renders, listeners and answers are run by the event loop, commands and the
\* end of a cancelled download by the shell; users and transfers owe nothing.
ReceiverFairness ==
    /\ WF_receiverVars(Commit) /\ WF_receiverVars(Listeners)
    /\ WF_receiverVars(Answer) /\ WF_receiverVars(Shell)

-----------------------------------------------------------------------------
\* PROPERTIES

\* "Zero the seq first so in-flight events from the cancelled transfer are
\* ignored" (resetForNewTransfer): once the user pressed Stop or Done, nothing
\* that arrives late brings the session or its screen back.
ResetStays == ~armed => s = Idle /\ shown = NoReceive /\ names = NoReceive

\* "Reading it as busy makes a finished transfer block the next one"
\* (receive-session.ts): once the last event of a successful receive is on its
\* way (on Android the one after its completion was shown) and no other receive
\* is, the session becomes free by itself, without the user dismissing a screen.
LastEventSent(r) ==
    /\ current = r /\ \A q \in Receives \ {r} : Free(q)
    /\ \E n \in DOMAIN events :
           \/ ~android /\ events[n] = [type |-> "completed", of |-> r]
           \/ s.completed /\ events[n] = [type |-> "exported", of |-> r]
FinishedReceiveFrees ==
    \A r \in Receives :
        LastEventSent(r) ~> (~SessionBusy(s) \/ current # r)

\* useReceiver, on transferSeqRef: listeners "ignore events whose seq no longer
\* matches - preventing ghost completions from a just-cancelled download".
NoGhostCompletion == shown # NoReceive => shown = current
=============================================================================
