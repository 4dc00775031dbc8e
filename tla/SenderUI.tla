------------------------------ MODULE SenderUI ------------------------------
(***************************************************************************)
(* The sending session of the user interface (useSender, sender-store,     *)
(* Sender.tsx, ShareLinkPanel) with the two commands it uses, send_items   *)
(* and stop_sharing.  Shares are numbered; a ticket is its share's number. *)
(* The backend takes commands in the order of its state lock; answers and  *)
(* events reach the page later, each kind in order.                        *)
(***************************************************************************)
EXTENDS Naturals, Sequences

CONSTANTS
    MaxShares,    \* bound on shares started
    MaxCalls,     \* bound on commands, answers and events in flight
    MaxPulls      \* bound on receivers, completions and timers at the same time

ASSUME SenderAssumption ==
    MaxShares \in Nat /\ MaxCalls \in Nat \ {0} /\ MaxPulls \in Nat

VARIABLES
    view,         \* viewState
    tkt,          \* ticket, 0 when null
    sel,          \* something is selected
    loading,      \* isLoading
    meta,         \* transferMetadata: none, of a completed or of a stopped transfer
    bcast,        \* isBroadcastMode
    manual,       \* wasManuallyStoppedRef
    alert,        \* alertDialog is open: a share could not be started
    share,        \* the backend's current share: its number and stage
    shares,       \* shares started so far
    pulls,        \* receivers pulling from the share
    calls,        \* commands on their way
    answers,      \* answers on their way
    news,         \* transfer events on their way
    completing,   \* transfer-completed handlers in their 10 ms pause
    relisten,     \* resetForBroadcast timers
    sizing,       \* get_file_size of a completed transfer is pending
    hasty         \* the user need not wait for the end of a share to start another

storeVars == <<view, tkt, sel, loading, meta, bcast, alert>>
backVars == <<hasty, share, shares, pulls>>
wireVars == <<calls, answers, news>>
laterVars == <<completing, relisten, sizing>>
senderVars == <<storeVars, manual, backVars, wireVars, laterVars>>

NoShare == [id |-> 0, stage |-> "none"]
Commands == {"send", "reset", "tail", "ignore"}

SenderTypeOK ==
    /\ view \in {"IDLE", "SHARING", "TRANSPORTING", "SUCCESS"}
    /\ tkt \in Nat /\ shares \in Nat
    /\ sel \in BOOLEAN /\ loading \in BOOLEAN /\ bcast \in BOOLEAN
    /\ manual \in BOOLEAN /\ meta \in {"none", "done", "stopped"}
    /\ alert \in BOOLEAN
    /\ share \in [id : Nat, stage : {"none", "starting", "live"}]
    /\ pulls \in 0..MaxPulls
    /\ calls \in Seq(Commands)
    /\ answers \in Seq([to : Commands, ok : BOOLEAN, id : Nat])
    /\ news \in Seq({"started", "completed", "failed"})
    /\ completing \in Seq(BOOLEAN) /\ relisten \in Nat /\ sizing \in BOOLEAN
    /\ hasty \in BOOLEAN

SenderInit ==
    /\ view = "IDLE" /\ tkt = 0 /\ sel = FALSE /\ loading = FALSE
    /\ meta = "none" /\ bcast = FALSE /\ manual = FALSE
    /\ alert = FALSE
    /\ share = NoShare /\ shares = 0 /\ pulls = 0
    /\ calls = <<>> /\ answers = <<>> /\ news = <<>>
    /\ completing = <<>> /\ relisten = 0 /\ sizing = FALSE /\ hasty \in BOOLEAN

-----------------------------------------------------------------------------
\* The store's two complex transitions.
ResetToIdle ==
    /\ view' = "IDLE" /\ tkt' = 0 /\ sel' = FALSE /\ meta' = "none"
    /\ loading' = FALSE /\ bcast' = FALSE

ResetForBroadcast ==
    view' = "SHARING" /\ meta' = "none" /\ UNCHANGED <<tkt, sel, loading, bcast>>

Call(c) == Len(calls) + Len(answers) < MaxCalls /\ calls' = Append(calls, c)

\* The screens of Sender.tsx and the controls they offer.
ActiveScreen == view = "SHARING" \/ (view = "TRANSPORTING" /\ ~bcast)
SuccessScreen == view = "SUCCESS" /\ meta # "none" /\ ~bcast
ShareOffered == view = "IDLE" /\ sel /\ ~loading
BroadcastOffered == view = "SHARING" /\ tkt # 0

\* handleFilesSelect, clearSelectedPath, removeSelectedPath: on the idle screen.
SelectFiles ==
    /\ view = "IDLE" /\ sel' = ~sel
    /\ UNCHANGED <<view, tkt, loading, meta, bcast, alert, manual, backVars,
                   wireVars, laterVars>>

\* startSharing up to its await.
StartSharing ==
    /\ ShareOffered /\ ~alert
    /\ hasty \/ (wireVars = <<<<>>, <<>>, <<>>>> /\ pulls = 0 /\ completing = <<>>)
    /\ shares + Len(SelectSeq(calls, LAMBDA c : c = "send")) < MaxShares
    /\ meta' = "none" /\ manual' = FALSE /\ loading' = TRUE
    /\ Call("send")
    /\ UNCHANGED <<view, tkt, sel, bcast, alert, backVars, answers, news, laterVars>>

\* ... and after it: the ticket or the error.
OnSendAnswer ==
    /\ answers # <<>> /\ Head(answers).to = "send"
    /\ loading' = FALSE /\ answers' = Tail(answers)
    /\ IF Head(answers).ok
       THEN tkt' = Head(answers).id /\ view' = "SHARING" /\ UNCHANGED alert
       ELSE alert' = TRUE /\ UNCHANGED <<tkt, view>>
    /\ UNCHANGED <<sel, meta, bcast, manual, backVars, calls, news, laterVars>>

\* stopSharing up to its await.  An active transfer is marked as stopped; a
\* finished one is reset at once and the share stopped in the background.
StopSharing ==
    \/ /\ view = "TRANSPORTING" /\ meta # "stopped" /\ sel
       /\ bcast' = FALSE /\ manual' = TRUE /\ meta' = "stopped" /\ view' = "SUCCESS"
       /\ Call("tail") /\ UNCHANGED <<tkt, sel, loading>>
    \/ /\ view = "SUCCESS" /\ meta # "none"
       /\ manual' = FALSE /\ ResetToIdle /\ Call("ignore")
    \/ /\ ~(view = "TRANSPORTING" /\ meta # "stopped" /\ sel)
       /\ ~(view = "SUCCESS" /\ meta # "none")
       /\ bcast' = FALSE /\ Call("reset")
       /\ UNCHANGED <<view, meta, tkt, sel, loading, manual>>

\* The stop button of the active screen; Done on the success screen.
StopClicked ==
    /\ ActiveScreen \/ SuccessScreen
    /\ ~alert /\ StopSharing
    /\ UNCHANGED <<alert, backVars, answers, news, laterVars>>

\* The alert dialog: its Stop button, or Cancel.
AlertStop ==
    /\ alert /\ StopSharing /\ alert' = FALSE
    /\ UNCHANGED <<backVars, answers, news, laterVars>>

CloseAlert ==
    /\ alert /\ alert' = FALSE
    /\ UNCHANGED <<view, tkt, sel, loading, meta, bcast, manual, backVars,
                   wireVars, laterVars>>

\* Mutant: the ticket outlives the share.
StopKeepsTicket(to) ==
    CASE to = "reset" -> /\ view' = "IDLE" /\ sel' = FALSE /\ meta' = "none"
                         /\ loading' = FALSE /\ bcast' = FALSE /\ manual' = FALSE
                         /\ UNCHANGED tkt
      [] to = "tail" -> tkt' = 0 /\ sel' = FALSE /\ UNCHANGED <<view, meta, loading, bcast, manual>>
      [] OTHER -> UNCHANGED <<view, tkt, sel, meta, loading, bcast, manual>>

\* stopSharing after its await: back to idle, or only the ticket and the
\* selection of a transfer that was stopped.
StopContinues(to) ==
    CASE to = "reset" -> manual' = FALSE /\ ResetToIdle
      [] to = "tail" -> tkt' = 0 /\ sel' = FALSE /\ UNCHANGED <<view, meta, loading, bcast, manual>>
      [] OTHER -> UNCHANGED <<view, tkt, sel, meta, loading, bcast, manual>>

OnStopAnswer ==
    /\ answers # <<>> /\ Head(answers).to # "send"
    /\ answers' = Tail(answers)
    /\ StopContinues(Head(answers).to)
    /\ UNCHANGED <<alert, backVars, calls, news, laterVars>>

-----------------------------------------------------------------------------
\* The backend.
Answer(to, ok, id) == answers' = Append(answers, [to |-> to, ok |-> ok, id |-> id])

\* send_items: reserve the slot, or refuse.
SendItems ==
    /\ calls # <<>> /\ Head(calls) = "send" /\ calls' = Tail(calls)
    /\ IF share.stage = "none"
       THEN /\ share' = [id |-> shares + 1, stage |-> "starting"]
            /\ shares' = shares + 1 /\ UNCHANGED answers
       ELSE Answer("send", FALSE, 0) /\ UNCHANGED <<share, shares>>
    /\ UNCHANGED <<storeVars, manual, hasty, pulls, news, laterVars>>

\* The files are imported and the share is up, or one of the steps failed.
ShareStarts(ok) ==
    /\ share.stage = "starting"
    /\ share' = IF ok THEN [share EXCEPT !.stage = "live"] ELSE NoShare
    /\ Answer("send", ok, IF ok THEN share.id ELSE 0)
    /\ UNCHANGED <<storeVars, manual, hasty, shares, pulls, calls, news, laterVars>>

\* stop_sharing: a live share is stopped, which cannot fail; one that is starting
\* is not found.
StopSharingCommand ==
    /\ calls # <<>> /\ Head(calls) # "send" /\ calls' = Tail(calls)
    /\ share' = IF share.stage = "live" THEN NoShare ELSE share
    /\ Answer(Head(calls), TRUE, 0)
    /\ UNCHANGED <<storeVars, manual, hasty, shares, pulls, news, laterVars>>

News(e) == Len(news) < MaxCalls /\ news' = Append(news, e)

\* A receiver that was given the ticket begins to pull; it ends, at the latest
\* with the share.
PullStarts ==
    /\ share.stage = "live" /\ \A k \in DOMAIN answers : answers[k].to # "send"
    /\ pulls < MaxPulls /\ pulls' = pulls + 1 /\ News("started")
    /\ UNCHANGED <<storeVars, manual, hasty, share, shares, calls, answers, laterVars>>

PullEnds(e) ==
    /\ pulls > 0 /\ pulls' = pulls - 1 /\ News(e)
    /\ UNCHANGED <<storeVars, manual, hasty, share, shares, calls, answers, laterVars>>

-----------------------------------------------------------------------------
\* transfer-started: no guard; in broadcast mode the screen stays.
OnTransferStarted ==
    /\ news # <<>> /\ Head(news) = "started" /\ news' = Tail(news)
    /\ view' = IF bcast THEN view ELSE "TRANSPORTING"
    /\ meta' = "none" /\ manual' = FALSE
    /\ UNCHANGED <<tkt, sel, loading, bcast, alert, backVars, calls, answers, laterVars>>

\* The guards of transfer-completed and transfer-failed.
EndIsCurrent ==
    ~manual /\ view # "IDLE" /\ sel /\ (bcast \/ view = "TRANSPORTING")

\* transfer-completed up to its pause.
OnTransferCompleted ==
    /\ news # <<>> /\ Head(news) = "completed" /\ news' = Tail(news)
    /\ EndIsCurrent => Len(completing) < MaxPulls
    /\ completing' = IF EndIsCurrent THEN Append(completing, bcast) ELSE completing
    /\ UNCHANGED <<storeVars, manual, backVars, calls, answers, relisten, sizing>>

\* ... and after it: the success screen, or a timer back to listening.
CompletionContinues ==
    /\ completing # <<>> /\ completing' = Tail(completing)
    /\ meta' = "done" /\ sizing' \in BOOLEAN
    /\ IF Head(completing)
       THEN relisten < MaxPulls /\ relisten' = relisten + 1 /\ UNCHANGED view
       ELSE view' = "SUCCESS" /\ UNCHANGED relisten
    /\ UNCHANGED <<tkt, sel, loading, bcast, alert, manual, backVars, wireVars>>

\* The exact size arrives, whatever happened in between.
SizeAnswers ==
    /\ sizing /\ sizing' = FALSE /\ meta' = "done"
    /\ UNCHANGED <<view, tkt, sel, loading, bcast, alert, manual, backVars,
                   wireVars, completing, relisten>>

\* The timer of a completed broadcast; nothing cancels it.
RelistenFires ==
    /\ relisten > 0 /\ relisten' = relisten - 1 /\ ResetForBroadcast
    /\ UNCHANGED <<alert, manual, backVars, wireVars, completing, sizing>>

OnTransferFailed ==
    /\ news # <<>> /\ Head(news) = "failed" /\ news' = Tail(news)
    /\ IF ~EndIsCurrent THEN UNCHANGED <<view, tkt, sel, loading, meta, bcast>>
       ELSE IF bcast THEN ResetForBroadcast
       ELSE /\ meta' = "stopped" /\ view' = "SUCCESS"
            /\ UNCHANGED <<tkt, sel, loading, bcast>>
    /\ UNCHANGED <<alert, manual, backVars, calls, answers, laterVars>>

\* The broadcast switch and the Undo of its toast; the effect of Sender.tsx that
\* turns it off on the idle screen runs with the render.
SetBroadcast(on) ==
    /\ on => BroadcastOffered
    /\ bcast' = on
    /\ UNCHANGED <<view, tkt, sel, loading, meta, alert, manual, backVars,
                   wireVars, laterVars>>

-----------------------------------------------------------------------------
SenderNext ==
    \/ SelectFiles \/ StartSharing \/ OnSendAnswer \/ StopClicked \/ AlertStop
    \/ CloseAlert \/ OnStopAnswer \/ SendItems
    \/ \E ok \in BOOLEAN : ShareStarts(ok) \/ SetBroadcast(ok)
    \/ StopSharingCommand
    \/ PullStarts \/ \E e \in {"completed", "failed"} : PullEnds(e)
    \/ OnTransferStarted \/ OnTransferCompleted \/ CompletionContinues
    \/ SizeAnswers \/ RelistenFires \/ OnTransferFailed

SenderSpec == SenderInit /\ [][SenderNext]_senderVars

\* The backend works off its commands and the page its answers; nobody owes a
\* click, a receiver or the end of a transfer.
SenderFairness ==
    /\ WF_senderVars(SendItems) /\ WF_senderVars(\E ok \in BOOLEAN : ShareStarts(ok))
    /\ WF_senderVars(StopSharingCommand)
    /\ WF_senderVars(OnSendAnswer) /\ WF_senderVars(OnStopAnswer)

-----------------------------------------------------------------------------
\* PROPERTIES

Stopping == \E c \in {"reset", "tail", "ignore"} :
    (\E k \in DOMAIN calls : calls[k] = c) \/ (\E k \in DOMAIN answers : answers[k].to = c)
Starting == share.stage = "starting" \/ (\E k \in DOMAIN calls : calls[k] = "send")
    \/ (\E k \in DOMAIN answers : answers[k].to = "send")

\* The ticket the page shows is the ticket of the share that runs, unless a stop
\* is under way (stopSharing) or the user starts a share before the last one is over.
TicketIsLive ==
    tkt # 0 /\ ~hasty => (share.id = tkt /\ share.stage = "live") \/ Stopping

\* On the idle screen, with nothing under way, nothing is shared: there is no
\* share without a screen that can stop it.
NoOrphanShare == view = "IDLE" /\ ~Starting /\ ~Stopping => share = NoShare

\* The Share button comes back (the finally of startSharing).
ShareButtonReturns == loading ~> ~loading

\* The page and the backend agree on what is shared, in both directions, with
\* answers and events of send_items and stop_sharing in any order.
PageMatchesShare == TicketIsLive /\ NoOrphanShare
=============================================================================
