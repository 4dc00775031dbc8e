-------------------------- MODULE Transfers_proof ---------------------------
(***************************************************************************)
(* Proofs about the receiving side of the user interface: the session      *)
(* (ReceiverUI), the form around it (ReceiveForm), the rules for text from *)
(* elsewhere (TextRules), and the four parts together (MCTransfers), for   *)
(* the invites of which PairedInvites_proof has the theorems.              *)
(***************************************************************************)
EXTENDS MCTransfers, PairedInvites_proof, FiniteSetTheorems, TLAPS

-----------------------------------------------------------------------------
(* The session: ReceiverUI. *)

\* A flag that is already down can be put down again.
LEMMA IdleWithoutExport == [Idle EXCEPT !.export = FALSE] = Idle
<1>1. ASSUME NEW rec, rec = Idle PROVE [rec EXCEPT !.export = FALSE] = rec
  <2>1. rec = [rec EXCEPT !.export = rec.export]
    BY <1>1, Zenon DEF Idle
  <2>2. rec.export = FALSE
    BY <1>1 DEF Idle
  <2>3. QED
    BY <2>1, <2>2, Zenon
<1>2. QED
  BY <1>1, Zenon

\* "Zero the seq first so in-flight events from the cancelled transfer are
\* ignored" (resetForNewTransfer): for any number of receives and of events on
\* their way, nothing that arrives after Stop or Done brings the session, its
\* names or its success screen back.  The invariant is inductive as it stands:
\* only receiveWithTicket arms, the guarded listeners do nothing while disarmed
\* and the unguarded ones only lower flags.
THEOREM ResetIsFinal == ReceiverSpec => []ResetStays
<1>1. ReceiverInit => ResetStays
  BY DEF ReceiverInit, ResetStays
<1>2. ResetStays /\ [ReceiverNext]_receiverVars => ResetStays'
  <2> SUFFICES ASSUME ResetStays, [ReceiverNext]_receiverVars PROVE ResetStays'
    OBVIOUS
  <2> USE DEF ResetStays
  <2>1. ASSUME NEW r \in Receives, HandleReceive(r) \/ AcceptPairedInvite(r)
        PROVE  ResetStays'
    BY <2>1 DEF HandleReceive, AcceptPairedInvite, ReceiveWithTicket
  <2>2. CASE ResetForNewTransfer
    BY <2>2 DEF ResetForNewTransfer
  <2>3. CASE HandleOpenFolder \/ Commit
    BY <2>3 DEF HandleOpenFolder, Commit, screenVars
  <2>4. CASE Listeners
    <3>1. CASE OnReceiveStarted
      BY <3>1 DEF OnReceiveStarted, screenVars
    <3>2. CASE OnReceiveFileNames
      BY <3>2 DEF OnReceiveFileNames
    <3>3. CASE OnReceiveCompleted
      BY <3>3 DEF OnReceiveCompleted
    <3>4. CASE OnDownloadFallback \/ OnDownloadMediaStore
      BY <3>4 DEF OnDownloadFallback, OnDownloadMediaStore
    <3>5. CASE OnExportFinished
      BY <3>5, IdleWithoutExport DEF OnExportFinished, screenVars
    <3>6. QED
      BY <2>4, <3>1, <3>2, <3>3, <3>4, <3>5 DEF Listeners
  <2>5. ASSUME NEW r \in Receives, OnInvokeResult(r)
        PROVE  ResetStays'
    <3>1. s' \in {s, [s EXCEPT !.export = FALSE], Idle}
      BY <2>5 DEF OnInvokeResult
    <3>2. UNCHANGED <<shown, names, armed>>
      BY <2>5 DEF OnInvokeResult, screenVars
    <3>3. QED
      BY <3>1, <3>2, IdleWithoutExport
  <2>6. CASE Shell \/ Transfer
    <3>1. UNCHANGED uiVars
      BY <2>6 DEF Shell, Transfer, BackendCancels, BackendStarts,
                  BackendCancelEnds, BackendNames, BackendCompletes,
                  BackendFails, BackendExported
    <3>2. QED
      BY <3>1 DEF uiVars, screenVars
  <2>7. CASE UNCHANGED receiverVars
    BY <2>7 DEF receiverVars, screenVars
  <2>8. QED
    BY <2>1, <2>2, <2>3, <2>4, <2>5, <2>6, <2>7 DEF ReceiverNext, Answer
<1>3. QED
  BY <1>1, <1>2, PTL DEF ReceiverSpec

-----------------------------------------------------------------------------
(* The form: ReceiveForm. *)

\* A request that counts is for the ticket in the field: the seq of the preview
\* effect moves with the ticket.
LiveIsCurrent ==
    /\ timer.live => timer.of = ticket
    /\ \A q \in fetches : q.live => q.of = ticket

\* Requests and the absence of one, as records.
LEMMA NoTimerIsNotLive == NoTimer.live = FALSE /\ NoTimer.of = Blank
BY DEF NoTimer

\* The record of a preview request that was just made.
LEMMA NewRequest ==
    ASSUME NEW t \in Tickets, NEW q, q = [of |-> t, live |-> TRUE]
    PROVE  q \in Requests /\ q.live = TRUE /\ q.of = t
BY DEF Requests

\* A request that is not cancelled stays as it is.
LEMMA SameLive ==
    ASSUME NEW a, NEW b
    PROVE  [[of |-> a, live |-> b] EXCEPT !.live = b] = [of |-> a, live |-> b]
OBVIOUS

\* A request that is cancelled stays a request.
LEMMA StaleRequest ==
    ASSUME NEW q \in Requests \cup {NoTimer}
    PROVE  /\ [q EXCEPT !.live = FALSE] \in Requests \cup {NoTimer}
           /\ q \in Requests => [q EXCEPT !.live = FALSE] \in Requests
           /\ [q EXCEPT !.live = FALSE].live = FALSE
<1>1. CASE q \in Requests
  BY <1>1 DEF Requests
<1>2. [NoTimer EXCEPT !.live = FALSE] = NoTimer
  BY SameLive, Zenon DEF NoTimer
<1>3. QED
  BY <1>1, <1>2, NoTimerIsNotLive

\* Raising the seq makes every request stale and keeps its type.
LEMMA StaleRequests ==
    ASSUME NEW reqs \in SUBSET Requests
    PROVE  Stale(reqs) \subseteq Requests /\ \A q \in Stale(reqs) : ~q.live
<1> SUFFICES ASSUME NEW q \in Stale(reqs) PROVE q \in Requests /\ ~q.live
  OBVIOUS
<1>1. PICK p \in reqs : q = [p EXCEPT !.live = FALSE]
  BY DEF Stale
<1>2. q \in Requests /\ q.live = FALSE
  BY <1>1, StaleRequest
<1>3. QED
  BY <1>2

\* What the preview effect leaves, whatever the ticket t and the state rec of the
\* session it runs for.
LEMMA PreviewEffectHolds ==
    ASSUME FormTypeOK, NEW t \in Tickets \cup {Blank}, NEW rec \in BOOLEAN,
           PreviewEffect(t, rec)
    PROVE  /\ effectDue' = FALSE /\ loading' \in BOOLEAN /\ expanded' \in BOOLEAN
           /\ timer' \in Requests \cup {NoTimer} /\ fetches' \subseteq Requests
           /\ preview' \in Tickets \cup {Blank} /\ (~rec => preview' = Blank)
           /\ loading' => timer'.live
           /\ timer'.live => timer'.of = t
           /\ \A q \in fetches' : ~q.live
<1>1. fetches' = Stale(fetches) /\ fetches \in SUBSET Requests
  BY DEF PreviewEffect, FormTypeOK
<1>2. fetches' \subseteq Requests /\ \A q \in fetches' : ~q.live
  BY <1>1, StaleRequests
<1>3. /\ timer' \in Requests \cup {NoTimer} /\ (loading' => timer'.live)
      /\ timer'.live => timer'.of = t
  <2>1. CASE rec \/ t = Blank
    BY <2>1, NoTimerIsNotLive DEF PreviewEffect
  <2>2. CASE ~rec /\ t # Blank
    <3>1. timer' = [of |-> t, live |-> TRUE] /\ t \in Tickets
      BY <2>2 DEF PreviewEffect
    <3>2. timer' \in Requests /\ timer'.live = TRUE /\ timer'.of = t
      BY <3>1, NewRequest
    <3>3. QED
      BY <3>2
  <2>3. QED
    BY <2>1, <2>2
<1>4. QED
  BY <1>2, <1>3 DEF PreviewEffect, FormTypeOK, ShowPreview

\* The types of the form.
LEMMA FormTypes == FormSpec => []FormTypeOK
<1>1. FormInit => FormTypeOK
  BY DEF FormInit, FormTypeOK
<1>2. FormTypeOK /\ [FormNext]_formVars => FormTypeOK'
  <2>0. FormTypeOK /\ UNCHANGED formVars => FormTypeOK'
    BY DEF formVars, fieldVars, saveVars, tabVars, FormTypeOK
  <2> SUFFICES ASSUME FormTypeOK, FormNext PROVE FormTypeOK'
    BY <2>0
  <2>1. CASE RunPreviewEffect
    BY <2>1, PreviewEffectHolds DEF RunPreviewEffect, FormTypeOK, saveVars, tabVars
  <2>2. ASSUME NEW t \in Tickets \cup {Blank}, TicketEntered(t), tab' \in {tab, "receive"}
        PROVE  FormTypeOK'
    <3>1. CASE t = ticket
      BY <2>2, <3>1 DEF TicketEntered, FormTypeOK, saveVars
    <3>2. CASE t # ticket
      BY <2>2, <3>2, PreviewEffectHolds DEF TicketEntered, FormTypeOK, saveVars
    <3>3. QED
      BY <3>1, <3>2
  <2>3. CASE TimerFires
    BY <2>3 DEF TimerFires, FormTypeOK, saveVars, tabVars
  <2>4. ASSUME NEW q \in fetches, NEW ok \in BOOLEAN, FetchAnswers(q, ok)
        PROVE  FormTypeOK'
    <3>1. q.of \in Tickets
      BY <2>4 DEF FormTypeOK, Requests
    <3>2. preview' \in Tickets \cup {Blank} /\ fetches' \subseteq Requests
      BY <2>4, <3>1 DEF FetchAnswers, ShowPreview, FormTypeOK
    <3>3. loading' \in BOOLEAN /\ expanded' \in BOOLEAN
      BY <2>4 DEF FetchAnswers, ShowPreview, FormTypeOK
    <3>4. QED
      BY <2>4, <3>2, <3>3 DEF FetchAnswers, FormTypeOK, saveVars, tabVars
  <2>5. CASE ToggleExpanded
    BY <2>5 DEF ToggleExpanded, FormTypeOK, saveVars, tabVars
  <2>6. CASE DownloadTicket
    BY <2>6, PreviewEffectHolds DEF DownloadTicket, FormTypeOK, tabVars
  <2>7. ASSUME NEW t \in Tickets, AcceptInvite(t)
        PROVE  FormTypeOK'
    <3>1. fetches' \subseteq Requests
      BY <2>7, StaleRequests DEF AcceptInvite, StartReceive, FormTypeOK
    <3>2. timer' \in Requests \cup {NoTimer}
      BY <2>7, StaleRequest DEF AcceptInvite, StartReceive, FormTypeOK
    <3>3. QED
      BY <2>7, <3>1, <3>2 DEF AcceptInvite, StartReceive, ShowPreview, FormTypeOK
  <2>8. CASE ReceiveFails
    BY <2>8 DEF ReceiveFails, FormTypeOK, saveVars, tabVars
  <2>9. CASE ResetForm
    BY <2>9, PreviewEffectHolds DEF ResetForm, FormTypeOK, saveVars, tabVars
  <2>10. ASSUME InitializeSavePath \/ HandleBrowseFolder \/ BrowseEnds \/ ExportNamesPath
         PROVE  FormTypeOK'
    <3>1. CASE InitializeSavePath
      BY <3>1 DEF InitializeSavePath, FormTypeOK, fieldVars, tabVars
    <3>2. CASE HandleBrowseFolder
      BY <3>2 DEF HandleBrowseFolder, FormTypeOK, fieldVars, tabVars
    <3>3. CASE BrowseEnds
      <4>1. save' \in {Blank, "default", "picked", "exported"}
        BY <3>3 DEF BrowseEnds, FormTypeOK
      <4>2. QED
        BY <3>3, <4>1 DEF BrowseEnds, FormTypeOK, fieldVars, tabVars
    <3>4. CASE ExportNamesPath
      BY <3>4 DEF ExportNamesPath, FormTypeOK, fieldVars, tabVars
    <3>5. QED
      BY <2>10, <3>1, <3>2, <3>3, <3>4
  <2>11. ASSUME \/ \E t \in {"send", "receive"} : SelectTab(t)
                \/ LaunchIntent \/ ToggleSharing
         PROVE  FormTypeOK'
    <3>1. ASSUME NEW t \in {"send", "receive"}, SelectTab(t) PROVE FormTypeOK'
      BY <3>1 DEF SelectTab, FormTypeOK, fieldVars, saveVars
    <3>2. CASE LaunchIntent
      BY <3>2 DEF LaunchIntent, FormTypeOK, fieldVars, saveVars
    <3>3. CASE ToggleSharing
      BY <3>3 DEF ToggleSharing, FormTypeOK, fieldVars, saveVars
    <3>4. QED
      BY <2>11, <3>1, <3>2, <3>3
  <2>12. ASSUME NEW t \in Tickets \cup {Blank}, HandleTicketChange(t) \/ ApplyReceiveLink(t)
         PROVE  FormTypeOK'
    BY <2>2, <2>12 DEF HandleTicketChange, ApplyReceiveLink
  <2>13. QED
    BY <2>1, <2>3, <2>4, <2>5, <2>6, <2>7, <2>8, <2>9, <2>10, <2>11, <2>12
       DEF FormNext
<1>3. QED
  BY <1>1, <1>2, PTL DEF FormSpec

\* Every step keeps what the form shows, given the types.
LEMMA FormKeepsPreview ==
    ASSUME FormTypeOK, PreviewHolds, LiveIsCurrent, [FormNext]_formVars
    PROVE  PreviewHolds' /\ LiveIsCurrent'
<1> USE DEF PreviewHolds, PreviewMatchesTicket, LoadingHasCause, LiveIsCurrent
<1>1. CASE RunPreviewEffect
  BY <1>1, PreviewEffectHolds DEF RunPreviewEffect, FormTypeOK
<1>2. ASSUME NEW t \in Tickets \cup {Blank}, TicketEntered(t)
      PROVE  PreviewHolds' /\ LiveIsCurrent'
  <2>1. CASE t = ticket
    BY <1>2, <2>1 DEF TicketEntered
  <2>2. CASE t # ticket
    BY <1>2, <2>2, PreviewEffectHolds DEF TicketEntered, FormTypeOK
  <2>3. QED
    BY <2>1, <2>2
<1>3. CASE TimerFires
  BY <1>3, NoTimerIsNotLive DEF TimerFires
<1>4. ASSUME NEW q \in fetches, NEW ok \in BOOLEAN, FetchAnswers(q, ok)
      PROVE  PreviewHolds' /\ LiveIsCurrent'
  <2>1. CASE q.live
    BY <1>4, <2>1 DEF FetchAnswers, ShowPreview
  <2>2. CASE ~q.live
    BY <1>4, <2>2 DEF FetchAnswers
  <2>3. QED
    BY <2>1, <2>2
<1>5. CASE ToggleExpanded
  BY <1>5 DEF ToggleExpanded
<1>6. CASE DownloadTicket
  BY <1>6, PreviewEffectHolds DEF DownloadTicket, FormTypeOK
<1>7. ASSUME NEW t \in Tickets, AcceptInvite(t)
      PROVE  PreviewHolds' /\ LiveIsCurrent'
  <2>1. \A q \in fetches' : ~q.live
    BY <1>7, StaleRequests DEF AcceptInvite, StartReceive, FormTypeOK
  <2>2. ~timer'.live
    BY <1>7, StaleRequest DEF AcceptInvite, StartReceive, FormTypeOK
  <2>3. QED
    BY <1>7, <2>1, <2>2 DEF AcceptInvite, StartReceive
<1>8. CASE ReceiveFails
  BY <1>8 DEF ReceiveFails
<1>9. CASE ResetForm
  BY <1>9, PreviewEffectHolds DEF ResetForm, FormTypeOK
<1>10. CASE UNCHANGED fieldVars
  BY <1>10 DEF fieldVars
<1>11. ASSUME \/ InitializeSavePath \/ HandleBrowseFolder \/ BrowseEnds \/ ExportNamesPath
              \/ \E t \in {"send", "receive"} : SelectTab(t)
              \/ LaunchIntent \/ ToggleSharing \/ UNCHANGED formVars
       PROVE  UNCHANGED fieldVars
  BY <1>11 DEF InitializeSavePath, HandleBrowseFolder, BrowseEnds, ExportNamesPath,
               SelectTab, LaunchIntent, ToggleSharing, formVars
<1>12. ASSUME NEW t \in Tickets \cup {Blank}, HandleTicketChange(t) \/ ApplyReceiveLink(t)
       PROVE  PreviewHolds' /\ LiveIsCurrent'
  BY <1>2, <1>12 DEF HandleTicketChange, ApplyReceiveLink
<1>13. QED
  BY <1>1, <1>3, <1>4, <1>5, <1>6, <1>7, <1>8, <1>9, <1>10, <1>11, <1>12 DEF FormNext

\* The card under the ticket field describes the ticket in the field, and a
\* spinner has a timer or a fetch that counts, for any number of tickets and of
\* fetches under way, in whatever order fetch_ticket_metadata answers.  Needed
\* beside it: a request that counts is for the ticket in the field.
THEOREM PreviewIsOfTicket == FormSpec => []PreviewHolds
<1>1. FormInit => PreviewHolds /\ LiveIsCurrent
  BY NoTimerIsNotLive
     DEF FormInit, PreviewHolds, PreviewMatchesTicket, LoadingHasCause, LiveIsCurrent
<1>2. FormTypeOK /\ (PreviewHolds /\ LiveIsCurrent) /\ [FormNext]_formVars
        => (PreviewHolds /\ LiveIsCurrent)'
  BY FormKeepsPreview
<1>3. QED
  BY <1>1, <1>2, FormTypes, PTL DEF FormSpec

-----------------------------------------------------------------------------
(* The types of the session. *)

\* The flags of a session stay flags when some of them are set.
LEMMA FlagsStay ==
  /\ \A a, b, c, d \in BOOLEAN : [receiving |-> a, transporting |-> b, completed |-> c, export |-> d] \in Flags
  /\ \A f \in Flags, b \in BOOLEAN : [f EXCEPT !.export = b] \in Flags
  /\ \A f \in Flags, a, b \in BOOLEAN : [f EXCEPT !.transporting = a, !.completed = b] \in Flags
BY DEF Flags

\* Truth values.
LEMMA Truths == TRUE \in BOOLEAN /\ FALSE \in BOOLEAN
BY Zenon

\* The flags of an idle session.
LEMMA IdleFlags == Idle \in Flags
BY FlagsStay, Truths, Zenon DEF Idle

\* How far a receive_file invocation is.
BackendStates == {"free", "called", "running", "named", "exporting", "cancelling", "ok", "failed", "cancelled"}
\* Whose screen, names or slot.
Owners == Receives \cup {NoReceive}
\* The parts of the type invariant: events, flags, screen, truth values, backend.
EventsOK == events \in Seq([type : EventTypes, of : Receives]) /\ Len(events) <= MaxEvents
FlagsOK == s \in Flags /\ seen \in Flags
ScreenOK ==
  /\ shown \in Owners /\ names \in Owners /\ current \in Owners
  /\ target \in {"none", "tree", "media"}
TruthsOK == android \in BOOLEAN /\ opened \in BOOLEAN /\ armed \in BOOLEAN /\ cancelCall \in BOOLEAN
BackendOK == be \in [Receives -> BackendStates] /\ slot \in Owners

\* Together they are the type invariant.
LEMMA ReceiverParts == ReceiverTypeOK <=> EventsOK /\ FlagsOK /\ ScreenOK /\ TruthsOK /\ BackendOK
BY DEF ReceiverTypeOK, EventsOK, FlagsOK, ScreenOK, TruthsOK, BackendOK, Owners, BackendStates

\* An event that is sent.
LEMMA EmitTypes ==
  ASSUME EventsOK, NEW type \in EventTypes, NEW r \in Receives, Emit(type, r)
  PROVE  EventsOK'
BY ReceiverAssumption DEF Emit, EventsOK

\* An event that is taken.
LEMMA TakeTypes ==
  ASSUME EventsOK, NEW type, Take(type)
  PROVE  EventsOK' /\ Head(events).of \in Receives
<1>. DEFINE S == [type : EventTypes, of : Receives]
<1>1. events \in Seq(S) /\ events # <<>> /\ events' = Tail(events) /\ Len(events) <= MaxEvents
  BY DEF Take, EventsOK
<1>2. Head(events) \in S => Head(events).of \in Receives
  OBVIOUS
<1>3. \A e \in Seq(S) : e # <<>> => /\ Head(e) \in S /\ Tail(e) \in Seq(S) /\ Len(e) \in Nat
                                     /\ Len(Tail(e)) = Len(e) - 1
  <2>. HIDE DEF S
  <2>. QED
    OBVIOUS
<1>4. Head(events) \in S /\ events' \in Seq(S) /\ Len(events) \in Nat /\ Len(events') = Len(events) - 1
  <2>. HIDE DEF S
  <2>. QED
    BY <1>1, <1>3
<1>5. Len(events') <= MaxEvents
  BY <1>1, <1>4, ReceiverAssumption
<1>. QED
  BY <1>2, <1>4, <1>5 DEF EventsOK

\* The events after a step.
LEMMA EventsStay ==
  ASSUME EventsOK, ReceiverNext
  PROVE  EventsOK'
<1>1. CASE UNCHANGED events
  BY <1>1 DEF EventsOK
<1>2. CASE \E t \in EventTypes, r \in Receives : Emit(t, r)
  BY <1>2, EmitTypes
<1>3. CASE \E t : Take(t)
  BY <1>3, TakeTypes
<1>4. ASSUME NEW r \in Receives, BackendExported(r) PROVE EventsOK'
  <2>1. CASE Emit("exported", r)
    BY <2>1, EmitTypes DEF EventTypes
  <2>2. CASE \E kind \in {"fallback", "mediastore"} :
               /\ Len(events) + 1 < MaxEvents
               /\ events' = events \o <<[type |-> kind, of |-> r], [type |-> "exported", of |-> r]>>
    <3>1. PICK kind \in {"fallback", "mediastore"} :
               /\ Len(events) + 1 < MaxEvents
               /\ events' = events \o <<[type |-> kind, of |-> r], [type |-> "exported", of |-> r]>>
      BY <2>2
    <3>. DEFINE S == [type : EventTypes, of : Receives]
                e == [type |-> kind, of |-> r]
                f == [type |-> "exported", of |-> r]
    <3>2. e \in S /\ f \in S
      BY DEF EventTypes
    <3>3. events \in Seq(S) /\ Len(events) \in Nat /\ events' = events \o <<e, f>> /\ MaxEvents \in Nat
      BY <3>1, ReceiverAssumption DEF EventsOK
    <3>. HIDE DEF S, e, f
    <3>4. <<e, f>> \in Seq(S) /\ Len(<<e, f>>) = 2
      BY <3>2
    <3>5. events' \in Seq(S) /\ Len(events') = Len(events) + 2
      BY <3>3, <3>4
    <3>. QED
      BY <3>1, <3>3, <3>5 DEF EventsOK, S
  <2>. QED
    BY <1>4, <2>1, <2>2 DEF BackendExported
<1>5. ASSUME NEW r \in Receives,
             \/ HandleReceive(r) \/ AcceptPairedInvite(r) \/ ResetForNewTransfer \/ HandleOpenFolder
             \/ Commit \/ OnInvokeResult(r) \/ BackendCancels \/ BackendFails(r)
      PROVE  UNCHANGED events
  BY <1>5 DEF HandleReceive, AcceptPairedInvite, ReceiveWithTicket, ResetForNewTransfer, HandleOpenFolder,
              Commit, OnInvokeResult, BackendCancels, BackendFails, backendVars
<1>6. ASSUME ResetForNewTransfer \/ HandleOpenFolder \/ Commit \/ BackendCancels
      PROVE  UNCHANGED events
  BY <1>6 DEF ResetForNewTransfer, HandleOpenFolder, Commit, BackendCancels, backendVars
<1>7. ASSUME NEW r \in Receives,
             BackendStarts(r) \/ BackendNames(r) \/ BackendCompletes(r) \/ BackendCancelEnds(r)
      PROVE  UNCHANGED events \/ \E t \in EventTypes : Emit(t, r)
  BY <1>7 DEF BackendStarts, BackendNames, BackendCompletes, BackendCancelEnds, EventTypes
<1>8. ASSUME Listeners PROVE \E t : Take(t)
  BY <1>8 DEF Listeners, OnReceiveStarted, OnReceiveFileNames, OnReceiveCompleted, OnDownloadFallback,
              OnDownloadMediaStore, OnExportFinished
<1>. QED
  BY <1>1, <1>2, <1>3, <1>4, <1>5, <1>6, <1>7, <1>8 DEF ReceiverNext, Answer, Shell, Transfer

\* The backend after a step.
LEMMA BackendStays ==
  ASSUME BackendOK, ReceiverNext
  PROVE  BackendOK'
<1>. USE DEF BackendOK, BackendStates, Owners
<1>1. CASE UNCHANGED <<be, slot>>
  BY <1>1
<1>2. CASE BackendCancels
  BY <1>2 DEF BackendCancels
<1>3. ASSUME NEW r \in Receives, \/ HandleReceive(r) \/ AcceptPairedInvite(r) \/ OnInvokeResult(r)
             \/ BackendStarts(r) \/ BackendNames(r) \/ BackendCompletes(r) \/ BackendCancelEnds(r)
             \/ BackendExported(r) \/ BackendFails(r)
      PROVE  BackendOK'
  <2>1. CASE \E b \in BackendStates : be' = [be EXCEPT ![r] = b] /\ slot' \in {slot, r, NoReceive}
    BY <2>1
  <2>2. CASE HandleReceive(r) \/ AcceptPairedInvite(r) \/ OnInvokeResult(r)
    BY <2>1, <2>2 DEF HandleReceive, AcceptPairedInvite, ReceiveWithTicket, OnInvokeResult
  <2>3. CASE BackendStarts(r) \/ BackendNames(r) \/ BackendExported(r)
    BY <2>1, <2>3 DEF BackendStarts, BackendNames, BackendExported
  <2>4. CASE BackendCompletes(r) \/ BackendCancelEnds(r) \/ BackendFails(r)
    BY <2>1, <2>4 DEF BackendCompletes, BackendCancelEnds, BackendFails
  <2>. QED
    BY <1>3, <2>2, <2>3, <2>4
<1>4. ASSUME ResetForNewTransfer \/ HandleOpenFolder \/ Commit \/ Listeners
      PROVE  UNCHANGED <<be, slot>>
  BY <1>4 DEF ResetForNewTransfer, HandleOpenFolder, Commit, Listeners, OnReceiveStarted, OnReceiveFileNames,
              OnReceiveCompleted, OnDownloadFallback, OnDownloadMediaStore, OnExportFinished, backendVars
<1>. QED
  BY <1>1, <1>2, <1>3, <1>4 DEF ReceiverNext, Answer, Shell, Transfer

\* The screen after a step.
LEMMA ScreenStays ==
  ASSUME ScreenOK, EventsOK, ReceiverNext
  PROVE  ScreenOK'
<1>. USE DEF ScreenOK, Owners
<1>1. CASE UNCHANGED screenVars
  BY <1>1 DEF screenVars
<1>2. ASSUME NEW r \in Receives, HandleReceive(r) \/ AcceptPairedInvite(r) PROVE ScreenOK'
  BY <1>2 DEF HandleReceive, AcceptPairedInvite, ReceiveWithTicket
<1>3. CASE ResetForNewTransfer
  BY <1>3 DEF ResetForNewTransfer
<1>4. CASE HandleOpenFolder
  BY <1>4 DEF HandleOpenFolder
<1>5. CASE OnReceiveFileNames
  <2>1. Head(events).of \in Receives
    BY <1>5, TakeTypes DEF OnReceiveFileNames
  <2>. QED
    BY <1>5, <2>1 DEF OnReceiveFileNames
<1>6. CASE OnReceiveCompleted
  <2>1. Head(events).of \in Receives
    BY <1>6, TakeTypes DEF OnReceiveCompleted
  <2>. QED
    BY <1>6, <2>1 DEF OnReceiveCompleted
<1>7. CASE OnDownloadFallback \/ OnDownloadMediaStore
  BY <1>7 DEF OnDownloadFallback, OnDownloadMediaStore
<1>8. ASSUME Commit \/ OnReceiveStarted \/ OnExportFinished \/ Answer \/ Shell \/ Transfer
      PROVE  UNCHANGED screenVars
  BY <1>8 DEF Commit, OnReceiveStarted, OnExportFinished, Answer, Shell, Transfer, OnInvokeResult, BackendStarts,
              BackendCancels, BackendCancelEnds, BackendNames, BackendCompletes, BackendFails, BackendExported,
              uiVars
<1>. QED
  BY <1>1, <1>2, <1>3, <1>4, <1>5, <1>6, <1>7, <1>8 DEF ReceiverNext, Listeners

\* The truth values after a step.
LEMMA TruthsStay ==
  ASSUME TruthsOK, ReceiverNext
  PROVE  TruthsOK'
<1>. USE DEF TruthsOK
<1>1. CASE UNCHANGED <<android, opened, armed, cancelCall>>
  BY <1>1
<1>2. ASSUME NEW r \in Receives, HandleReceive(r) \/ AcceptPairedInvite(r) PROVE TruthsOK'
  BY <1>2, Truths, Zenon DEF HandleReceive, AcceptPairedInvite, ReceiveWithTicket
<1>3. CASE ResetForNewTransfer
  BY <1>3, Truths, Zenon DEF ResetForNewTransfer
<1>4. CASE HandleOpenFolder
  <2>1. opened' \in BOOLEAN
    BY <1>4, Zenon DEF HandleOpenFolder
  <2>2. UNCHANGED <<android, armed, cancelCall>>
    BY <1>4 DEF HandleOpenFolder, backendVars
  <2>. QED
    BY <2>1, <2>2
<1>5. CASE BackendCancels
  <2>1. cancelCall' \in BOOLEAN
    BY <1>5, Zenon DEF BackendCancels
  <2>2. UNCHANGED <<android, opened, armed>>
    BY <1>5 DEF BackendCancels, uiVars, screenVars
  <2>. QED
    BY <2>1, <2>2
<1>6. ASSUME Commit \/ Listeners \/ Answer PROVE UNCHANGED <<android, opened, armed, cancelCall>>
  BY <1>6 DEF Commit, Listeners, Answer, OnInvokeResult, OnReceiveStarted, OnReceiveFileNames,
              OnReceiveCompleted, OnDownloadFallback, OnDownloadMediaStore, OnExportFinished, screenVars,
              backendVars
<1>7. ASSUME NEW r \in Receives,
             \/ BackendStarts(r) \/ BackendCancelEnds(r) \/ BackendNames(r) \/ BackendCompletes(r)
             \/ BackendFails(r) \/ BackendExported(r)
      PROVE  UNCHANGED <<android, opened, armed, cancelCall>>
  BY <1>7 DEF BackendStarts, BackendCancelEnds, BackendNames, BackendCompletes, BackendFails,
              BackendExported, uiVars, screenVars
<1>. QED
  BY <1>1, <1>2, <1>3, <1>4, <1>5, <1>6, <1>7 DEF ReceiverNext, Shell, Transfer

\* The flags after a step.
LEMMA SessionFlagsStay ==
  ASSUME FlagsOK, TruthsOK, ReceiverNext
  PROVE  FlagsOK'
<1>1. CASE UNCHANGED <<s, seen>>
  BY <1>1 DEF FlagsOK
<1>2. ASSUME NEW r \in Receives, HandleReceive(r) \/ AcceptPairedInvite(r) PROVE FlagsOK'
  <2>1. s' \in Flags
    BY <1>2, FlagsStay, Truths, Zenon DEF HandleReceive, AcceptPairedInvite, ReceiveWithTicket, TruthsOK
  <2>. QED
    BY <1>2, <2>1 DEF HandleReceive, AcceptPairedInvite, FlagsOK
<1>3. CASE ResetForNewTransfer \/ Commit
  BY <1>3, IdleFlags DEF ResetForNewTransfer, Commit, FlagsOK
<1>4. ASSUME NEW r \in Receives, OnInvokeResult(r) PROVE FlagsOK'
  <2>1. [s EXCEPT !.export = FALSE] \in Flags
    BY FlagsStay, Truths, Zenon DEF FlagsOK
  <2>2. s' \in {s, [s EXCEPT !.export = FALSE], Idle}
    BY <1>4 DEF OnInvokeResult
  <2>3. s' \in Flags
    BY <2>1, <2>2, IdleFlags, Zenon DEF FlagsOK
  <2>. QED
    BY <1>4, <2>3 DEF OnInvokeResult, FlagsOK
<1>5. CASE OnReceiveStarted \/ OnReceiveCompleted \/ OnExportFinished
  <2>1. s' \in Flags
    <3>1. CASE OnReceiveStarted
      BY <3>1, FlagsStay, Truths, Zenon DEF FlagsOK, OnReceiveStarted
    <3>2. CASE OnReceiveCompleted
      BY <3>2, FlagsStay, Truths, Zenon DEF FlagsOK, OnReceiveCompleted
    <3>3. CASE OnExportFinished
      BY <3>3, FlagsStay, Truths, Zenon DEF FlagsOK, OnExportFinished
    <3>. QED
      BY <1>5, <3>1, <3>2, <3>3
  <2>. QED
    BY <1>5, <2>1 DEF FlagsOK, OnReceiveStarted, OnReceiveCompleted, OnExportFinished
<1>6. ASSUME HandleOpenFolder \/ OnReceiveFileNames \/ OnDownloadFallback \/ OnDownloadMediaStore
      PROVE  UNCHANGED <<s, seen>>
  BY <1>6 DEF HandleOpenFolder, OnReceiveFileNames, OnDownloadFallback, OnDownloadMediaStore
<1>7. ASSUME Shell \/ Transfer PROVE UNCHANGED <<s, seen>>
  BY <1>7 DEF Shell, Transfer, BackendStarts, BackendCancels, BackendCancelEnds, BackendNames,
              BackendCompletes, BackendFails, BackendExported, uiVars
<1>. QED
  BY <1>1, <1>2, <1>3, <1>4, <1>5, <1>6, <1>7 DEF ReceiverNext, Listeners, Answer

\* The session of useReceiver and the shell behind it keep their types.
LEMMA ReceiverTypes == ReceiverSpec => []ReceiverTypeOK
<1>1. ReceiverInit => ReceiverTypeOK
  <2>. SUFFICES ASSUME ReceiverInit PROVE ReceiverTypeOK
    OBVIOUS
  <2>1. TruthsOK
    BY Truths, Zenon DEF ReceiverInit, TruthsOK
  <2>2. FlagsOK
    BY IdleFlags DEF ReceiverInit, FlagsOK
  <2>3. EventsOK /\ ScreenOK /\ BackendOK
    BY ReceiverAssumption DEF ReceiverInit, EventsOK, ScreenOK, BackendOK, Owners, BackendStates
  <2>. QED
    BY <2>1, <2>2, <2>3, ReceiverParts
<1>2. ReceiverTypeOK /\ [ReceiverNext]_receiverVars => ReceiverTypeOK'
  <2>. SUFFICES ASSUME ReceiverTypeOK, [ReceiverNext]_receiverVars PROVE ReceiverTypeOK'
    OBVIOUS
  <2>1. CASE ReceiverNext
    <3>1. EventsOK /\ FlagsOK /\ ScreenOK /\ TruthsOK /\ BackendOK
      BY ReceiverParts
    <3>2. EventsOK' /\ FlagsOK' /\ ScreenOK' /\ TruthsOK' /\ BackendOK'
      BY <2>1, <3>1, EventsStay, SessionFlagsStay, ScreenStays, TruthsStay, BackendStays
    <3>. QED
      BY <3>2 DEF ReceiverTypeOK, EventsOK, FlagsOK, ScreenOK, TruthsOK, BackendOK, Owners, BackendStates
  <2>2. CASE UNCHANGED receiverVars
    BY <2>2 DEF receiverVars, screenVars, backendVars, ReceiverTypeOK
  <2>. QED
    BY <2>1, <2>2
<1>3. QED
  BY <1>1, <1>2, PTL DEF ReceiverSpec

-----------------------------------------------------------------------------
(* The rules for text: TextRules. *)

\* A word that is no link, and one that is.
LEMMA WordsApart == "/receive" # NoText /\ "/settings" # "/receive"
BY Zenon DEF NoText

\* A text of Texts is a sequence of words.
LEMMA TextsAreSeqs == Texts \subseteq Seq(Words)
BY TextAssumption DEF Texts

\* One word that is no receive link has no ticket.
LEMMA OtherWordHasNone ==
  ASSUME NEW text, text # <<>> => Head(text).path # "/receive"
  PROVE  TicketFromReceiveUrl(text) = <<>>
BY DEF TicketFromReceiveUrl

\* A link alone is read as its ticket.
LEMMA OneLinkIsRead ==
  ASSUME NEW t \in BareWords
  PROVE  TicketFromReceiveUrl(<<BuildReceiveLink(t)>>) = <<Bare(t)>>
<1>1. t # NoText
  BY TextAssumption
<1>2. /\ Head(<<BuildReceiveLink(t)>>).path = "/receive" /\ Head(<<BuildReceiveLink(t)>>).ticket = t
      /\ Tail(<<BuildReceiveLink(t)>>) = <<>> /\ <<BuildReceiveLink(t)>> # <<>>
  BY DEF BuildReceiveLink, Url
<1>3. <<Bare(t)>> \o <<>> = <<Bare(t)>>
  OBVIOUS
<1>. QED
  BY <1>1, <1>2, <1>3 DEF TicketFromReceiveUrl

\* A bare ticket is no link, and left as it is.
LEMMA BareIsRead ==
  ASSUME NEW t \in BareWords
  PROVE  TicketFromReceiveLink(<<Bare(t)>>) = <<>> /\ FieldOf(<<Bare(t)>>) = <<Bare(t)>>
<1>. DEFINE text == <<Bare(t)>>
<1>1. Head(text).path = NoText /\ DOMAIN text = {1} /\ text[1].path = NoText
  BY DEF Bare
<1>2. TicketFromReceiveUrl(text) = <<>>
  BY <1>1, WordsApart, OtherWordHasNone
<1>3. {k \in DOMAIN text : text[k].path # NoText /\ TicketFromReceiveUrl(<<text[k]>>) # <<>>} = {}
  BY <1>1
<1>4. TicketFromReceiveLink(text) = <<>>
  BY <1>2, <1>3 DEF TicketFromReceiveLink
<1>. QED
  BY <1>4 DEF FieldOf

\* The message of the share button is read as the ticket in it.
LEMMA SharedIsRead ==
  ASSUME NEW text \in Seq(Words), NEW t \in BareWords, text # <<>>, Last(text) = BuildReceiveLink(t),
         \A k \in 1..(Len(text) - 1) : text[k].path # "/receive"
  PROVE  TicketFromReceiveLink(text) = <<Bare(t)>>
<1>. DEFINE n == Len(text)
            links == {k \in DOMAIN text : text[k].path # NoText /\ TicketFromReceiveUrl(<<text[k]>>) # <<>>}
<1>1. n \in Nat \ {0} /\ DOMAIN text = 1..n /\ text[n] = BuildReceiveLink(t) /\ Head(text) = text[1]
  BY DEF Last
<1>2. <<Bare(t)>> # <<>> /\ text[n].path = "/receive"
  BY <1>1 DEF BuildReceiveLink, Url
<1>3. CASE n = 1
  <2>1. text = <<BuildReceiveLink(t)>>
    BY <1>1, <1>3
  <2>2. TicketFromReceiveUrl(text) = <<Bare(t)>>
    BY <2>1, OneLinkIsRead
  <2>. QED
    BY <2>2, <1>2 DEF TicketFromReceiveLink
<1>4. CASE n > 1
  <2>1. Head(text).path # "/receive"
    BY <1>1, <1>4
  <2>2. TicketFromReceiveUrl(text) = <<>>
    BY <2>1, OtherWordHasNone
  <2>3. \A k \in 1..(n - 1) : TicketFromReceiveUrl(<<text[k]>>) = <<>>
    <3>. SUFFICES ASSUME NEW k \in 1..(n - 1) PROVE TicketFromReceiveUrl(<<text[k]>>) = <<>>
      OBVIOUS
    <3>1. Head(<<text[k]>>) = text[k]
      OBVIOUS
    <3>. QED
      BY <3>1, OtherWordHasNone
  <2>4. TicketFromReceiveUrl(<<text[n]>>) = <<Bare(t)>>
    BY <1>1, OneLinkIsRead
  <2>5. \A k \in 1..n : k = n \/ k \in 1..(n - 1)
    <3>1. \A m \in Nat \ {0} : \A k \in 1..m : k = m \/ k \in 1..(m - 1)
      OBVIOUS
    <3>. QED
      BY <1>1, <3>1
  <2>6. n \in 1..n /\ n =< n
    BY <1>1
  <2>. HIDE DEF n
  <2>7. links = {n}
    BY <1>1, <1>2, <2>3, <2>4, <2>5, <2>6, WordsApart
  <2>8. Min(links) = n
    <3>. HIDE DEF links
    <3>1. Min(links) = CHOOSE x \in links : \A y \in links : x =< y
      BY DEF Min
    <3>. QED
      BY <2>7, <2>6, <3>1
  <2>9. TicketFromReceiveLink(text) = TicketFromReceiveUrl(<<text[Min(links)]>>)
    BY <2>2, <2>7 DEF TicketFromReceiveLink
  <2>. QED
    BY <2>4, <2>8, <2>9
<1>. QED
  BY <1>1, <1>3, <1>4

\* What SharedLinkReadsBack says of a text and the field it leaves.
ReadsBack(text, fld) ==
  \A t \in BareWords :
    /\ text = <<Bare(t)>> => fld = <<Bare(t)>>
    /\ /\ text # <<>> /\ Last(text) = BuildReceiveLink(t)
       /\ \A k \in 1..(Len(text) - 1) : text[k].path # "/receive"
       => fld = <<Bare(t)>>

\* A text that is pasted (handleTicketChange).
LEMMA PasteReadsBack ==
  ASSUME NEW text \in Texts
  PROVE  ReadsBack(text, FieldOf(text))
<1>. SUFFICES ASSUME NEW t \in BareWords, text # <<>>, Last(text) = BuildReceiveLink(t),
                     \A k \in 1..(Len(text) - 1) : text[k].path # "/receive"
              PROVE  FieldOf(text) = <<Bare(t)>>
  BY BareIsRead DEF ReadsBack
<1>1. TicketFromReceiveLink(text) = <<Bare(t)>>
  BY TextsAreSeqs, SharedIsRead
<1>2. <<Bare(t)>> # <<>>
  OBVIOUS
<1>. QED
  BY <1>1, <1>2 DEF FieldOf

\* A link that is opened: its ticket is read a second time (applyReceiveLink).
LEMMA OpenReadsBack ==
  ASSUME NEW text \in Texts, TicketFromReceiveLink(text) # <<>>
  PROVE  ReadsBack(text, FieldOf(TicketFromReceiveLink(text)))
<1>1. ASSUME NEW t \in BareWords PROVE text # <<Bare(t)>>
  BY BareIsRead
<1>. SUFFICES ASSUME NEW t \in BareWords, text # <<>>, Last(text) = BuildReceiveLink(t),
                     \A k \in 1..(Len(text) - 1) : text[k].path # "/receive"
              PROVE  FieldOf(TicketFromReceiveLink(text)) = <<Bare(t)>>
  BY <1>1 DEF ReadsBack
<1>2. TicketFromReceiveLink(text) = <<Bare(t)>>
  BY TextsAreSeqs, SharedIsRead
<1>. QED
  BY <1>2, BareIsRead

\* A path leads to itself, and the start of a path to the path.
LEMMA StartIsPrefix ==
  ASSUME NEW S, NEW p \in Seq(S), NEW q \in Seq(S), Len(p) =< Len(q), \A i \in 1..Len(p) : p[i] = q[i]
  PROVE  IsPrefix(p, q)
<1>1. Len(p) \in Nat /\ Len(q) \in Nat
  OBVIOUS
<1>2. SubSeq(p, 1, Len(p)) = SubSeq(q, 1, Len(p))
  OBVIOUS
<1>. QED
  BY <1>2 DEF IsPrefix

\* The names of the files, and where they land.
LEMMA NamesArePaths ==
  ASSUME NEW ns \in NameLists, ns # <<>>
  PROVE  /\ ns \in Seq(FilePaths) /\ Len(ns) \in Nat \ {0} /\ DOMAIN ns = 1..Len(ns)
         /\ \A k \in 1..Len(ns) : /\ ns[k] \in FilePaths /\ ns[k].abs \in BOOLEAN
                                  /\ ns[k].parts \in Seq(Segments) /\ Len(ns[k].parts) >= 1
<1>1. ns \in Seq(FilePaths)
  BY DEF NameLists
<1>2. \A f \in FilePaths : f.abs \in BOOLEAN /\ f.parts \in Seq(Segments) /\ Len(f.parts) >= 1
  <2>. SUFFICES ASSUME NEW f \in FilePaths
                PROVE  f.abs \in BOOLEAN /\ f.parts \in Seq(Segments) /\ Len(f.parts) >= 1
    OBVIOUS
  <2>1. f.abs \in BOOLEAN /\ f.parts \in UNION {[1..n -> Segments] : n \in 1..2}
    BY DEF FilePaths
  <2>2. PICK n \in 1..2 : f.parts \in [1..n -> Segments]
    BY <2>1
  <2>. QED
    BY <2>1, <2>2
<1>. QED
  BY <1>1, <1>2

\* The folder, and its first level, lead to the files in it.
LEMMA FolderLeads ==
  ASSUME NEW p \in Seq(Segments), Len(p) >= 1
  PROVE  /\ IsPrefix(Base, Base \o p) /\ IsPrefix(Base \o p, Base \o p) /\ IsPrefix(p, p)
         /\ IsPrefix(Base \o <<Head(p)>>, Base \o p)
         /\ Len(p) > 1 => IsPrefix(Front(p), p)
<1>. DEFINE S == Segments \cup {"base"}
            b == Base
            q == Base \o p
            h == Base \o <<Head(p)>>
<1>1. p \in Seq(S) /\ b \in Seq(S) /\ Head(p) \in S /\ Len(p) \in Nat /\ Head(p) = p[1]
  BY DEF Base
<1>2. b \o p \in Seq(S) /\ b \o <<Head(p)>> \in Seq(S)
  BY <1>1
<1>3. /\ Len(b) = 1 /\ b[1] = "base" /\ Len(q) = Len(p) + 1 /\ q[1] = "base" /\ Len(h) = 2
      /\ h[1] = "base" /\ h[2] = Head(p) /\ q[2] = p[1]
  BY <1>1 DEF Base
<1>4. \A i \in 1..1 : i = 1
  OBVIOUS
<1>5. \A i \in 1..2 : i = 1 \/ i = 2
  OBVIOUS
<1>6. q \in Seq(S) /\ h \in Seq(S)
  BY <1>2
<1>7. IsPrefix(p, p)
  BY <1>1, StartIsPrefix
<1>8. Len(p) > 1 => IsPrefix(Front(p), p)
  <2>. SUFFICES ASSUME Len(p) > 1 PROVE IsPrefix(Front(p), p)
    OBVIOUS
  <2>1. Front(p) \in Seq(S) /\ Len(Front(p)) = Len(p) - 1 /\ \A i \in 1..(Len(p) - 1) : Front(p)[i] = p[i]
    BY <1>1 DEF Front
  <2>2. Len(Front(p)) =< Len(p)
    BY <1>1, <2>1
  <2>. QED
    BY <1>1, <2>1, <2>2, StartIsPrefix
<1>. HIDE DEF b, q, h, S
<1>9. IsPrefix(b, q)
  BY <1>1, <1>3, <1>4, <1>6, StartIsPrefix
<1>10. IsPrefix(h, q)
  BY <1>1, <1>3, <1>5, <1>6, StartIsPrefix
<1>11. IsPrefix(q, q)
  <2>1. Len(q) =< Len(q)
    BY <1>1, <1>3
  <2>. QED
    BY <1>6, <2>1, StartIsPrefix
<1>. QED
  BY <1>7, <1>8, <1>9, <1>10, <1>11 DEF b, q, h

\* Relative names that count as one item begin with the same segment.
LEMMA OneItemOneHead ==
  ASSUME NEW ns \in NameLists, ns # <<>>, \A k \in DOMAIN ns : ~ns[k].abs, CountTopLevelItems(ns) = 1
  PROVE  \A k \in DOMAIN ns : Head(ns[k].parts) = Head(ns[1].parts)
<1>. DEFINE g(k) == IF ns[k].abs THEN Last(ns[k].parts) ELSE Head(ns[k].parts)
            H == {g(k) : k \in DOMAIN ns}
<1>1. DOMAIN ns = 1..Len(ns) /\ Len(ns) \in Nat \ {0} /\ 1 \in DOMAIN ns
  BY NamesArePaths
<1>2. IsFiniteSet(DOMAIN ns)
  BY <1>1, FS_Interval
<1>3. IsFiniteSet(H)
  <2>. DEFINE f == [k \in DOMAIN ns |-> g(k)]
  <2>1. H = {f[k] : k \in DOMAIN ns}
    OBVIOUS
  <2>2. f \in Surjection(DOMAIN ns, H)
    BY <2>1 DEF Surjection
  <2>. QED
    BY <1>2, <2>2, FS_Surjection
<1>4. Cardinality(H) = 1
  BY DEF CountTopLevelItems
<1>5. PICK x : H = {x}
  BY <1>3, <1>4, FS_Singleton
<1>6. \A k \in DOMAIN ns : g(k) = x
  BY <1>5
<1>7. \A k \in DOMAIN ns : g(k) = Head(ns[k].parts)
  OBVIOUS
<1>. QED
  BY <1>1, <1>6, <1>7

\* What RevealReachesFiles says of a list of names and the path revealed.
Reaches(ns, path) ==
  ns # <<>> =>
    /\ IsPrefix(path, Landed(ns[1]))
    /\ (\A k \in DOMAIN ns : ~ns[k].abs) /\ CountTopLevelItems(ns) = 1
       => \A k \in DOMAIN ns : IsPrefix(path, Landed(ns[k]))

\* resolveRevealPath names a path that leads to the files.
LEMMA RevealReaches ==
  ASSUME NEW ns \in NameLists, NEW path \in ResolveRevealPath(ns)
  PROVE  Reaches(ns, path)
<1>. SUFFICES ASSUME ns # <<>> PROVE Reaches(ns, path)
  BY DEF Reaches
<1>1. /\ Len(ns) \in Nat \ {0} /\ DOMAIN ns = 1..Len(ns) /\ 1 \in DOMAIN ns
      /\ \A k \in DOMAIN ns : ns[k].parts \in Seq(Segments) /\ Len(ns[k].parts) >= 1
  BY NamesArePaths
<1>2. CASE Len(ns) = 1
  <2>1. IsPrefix(path, Landed(ns[1]))
    BY <1>1, <1>2, FolderLeads DEF ResolveRevealPath, JoinPath, Landed
  <2>2. \A k \in DOMAIN ns : k = 1
    BY <1>1, <1>2
  <2>. QED
    BY <2>1, <2>2 DEF Reaches
<1>3. CASE Len(ns) # 1 /\ ns[1].abs
  <2>1. IsPrefix(path, Landed(ns[1]))
    BY <1>1, <1>3, FolderLeads DEF ResolveRevealPath, Landed
  <2>. QED
    BY <1>1, <1>3, <2>1 DEF Reaches
<1>4. CASE Len(ns) # 1 /\ ~ns[1].abs
  <2>1. path \in {Base \o <<Head(ns[1].parts)>>, Base}
    BY <1>4 DEF ResolveRevealPath, JoinPath
  <2>2. IsPrefix(path, Landed(ns[1]))
    BY <1>1, <1>4, <2>1, FolderLeads DEF Landed
  <2>3. ASSUME \A k \in DOMAIN ns : ~ns[k].abs, CountTopLevelItems(ns) = 1, NEW k \in DOMAIN ns
        PROVE  IsPrefix(path, Landed(ns[k]))
    <3>1. Head(ns[k].parts) = Head(ns[1].parts) /\ Landed(ns[k]) = Base \o ns[k].parts
      BY <2>3, OneItemOneHead DEF Landed
    <3>. QED
      BY <1>1, <2>1, <3>1, FolderLeads
  <2>. QED
    BY <2>2, <2>3 DEF Reaches
<1>. QED
  BY <1>2, <1>3, <1>4

\* A name in a title is at most the longest, whatever its length.
LEMMA NameIsClipped ==
  ASSUME NEW n \in Nat
  PROVE  ClipName(n) \in Nat /\ ClipName(n) =< MaxPeerName
BY TextAssumption DEF ClipName

\* The text rules are about the last call of each.
TextInv == ReadsBack(pasted, field) /\ Reaches(files, revealed) /\ StrangersAreMarked

\* It is inductive: each call answers for its own input.
LEMMA TextStep ==
  ASSUME TextInv, [LinkNext \/ RevealNext \/ NotifyNext]_textVars
  PROVE  TextInv'
<1>1. CASE UNCHANGED textVars
  BY <1>1 DEF textVars, TextInv, ReadsBack, Reaches, StrangersAreMarked
<1>2. ASSUME NEW text \in Texts, PasteText(text) \/ OpenLink(text) PROVE TextInv'
  <2>1. ReadsBack(text, field') /\ pasted' = text /\ UNCHANGED <<files, revealed, banner>>
    BY <1>2, PasteReadsBack, OpenReadsBack DEF PasteText, OpenLink
  <2>2. ReadsBack(pasted, field)'
    BY <2>1 DEF ReadsBack
  <2>3. Reaches(files, revealed)' /\ StrangersAreMarked'
    BY <2>1 DEF TextInv, Reaches, StrangersAreMarked
  <2>. QED
    BY <2>2, <2>3 DEF TextInv
<1>3. ASSUME NEW ns \in NameLists, RevealNames(ns) PROVE TextInv'
  <2>1. Reaches(ns, revealed') /\ files' = ns /\ UNCHANGED <<pasted, field, banner>>
    BY <1>3, RevealReaches DEF RevealNames
  <2>2. Reaches(files, revealed)'
    BY <2>1 DEF Reaches
  <2>3. ReadsBack(pasted, field)' /\ StrangersAreMarked'
    BY <2>1 DEF TextInv, ReadsBack, StrangersAreMarked
  <2>. QED
    BY <2>2, <2>3 DEF TextInv
<1>4. ASSUME NEW kind \in BannerKinds, NEW n \in 0..(MaxPeerName + 2), NEW sized \in BOOLEAN,
             Notify(kind, n, sized)
      PROVE  TextInv'
  <2>1. n \in Nat
    BY TextAssumption
  <2>2. UNCHANGED <<pasted, field, files, revealed>>
    BY <1>4 DEF Notify
  <2>3. kind # "device-paired" => banner'.name = ClipName(n)
    BY <1>4 DEF Notify, BuildInviteNotification
  <2>4. banner'.kind = kind
    BY <1>4 DEF Notify, BuildInviteNotification
  <2>5. ClipName(n) + 1 <= TitleWidth
    BY <2>1, NameIsClipped, TextAssumption
  <2>6. StrangersAreMarked'
    BY <2>3, <2>4, <2>5 DEF StrangersAreMarked
  <2>7. (ReadsBack(pasted, field) /\ Reaches(files, revealed))'
    BY <2>2 DEF TextInv, ReadsBack, Reaches
  <2>. QED
    BY <2>6, <2>7 DEF TextInv
<1>. QED
  BY <1>1, <1>2, <1>3, <1>4 DEF LinkNext, RevealNext, NotifyNext

\* It holds before the first call.
LEMMA TextStart == TextInit => TextInv
<1>. SUFFICES ASSUME TextInit PROVE TextInv
  OBVIOUS
<1>1. ReadsBack(pasted, field)
  <2>1. ASSUME NEW t PROVE <<>> # <<Bare(t)>>
    OBVIOUS
  <2>. QED
    BY <2>1 DEF TextInit, ReadsBack
<1>2. Reaches(files, revealed)
  BY DEF TextInit, Reaches
<1>3. banner.kind = "device-paired"
  <2>. DEFINE d == FALSE
  <2>1. banner = BuildInviteNotification("device-paired", 1, d)
    BY Zenon DEF TextInit
  <2>. HIDE DEF d
  <2>. QED
    BY <2>1 DEF BuildInviteNotification
<1>. QED
  BY <1>1, <1>2, <1>3 DEF TextInv, StrangersAreMarked

\* It is what TextIsReadRight says.
LEMMA TextGoal == TextInv => TextIsReadRight
BY DEF TextInv, ReadsBack, Reaches, TextIsReadRight, SharedLinkReadsBack, RevealReachesFiles

\* A shared message is read back as its ticket, the path revealed leads to the files
\* and a stranger is marked, for texts of any length, names of any nesting and any
\* name a device gives itself (receive-link.ts, resolveRevealPath,
\* invite-notification.ts).
THEOREM TextsAreReadRight == Spec => []TextIsReadRight
<1>1. Init => TextInv
  BY TextStart DEF Init
<1>2. TextInv /\ [Next]_vars => TextInv'
  <2>1. [Next]_vars => [LinkNext \/ RevealNext \/ NotifyNext]_textVars
    BY DEF Next, vars
  <2>. QED
    BY <2>1, TextStep
<1>3. QED
  BY <1>1, <1>2, TextGoal, PTL DEF Spec

-----------------------------------------------------------------------------
(* The types of the text rules, and of the four parts together. *)

\* The words of a text.
LEMMA WordParts ==
  /\ \A w \in Words : w.path # NoText => w.ticket \in BareWords \cup {NoText}
  /\ \A t \in BareWords : Bare(t) \in Words
BY DEF Words, Bare, Url

\* The ticket of a link is a text again.
LEMMA UrlTicketIsText ==
  ASSUME NEW text \in Seq(Words)
  PROVE  TicketFromReceiveUrl(text) \in Seq(Words)
<1>1. CASE text = <<>> \/ Head(text).path # "/receive"
  BY <1>1 DEF TicketFromReceiveUrl
<1>2. CASE text # <<>> /\ Head(text).path = "/receive"
  <2>. DEFINE w == Head(text)
              first == IF w.ticket = NoText THEN <<>> ELSE <<Bare(w.ticket)>>
  <2>1. w \in Words /\ Tail(text) \in Seq(Words)
    BY <1>2
  <2>2. w.ticket \in BareWords \cup {NoText}
    BY <1>2, <2>1, WordParts, WordsApart
  <2>3. first \in Seq(Words)
    BY <2>2, WordParts
  <2>4. TicketFromReceiveUrl(text) = first \o Tail(text)
    BY <1>2 DEF TicketFromReceiveUrl
  <2>. HIDE DEF first
  <2>. QED
    BY <2>1, <2>3, <2>4
<1>. QED
  BY <1>1, <1>2

\* So is the ticket of a text, and what the field is given.
LEMMA TicketIsText ==
  ASSUME NEW text \in Seq(Words)
  PROVE  TicketFromReceiveLink(text) \in Seq(Words) /\ FieldOf(text) \in Seq(Words)
<1>. DEFINE links == {k \in DOMAIN text : text[k].path # NoText /\ TicketFromReceiveUrl(<<text[k]>>) # <<>>}
<1>1. ASSUME links # {} PROVE TicketFromReceiveUrl(<<text[Min(links)]>>) \in Seq(Words)
  <2>1. links \subseteq Nat
    OBVIOUS
  <2>3. Min(links) \in links
    <3>. HIDE DEF links
    <3>. QED
      BY <1>1, <2>1, LeastPosition
  <2>4. text[Min(links)] \in Words
    BY <2>3
  <2>. HIDE DEF links
  <2>5. <<text[Min(links)]>> \in Seq(Words)
    BY <2>4
  <2>. QED
    BY <2>5, UrlTicketIsText
<1>2. TicketFromReceiveUrl(text) \in Seq(Words) /\ <<>> \in Seq(Words)
  BY UrlTicketIsText
<1>3. TicketFromReceiveLink(text) \in Seq(Words)
  BY <1>1, <1>2 DEF TicketFromReceiveLink
<1>. QED
  BY <1>3 DEF FieldOf

\* Two paths joined.
LEMMA JoinedPaths ==
  ASSUME NEW S, NEW a \in Seq(S), NEW c \in Seq(S)
  PROVE  a \o c \in Seq(S) /\ Len(a \o c) = Len(a) + Len(c)
OBVIOUS

\* The path that is revealed.
LEMMA RevealIsPath ==
  ASSUME NEW ns \in NameLists, NEW path \in ResolveRevealPath(ns)
  PROVE  path \in Seq(Segments \cup {"base"}) \ {<<>>}
<1>. DEFINE S == Segments \cup {"base"}
<1>1. Base \in Seq(S) \ {<<>>}
  BY DEF Base
<1>2. ASSUME NEW p \in Seq(Segments), Len(p) >= 1
      PROVE  /\ p \in Seq(S) \ {<<>>} /\ Base \o p \in Seq(S) \ {<<>>}
             /\ Base \o <<Head(p)>> \in Seq(S) \ {<<>>}
             /\ Len(p) > 1 => Front(p) \in Seq(S) \ {<<>>}
  <2>1. p \in Seq(S) /\ Len(p) \in Nat /\ p # <<>> /\ Head(p) \in S /\ Base \in Seq(S) /\ Len(Base) = 1
    BY <1>2 DEF Base
  <2>2. Base \o p \in Seq(S) /\ Len(Base \o p) = 1 + Len(p)
    <3>. HIDE DEF S
    <3>. QED
      BY <2>1, JoinedPaths
  <2>3. Base \o <<Head(p)>> \in Seq(S) /\ Len(Base \o <<Head(p)>>) = 2
    <3>. HIDE DEF S
    <3>1. <<Head(p)>> \in Seq(S) /\ Len(<<Head(p)>>) = 1
      BY <2>1
    <3>2. /\ Base \o <<Head(p)>> \in Seq(S)
          /\ Len(Base \o <<Head(p)>>) = Len(Base) + Len(<<Head(p)>>)
      BY <2>1, <3>1, JoinedPaths, Zenon
    <3>. QED
      BY <2>1, <3>1, <3>2
  <2>4. Len(p) > 1 => Front(p) \in Seq(S) /\ Len(Front(p)) = Len(p) - 1
    BY <2>1 DEF Front
  <2>5. Len(<<>>) = 0
    OBVIOUS
  <2>. HIDE DEF S
  <2>6. Len(p) > 1 => Front(p) # <<>>
    BY <2>1, <2>4, <2>5
  <2>7. Base \o p # <<>>
    BY <2>1, <2>2, <2>5
  <2>. QED
    BY <2>1, <2>2, <2>3, <2>4, <2>5, <2>6, <2>7
<1>3. CASE ns = <<>>
  BY <1>1, <1>3 DEF ResolveRevealPath
<1>4. CASE ns # <<>>
  <2>1. ns[1].parts \in Seq(Segments) /\ Len(ns[1].parts) >= 1
    BY <1>4, NamesArePaths
  <2>. DEFINE p == ns[1].parts
  <2>2. path \in {p, Base \o p, Base, Base \o <<Head(p)>>} \/ (Len(p) > 1 /\ path = Front(p))
    BY <1>4 DEF ResolveRevealPath, JoinPath
  <2>. HIDE DEF S, p
  <2>3. p \in Seq(Segments) /\ Len(p) >= 1
    BY <2>1 DEF p
  <2>. QED
    BY <1>1, <1>2, <2>2, <2>3 DEF S
<1>. QED
  BY <1>3, <1>4

\* A banner.
LEMMA BannerIsOne ==
  ASSUME NEW kind \in BannerKinds, NEW n \in Nat, NEW sized \in BOOLEAN
  PROVE  BuildInviteNotification(kind, n, sized) \in [kind : BannerKinds, name : Nat, sized : BOOLEAN]
<1>. DEFINE z == sized /\ kind \in {"invite-paired", "invite-nearby", "invite-auto-accepted"}
            m == IF kind = "device-paired" THEN 0 ELSE ClipName(n)
<1>1. z \in BOOLEAN
  BY Zenon
<1>2. m \in Nat
  BY NameIsClipped
<1>3. BuildInviteNotification(kind, n, sized) = [kind |-> kind, name |-> m, sized |-> z]
  BY Zenon DEF BuildInviteNotification
<1>. HIDE DEF z, m
<1>. QED
  BY <1>1, <1>2, <1>3

\* The text rules keep their types.
LEMMA TextTypeStep ==
  ASSUME TextTypeOK, [LinkNext \/ RevealNext \/ NotifyNext]_textVars
  PROVE  TextTypeOK'
<1>1. CASE UNCHANGED textVars
  BY <1>1 DEF textVars, TextTypeOK
<1>2. ASSUME NEW text \in Texts, PasteText(text) \/ OpenLink(text) PROVE TextTypeOK'
  <2>1. text \in Seq(Words) /\ Len(text) <= MaxWords
    BY TextAssumption DEF Texts
  <2>2. field' \in Seq(Words) /\ pasted' = text /\ UNCHANGED <<files, revealed, banner>>
    BY <1>2, <2>1, TicketIsText DEF PasteText, OpenLink
  <2>. QED
    BY <2>1, <2>2 DEF TextTypeOK
<1>3. ASSUME NEW ns \in NameLists, RevealNames(ns) PROVE TextTypeOK'
  <2>1. ns \in Seq(FilePaths) /\ Len(ns) <= MaxFiles
    BY TextAssumption DEF NameLists
  <2>2. revealed' \in Seq(Segments \cup {"base"}) \ {<<>>} /\ files' = ns /\ UNCHANGED <<pasted, field, banner>>
    BY <1>3, RevealIsPath DEF RevealNames
  <2>. QED
    BY <2>1, <2>2 DEF TextTypeOK
<1>4. ASSUME NEW kind \in BannerKinds, NEW n \in 0..(MaxPeerName + 2), NEW sized \in BOOLEAN,
             Notify(kind, n, sized)
      PROVE  TextTypeOK'
  <2>1. n \in Nat
    BY TextAssumption
  <2>2. banner' \in [kind : BannerKinds, name : Nat, sized : BOOLEAN] /\ UNCHANGED <<pasted, field, files, revealed>>
    BY <1>4, <2>1, BannerIsOne DEF Notify
  <2>. QED
    BY <2>2 DEF TextTypeOK
<1>. QED
  BY <1>1, <1>2, <1>3, <1>4 DEF LinkNext, RevealNext, NotifyNext

\* They have them before the first call.
LEMMA TextTypeStart == TextInit => TextTypeOK
<1>. SUFFICES ASSUME TextInit PROVE TextTypeOK
  OBVIOUS
<1>1. banner \in [kind : BannerKinds, name : Nat, sized : BOOLEAN]
  <2>. DEFINE d == FALSE
  <2>1. banner = BuildInviteNotification("device-paired", 1, d) /\ d \in BOOLEAN
    BY Zenon DEF TextInit
  <2>. HIDE DEF d
  <2>. QED
    BY <2>1, BannerIsOne DEF BannerKinds
<1>2. Base \in Seq(Segments \cup {"base"}) \ {<<>>}
  BY DEF Base
<1>3. pasted = <<>> /\ field = <<>> /\ files = <<>> /\ revealed = Base
  BY DEF TextInit
<1>4. {pasted, field} \subseteq Seq(Words) /\ Len(pasted) <= MaxWords
  <2>1. <<>> \in Seq(Words) /\ Len(<<>>) = 0
    OBVIOUS
  <2>. QED
    BY <1>3, <2>1, TextAssumption
<1>5. files \in Seq(FilePaths) /\ Len(files) <= MaxFiles
  BY <1>3, TextAssumption
<1>. QED
  BY <1>1, <1>2, <1>3, <1>4, <1>5 DEF TextTypeOK

\* Type correctness of the receiving side: session, form, invites and text rules; the
\* path revealed is never empty.
THEOREM TransfersTypes == Spec => []TypeOK
<1>1. Init => ReceiverInit /\ FormInit /\ InvitesInit /\ TextInit
  BY DEF Init
<1>2. [Next]_vars => [ReceiverNext]_receiverVars /\ [FormNext]_formVars
  BY DEF Next, vars
<1>3. [Next]_vars => [InvitesNext]_invitesVars /\ [LinkNext \/ RevealNext \/ NotifyNext]_textVars
  BY DEF Next, vars
<1>4. Spec => ReceiverSpec /\ FormSpec /\ InvitesSpec
  BY <1>1, <1>2, <1>3, PTL DEF Spec, ReceiverSpec, FormSpec, InvitesSpec
<1>5. Spec => []TextTypeOK
  <2>1. TextTypeOK /\ [Next]_vars => TextTypeOK'
    BY <1>3, TextTypeStep
  <2>2. Init => TextTypeOK
    BY <1>1, TextTypeStart
  <2>. QED
    BY <2>1, <2>2, PTL DEF Spec
<1>6. ReceiverTypeOK /\ FormTypeOK /\ InvitesTypeOK /\ TextTypeOK => TypeOK
  BY DEF TypeOK
<1>. QED
  BY <1>4, <1>5, <1>6, ReceiverTypes, FormTypes, TypeCorrect, PTL
=============================================================================
