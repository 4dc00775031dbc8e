---------------------------- MODULE ReceiveForm -----------------------------
(***************************************************************************)
(* What surrounds a receive on the page: the ticket field and the preview  *)
(* fetched for it (useReceiver, TicketInput), the save location, and the   *)
(* tabs of the page (routes/index.tsx).  The session itself is ReceiverUI; *)
(* here it is one flag.                                                    *)
(***************************************************************************)
EXTENDS FiniteSets, Naturals

CONSTANTS
    Tickets,      \* tickets a user types, opens as a link or is invited with
    MaxFetches    \* bound: outstanding fetch_ticket_metadata calls

VARIABLES
    ticket,       \* the field
    active,       \* isReceiving
    effectDue,    \* the preview effect has not run for the present values
    timer,        \* the 300 ms timer: its ticket and whether its seq is current
    fetches,      \* outstanding fetches, likewise
    preview,      \* previewMetadata: the ticket it describes
    loading,      \* isPreviewLoading
    expanded,     \* the preview list is open
    itemCount,    \* transferItemCountRef: the ticket it was taken from
    save,         \* savePath
    saveInit,     \* initializeSavePath awaits downloadDir()
    browsing,     \* the folder dialog is open
    tab, sharing  \* activeTab; a share is on

fieldVars == <<ticket, active, effectDue, timer, fetches, preview, loading,
               expanded, itemCount>>
saveVars == <<save, saveInit, browsing>>
tabVars == <<tab, sharing>>
formVars == <<fieldVars, saveVars, tabVars>>

\* The empty string: no ticket, no preview, no folder.
Blank == ""

NoTimer == [of |-> Blank, live |-> FALSE]
Requests == [of : Tickets, live : BOOLEAN]

FormTypeOK ==
    /\ ticket \in Tickets \cup {Blank} /\ active \in BOOLEAN
    /\ effectDue \in BOOLEAN /\ timer \in Requests \cup {NoTimer}
    /\ fetches \subseteq Requests /\ preview \in Tickets \cup {Blank}
    /\ loading \in BOOLEAN /\ expanded \in BOOLEAN
    /\ itemCount \in Tickets \cup {Blank}
    /\ save \in {Blank, "default", "picked", "exported"}
    /\ saveInit \in BOOLEAN /\ browsing \in BOOLEAN
    /\ tab \in {"send", "receive"} /\ sharing \in BOOLEAN

FormInit ==
    /\ ticket = Blank /\ active = FALSE /\ effectDue = FALSE /\ timer = NoTimer
    /\ fetches = {} /\ preview = Blank /\ loading = FALSE /\ expanded = FALSE
    /\ itemCount = Blank /\ save = Blank /\ saveInit = TRUE /\ browsing = FALSE
    /\ tab = "send" /\ sharing = FALSE

-----------------------------------------------------------------------------
\* previewRequestSeqRef += 1: no outstanding request is the current one.
Stale(reqs) == {[q EXCEPT !.live = FALSE] : q \in reqs}

\* The card is keyed by its metadata: a new preview starts collapsed.
ShowPreview(p) == preview' = p /\ expanded' = (expanded /\ p = preview)

\* The preview effect for the values t and rec, the cleanup of the one before
\* included.
PreviewEffect(t, rec) ==
    /\ effectDue' = FALSE
    /\ fetches' = Stale(fetches)
    /\ timer' = IF rec \/ t = Blank THEN NoTimer ELSE [of |-> t, live |-> TRUE]
    /\ loading' = (~rec /\ t # Blank)
    /\ IF rec THEN UNCHANGED <<preview, expanded>> ELSE ShowPreview(Blank)

RunPreviewEffect ==
    /\ effectDue /\ PreviewEffect(ticket, active)
    /\ UNCHANGED <<ticket, active, itemCount, saveVars, tabVars>>

\* handleTicketChange: a new ticket in the field.
TicketEntered(t) ==
    /\ ticket' = t
    /\ IF t = ticket
       THEN UNCHANGED <<effectDue, timer, fetches, preview, loading, expanded>>
       ELSE PreviewEffect(t, active)
    /\ UNCHANGED <<active, itemCount, saveVars, sharing>>

\* Typing or pasting; opening a receive link also brings its tab.
HandleTicketChange(t) == ~active /\ tab = "receive" /\ TicketEntered(t) /\ UNCHANGED tab

ApplyReceiveLink(t) == TicketEntered(t) /\ tab' = "receive"

TimerFires ==
    /\ timer # NoTimer /\ Cardinality(fetches) < MaxFetches
    /\ timer' = NoTimer /\ fetches' = fetches \cup {timer}
    /\ UNCHANGED <<ticket, active, effectDue, preview, loading, expanded,
                   itemCount, saveVars, tabVars>>

\* Mutant: an answer is applied whatever its seq.
FetchAnswersAny(q, ok) ==
    /\ q \in fetches /\ fetches' = fetches \ {q}
    /\ ShowPreview(IF ok THEN q.of ELSE Blank) /\ loading' = FALSE
    /\ UNCHANGED <<ticket, active, effectDue, timer, itemCount, saveVars, tabVars>>

\* The answer or the failure of fetch_ticket_metadata.
FetchAnswers(q, ok) ==
    /\ q \in fetches /\ fetches' = fetches \ {q}
    /\ IF q.live
       THEN ShowPreview(IF ok THEN q.of ELSE Blank) /\ loading' = FALSE
       ELSE UNCHANGED <<preview, expanded, loading>>
    /\ UNCHANGED <<ticket, active, effectDue, timer, itemCount, saveVars, tabVars>>

ToggleExpanded ==
    /\ ~active /\ preview # Blank /\ expanded' = ~expanded
    /\ UNCHANGED <<ticket, active, effectDue, timer, fetches, preview, loading,
                   itemCount, saveVars, tabVars>>

\* receiveWithTicket: the item count of an earlier receive that failed stays.
StartReceive(n) ==
    /\ itemCount' = IF itemCount = Blank THEN n ELSE itemCount
    /\ loading' = FALSE /\ active' = TRUE
    /\ save' = IF save = Blank THEN "default" ELSE save
    /\ fetches' = Stale(fetches)
    /\ timer' = [timer EXCEPT !.live = FALSE]

\* Download: a click, committed with its effect before anything else runs.
DownloadTicket ==
    /\ ~active /\ ticket # Blank /\ tab = "receive"
    /\ itemCount' = IF itemCount = Blank THEN preview ELSE itemCount
    /\ active' = TRUE /\ save' = IF save = Blank THEN "default" ELSE save
    /\ PreviewEffect(ticket, TRUE)
    /\ UNCHANGED <<ticket, saveInit, browsing, tabVars>>

\* acceptPairedInvite, with the form or a success screen up: ticket and preview
\* are the invite's, the tab is requested, the effect runs at the next render.
AcceptInvite(t) ==
    /\ ticket' = t /\ ShowPreview(t) /\ StartReceive(t)
    /\ effectDue' = TRUE /\ tab' = "receive"
    /\ UNCHANGED <<saveInit, browsing, sharing>>

\* receive_file answered with an error: the form comes back with the ticket.
ReceiveFails ==
    /\ active /\ active' = FALSE /\ effectDue' = TRUE
    /\ UNCHANGED <<ticket, timer, fetches, preview, loading, expanded, itemCount,
                   saveVars, tabVars>>

\* resetForNewTransfer
ResetForm ==
    /\ active /\ tab = "receive"
    /\ ticket' = Blank /\ active' = FALSE /\ itemCount' = Blank
    /\ PreviewEffect(Blank, FALSE)
    /\ UNCHANGED <<saveVars, tabVars>>

-----------------------------------------------------------------------------
\* downloadDir() answers: the default folder, or none on an error.
InitializeSavePath ==
    /\ saveInit /\ saveInit' = FALSE /\ save' \in {Blank, "default"}
    /\ UNCHANGED <<fieldVars, browsing, tabVars>>

HandleBrowseFolder ==
    /\ ~active /\ tab = "receive" /\ ~browsing /\ browsing' = TRUE
    /\ UNCHANGED <<fieldVars, save, saveInit, tabVars>>

\* Mutant: the null of a dismissed picker is stored.
DismissStoresNull ==
    /\ browsing /\ browsing' = FALSE /\ save' \in {"null", "picked"}
    /\ UNCHANGED <<fieldVars, saveInit, tabVars>>

BrowseEnds ==
    /\ browsing /\ browsing' = FALSE /\ save' \in {save, "picked"}
    /\ UNCHANGED <<fieldVars, saveInit, tabVars>>

\* receive-download-fallback and receive-download-mediastore name the folder
\* the export ended in.
ExportNamesPath ==
    /\ active /\ save' = "exported"
    /\ UNCHANGED <<fieldVars, saveInit, browsing, tabVars>>

\* A tab is disabled while a transfer of the other one is on.
SelectTab(t) ==
    /\ tab # t
    /\ IF t = "send" THEN ~active ELSE ~sharing
    /\ tab' = t /\ UNCHANGED <<fieldVars, saveVars, sharing>>

\* A launch intent brings the send tab whatever is going on.
LaunchIntent == tab' = "send" /\ UNCHANGED <<fieldVars, saveVars, sharing>>

ToggleSharing ==
    /\ sharing \/ tab = "send"
    /\ sharing' = ~sharing /\ UNCHANGED <<fieldVars, saveVars, tab>>

FormNext ==
    \/ RunPreviewEffect \/ TimerFires \/ ToggleExpanded
    \/ \E t \in Tickets \cup {Blank} : HandleTicketChange(t)
    \/ \E q \in fetches, ok \in BOOLEAN : FetchAnswers(q, ok)
    \/ DownloadTicket \/ ReceiveFails \/ ResetForm
    \/ \E t \in Tickets : AcceptInvite(t) \/ ApplyReceiveLink(t)
    \/ InitializeSavePath \/ HandleBrowseFolder \/ BrowseEnds \/ ExportNamesPath
    \/ \E t \in {"send", "receive"} : SelectTab(t)
    \/ LaunchIntent \/ ToggleSharing

FormSpec == FormInit /\ [][FormNext]_formVars

-----------------------------------------------------------------------------
\* PROPERTIES

\* The seq guard of the preview effect (useReceiver): the card under the field
\* describes the ticket that is in the field, however late answers come.
PreviewMatchesTicket ==
    preview # Blank /\ ~active /\ ~effectDue => preview = ticket

\* The finally branch of the preview effect: the form never waits for an answer
\* that nobody will give.
LoadingHasCause ==
    loading => timer.live \/ \E q \in fetches : q.live

\* What the form shows: a preview of this ticket, or a wait that will end, with
\* answers of fetch_ticket_metadata in any order (the two parts above).
PreviewHolds == PreviewMatchesTicket /\ LoadingHasCause
=============================================================================
