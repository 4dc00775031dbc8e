------------------------------ MODULE HistoryUI ------------------------------
(***************************************************************************)
(* The transfer history page (routes/history.tsx, TransferHistoryRow.tsx,  *)
(* transfer-history.ts, history-open-target.ts) over the history store of  *)
(* the shell, and the clear button of the settings page.                   *)
(* A refresh reads the rows, shows them, then asks for the partial store   *)
(* of every row that names one and shows those: two answers, and several   *)
(* refreshes may be under way.  Texts, times and sizes are left out.       *)
(***************************************************************************)
EXTENDS Integers, Sequences, FiniteSets

CONSTANTS
  Rows,            \* ids of transfers
  MaxReads,        \* refresh calls under way at a time
  MaxNews          \* transfers that end while the application runs

ASSUME HistoryAssumption == MaxReads \in Nat \ {0} /\ MaxNews \in Nat

VARIABLES
  hstore,          \* the shell's rows: status of each id, "none" if absent
  hnews,           \* transfer-history-updated events not delivered yet
  hchanges,        \* transfers ended so far
  hpage,           \* the page is mounted
  hhears,          \* its listener for the announcements is registered
  hlist,           \* records
  htemp,           \* ids of tempData with a store
  hloading,        \* isLoading
  hreads,          \* refresh calls under way
  hop,             \* the remove, clear or reclaim under way
  hbusy,           \* isBusy
  hdialog,         \* the open dialog: none, "clear", or the row to remove
  hmissing,        \* missingTarget
  hexpanded,       \* rows whose details are open
  hfilter,         \* status filter
  hclearing,       \* the settings page's clear: NotAsked, the question "open" or
                   \* "busy", "hidden" when dismissed while the call runs
  htorn            \* history: a refresh or one of its stats failed, a refresh was
                   \* overtaken, or an announcement came before the listener

hVars == <<hstore, hnews, hchanges, hpage, hhears, hlist, htemp, hloading, hreads,
           hop, hbusy, hdialog, hmissing, hexpanded, hfilter, hclearing, htorn>>

\* A transfer that ended early is "failed", or "partial" while it still names
\* the partial store it left behind; both carry the same status in the list.
\* A running one names its store as well.
Statuses == {"none", "running", "completed", "failed", "partial"}
StatusOf(s) == IF s = "partial" THEN "failed" ELSE s
NotAsked == ""
NoOp == [kind |-> "none", row |-> "none", stage |-> "none"]
Empty == [r \in Rows |-> "none"]
WithStore(rows) == {r \in Rows : rows[r] \in {"running", "partial"}}

HInit ==
  /\ hstore \in [Rows -> Statuses \ {"running"}] /\ hnews = 0 /\ hchanges = 0
  /\ hpage = FALSE /\ hhears = FALSE /\ hlist = Empty /\ htemp = {} /\ hloading = TRUE
  /\ hreads = <<>> /\ hop = NoOp /\ hbusy = FALSE /\ hdialog = "none"
  /\ hmissing = "none" /\ hexpanded = {} /\ hfilter = "all"
  /\ hclearing = NotAsked /\ htorn = FALSE

-----------------------------------------------------------------------------
(* The shell: a row is opened in silence and announced once it is terminal; *)
(* a row removed in between stays removed, and its end is not announced.    *)

TransferStarts(r) ==
  /\ hchanges < MaxNews /\ hstore[r] = "none"
  /\ hstore' = [hstore EXCEPT ![r] = "running"]
  /\ hchanges' = hchanges + 1
  /\ UNCHANGED <<hnews, hpage, hhears, hlist, htemp, hloading, hreads, hop, hbusy,
                 hdialog, hmissing, hexpanded, hfilter, hclearing, htorn>>

TransferEnds(r) ==
  /\ hstore[r] = "running" /\ hnews < 2
  /\ \E s \in {"completed", "failed", "partial"} : hstore' = [hstore EXCEPT ![r] = s]
  /\ hnews' = hnews + 1
  /\ UNCHANGED <<hchanges, hpage, hhears, hlist, htemp, hloading, hreads, hop, hbusy, hdialog,
                 hmissing, hexpanded, hfilter, hclearing, htorn>>

-----------------------------------------------------------------------------
(* refresh *)

NewRead(who) == [who |-> who, stage |-> "ask", seen |-> Empty,
                 asked |-> {}, temps |-> {}, late |-> FALSE]

DropRead(i) ==
  [j \in 1..(Len(hreads) - 1) |-> IF j < i THEN hreads[j] ELSE hreads[j + 1]]

\* The refreshes that started before i and still show what they read.
OvertakenBy(i) ==
  [j \in DOMAIN hreads |->
     [hreads[j] EXCEPT !.late = @ \/ (j < i /\ hreads[j].stage # "ask")]]

\* The rows, or the partial stores the listed rows still have; a stat that
\* rejects omits its row.
RefreshReads(i) ==
  /\ \/ /\ hreads[i].stage = "ask"
        /\ hreads' = [hreads EXCEPT ![i].stage = "list", ![i].seen = hstore]
        /\ UNCHANGED htorn
     \/ /\ hreads[i].stage = "stat"
        /\ \E omitted \in SUBSET (hreads[i].asked \cap WithStore(hstore)) :
             /\ hreads' = [hreads EXCEPT ![i].stage = "stats", ![i].asked = {},
                             ![i].temps = (hreads[i].asked \cap WithStore(hstore)) \ omitted]
             /\ htorn' = (htorn \/ omitted # {})
  /\ UNCHANGED <<hstore, hnews, hchanges, hpage, hhears, hlist, htemp, hloading, hop,
                 hbusy, hdialog, hmissing, hexpanded, hfilter, hclearing>>

\* setRecords, then the stat calls of the rows that name a store.
RefreshLists(i) ==
  /\ hreads[i].stage = "list"
  /\ hlist' = hreads[i].seen
  /\ htorn' = (htorn \/ hreads[i].late)
  /\ hreads' = [OvertakenBy(i) EXCEPT
                  ![i].stage = "stat", ![i].asked = WithStore(hreads[i].seen),
                  ![i].seen = Empty]
  /\ UNCHANGED <<hstore, hnews, hchanges, hpage, hhears, htemp, hloading, hop, hbusy,
                 hdialog, hmissing, hexpanded, hfilter, hclearing>>

\* The page's own load ends, or the operation that refreshed goes on.
AfterRefresh(who, ok) ==
  /\ hloading' = (hloading /\ who # "load")
  /\ IF who = "op"
     THEN /\ hop' = NoOp /\ hbusy' = FALSE
          /\ hdialog' = IF ok /\ hop.kind # "reclaim" THEN "none" ELSE hdialog
     ELSE UNCHANGED <<hop, hbusy, hdialog>>

RefreshStats(i) ==
  /\ hreads[i].stage = "stats"
  /\ htemp' = hreads[i].temps
  /\ htorn' = (htorn \/ hreads[i].late)
  /\ hreads' = LET o == OvertakenBy(i) IN
               [j \in 1..(Len(o) - 1) |-> IF j < i THEN o[j] ELSE o[j + 1]]
  /\ AfterRefresh(hreads[i].who, TRUE)
  /\ UNCHANGED <<hstore, hnews, hchanges, hpage, hhears, hlist, hmissing, hexpanded,
                 hfilter, hclearing>>

\* list_transfer_history rejects.
RefreshFails(i) ==
  /\ hreads[i].stage = "ask"
  /\ htorn' = TRUE
  /\ hreads' = DropRead(i)
  /\ AfterRefresh(hreads[i].who, FALSE)
  /\ UNCHANGED <<hstore, hnews, hchanges, hpage, hhears, hlist, htemp, hmissing,
                 hexpanded, hfilter, hclearing>>

\* Mutant: the page does not re-read while one of its own calls runs.
OnUpdatedUnlessBusy ==
  /\ hhears /\ hnews > 0 /\ Len(hreads) < MaxReads
  /\ hnews' = hnews - 1
  /\ hreads' = IF hbusy THEN hreads ELSE Append(hreads, NewRead("event"))
  /\ UNCHANGED <<hstore, hchanges, hpage, hhears, hlist, htemp, hloading, hop, hbusy,
                 hdialog, hmissing, hexpanded, hfilter, hclearing, htorn>>

OnHistoryUpdated ==
  /\ hhears /\ hnews > 0 /\ Len(hreads) < MaxReads
  /\ hnews' = hnews - 1
  /\ hreads' = Append(hreads, NewRead("event"))
  /\ UNCHANGED <<hstore, hchanges, hpage, hhears, hlist, htemp, hloading, hop, hbusy,
                 hdialog, hmissing, hexpanded, hfilter, hclearing, htorn>>

\* listen() answers after the mount.
HistoryListens ==
  /\ hpage /\ ~hhears
  /\ hhears' = TRUE
  /\ UNCHANGED <<hstore, hnews, hchanges, hpage, hlist, htemp, hloading, hreads, hop,
                 hbusy, hdialog, hmissing, hexpanded, hfilter, hclearing, htorn>>

\* An announcement before that reaches nobody: only a load that has not read
\* the rows yet makes up for it.
AnnouncementLost ==
  /\ hpage /\ ~hhears /\ hnews > 0
  /\ hnews' = hnews - 1
  /\ htorn' = (htorn \/ hreads # <<NewRead("load")>>)
  /\ UNCHANGED <<hstore, hchanges, hpage, hhears, hlist, htemp, hloading, hreads, hop,
                 hbusy, hdialog, hmissing, hexpanded, hfilter, hclearing>>

\* Mounting starts the load and asks for the listener.
OpenHistory ==
  /\ ~hpage /\ hclearing \in {NotAsked, "hidden"}
  /\ hpage' = TRUE /\ hhears' = FALSE /\ hlist' = Empty /\ htemp' = {} /\ hloading' = TRUE
  /\ hreads' = <<NewRead("load")>>
  /\ hop' = NoOp /\ hbusy' = FALSE /\ hdialog' = "none" /\ hmissing' = "none"
  /\ hexpanded' = {} /\ hfilter' = "all" /\ hnews' = 0 /\ htorn' = FALSE
  /\ UNCHANGED <<hstore, hchanges, hclearing>>

\* delete_transfer_record, clear_transfer_history, clear_transfer_temp_data:
\* the row goes with its store; a reclaim keeps the row without its store.
RowRemoved(r) == [hstore EXCEPT ![r] = "none"]
HistoryAfter(op) ==
  CASE op.kind = "remove"  -> RowRemoved(op.row)
    [] op.kind = "clear"   -> Empty
    [] op.kind = "reclaim" -> [hstore EXCEPT ![op.row] =
                                 StatusOf(@)]

\* Unmounting drops the state; a call under way still runs in the shell, or
\* fails there.
CloseHistory ==
  /\ hpage
  /\ \/ UNCHANGED hstore
     \/ /\ hop.stage = "call"
        /\ hop.kind = "reclaim" => hstore[hop.row] # "running"
        /\ hstore' = HistoryAfter(hop)
  /\ hpage' = FALSE /\ hhears' = FALSE /\ hreads' = <<>> /\ hop' = NoOp /\ hbusy' = FALSE
  /\ hlist' = Empty /\ htemp' = {} /\ hloading' = TRUE
  /\ hdialog' = "none" /\ hmissing' = "none" /\ hexpanded' = {}
  /\ hfilter' = "all" /\ hnews' = 0
  /\ UNCHANGED <<hchanges, hclearing, htorn>>

-----------------------------------------------------------------------------
(* What is shown, and the buttons of a row. *)

filterTransferHistory ==
  {r \in Rows : hlist[r] # "none" /\ hfilter \in {"all", StatusOf(hlist[r])}}
Visible(r) == hpage /\ ~hloading /\ r \in filterTransferHistory
RowOffersReclaim(r) == Visible(r) /\ r \in htemp /\ ~hbusy
\* Any row may have recorded a destination.
canOpenTransfer(r) == hlist[r] # "none"
RowOffersOpen(r) == Visible(r) /\ canOpenTransfer(r) /\ ~hbusy
RowOffersRemove(r) == Visible(r) /\ r \in hexpanded /\ ~hbusy
ClearOffered == hpage /\ hlist # Empty /\ ~hbusy

\* A dialog is modal: the page behind it takes no clicks.
NoModal == hdialog = "none" /\ hmissing = "none"

SetStatus(s) ==
  /\ hpage /\ NoModal /\ s # hfilter
  /\ hfilter' = s
  /\ UNCHANGED <<hstore, hnews, hchanges, hpage, hhears, hlist, htemp, hloading,
                 hreads, hop, hbusy, hdialog, hmissing, hexpanded, hclearing,
                 htorn>>

ToggleRow(r) ==
  /\ Visible(r) /\ NoModal
  /\ hexpanded' = (hexpanded \cup {r}) \ (hexpanded \cap {r})
  /\ UNCHANGED <<hstore, hnews, hchanges, hpage, hhears, hlist, htemp, hloading,
                 hreads, hop, hbusy, hdialog, hmissing, hfilter, hclearing,
                 htorn>>

AskRemove(r) ==
  /\ RowOffersRemove(r) /\ NoModal
  /\ hdialog' = r
  /\ UNCHANGED <<hstore, hnews, hchanges, hpage, hhears, hlist, htemp, hloading,
                 hreads, hop, hbusy, hmissing, hexpanded, hfilter, hclearing,
                 htorn>>

AskClearAll ==
  /\ ClearOffered /\ NoModal
  /\ hdialog' = "clear"
  /\ UNCHANGED <<hstore, hnews, hchanges, hpage, hhears, hlist, htemp, hloading,
                 hreads, hop, hbusy, hmissing, hexpanded, hfilter, hclearing,
                 htorn>>

\* Cancel is disabled while busy, Escape is not.
CloseDialogs ==
  /\ hpage /\ (hdialog # "none" \/ hmissing # "none")
  /\ hdialog' = "none" /\ hmissing' = "none"
  /\ UNCHANGED <<hstore, hnews, hchanges, hpage, hhears, hlist, htemp, hloading,
                 hreads, hop, hbusy, hexpanded, hfilter, hclearing, htorn>>

Begin(kind, r) ==
  /\ hop' = [kind |-> kind, row |-> r, stage |-> "call"]
  /\ hbusy' = TRUE
  /\ UNCHANGED <<hstore, hnews, hchanges, hpage, hhears, hlist, htemp, hloading,
                 hreads, hdialog, hmissing, hexpanded, hfilter, hclearing, htorn>>

HandleRemove == hdialog \in Rows /\ ~hbusy /\ Begin("remove", hdialog)
HandleClearAll == hdialog = "clear" /\ ~hbusy /\ Begin("clear", "none")
HandleReclaim(r) == RowOffersReclaim(r) /\ NoModal /\ Begin("reclaim", r)

OpFails ==
  /\ hop.stage = "call"
  /\ hop' = NoOp /\ hbusy' = FALSE
  /\ UNCHANGED <<hstore, hnews, hchanges, hpage, hhears, hlist, htemp, hloading,
                 hreads, hdialog, hmissing, hexpanded, hfilter, hclearing, htorn>>

\* The store of a running download is not reclaimed: that command fails.
OpRuns ==
  /\ hop.stage = "call" /\ Len(hreads) < MaxReads
  /\ hop.kind = "reclaim" => hstore[hop.row] # "running"
  /\ hstore' = HistoryAfter(hop)
  /\ hop' = [hop EXCEPT !.stage = "refresh"]
  /\ hreads' = Append(hreads, NewRead("op"))
  /\ UNCHANGED <<hnews, hchanges, hpage, hhears, hlist, htemp, hloading, hbusy,
                 hdialog, hmissing, hexpanded, hfilter, hclearing, htorn>>

\* The destination is looked up first; nothing there opens the notice.  The
\* look-up and its answer are one step: nothing else depends on them.
HandleOpen(r) ==
  /\ RowOffersOpen(r) /\ NoModal
  /\ hmissing' \in {hmissing, r}
  /\ UNCHANGED <<hstore, hnews, hchanges, hpage, hhears, hlist, htemp, hloading,
                 hreads, hop, hbusy, hdialog, hexpanded, hfilter, hclearing,
                 htorn>>

\* The settings page asks before it clears.  Cancel is disabled while the call
\* runs, Escape is not.
ClearQuestion ==
  /\ ~hpage
  /\ hclearing' = CASE hclearing = NotAsked -> "open" [] hclearing = "open" -> NotAsked
                    [] hclearing = "busy" -> "hidden" [] hclearing = "hidden" -> "busy"
  /\ UNCHANGED <<hstore, hnews, hchanges, hpage, hhears, hlist, htemp, hloading, hreads,
                 hop, hbusy, hdialog, hmissing, hexpanded, hfilter, htorn>>

\* Its clear call announces nothing: the history page, opened meanwhile, may
\* have read the rows before they went.
SettingsClear ==
  /\ \/ /\ hclearing = "open" /\ hclearing' = "busy"
        /\ UNCHANGED <<hstore, htorn>>
     \/ /\ hclearing \in {"busy", "hidden"} /\ hclearing' = NotAsked
        /\ hstore' = Empty /\ htorn' = (htorn \/ hpage)
     \/ /\ hclearing \in {"busy", "hidden"}
        /\ hclearing' = IF hclearing = "busy" THEN "open" ELSE NotAsked
        /\ UNCHANGED <<hstore, htorn>>
  /\ UNCHANGED <<hnews, hchanges, hpage, hhears, hlist, htemp, hloading, hreads, hop,
                 hbusy, hdialog, hmissing, hexpanded, hfilter>>

HNext ==
  \/ \E r \in Rows : TransferStarts(r) \/ TransferEnds(r) \/ ToggleRow(r)
                     \/ AskRemove(r) \/ HandleReclaim(r) \/ HandleOpen(r)
  \/ \E i \in DOMAIN hreads : RefreshReads(i) \/ RefreshLists(i)
                              \/ RefreshStats(i) \/ RefreshFails(i)
  \/ \E s \in {"all", "failed"} : SetStatus(s)
  \/ OnHistoryUpdated \/ HistoryListens \/ AnnouncementLost
  \/ OpenHistory \/ CloseHistory
  \/ AskClearAll \/ CloseDialogs \/ HandleRemove \/ HandleClearAll
  \/ OpFails \/ OpRuns \/ ClearQuestion \/ SettingsClear

-----------------------------------------------------------------------------
HTypeOK ==
  /\ hstore \in [Rows -> Statuses] /\ hlist \in [Rows -> Statuses]
  /\ hnews \in 0..2 /\ hchanges \in 0..MaxNews
  /\ {hpage, hhears, hloading, hbusy, htorn} \subseteq BOOLEAN
  /\ htemp \subseteq Rows /\ hexpanded \subseteq Rows
  /\ Len(hreads) =< MaxReads
  /\ hdialog \in Rows \cup {"none", "clear"} /\ hmissing \in Rows \cup {"none"}
  /\ hclearing \in {NotAsked, "open", "busy", "hidden"}

(***************************************************************************)
(* The page shows what the shell recorded: once every refresh has ended    *)
(* and every announcement was delivered, the ended rows are those stored   *)
(* and the rows said to hold a partial store (the stronger warning of the  *)
(* remove dialog) are those that hold one, whatever transfers ended during *)
(* the page's own calls.  Except when a refresh or a stat of it failed, an *)
(* older one was applied after a newer, an announcement came before the    *)
(* listener and after the load's read, or the settings page's clear ended  *)
(* after the history page was opened (htorn): nothing orders them.         *)
(***************************************************************************)
HistoryMatchesStore ==
  hpage /\ hreads = <<>> /\ hnews = 0 /\ hop = NoOp /\ ~htorn
    => \A r \in Rows : hstore[r] # "running" =>
         /\ hlist[r] = hstore[r]
         /\ r \in htemp <=> r \in WithStore(hstore)

(***************************************************************************)
(* isBusy disables every destructive button: it is set only while one of   *)
(* the three calls, or the refresh after it, is under way, so an error     *)
(* never leaves the page inert.                                            *)
(***************************************************************************)
HistoryBusyHasCall ==
  hbusy => hop # NoOp /\ (hop.stage = "refresh"
                            => \E i \in DOMAIN hreads : hreads[i].who = "op")

(***************************************************************************)
(* The history page agrees with the store and is never left disabled (the  *)
(* two parts above).                                                       *)
(***************************************************************************)
HistoryAgrees == HistoryMatchesStore /\ HistoryBusyHasCall
=============================================================================
