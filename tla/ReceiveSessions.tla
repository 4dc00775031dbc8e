--------------------------- MODULE ReceiveSessions ---------------------------
(***************************************************************************)
(* Receives in the desktop and Android shell: the receive_file,            *)
(* cancel_receive and history commands of src-tauri/src/commands.rs over   *)
(* AppState, the engine's download() (engine/native/src/receive.rs) with   *)
(* its partial store on disk, the history row of each receive              *)
(* (src-tauri/src/history.rs) and the receiver session of the UI           *)
(* (frontend/src/hooks/useReceiver.ts) that decides when a receive may be  *)
(* started.  Tauri runs every command as its own task: commands interleave *)
(* at each await, under the AppState mutex only for the named blocks.      *)
(***************************************************************************)
EXTENDS Naturals, FiniteSets

CONSTANTS
    Receives,     \* receive_file invocations
    Hashes,       \* content hashes of tickets
    None,         \* absent value; as a hash, an unparseable ticket
    Environment   \* which of EnvironmentEvents occur in this instance

EnvironmentEvents ==
    {"cancel", "history", "clear", "relaunch", "badticket", "rmfail"}

ASSUME NoneAssumption == None \notin Receives /\ None \notin Hashes
ASSUME EnvironmentAssumption == Environment \subseteq EnvironmentEvents

VARIABLES
    cancelSlot,     \* current_receive_cancel: whose cancel sender it holds
    receiveHash,    \* current_receive_hash
    lastCancelled,  \* last_cancelled_recv_hash
    recv,           \* the receive_file invocations
    signal,         \* state of each receive's oneshot cancel channel
    store,          \* partial-receive directories on disk
    row,            \* history row of each receive
    pointer,        \* the row's resumable_store_path is set
    cleanup,        \* receives whose armed AutoCleanupDir was dropped
    clearing,       \* clear_transfer_temp_data past its check, per row
    ui,             \* the receive the UI's receiver view shows
    cancelCall      \* an invoke('cancel_receive') not yet handled

vars == <<cancelSlot, receiveHash, lastCancelled, recv, signal, store, row,
          pointer, cleanup, clearing, ui, cancelCall>>

Pcs == {"idle", "start", "remove", "reserve", "open", "store", "transfer",
        "closing", "epilogue", "finalize", "done"}
Results == {"none", "ok", "failed", "cancelled", "rejected"}
RowStates == {"none", "open", "completed", "failed", "cancelled",
              "interrupted", "gone"}

TypeOK ==
    /\ cancelSlot \in Receives \cup {None}
    /\ receiveHash \in Hashes \cup {None}
    /\ lastCancelled \in Hashes \cup {None}
    /\ recv \in [Receives -> [pc : Pcs, hash : Hashes \cup {None},
                              stale : Hashes \cup {None}, result : Results]]
    /\ signal \in [Receives -> {"open", "fired", "dropped"}]
    /\ store \in SUBSET Hashes
    /\ row \in [Receives -> RowStates]
    /\ pointer \in [Receives -> BOOLEAN]
    /\ cleanup \in SUBSET Receives
    /\ clearing \in SUBSET Receives
    /\ ui \in Receives \cup {None}
    /\ cancelCall \in BOOLEAN

Init ==
    /\ cancelSlot = None /\ receiveHash = None /\ lastCancelled = None
    /\ recv = [r \in Receives |-> [pc |-> "idle", hash |-> None,
                                   stale |-> None, result |-> "none"]]
    /\ signal = [r \in Receives |-> "open"]
    /\ store = {}
    /\ row = [r \in Receives |-> "none"]
    /\ pointer = [r \in Receives |-> FALSE]
    /\ cleanup = {} /\ clearing = {}
    /\ ui = None /\ cancelCall = FALSE

At(r, pc) == recv[r].pc = pc
Hash(r) == recv[r].hash
Goto(r, pc) == recv' = [recv EXCEPT ![r].pc = pc]
Ends(r, pc, result) == recv' = [recv EXCEPT ![r].pc = pc, ![r].result = result]

-----------------------------------------------------------------------------
\* receive_file

\* isReceiveSessionBusy: a completed receive stays on screen until the user is
\* done with it, but no longer occupies the session.
Busy == ui # None /\ recv[ui].result # "ok"

\* receiveWithTicket: the UI starts a receive when its session is not busy.
Begin(r, h) ==
    /\ ~Busy /\ At(r, "idle")
    /\ h = None => "badticket" \in Environment
    /\ recv' = [recv EXCEPT ![r].pc = "start", ![r].hash = h]
    /\ ui' = r
    /\ UNCHANGED <<cancelSlot, receiveHash, lastCancelled, signal, store, row,
                   pointer, cleanup, clearing, cancelCall>>

\* An early return before the slot is reserved: bad output folder or relay
\* configuration.
SetupFails(r) ==
    /\ At(r, "start")
    /\ Ends(r, "finalize", "rejected")
    /\ UNCHANGED <<cancelSlot, receiveHash, lastCancelled, signal, store, row,
                   pointer, cleanup, clearing, ui, cancelCall>>

\* The stale entry is taken before it is known whether this receive may run.
TakeStale(r) ==
    /\ At(r, "start")
    /\ LET drop == /\ lastCancelled \notin {None, Hash(r)}
                   /\ lastCancelled \in store
       IN  recv' = [recv EXCEPT
             ![r].pc = IF Hash(r) # None /\ drop THEN "remove" ELSE "reserve",
             ![r].stale = IF Hash(r) # None /\ drop THEN lastCancelled ELSE None]
    /\ lastCancelled' = IF Hash(r) = None THEN lastCancelled ELSE None
    /\ UNCHANGED <<cancelSlot, receiveHash, signal, store, row, pointer,
                   cleanup, clearing, ui, cancelCall>>

\* A failing remove_dir_all is only logged.
RemoveStale(r) ==
    /\ At(r, "remove")
    /\ \/ store' = store \ {recv[r].stale}
       \/ "rmfail" \in Environment /\ UNCHANGED store
    /\ recv' = [recv EXCEPT ![r].pc = "reserve", ![r].stale = None]
    /\ UNCHANGED <<cancelSlot, receiveHash, lastCancelled, signal, row, pointer,
                   cleanup, clearing, ui, cancelCall>>

\* Mutant: the slot is taken without looking whether it is free.
ReserveUnchecked(r) ==
    /\ At(r, "reserve")
    /\ cancelSlot' = r /\ receiveHash' = Hash(r)
    /\ Goto(r, "open")
    /\ UNCHANGED <<lastCancelled, signal, store, row, pointer, cleanup,
                   clearing, ui, cancelCall>>

\* Under the AppState lock: reserve the receive slot, or refuse.
Reserve(r) ==
    /\ At(r, "reserve")
    /\ IF cancelSlot # None
       THEN /\ Ends(r, "finalize", "rejected")
            /\ UNCHANGED <<cancelSlot, receiveHash>>
       ELSE /\ cancelSlot' = r /\ receiveHash' = Hash(r)
            /\ Goto(r, "open")
    /\ UNCHANGED <<lastCancelled, signal, store, row, pointer, cleanup,
                   clearing, ui, cancelCall>>

-----------------------------------------------------------------------------
\* download()

\* The ticket does not parse, or the endpoint or the store cannot be opened.
OpenFails(r) ==
    /\ At(r, "open")
    /\ Ends(r, "epilogue", "failed")
    /\ UNCHANGED <<cancelSlot, receiveHash, lastCancelled, signal, store, row,
                   pointer, cleanup, clearing, ui, cancelCall>>

\* create_recv_store and its cleanup guard.
OpenStore(r) ==
    /\ At(r, "open") /\ Hash(r) # None
    /\ store' = store \cup {Hash(r)}
    /\ Goto(r, "store")
    /\ UNCHANGED <<cancelSlot, receiveHash, lastCancelled, signal, row, pointer,
                   cleanup, clearing, ui, cancelCall>>

\* receive-started opens the history row, with its resumable_store_path.
Started(r) ==
    /\ At(r, "store")
    /\ Goto(r, "transfer")
    /\ IF "history" \in Environment
       THEN /\ row' = [row EXCEPT ![r] = "open"]
            /\ pointer' = [pointer EXCEPT ![r] = TRUE]
       ELSE UNCHANGED <<row, pointer>>
    /\ UNCHANGED <<cancelSlot, receiveHash, lastCancelled, signal, store,
                   cleanup, clearing, ui, cancelCall>>

\* receive-completed: the row is finalized, and whatever session the UI shows
\* counts as completed, before download() has returned.
Completes(r) ==
    /\ At(r, "transfer")
    /\ Ends(r, "closing", "ok")
    /\ row' = [row EXCEPT ![r] = IF @ = "open" THEN "completed" ELSE @]
    /\ pointer' = [pointer EXCEPT ![r] = @ /\ row[r] # "open"]
    /\ ui' = IF ui = None THEN None ELSE r
    /\ UNCHANGED <<cancelSlot, receiveHash, lastCancelled, signal, store,
                   cleanup, clearing, cancelCall>>

\* The transfer fails: the guard is disarmed, the store stays.
TransferFails(r) ==
    /\ At(r, "store") \/ At(r, "transfer")
    /\ Ends(r, "closing", "failed")
    /\ UNCHANGED <<cancelSlot, receiveHash, lastCancelled, signal, store, row,
                   pointer, cleanup, clearing, ui, cancelCall>>

\* Mutant: the cancel channel is watched only once bytes move.
CancelObservedLate(r) ==
    /\ At(r, "transfer")
    /\ signal[r] # "open"
    /\ Ends(r, "closing", "cancelled")
    /\ UNCHANGED <<cancelSlot, receiveHash, lastCancelled, signal, store, row,
                   pointer, cleanup, clearing, ui, cancelCall>>

\* select!: the receiver resolves when the sender fires and when it is dropped.
\* An error of the store's shutdown replaces "cancelled".
CancelObserved(r) ==
    /\ At(r, "store") \/ At(r, "transfer")
    /\ signal[r] # "open"
    /\ \E result \in {"cancelled", "failed"} : Ends(r, "closing", result)
    /\ UNCHANGED <<cancelSlot, receiveHash, lastCancelled, signal, store, row,
                   pointer, cleanup, clearing, ui, cancelCall>>

\* The endpoint and the store are closed; after a success the armed guard
\* schedules the removal of the directory.
Close(r) ==
    /\ At(r, "closing")
    /\ Goto(r, "epilogue")
    /\ cleanup' = IF recv[r].result = "ok" THEN cleanup \cup {r} ELSE cleanup
    /\ UNCHANGED <<cancelSlot, receiveHash, lastCancelled, signal, store, row,
                   pointer, clearing, ui, cancelCall>>

\* AutoCleanupDir::drop on the blocking pool.
CleanupRuns(r) ==
    /\ r \in cleanup
    /\ store' = store \ {Hash(r)}
    /\ cleanup' = cleanup \ {r}
    /\ UNCHANGED <<cancelSlot, receiveHash, lastCancelled, recv, signal, row,
                   pointer, clearing, ui, cancelCall>>

-----------------------------------------------------------------------------
\* Mutant: only a cancelled receive is remembered for cleanup.
EpilogueForgetsFailure(r) ==
    /\ At(r, "epilogue")
    /\ cancelSlot' = None /\ receiveHash' = None
    /\ signal' = [q \in Receives |->
         IF q = cancelSlot /\ signal[q] = "open" THEN "dropped" ELSE signal[q]]
    /\ lastCancelled' = IF recv[r].result = "cancelled" THEN Hash(r) ELSE lastCancelled
    /\ Goto(r, "finalize")
    /\ UNCHANGED <<store, row, pointer, cleanup, clearing, ui, cancelCall>>

\* receive_file after download(), under the AppState lock: both fields are
\* reset whichever receive they belong to, and the sender found in the slot is
\* dropped.
Epilogue(r) ==
    /\ At(r, "epilogue")
    /\ cancelSlot' = None /\ receiveHash' = None
    /\ signal' = [q \in Receives |->
         IF q = cancelSlot /\ signal[q] = "open" THEN "dropped" ELSE signal[q]]
    /\ lastCancelled' = IF recv[r].result # "ok" THEN Hash(r) ELSE lastCancelled
    /\ Goto(r, "finalize")
    /\ UNCHANGED <<store, row, pointer, cleanup, clearing, ui, cancelCall>>

\* Mutant: the outcome is written to the row whatever it is and whether or not
\* the row is still open.
FinalizeAnyRow(r) ==
    /\ At(r, "finalize")
    /\ Goto(r, "done")
    /\ row' = [row EXCEPT ![r] = recv[r].result]
    /\ ui' = IF recv[r].result \in {"failed", "rejected"} THEN None ELSE ui
    /\ UNCHANGED <<cancelSlot, receiveHash, lastCancelled, signal, store,
                   pointer, cleanup, clearing, cancelCall>>

\* The row gets its terminal state, if it has none, and the UI the result: an
\* error frees the session, "cancelled" leaves it as it is.
Finalize(r) ==
    /\ At(r, "finalize")
    /\ Goto(r, "done")
    /\ row' = [row EXCEPT ![r] = IF @ = "open" THEN recv[r].result ELSE @]
    /\ ui' = IF recv[r].result \in {"failed", "rejected"} THEN None ELSE ui
    /\ UNCHANGED <<cancelSlot, receiveHash, lastCancelled, signal, store,
                   pointer, cleanup, clearing, cancelCall>>

\* resetForNewTransfer, behind Stop and behind Done: frees the session and calls
\* cancel_receive without waiting for it.
UserResets ==
    /\ "cancel" \in Environment
    /\ ui # None
    /\ ui' = None /\ cancelCall' = TRUE
    /\ UNCHANGED <<cancelSlot, receiveHash, lastCancelled, recv, signal, store,
                   row, pointer, cleanup, clearing>>

CancelReceive ==
    /\ cancelCall
    /\ cancelCall' = FALSE
    /\ signal' = [q \in Receives |-> IF q = cancelSlot THEN "fired" ELSE signal[q]]
    /\ cancelSlot' = None
    /\ UNCHANGED <<receiveHash, lastCancelled, recv, store, row, pointer,
                   cleanup, clearing, ui>>

-----------------------------------------------------------------------------
\* History commands.
HasRow(r) == row[r] \notin {"none", "gone"}
Reclaim(S) == store' = store \ {Hash(r) : r \in {q \in S : pointer[q]}}

\* delete_transfer_record of one row, clear_transfer_history of all of them.
DropRows(S) ==
    /\ "clear" \in Environment
    /\ S # {} /\ \A r \in S : HasRow(r)
    /\ Reclaim(S)
    /\ row' = [r \in Receives |-> IF r \in S THEN "gone" ELSE row[r]]
    /\ pointer' = [r \in Receives |-> pointer[r] /\ r \notin S]
    /\ UNCHANGED <<cancelSlot, receiveHash, lastCancelled, recv, signal,
                   cleanup, clearing, ui, cancelCall>>

DeleteTransferRecord(r) == DropRows({r})
ClearTransferHistory == DropRows({r \in Receives : HasRow(r)})

\* clear_transfer_temp_data refuses the receive in flight; the store its row
\* named is removed after the AppState lock is released.
ClearTempDataCheck(r) ==
    /\ "history" \in Environment
    /\ HasRow(r) /\ pointer[r] /\ r \notin clearing
    /\ receiveHash # Hash(r)
    /\ clearing' = clearing \cup {r}
    /\ UNCHANGED <<cancelSlot, receiveHash, lastCancelled, recv, signal, store,
                   row, pointer, cleanup, ui, cancelCall>>

ClearTempData(r) ==
    /\ r \in clearing
    /\ store' = store \ {Hash(r)}
    /\ pointer' = [pointer EXCEPT ![r] = FALSE]
    /\ clearing' = clearing \ {r}
    /\ UNCHANGED <<cancelSlot, receiveHash, lastCancelled, recv, signal, row,
                   cleanup, ui, cancelCall>>

\* The app is killed and launched again: cleanup_orphaned_directories,
\* mark_interrupted and forget_missing_partial_stores.
Relaunch ==
    /\ "relaunch" \in Environment
    /\ cancelSlot' = None /\ receiveHash' = None /\ lastCancelled' = None
    /\ recv' = [r \in Receives |->
         IF At(r, "idle") THEN recv[r]
         ELSE [recv[r] EXCEPT !.pc = "done", !.stale = None]]
    /\ store' = {}
    /\ row' = [r \in Receives |-> IF row[r] = "open" THEN "interrupted" ELSE row[r]]
    /\ pointer' = [r \in Receives |-> FALSE]
    /\ cleanup' = {} /\ clearing' = {}
    /\ ui' = None /\ cancelCall' = FALSE
    /\ UNCHANGED signal

-----------------------------------------------------------------------------
\* What receive_file does of its own accord once the transfer is decided.
ReceiveStep(r) ==
    \/ TakeStale(r) \/ RemoveStale(r) \/ Reserve(r)
    \/ OpenStore(r) \/ OpenFails(r)
    \/ CancelObserved(r) \/ Close(r) \/ Epilogue(r) \/ Finalize(r)

Next ==
    \/ \E r \in Receives :
         \/ \E h \in Hashes \cup {None} : Begin(r, h)
         \/ ReceiveStep(r) \/ SetupFails(r)
         \/ Started(r) \/ Completes(r) \/ TransferFails(r)
         \/ CleanupRuns(r)
         \/ DeleteTransferRecord(r)
         \/ ClearTempDataCheck(r) \/ ClearTempData(r)
    \/ ClearTransferHistory
    \/ UserResets \/ CancelReceive
    \/ Relaunch

Spec == Init /\ [][Next]_vars

\* The runtime polls ready tasks; the peer may never send another byte.
Fairness ==
    /\ \A r \in Receives : WF_vars(ReceiveStep(r))
    /\ WF_vars(CancelReceive)

FairSpec == Spec /\ Fairness

-----------------------------------------------------------------------------
\* PROPERTIES

InDownload(r) == recv[r].pc \in {"open", "store", "transfer", "closing", "epilogue"}

\* The slot serialises receives: while cancel_receive is not called, at most one
\* receive_file is between its reservation and its release, although the UI
\* lets the next one start as soon as receive-completed arrives.
OneDownload ==
    "cancel" \notin Environment =>
        \A r, q \in Receives : InDownload(r) /\ InDownload(q) => r = q

\* A running receive, the stale entry, a history row or a scheduled cleanup
\* knows the store of h.
Tracked(h) ==
    \/ lastCancelled = h
    \/ \E r \in Receives :
         \/ Hash(r) = h /\ (r \in cleanup \/ pointer[r]
                            \/ recv[r].pc \notin {"idle", "finalize", "done"})
         \/ recv[r].stale = h

\* Every partial store on disk has something that will free it or resume it,
\* whether the receive that made it completed, failed or was cut off by a relaunch.
\* Cancels, bad tickets and failing removals do lose stores: they are left out.
PartialStoresTracked == \A h \in store : Tracked(h)

\* A receive whose cancel was sent ends.
CancelEndsReceive ==
    \A r \in Receives : signal[r] = "fired" ~> ~InDownload(r)
=============================================================================
