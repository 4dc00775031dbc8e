------------------------ MODULE ReceiveSessions_proof ------------------------
(***************************************************************************)
(* Proofs about ReceiveSessions: type correctness, that the cancel slot    *)
(* serialises downloads as long as nobody cancels, and that no partial     *)
(* store is forgotten.                                                     *)
(***************************************************************************)
EXTENDS ReceiveSessions, TLAPS

\* A history row is open only while its receive moves bytes or is on its way
\* to finalize with an outcome a row can record.
OpenRowHasOwner ==
    \A r \in Receives :
        row[r] = "open" =>
            \/ At(r, "transfer")
            \/ /\ recv[r].pc \in {"closing", "epilogue", "finalize"}
               /\ recv[r].result \in {"failed", "cancelled"}

\* While nobody cancels, the slot holds the sender of the receive that is in
\* download(), so nobody else can reserve it.
SlotHeld ==
    "cancel" \notin Environment =>
        ~cancelCall /\ \A r \in Receives : InDownload(r) => cancelSlot = r

TypeInv == TypeOK /\ OpenRowHasOwner

\* What a receive_file invocation keeps between two of its steps.
Recv == [pc : Pcs, hash : Hashes \cup {None}, stale : Hashes \cup {None},
         result : Results]

\* An update of one or two fields of a record keeps it a Recv.
LEMMA FieldUpdates ==
    ASSUME NEW r \in Receives, recv \in [Receives -> Recv], NEW pc \in Pcs
    PROVE  /\ [recv EXCEPT ![r].pc = pc] \in [Receives -> Recv]
           /\ \A h \in Hashes \cup {None} :
                /\ [recv EXCEPT ![r].pc = pc, ![r].hash = h] \in [Receives -> Recv]
                /\ [recv EXCEPT ![r].pc = pc, ![r].stale = h] \in [Receives -> Recv]
           /\ \A res \in Results :
                [recv EXCEPT ![r].pc = pc, ![r].result = res] \in [Receives -> Recv]
<1> DEFINE moved == [recv EXCEPT ![r].pc = pc]
<1>1. moved \in [Receives -> Recv]
  BY DEF Recv
<1>2. ASSUME NEW h \in Hashes \cup {None}
      PROVE  [moved EXCEPT ![r].hash = h] \in [Receives -> Recv]
  BY <1>1 DEF Recv
<1>3. ASSUME NEW h \in Hashes \cup {None}
      PROVE  [moved EXCEPT ![r].stale = h] \in [Receives -> Recv]
  BY <1>1 DEF Recv
<1>4. ASSUME NEW res \in Results
      PROVE  [moved EXCEPT ![r].result = res] \in [Receives -> Recv]
  BY <1>1 DEF Recv
<1>5. QED
  BY <1>1, <1>2, <1>3, <1>4

\* Taking the stale entry sets pc and stale of one receive.
LEMMA TakeStaleType ==
    ASSUME NEW r \in Receives, recv \in [Receives -> Recv],
           lastCancelled \in Hashes \cup {None}, TakeStale(r)
    PROVE  recv' \in [Receives -> Recv]
<1>1. PICK pc \in Pcs, h \in Hashes \cup {None} :
         recv' = [recv EXCEPT ![r].pc = pc, ![r].stale = h]
  BY DEF TakeStale, Pcs
<1>2. QED
  BY <1>1, FieldUpdates

\* A relaunch ends every receive that had begun.
LEMMA RelaunchType ==
    ASSUME recv \in [Receives -> Recv], Relaunch
    PROVE  recv' \in [Receives -> Recv]
<1>1. ASSUME NEW c \in Recv
      PROVE  [c EXCEPT !.pc = "done", !.stale = None] \in Recv
  BY DEF Recv, Pcs
<1>2. QED
  BY <1>1 DEF Relaunch

\* The receives, the rows and the stores keep their types.
LEMMA TypeInvariant == Spec => []TypeInv
<1>1. Init => TypeInv
  <2> SUFFICES ASSUME Init PROVE TypeOK /\ OpenRowHasOwner
    BY DEF TypeInv
  <2>1. [pc |-> "idle", hash |-> None, stale |-> None, result |-> "none"] \in Recv
    BY DEF Recv, Pcs, Results
  <2>2. QED
    BY <2>1 DEF Init, TypeOK, OpenRowHasOwner, Recv, RowStates
<1>2. TypeInv /\ [Next]_vars => TypeInv'
  <2> SUFFICES ASSUME TypeInv, [Next]_vars PROVE TypeInv'
    OBVIOUS
  <2>0. recv \in [Receives -> Recv]
    BY DEF TypeInv, TypeOK, Recv
  <2> USE DEF TypeInv, TypeOK, OpenRowHasOwner, At, Pcs, Results, RowStates
  <2>1. ASSUME NEW r \in Receives, NEW h \in Hashes \cup {None}, Begin(r, h)
        PROVE  TypeInv'
    <3>1. recv' \in [Receives -> Recv]
      BY <2>1, <2>0, FieldUpdates DEF Begin
    <3>2. TypeOK'
      BY <2>1, <3>1 DEF Begin, Recv
    <3>3. OpenRowHasOwner'
      BY <2>1 DEF Begin
    <3>4. QED
      BY <3>2, <3>3
  <2>2. ASSUME NEW r \in Receives, TakeStale(r)
        PROVE  TypeInv'
    <3>1. recv' \in [Receives -> Recv]
      BY <2>0, <2>2, TakeStaleType
    <3>2. TypeOK'
      BY <2>2, <3>1 DEF TakeStale, Hash, Recv
    <3>3. OpenRowHasOwner'
      BY <2>2 DEF TakeStale, Hash
    <3>4. QED
      BY <3>2, <3>3
  <2>3. ASSUME NEW r \in Receives, RemoveStale(r)
        PROVE  TypeInv'
    <3>1. recv' \in [Receives -> Recv]
      BY <2>3, <2>0, FieldUpdates DEF RemoveStale
    <3>2. TypeOK'
      BY <2>3, <3>1 DEF RemoveStale, Recv
    <3>3. OpenRowHasOwner'
      BY <2>3 DEF RemoveStale
    <3>4. QED
      BY <3>2, <3>3
  <2>4. ASSUME NEW r \in Receives, Reserve(r)
        PROVE  TypeInv'
    <3>1. CASE cancelSlot # None
      <4>1. recv' = [recv EXCEPT ![r].pc = "finalize", ![r].result = "rejected"]
        BY <2>4, <3>1 DEF Reserve, Ends
      <4>2. recv' \in [Receives -> Recv]
        BY <2>0, <4>1, FieldUpdates
      <4>3. TypeOK'
        BY <2>4, <3>1, <4>2 DEF Reserve, Recv
      <4>4. OpenRowHasOwner'
        BY <2>4, <4>1 DEF Reserve
      <4>5. QED
        BY <4>3, <4>4
    <3>2. CASE cancelSlot = None
      <4>1. recv' = [recv EXCEPT ![r].pc = "open"]
        BY <2>4, <3>2 DEF Reserve, Goto
      <4>2. recv' \in [Receives -> Recv]
        BY <2>0, <4>1, FieldUpdates
      <4>3. TypeOK'
        BY <2>4, <3>2, <4>2 DEF Reserve, Hash, Recv
      <4>4. OpenRowHasOwner'
        BY <2>4, <4>1 DEF Reserve
      <4>5. QED
        BY <4>3, <4>4
    <3>3. QED
      BY <3>1, <3>2
  <2>5. ASSUME NEW r \in Receives, OpenStore(r)
        PROVE  TypeInv'
    <3>1. recv' \in [Receives -> Recv]
      BY <2>5, <2>0, FieldUpdates DEF OpenStore, Hash, Goto
    <3>2. TypeOK'
      BY <2>5, <3>1 DEF OpenStore, Hash, Goto, Recv
    <3>3. OpenRowHasOwner'
      BY <2>5 DEF OpenStore, Hash, Goto
    <3>4. QED
      BY <3>2, <3>3
  <2>6. ASSUME NEW r \in Receives, OpenFails(r)
        PROVE  TypeInv'
    <3>1. recv' \in [Receives -> Recv]
      BY <2>6, <2>0, FieldUpdates DEF OpenFails, Ends
    <3>2. TypeOK'
      BY <2>6, <3>1 DEF OpenFails, Ends, Recv
    <3>3. OpenRowHasOwner'
      BY <2>6 DEF OpenFails, Ends
    <3>4. QED
      BY <3>2, <3>3
  <2>7. ASSUME NEW r \in Receives, CancelObserved(r)
        PROVE  TypeInv'
    <3>1. PICK result \in {"cancelled", "failed"} : Ends(r, "closing", result)
      BY <2>7 DEF CancelObserved
    <3>2. recv' \in [Receives -> Recv]
      BY <2>0, <3>1, FieldUpdates DEF Ends
    <3>3. TypeOK'
      BY <2>7, <3>2 DEF CancelObserved, Recv
    <3>4. OpenRowHasOwner'
      BY <2>7, <3>1 DEF CancelObserved, Ends
    <3>5. QED
      BY <3>3, <3>4
  <2>8. ASSUME NEW r \in Receives, Close(r)
        PROVE  TypeInv'
    <3>1. recv' \in [Receives -> Recv]
      BY <2>8, <2>0, FieldUpdates DEF Close, Goto
    <3>2. TypeOK'
      BY <2>8, <3>1 DEF Close, Goto, Recv
    <3>3. OpenRowHasOwner'
      BY <2>8 DEF Close, Goto
    <3>4. QED
      BY <3>2, <3>3
  <2>9. ASSUME NEW r \in Receives, Epilogue(r)
        PROVE  TypeInv'
    <3>1. recv' \in [Receives -> Recv]
      BY <2>9, <2>0, FieldUpdates DEF Epilogue, Hash, Goto
    <3>2. TypeOK'
      BY <2>9, <3>1 DEF Epilogue, Hash, Goto, Recv
    <3>3. OpenRowHasOwner'
      BY <2>9 DEF Epilogue, Hash, Goto
    <3>4. QED
      BY <3>2, <3>3
  <2>10. ASSUME NEW r \in Receives, Finalize(r)
        PROVE  TypeInv'
    <3>1. recv' \in [Receives -> Recv]
      BY <2>10, <2>0, FieldUpdates DEF Finalize, Goto
    <3>2. TypeOK'
      BY <2>10, <3>1 DEF Finalize, Goto, Recv
    <3>3. OpenRowHasOwner'
      BY <2>10 DEF Finalize, Goto
    <3>4. QED
      BY <3>2, <3>3
  <2>11. ASSUME NEW r \in Receives, SetupFails(r)
        PROVE  TypeInv'
    <3>1. recv' \in [Receives -> Recv]
      BY <2>11, <2>0, FieldUpdates DEF SetupFails, Ends
    <3>2. TypeOK'
      BY <2>11, <3>1 DEF SetupFails, Ends, Recv
    <3>3. OpenRowHasOwner'
      BY <2>11 DEF SetupFails, Ends
    <3>4. QED
      BY <3>2, <3>3
  <2>12. ASSUME NEW r \in Receives, Started(r)
        PROVE  TypeInv'
    <3>1. recv' \in [Receives -> Recv]
      BY <2>12, <2>0, FieldUpdates DEF Started, Goto
    <3>2. row' \in [Receives -> RowStates] /\ pointer' \in [Receives -> BOOLEAN]
      <4>1. CASE "history" \in Environment
        <5>1. row' = [row EXCEPT ![r] = "open"]
          BY <2>12, <4>1 DEF Started
        <5>2. pointer' = [pointer EXCEPT ![r] = TRUE]
          BY <2>12, <4>1 DEF Started
        <5>3. QED
          BY <5>1, <5>2
      <4>2. CASE "history" \notin Environment
        BY <2>12, <4>2 DEF Started
      <4>3. QED
        BY <4>1, <4>2
    <3>3. TypeOK'
      BY <2>12, <3>1, <3>2 DEF Started, Recv
    <3>4. OpenRowHasOwner'
      BY <2>12 DEF Started, Goto
    <3>5. QED
      BY <3>3, <3>4
  <2>13. ASSUME NEW r \in Receives, Completes(r)
        PROVE  TypeInv'
    <3>1. recv' \in [Receives -> Recv]
      BY <2>13, <2>0, FieldUpdates DEF Completes, Ends
    <3>2. TypeOK'
      BY <2>13, <3>1 DEF Completes, Ends, Recv
    <3>3. OpenRowHasOwner'
      BY <2>13 DEF Completes, Ends
    <3>4. QED
      BY <3>2, <3>3
  <2>14. ASSUME NEW r \in Receives, TransferFails(r)
        PROVE  TypeInv'
    <3>1. recv' \in [Receives -> Recv]
      BY <2>14, <2>0, FieldUpdates DEF TransferFails, Ends
    <3>2. TypeOK'
      BY <2>14, <3>1 DEF TransferFails, Ends, Recv
    <3>3. OpenRowHasOwner'
      BY <2>14 DEF TransferFails, Ends
    <3>4. QED
      BY <3>2, <3>3
  <2>15. ASSUME NEW r \in Receives, CleanupRuns(r)
        PROVE  TypeInv'
    BY <2>15 DEF CleanupRuns, Hash
  <2>16. ASSUME NEW r \in Receives, DeleteTransferRecord(r)
        PROVE  TypeInv'
    BY <2>16 DEF DeleteTransferRecord, DropRows, Reclaim
  <2>17. ASSUME NEW r \in Receives, ClearTempDataCheck(r)
        PROVE  TypeInv'
    BY <2>17 DEF ClearTempDataCheck
  <2>18. ASSUME NEW r \in Receives, ClearTempData(r)
        PROVE  TypeInv'
    BY <2>18 DEF ClearTempData
  <2>19. CASE ClearTransferHistory
    BY <2>19 DEF ClearTransferHistory, DropRows, Reclaim
  <2>20. CASE UserResets
    BY <2>20 DEF UserResets
  <2>21. CASE CancelReceive
    BY <2>21 DEF CancelReceive
  <2>22. CASE Relaunch
    <3>1. recv' \in [Receives -> Recv]
      BY <2>0, <2>22, RelaunchType
    <3>2. TypeOK'
      <4>1. row' \in [Receives -> RowStates] /\ pointer' \in [Receives -> BOOLEAN]
        BY <2>22 DEF Relaunch
      <4>2. signal' \in [Receives -> {"open", "fired", "dropped"}]
        BY <2>22 DEF Relaunch
      <4>3. QED
        BY <2>22, <3>1, <4>1, <4>2 DEF Relaunch, Recv
    <3>3. OpenRowHasOwner'
      BY <2>22 DEF Relaunch
    <3>4. QED
      BY <3>2, <3>3
  <2>23. CASE UNCHANGED vars
    BY <2>23 DEF vars
  <2>24. QED
    BY <2>1, <2>2, <2>3, <2>4, <2>5, <2>6, <2>7, <2>8, <2>9, <2>10, <2>11,
       <2>12, <2>13, <2>14, <2>15, <2>16, <2>17, <2>18, <2>19, <2>20,
       <2>21, <2>22, <2>23
    DEF Next, ReceiveStep
<1>3. QED
  BY <1>1, <1>2, PTL DEF Spec

\* Type correctness: the commands of the shell keep AppState, the partial
\* stores and the history rows within their types; in particular a row is
\* finalized only with an outcome that a row can record.
THEOREM TypeCorrect == Spec => []TypeOK
<1>1. TypeInv => TypeOK
  BY DEF TypeInv
<1>2. QED
  BY <1>1, TypeInvariant, PTL

\* The download under way holds the cancel slot, as long as nobody cancels.
LEMMA SlotInvariant == Spec => []SlotHeld
<1>1. Init => SlotHeld
  BY DEF Init, SlotHeld, InDownload
<1>2. TypeOK /\ SlotHeld /\ [Next]_vars => SlotHeld'
  <2> SUFFICES ASSUME TypeOK, SlotHeld, [Next]_vars, "cancel" \notin Environment
               PROVE  (~cancelCall /\ \A r \in Receives : InDownload(r) => cancelSlot = r)'
    BY DEF SlotHeld
  <2> DEFINE Held == ~cancelCall /\ \A r \in Receives : InDownload(r) => cancelSlot = r
  <2> Held
    BY DEF SlotHeld
  <2> USE NoneAssumption DEF TypeOK, InDownload, At
  <2>1. ASSUME NEW r \in Receives, NEW h \in Hashes \cup {None}, Begin(r, h)
        PROVE  Held'
    BY <2>1 DEF Begin
  <2>2. ASSUME NEW r \in Receives, TakeStale(r)
        PROVE  Held'
    BY <2>2 DEF TakeStale, Hash
  <2>3. ASSUME NEW r \in Receives, RemoveStale(r)
        PROVE  Held'
    BY <2>3 DEF RemoveStale
  <2>4. ASSUME NEW r \in Receives, Reserve(r)
        PROVE  Held'
    BY <2>4 DEF Reserve, Hash, Goto, Ends
  <2>5. ASSUME NEW r \in Receives, OpenStore(r)
        PROVE  Held'
    BY <2>5 DEF OpenStore, Hash, Goto
  <2>6. ASSUME NEW r \in Receives, OpenFails(r)
        PROVE  Held'
    BY <2>6 DEF OpenFails, Ends
  <2>7. ASSUME NEW r \in Receives, CancelObserved(r)
        PROVE  Held'
    BY <2>7 DEF CancelObserved, Ends
  <2>8. ASSUME NEW r \in Receives, Close(r)
        PROVE  Held'
    BY <2>8 DEF Close, Goto
  <2>9. ASSUME NEW r \in Receives, Epilogue(r)
        PROVE  Held'
    BY <2>9 DEF Epilogue, Hash, Goto
  <2>10. ASSUME NEW r \in Receives, Finalize(r)
        PROVE  Held'
    BY <2>10 DEF Finalize, Goto
  <2>11. ASSUME NEW r \in Receives, SetupFails(r)
        PROVE  Held'
    BY <2>11 DEF SetupFails, Ends
  <2>12. ASSUME NEW r \in Receives, Started(r)
        PROVE  Held'
    BY <2>12 DEF Started, Goto
  <2>13. ASSUME NEW r \in Receives, Completes(r)
        PROVE  Held'
    BY <2>13 DEF Completes, Ends
  <2>14. ASSUME NEW r \in Receives, TransferFails(r)
        PROVE  Held'
    BY <2>14 DEF TransferFails, Ends
  <2>15. ASSUME NEW r \in Receives, CleanupRuns(r)
        PROVE  Held'
    BY <2>15 DEF CleanupRuns, Hash
  <2>16. ASSUME NEW r \in Receives, DeleteTransferRecord(r)
        PROVE  Held'
    BY <2>16 DEF DeleteTransferRecord, DropRows, Reclaim
  <2>17. ASSUME NEW r \in Receives, ClearTempDataCheck(r)
        PROVE  Held'
    BY <2>17 DEF ClearTempDataCheck
  <2>18. ASSUME NEW r \in Receives, ClearTempData(r)
        PROVE  Held'
    BY <2>18 DEF ClearTempData
  <2>19. CASE ClearTransferHistory
    BY <2>19 DEF ClearTransferHistory, DropRows, Reclaim
  <2>20. CASE UserResets
    BY <2>20 DEF UserResets
  <2>21. CASE CancelReceive
    BY <2>21 DEF CancelReceive
  <2>22. CASE Relaunch
    <3>1. ASSUME NEW q \in Receives PROVE ~InDownload(q)'
      <4>1. recv'[q] = IF At(q, "idle") THEN recv[q]
                       ELSE [recv[q] EXCEPT !.pc = "done", !.stale = None]
        BY <2>22 DEF Relaunch
      <4>2. recv'[q].pc \in {"idle", "done"}
        BY <4>1
      <4>3. QED
        BY <4>2
    <3>2. ~cancelCall'
      BY <2>22 DEF Relaunch
    <3>3. QED
      BY <3>1, <3>2
  <2>23. CASE UNCHANGED vars
    BY <2>23 DEF vars
  <2>24. QED
    BY <2>1, <2>2, <2>3, <2>4, <2>5, <2>6, <2>7, <2>8, <2>9, <2>10, <2>11,
       <2>12, <2>13, <2>14, <2>15, <2>16, <2>17, <2>18, <2>19, <2>20,
       <2>21, <2>22, <2>23
    DEF Next, ReceiveStep
<1>3. QED
  BY <1>1, <1>2, TypeCorrect, PTL DEF Spec

\* The slot serialises receives: while nobody cancels, two receive_file
\* invocations are never between reservation and release at the same time,
\* for any number of receives and hashes and with the history commands, bad
\* tickets, failed removals and relaunches interleaved at will.
THEOREM SlotSerialises == Spec => []OneDownload
<1>1. SlotHeld => OneDownload
  BY DEF SlotHeld, OneDownload
<1>2. QED
  BY <1>1, SlotInvariant, PTL

-----------------------------------------------------------------------------
(* Partial stores. *)

\* None of the three events that lose track of a partial store: a cancel while
\* another receive runs, a directory that cannot be removed, and a ticket that
\* does not parse, whose failure overwrites the stale entry.
Undisturbed == {"cancel", "rmfail", "badticket"} \cap Environment = {}

\* From taking the stale entry to releasing the slot.
Underway == {"remove", "reserve", "open", "store", "transfer", "closing",
             "epilogue"}

\* The session of the UI lets one receive at a time run that has not succeeded,
\* and while it runs no stale entry is written.
OneUnfinished ==
    /\ \A r \in Receives :
         /\ recv[r].pc \notin {"idle", "done"} /\ recv[r].result # "ok" => ui = r
         /\ recv[r].result = "ok" => recv[r].pc \in {"closing", "epilogue", "finalize", "done"}
         /\ recv[r].pc # "idle" => Hash(r) # None
         /\ recv[r].pc \in Underway => lastCancelled = None
         /\ recv[r].stale # None => recv[r].pc = "remove"
         /\ cancelSlot = r => InDownload(r)

\* A receive that will free or remember the store of its hash: one in download()
\* until it has succeeded, one about to reserve a slot that is free.
Keeps(r) ==
    \/ recv[r].pc \in {"open", "store", "transfer", "closing"}
    \/ recv[r].pc = "epilogue" /\ recv[r].result # "ok"
    \/ recv[r].pc \in {"remove", "reserve"} /\ cancelSlot = None

Kept(h) ==
    \/ lastCancelled = h
    \/ \E r \in Receives :
         \/ Hash(r) = h /\ (r \in cleanup \/ pointer[r] \/ Keeps(r))
         \/ recv[r].stale = h

StoresKept == \A h \in store : Kept(h)

\* Every step keeps the session serial.
LEMMA OneUnfinishedStep ==
    ASSUME TypeOK, SlotHeld, Undisturbed, OneUnfinished, [Next]_vars
    PROVE  OneUnfinished'
<1> USE NoneAssumption
    DEF TypeOK, SlotHeld, Undisturbed, OneUnfinished, Underway, InDownload, At, Hash
<1>1. ASSUME NEW r \in Receives, NEW h \in Hashes \cup {None}, Begin(r, h)
      PROVE  OneUnfinished'
  BY <1>1 DEF Begin, Busy
<1>2. ASSUME NEW r \in Receives, TakeStale(r)
      PROVE  OneUnfinished'
  BY <1>2 DEF TakeStale
<1>3. ASSUME NEW r \in Receives, RemoveStale(r)
      PROVE  OneUnfinished'
  BY <1>3 DEF RemoveStale
<1>4. ASSUME NEW r \in Receives, Reserve(r)
      PROVE  OneUnfinished'
  BY <1>4 DEF Reserve, Goto, Ends
<1>5. ASSUME NEW r \in Receives, OpenStore(r)
      PROVE  OneUnfinished'
  BY <1>5 DEF OpenStore, Goto
<1>6. ASSUME NEW r \in Receives, OpenFails(r)
      PROVE  OneUnfinished'
  BY <1>6 DEF OpenFails, Ends
<1>7. ASSUME NEW r \in Receives, CancelObserved(r)
      PROVE  OneUnfinished'
  BY <1>7 DEF CancelObserved, Ends
<1>8. ASSUME NEW r \in Receives, Close(r)
      PROVE  OneUnfinished'
  BY <1>8 DEF Close, Goto
<1>9. ASSUME NEW r \in Receives, Epilogue(r)
      PROVE  OneUnfinished'
  BY <1>9 DEF Epilogue, Goto
<1>10. ASSUME NEW r \in Receives, Finalize(r)
      PROVE  OneUnfinished'
  BY <1>10 DEF Finalize, Goto
<1>11. ASSUME NEW r \in Receives, SetupFails(r)
      PROVE  OneUnfinished'
  BY <1>11 DEF SetupFails, Ends
<1>12. ASSUME NEW r \in Receives, Started(r)
      PROVE  OneUnfinished'
  BY <1>12 DEF Started, Goto
<1>13. ASSUME NEW r \in Receives, Completes(r)
      PROVE  OneUnfinished'
  BY <1>13 DEF Completes, Ends
<1>14. ASSUME NEW r \in Receives, TransferFails(r)
      PROVE  OneUnfinished'
  BY <1>14 DEF TransferFails, Ends
<1>15. ASSUME NEW r \in Receives, CleanupRuns(r)
      PROVE  OneUnfinished'
  BY <1>15 DEF CleanupRuns
<1>16. ASSUME NEW r \in Receives, DeleteTransferRecord(r)
      PROVE  OneUnfinished'
  BY <1>16 DEF DeleteTransferRecord, DropRows, Reclaim
<1>17. ASSUME NEW r \in Receives, ClearTempDataCheck(r)
      PROVE  OneUnfinished'
  BY <1>17 DEF ClearTempDataCheck
<1>18. ASSUME NEW r \in Receives, ClearTempData(r)
      PROVE  OneUnfinished'
  BY <1>18 DEF ClearTempData
<1>19. CASE ClearTransferHistory
  BY <1>19 DEF ClearTransferHistory, DropRows, Reclaim
<1>20. CASE UserResets
  BY <1>20 DEF UserResets
<1>21. CASE CancelReceive
  BY <1>21 DEF CancelReceive
<1>22. CASE Relaunch
  <2>1. ASSUME NEW q \in Receives
        PROVE  /\ recv'[q].pc = IF recv[q].pc = "idle" THEN "idle" ELSE "done"
               /\ recv'[q].hash = recv[q].hash /\ recv'[q].result = recv[q].result
               /\ recv'[q].stale \in {None, recv[q].stale}
               /\ recv[q].pc = "idle" => recv'[q].stale = recv[q].stale
               /\ recv[q].pc # "idle" => recv'[q].stale = None
    <3>1. recv'[q] = IF recv[q].pc = "idle" THEN recv[q]
                     ELSE [recv[q] EXCEPT !.pc = "done", !.stale = None]
      BY <1>22 DEF Relaunch
    <3>2. QED
      BY <3>1
  <2>2. cancelSlot' = None /\ lastCancelled' = None /\ ui' = None
    BY <1>22 DEF Relaunch
  <2>3. QED
    BY <2>1, <2>2
<1>23. CASE UNCHANGED vars
  BY <1>23 DEF vars
<1>24. QED
  BY <1>1, <1>2, <1>3, <1>4, <1>5, <1>6, <1>7, <1>8, <1>9, <1>10, <1>11, <1>12, <1>13, <1>14, <1>15, <1>16, <1>17, <1>18, <1>19, <1>20, <1>21, <1>22, <1>23
     DEF Next, ReceiveStep

\* Every step leaves each store on disk with somebody who will see to it.
LEMMA StoresKeptStep ==
    ASSUME TypeOK, SlotHeld, Undisturbed, OneUnfinished, StoresKept, [Next]_vars
    PROVE  StoresKept'
<1> USE NoneAssumption
    DEF TypeOK, SlotHeld, Undisturbed, OneUnfinished, StoresKept, Kept, Keeps,
        Underway, InDownload, At, Hash
<1>1. ASSUME NEW r \in Receives, NEW h \in Hashes \cup {None}, Begin(r, h)
      PROVE  StoresKept'
  BY <1>1 DEF Begin, Busy
<1>2. ASSUME NEW r \in Receives, TakeStale(r)
      PROVE  StoresKept'
  BY <1>2 DEF TakeStale
<1>3. ASSUME NEW r \in Receives, RemoveStale(r)
      PROVE  StoresKept'
  BY <1>3 DEF RemoveStale
<1>4. ASSUME NEW r \in Receives, Reserve(r)
      PROVE  StoresKept'
  BY <1>4 DEF Reserve, Goto, Ends
<1>5. ASSUME NEW r \in Receives, OpenStore(r)
      PROVE  StoresKept'
  BY <1>5 DEF OpenStore, Goto
<1>6. ASSUME NEW r \in Receives, OpenFails(r)
      PROVE  StoresKept'
  BY <1>6 DEF OpenFails, Ends
<1>7. ASSUME NEW r \in Receives, CancelObserved(r)
      PROVE  StoresKept'
  BY <1>7 DEF CancelObserved, Ends
<1>8. ASSUME NEW r \in Receives, Close(r)
      PROVE  StoresKept'
  BY <1>8 DEF Close, Goto
<1>9. ASSUME NEW r \in Receives, Epilogue(r)
      PROVE  StoresKept'
  BY <1>9 DEF Epilogue, Goto
<1>10. ASSUME NEW r \in Receives, Finalize(r)
      PROVE  StoresKept'
  BY <1>10 DEF Finalize, Goto
<1>11. ASSUME NEW r \in Receives, SetupFails(r)
      PROVE  StoresKept'
  BY <1>11 DEF SetupFails, Ends
<1>12. ASSUME NEW r \in Receives, Started(r)
      PROVE  StoresKept'
  BY <1>12 DEF Started, Goto
<1>13. ASSUME NEW r \in Receives, Completes(r)
      PROVE  StoresKept'
  BY <1>13 DEF Completes, Ends
<1>14. ASSUME NEW r \in Receives, TransferFails(r)
      PROVE  StoresKept'
  BY <1>14 DEF TransferFails, Ends
<1>15. ASSUME NEW r \in Receives, CleanupRuns(r)
      PROVE  StoresKept'
  BY <1>15 DEF CleanupRuns
<1>16. ASSUME NEW r \in Receives, DeleteTransferRecord(r)
      PROVE  StoresKept'
  BY <1>16 DEF DeleteTransferRecord, DropRows, Reclaim
<1>17. ASSUME NEW r \in Receives, ClearTempDataCheck(r)
      PROVE  StoresKept'
  BY <1>17 DEF ClearTempDataCheck
<1>18. ASSUME NEW r \in Receives, ClearTempData(r)
      PROVE  StoresKept'
  BY <1>18 DEF ClearTempData
<1>19. CASE ClearTransferHistory
  BY <1>19 DEF ClearTransferHistory, DropRows, Reclaim
<1>20. CASE UserResets
  BY <1>20 DEF UserResets
<1>21. CASE CancelReceive
  BY <1>21 DEF CancelReceive
<1>22. CASE Relaunch
  BY <1>22 DEF Relaunch
<1>23. CASE UNCHANGED vars
  BY <1>23 DEF vars
<1>24. QED
  BY <1>1, <1>2, <1>3, <1>4, <1>5, <1>6, <1>7, <1>8, <1>9, <1>10, <1>11, <1>12, <1>13, <1>14, <1>15, <1>16, <1>17, <1>18, <1>19, <1>20, <1>21, <1>22, <1>23
     DEF Next, ReceiveStep

\* Every partial store on disk is known to a running receive, the stale entry, a
\* history row or a scheduled cleanup, for any number of receives and hashes, in
\* whatever order receives fail, succeed and are relaunched and rows are cleared.
\* The three events excluded do lose stores.  Needed beside it: the UI's session
\* lets one unfinished receive run at a time, during which the stale entry is
\* empty, and a receive that finds the slot taken answers for no store.
THEOREM StoresAreTracked ==
    ASSUME Undisturbed
    PROVE  Spec => []PartialStoresTracked
<1>1. Init => OneUnfinished /\ StoresKept
  BY NoneAssumption DEF Init, OneUnfinished, StoresKept, Hash, Underway, InDownload
<1>2. TypeOK /\ SlotHeld /\ (OneUnfinished /\ StoresKept) /\ [Next]_vars
        => (OneUnfinished /\ StoresKept)'
  BY OneUnfinishedStep, StoresKeptStep
<1>3. TypeOK /\ StoresKept => PartialStoresTracked
  BY DEF StoresKept, Kept, Keeps, PartialStoresTracked, Tracked
<1>4. QED
  BY <1>1, <1>2, <1>3, TypeCorrect, SlotInvariant, PTL DEF Spec
=============================================================================
