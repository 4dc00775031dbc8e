--------------------------- MODULE Devices_proof ----------------------------
(***************************************************************************)
(* Proofs about the devices page: the pairing window of the engine         *)
(* (PairingWindow), the controls that are busy while a command runs, the   *)
(* trust that is granted, the two lists (DeviceRows, NearbyList), and the  *)
(* types of all the parts, side by side (MCDevices).                       *)
(***************************************************************************)
EXTENDS MCDevices, TLAPS

-----------------------------------------------------------------------------
\* PairingWindow.

\* The commands, tasks and sessions keep their types.
LEMMA WindowTypes == WindowSpec => []WindowTypeOK
<1>1. WindowInit => WindowTypeOK
  BY DEF WindowInit, WindowTypeOK
<1>2. WindowTypeOK /\ [WindowNext]_windowVars => WindowTypeOK'
  <2> SUFFICES ASSUME WindowTypeOK, [WindowNext]_windowVars PROVE WindowTypeOK'
    OBVIOUS
  <2> USE DEF WindowTypeOK
  <2>1. ASSUME NEW c \in Commands, CallHost(c) \/ StopHost(c) \/ ShutHost(c)
        PROVE  WindowTypeOK'
    <3>1. CASE CallHost(c)
      BY <3>1 DEF CallHost
    <3>2. CASE StopHost(c)
      BY <3>2 DEF StopHost
    <3>3. CASE ShutHost(c)
      BY <3>3 DEF ShutHost
    <3>4. QED
      BY <2>1, <3>1, <3>2, <3>3
  <2>2. ASSUME NEW c \in Starts, OpenHost(c) \/ SpawnExpiry(c) \/ StoreExpiry(c)
        PROVE  WindowTypeOK'
    BY <2>2 DEF OpenHost, SpawnExpiry, StoreExpiry
  <2>3. ASSUME NEW t \in Starts, ExpiryFires(t) \/ ExpiryShuts(t) \/ ExpiryCancelled(t)
        PROVE  WindowTypeOK'
    BY <2>3 DEF ExpiryFires, ExpiryShuts, ExpiryCancelled
  <2>4. ASSUME NEW j \in Joiners,
               Accept(j) \/ HandleConnection(j) \/ PairingDecided(j) \/ PairingCloses(j)
        PROVE  WindowTypeOK'
    BY <2>4 DEF Accept, HandleConnection, PairingDecided, PairingCloses
  <2>5. CASE UNCHANGED windowVars
    BY <2>5 DEF windowVars
  <2>6. QED
    BY <2>1, <2>2, <2>3, <2>4, <2>5 DEF WindowNext
<1>3. QED
  BY <1>1, <1>2, PTL DEF WindowSpec

\* A task can be aborted only after its start has stored the handle, its last step.
AbortedIsStored ==
    \A t \in Starts : command[t] # "done" => t \notin aborted /\ handle # t

\* An expiry task is aborted, or stored as the handle, only after its start is done.
LEMMA AbortInvariant == WindowSpec => []AbortedIsStored
<1> USE DEF AbortedIsStored, WindowTypeOK, Commands
<1>1. WindowInit => AbortedIsStored
  BY WindowAssumption DEF WindowInit
<1>2. WindowTypeOK /\ AbortedIsStored /\ [WindowNext]_windowVars => AbortedIsStored'
  <2> SUFFICES ASSUME WindowTypeOK, AbortedIsStored, [WindowNext]_windowVars
               PROVE  AbortedIsStored'
    OBVIOUS
  <2>1. ASSUME NEW c \in Commands, CallHost(c) \/ ShutHost(c)
        PROVE  AbortedIsStored'
    BY <2>1 DEF CallHost, ShutHost
  <2>2. ASSUME NEW c \in Commands, StopHost(c)
        PROVE  AbortedIsStored'
    BY <2>2, WindowAssumption DEF StopHost
  <2>3. ASSUME NEW c \in Starts, OpenHost(c) \/ SpawnExpiry(c)
        PROVE  AbortedIsStored'
    BY <2>3 DEF OpenHost, SpawnExpiry
  <2>4. ASSUME NEW c \in Starts, StoreExpiry(c)
        PROVE  AbortedIsStored'
    BY <2>4 DEF StoreExpiry
  <2>5. ASSUME NEW t \in Starts, ExpiryFires(t) \/ ExpiryShuts(t) \/ ExpiryCancelled(t)
        PROVE  AbortedIsStored'
    BY <2>5 DEF ExpiryFires, ExpiryShuts, ExpiryCancelled
  <2>6. ASSUME NEW j \in Joiners,
               Accept(j) \/ HandleConnection(j) \/ PairingDecided(j) \/ PairingCloses(j)
        PROVE  AbortedIsStored'
    BY <2>6 DEF Accept, HandleConnection, PairingDecided, PairingCloses
  <2>7. CASE UNCHANGED windowVars
    BY <2>7 DEF windowVars
  <2>8. QED
    BY <2>1, <2>2, <2>3, <2>4, <2>5, <2>6, <2>7 DEF WindowNext
<1>3. QED
  BY <1>1, <1>2, WindowTypes, PTL DEF WindowSpec

\* A window that accepts strangers is never left open, for any number of starts,
\* stops and joining peers: what takes the last closer away closes the window
\* itself or is at the lock to do so.
THEOREM WindowAlwaysCloses == WindowSpec => []WindowHasCloser
<1>1. WindowInit => WindowHasCloser
  BY DEF WindowInit, WindowHasCloser
<1>2. WindowTypeOK /\ AbortedIsStored /\ WindowHasCloser /\ [WindowNext]_windowVars
        => WindowHasCloser'
  <2> SUFFICES ASSUME WindowTypeOK, AbortedIsStored, WindowHasCloser,
                      [WindowNext]_windowVars, accepting'
               PROVE  \/ \E c \in Commands : command'[c] \in {"shut", "spawn"}
                      \/ \E t \in Starts : ClosesWindow(t)'
    BY DEF WindowHasCloser
  <2> DEFINE Closer == \/ \E c \in Commands : command[c] \in {"shut", "spawn"}
                       \/ \E t \in Starts : ClosesWindow(t)
  <2>0. accepting => Closer
    BY DEF WindowHasCloser
  <2> USE DEF WindowTypeOK, ClosesWindow
  <2>1. ASSUME NEW d \in Commands, CallHost(d)
        PROVE  Closer'
    BY <2>0, <2>1 DEF CallHost
  <2>2. ASSUME NEW d \in Commands, StopHost(d)
        PROVE  Closer'
    <3>1. command'[d] = "shut"
      BY <2>2 DEF StopHost
    <3>2. QED
      BY <3>1
  <2>3. ASSUME NEW d \in Commands, ShutHost(d)
        PROVE  Closer'
    BY <2>3 DEF ShutHost
  <2>4. ASSUME NEW d \in Starts, OpenHost(d)
        PROVE  Closer'
    <3>1. command'[d] = "spawn" /\ d \in Commands
      BY <2>4 DEF OpenHost, Commands
    <3>2. QED
      BY <3>1
  <2>5. ASSUME NEW d \in Starts, SpawnExpiry(d)
        PROVE  Closer'
    <3>1. d \notin aborted
      BY <2>5 DEF SpawnExpiry, AbortedIsStored
    <3>2. ClosesWindow(d)'
      BY <2>5, <3>1 DEF SpawnExpiry
    <3>3. QED
      BY <3>2
  <2>6. ASSUME NEW d \in Starts, StoreExpiry(d)
        PROVE  Closer'
    BY <2>0, <2>6 DEF StoreExpiry
  <2>7. ASSUME NEW d \in Starts, ExpiryFires(d)
        PROVE  Closer'
    BY <2>0, <2>7 DEF ExpiryFires
  <2>8. ASSUME NEW d \in Starts, ExpiryShuts(d)
        PROVE  FALSE
    BY <2>8 DEF ExpiryShuts
  <2>9. ASSUME NEW d \in Starts, ExpiryCancelled(d)
        PROVE  Closer'
    BY <2>0, <2>9 DEF ExpiryCancelled
  <2>10. ASSUME NEW j \in Joiners,
                Accept(j) \/ HandleConnection(j) \/ PairingDecided(j) \/ PairingCloses(j)
         PROVE  Closer'
    BY <2>0, <2>10 DEF Accept, HandleConnection, PairingDecided, PairingCloses
  <2>11. CASE UNCHANGED windowVars
    BY <2>0, <2>11 DEF windowVars
  <2>12. QED
    BY <2>1, <2>2, <2>3, <2>4, <2>5, <2>6, <2>7, <2>8, <2>9, <2>10, <2>11
       DEF WindowNext
<1>3. QED
  BY <1>1, <1>2, WindowTypes, AbortInvariant, PTL DEF WindowSpec
-----------------------------------------------------------------------------

\* A sequence with one entry taken out, or one appended.
LEMMA WithoutSeq ==
    ASSUME NEW T, NEW q \in Seq(T), NEW i \in DOMAIN q
    PROVE  LET w == SubSeq(q, 1, i - 1) \o SubSeq(q, i + 1, Len(q)) IN
           /\ w \in Seq(T) /\ Len(w) = Len(q) - 1
           /\ \A k \in DOMAIN w : /\ k \in DOMAIN q /\ k + 1 \in DOMAIN q
                                  /\ w[k] = IF k < i THEN q[k] ELSE q[k + 1]
           /\ \A k \in DOMAIN q : /\ k < i => k \in DOMAIN w /\ w[k] = q[k]
                                  /\ k > i => k - 1 \in DOMAIN w /\ w[k - 1] = q[k]
<1>1. i \in 1..Len(q) /\ Len(q) \in Nat
  OBVIOUS
<1> DEFINE a == SubSeq(q, 1, i - 1)
           b == SubSeq(q, i + 1, Len(q))
<1>2. a \in Seq(T) /\ Len(a) = i - 1 /\ \A k \in 1..(i - 1) : a[k] = q[k]
  BY <1>1
<1>3. b \in Seq(T) /\ Len(b) = Len(q) - i /\ \A k \in 1..(Len(q) - i) : b[k] = q[i + k]
  BY <1>1
<1> HIDE DEF a, b
<1>4. /\ a \o b \in Seq(T) /\ Len(a \o b) = Len(q) - 1
      /\ \A k \in 1..(Len(q) - 1) : (a \o b)[k] = IF k < i THEN q[k] ELSE q[k + 1]
  <2>1. a \o b \in Seq(T) /\ Len(a \o b) = Len(q) - 1
    BY <1>1, <1>2, <1>3
  <2>2. ASSUME NEW k \in 1..(Len(q) - 1)
        PROVE  (a \o b)[k] = IF k < i THEN q[k] ELSE q[k + 1]
    <3>1. CASE k < i
      BY <1>1, <1>2, <1>3, <3>1
    <3>2. CASE ~(k < i)
      <4>1. k - (i - 1) \in 1..(Len(q) - i) /\ i + (k - (i - 1)) = k + 1
        BY <1>1, <3>2
      <4>2. (a \o b)[k] = b[k - (i - 1)]
        BY <1>1, <1>2, <1>3, <3>2
      <4>3. QED
        BY <1>3, <3>2, <4>1, <4>2
    <3>3. QED
      BY <3>1, <3>2
  <2>3. QED
    BY <2>1, <2>2
<1> DEFINE w == a \o b
<1>5. DOMAIN q = 1..Len(q) /\ DOMAIN w = 1..(Len(q) - 1)
  BY <1>1, <1>4
<1> HIDE DEF w
<1>6. /\ w \in Seq(T) /\ Len(w) = Len(q) - 1
      /\ \A k \in 1..(Len(q) - 1) : w[k] = IF k < i THEN q[k] ELSE q[k + 1]
  BY <1>4 DEF w
<1>7. /\ \A k \in DOMAIN w : /\ k \in DOMAIN q /\ k + 1 \in DOMAIN q
                             /\ w[k] = IF k < i THEN q[k] ELSE q[k + 1]
      /\ \A k \in DOMAIN q : /\ k < i => k \in DOMAIN w /\ w[k] = q[k]
                             /\ k > i => k - 1 \in DOMAIN w /\ w[k - 1] = q[k]
  BY <1>1, <1>5, <1>6
<1>8. QED
  BY <1>6, <1>7 DEF w, a, b

\* An element appended to a sequence is its last one.
LEMMA AppendSeq ==
    ASSUME NEW T, NEW q \in Seq(T), NEW e \in T
    PROVE  /\ Append(q, e) \in Seq(T) /\ Len(Append(q, e)) = Len(q) + 1
           /\ \A k \in DOMAIN q : k \in DOMAIN Append(q, e) /\ Append(q, e)[k] = q[k]
           /\ Len(q) + 1 \in DOMAIN Append(q, e) /\ Append(q, e)[Len(q) + 1] = e
           /\ \A k \in DOMAIN Append(q, e) : k \in DOMAIN q \/ k = Len(q) + 1
OBVIOUS

\* The tail of a sequence is the rest, one position earlier.
LEMMA TailSeq ==
    ASSUME NEW T, NEW q \in Seq(T), q # <<>>
    PROVE  /\ Tail(q) \in Seq(T) /\ Len(Tail(q)) = Len(q) - 1 /\ Head(q) = q[1]
           /\ 1 \in DOMAIN q /\ q[1] \in T
           /\ \A k \in DOMAIN Tail(q) : k + 1 \in DOMAIN q /\ Tail(q)[k] = q[k + 1]
           /\ \A k \in DOMAIN q : k > 1 => k - 1 \in DOMAIN Tail(q) /\ Tail(q)[k - 1] = q[k]
OBVIOUS

-----------------------------------------------------------------------------
\* A step of the page is a step of one of its parts, and a stutter of the others.
LEMMA DeviceParts ==
    ASSUME [Next]_vars
    PROVE  /\ [HostPairingNext]_hostPairingVars /\ [WindowNext]_windowVars
           /\ [DeviceRowsNext]_deviceRowsVars /\ [NearbyListNext]_nearbyListVars
           /\ [AskNext \/ PromptNext]_nearbyPairingVars /\ [NodeStatusNext]_nodeStatusVars
BY DEF Next, vars

-----------------------------------------------------------------------------
\* Busy controls.

\* The buttons of the pairing panel stay with their commands (HostPairing).
LEMMA HostKeepsBusy ==
    ASSUME PageBusyHasCall, [HostPairingNext]_hostPairingVars
    PROVE  PageBusyHasCall'
<1> USE DEF PageBusyHasCall, joinVars, nameVars, hostVars
<1>1. CASE UNCHANGED hostPairingVars
  BY <1>1 DEF hostPairingVars
<1>2. CASE HostCloses("paired") \/ HostCloses("expired") \/ HostStarts \/ HostStops
  BY <1>2 DEF HostCloses, HostStarts, HostStops
<1>3. CASE CopyPairingCode \/ CloseHostPairing \/ TicketEffect
  BY <1>3 DEF CopyPairingCode, CloseHostPairing, TicketEffect
<1>4. CASE OpenHostPairingEnds
  BY <1>4 DEF OpenHostPairingEnds
<1>5. CASE Countdown \/ OnHostEvent \/ CopiedFades
  BY <1>5 DEF Countdown, OnHostEvent, CopiedFades
<1>6. CASE OpenJoin \/ HandleJoin \/ PeerJoined \/ JoinEnds
  BY <1>6 DEF OpenJoin, HandleJoin, PeerJoined, JoinEnds
<1>7. CASE OpenRename \/ CloseRename \/ HandleSaveName \/ NameSaved \/ SaveNameEnds
  BY <1>7 DEF OpenRename, CloseRename, HandleSaveName, NameSaved, SaveNameEnds
<1>9. CASE TypeCode \/ CloseJoin
  <2>1. UNCHANGED <<isLoading, start, isJoining, joinCall, nameSaving, nameCall>>
    BY <1>9 DEF TypeCode, CloseJoin
  <2>2. QED
    BY <2>1
<1>8. QED
  BY <1>1, <1>2, <1>3, <1>4, <1>5, <1>6, <1>7, <1>9 DEF HostPairingNext

\* A removal is marked for a device that has a call.
RemovalsOK ==
    /\ forgetCall \in [Devices -> RowCalls] /\ forgettingIds \subseteq Devices
    /\ forgetPeer \in Devices \cup {NoDevice}
    /\ RemovingHasCall

\* A mark of a row being removed stays with its command (handleForget).
LEMMA RowsKeepRemovals ==
    ASSUME RemovalsOK, [DeviceRowsNext]_deviceRowsVars
    PROVE  RemovalsOK'
<1> USE DEF RemovalsOK, RemovingHasCall, RowCalls, listVars, dialogVars
<1>1. CASE UNCHANGED deviceRowsVars
  BY <1>1 DEF deviceRowsVars
<1>2. ASSUME (\E i \in DOMAIN unread : ReloadReads(i)) \/ \E i \in DOMAIN answers : ReloadEnds(i)
      PROVE  RemovalsOK'
  BY <1>2 DEF ReloadReads, ReloadEnds
<1>3. ASSUME NEW d \in Devices, PeerChanges(d) \/ ToggleTrust(d) PROVE RemovalsOK'
  BY <1>3 DEF PeerChanges, ToggleTrust
<1>4. ASSUME NEW d \in Devices, NEW i \in DOMAIN trustCalls[d], TrustRuns(d, i) \/ TrustFails(d, i)
      PROVE  RemovalsOK'
  BY <1>4 DEF TrustRuns, TrustFails
<1>5. ASSUME NEW d \in Devices, OpenForget(d) \/ OpenRenamePeer(d) PROVE RemovalsOK'
  BY <1>5 DEF OpenForget, OpenRenamePeer
<1>6. ASSUME NEW d \in Devices, ForgetRuns(d) PROVE RemovalsOK'
  BY <1>6 DEF ForgetRuns
<1>7. ASSUME NEW d \in Devices, ForgetReloads(d) PROVE RemovalsOK'
  BY <1>7 DEF ForgetReloads
<1>8. ASSUME NEW d \in Devices, ForgetEnds(d) PROVE RemovalsOK'
  BY <1>8 DEF ForgetEnds
<1>9. ASSUME NEW d \in Devices, RenameRuns(d) \/ RenameEnds(d) PROVE RemovalsOK'
  BY <1>9 DEF RenameRuns, RenameEnds
<1>10. CASE OnUnpairedOrPaired \/ ConfirmTrust \/ CloseDialog \/ SaveRename
  BY <1>10 DEF OnUnpairedOrPaired, ConfirmTrust, CloseDialog, SaveRename
<1>11. CASE ConfirmForget
  BY <1>11 DEF ConfirmForget
<1>12. QED
  BY <1>1, <1>2, <1>3, <1>4, <1>5, <1>6, <1>7, <1>8, <1>9, <1>10, <1>11 DEF DeviceRowsNext

\* A request that is answered as delivered was delivered.
AsksOK ==
    /\ pairState \in [Others -> {"none", "pairing", "sent", "failed"}]
    /\ pairCalls \in [Others -> Nat] /\ landed \in [Others -> Nat]
    /\ \A d \in Others : landed[d] > 0 => d \in reached
    /\ PairingHasCall /\ CodeOnlyIfDelivered

\* A nearby row being paired, and the code to read out, stay with the request.
LEMMA AskKeepsCalls ==
    ASSUME AsksOK, [AskNext \/ PromptNext]_nearbyPairingVars
    PROVE  AsksOK'
<1> USE NearbyPairingAssumption DEF AsksOK, PairingHasCall, CodeOnlyIfDelivered, askVars
<1>1. CASE PromptNext \/ UNCHANGED nearbyPairingVars
  BY <1>1 DEF nearbyPairingVars, PromptNext, RequestArrives, RequestSorted, PairedDevicesLoad,
              RenderPrompt, AcceptRequest, DeclineRequest
<1>2. ASSUME NEW d \in Others, HandlePair(d) PROVE AsksOK'
  BY <1>2 DEF HandlePair
<1>3. ASSUME NEW d \in Others, PairRequestLands(d) PROVE AsksOK'
  BY <1>3 DEF PairRequestLands
<1>4. ASSUME NEW d \in Others, PairDelivered(d) PROVE AsksOK'
  BY <1>4 DEF PairDelivered
<1>5. ASSUME NEW d \in Others, PairFails(d) PROVE AsksOK'
  BY <1>5 DEF PairFails
<1>6. ASSUME NEW d \in Others, PairStateFades(d) PROVE AsksOK'
  BY <1>6 DEF PairStateFades
<1>7. ASSUME NEW d \in Others, OnPairResponse(d) PROVE AsksOK'
  BY <1>7 DEF OnPairResponse
<1>8. CASE ClearVerification
  BY <1>8 DEF ClearVerification
<1>9. QED
  BY <1>1, <1>2, <1>3, <1>4, <1>5, <1>6, <1>7, <1>8 DEF AskNext

\* No control of the devices page is left busy without a command that answers, and
\* the code is read out only for a request that arrived (usePairing, PairedDevices,
\* NearbyDevices).
THEOREM BusyIsAnswered == Spec => []BusyHasCall
<1> DEFINE Inv == PageBusyHasCall /\ RemovalsOK /\ AsksOK
<1>1. ASSUME Init PROVE Inv
  <2>1. PageBusyHasCall
    BY <1>1 DEF Init, HostPairingInit, PageBusyHasCall
  <2>2. RemovalsOK
    BY <1>1 DEF Init, DeviceRowsInit, RemovalsOK, RemovingHasCall, RowCalls
  <2>3. AsksOK
    BY <1>1 DEF Init, NearbyPairingInit, AsksOK, PairingHasCall, CodeOnlyIfDelivered
  <2>4. QED
    BY <2>1, <2>2, <2>3
<1>2. Inv /\ [Next]_vars => Inv'
  BY DeviceParts, HostKeepsBusy, RowsKeepRemovals, AskKeepsCalls
<1>3. Inv => BusyHasCall
  BY DEF RemovalsOK, AsksOK, BusyHasCall
<1>4. QED
  BY <1>1, <1>2, <1>3, PTL DEF Spec

-----------------------------------------------------------------------------
\* The rows of the paired devices.

TrustRec == [to : BOOLEAN, failed : BOOLEAN, dialog : BOOLEAN]
ListAnswer == [for : Caller, list : [Devices -> Row]]

\* The part of the types that the proofs about the list need.
RowsOK ==
    /\ records \in [Devices -> Row] /\ rows \in [Devices -> Row]
    /\ rowNews \in Nat
    /\ unread \in Seq(Caller) /\ answers \in Seq(ListAnswer)
    /\ trustCalls \in [Devices -> Seq(TrustRec)]
    /\ forgetCall \in [Devices -> RowCalls]
    /\ trustPeer \in Devices \cup {NoDevice}
    /\ forgetPeer \in Devices \cup {NoDevice}

\* Every command that grants trust, and every trust that a record holds, was confirmed.
TrustsConfirmed ==
    \A d \in Devices :
        /\ records[d].trusted = TRUE => d \in confirmed
        /\ \A i \in DOMAIN trustCalls[d] : trustCalls[d][i].to = TRUE => d \in confirmed

\* The fields of a row.
LEMMA RowFields ==
    ASSUME NEW r \in Row
    PROVE  r.trusted \in BOOLEAN /\ (r # Absent => r \in Paired)
<1>1. CASE r = Absent
  BY <1>1, Zenon DEF Absent
<1>2. CASE r \in Paired
  BY <1>2 DEF Paired
<1>3. QED
  BY <1>1, <1>2 DEF Row

\* Trust given or taken changes the flag of a row that is there, and nothing else.
LEMMA TrustOfRow ==
    ASSUME NEW r \in Row, NEW on \in BOOLEAN
    PROVE  /\ Trusting(r, on) \in Row
           /\ Trusting(r, on).trusted = TRUE => on = TRUE \/ r.trusted = TRUE
           /\ r # Absent => Trusting(r, on) = [r EXCEPT !.trusted = on]
<1>1. CASE r = Absent
  BY <1>1, Zenon DEF Trusting
<1>2. CASE r # Absent
  <2>1. r \in Paired /\ Trusting(r, on) = [r EXCEPT !.trusted = on]
    BY <1>2 DEF Row, Trusting
  <2>2. [r EXCEPT !.trusted = on] \in Paired
    BY <2>1 DEF Paired
  <2>3. [r EXCEPT !.trusted = on].trusted = on
    BY <2>1 DEF Paired
  <2>4. QED
    BY <2>1, <2>2, <2>3 DEF Row
<1>3. QED
  BY <1>1, <1>2

\* Trust that is given and taken again leaves the row as it was.
LEMMA TrustUndone ==
    ASSUME NEW r \in Paired, NEW on \in BOOLEAN, NEW off \in BOOLEAN,
           r.trusted = off, on # off
    PROVE  Trusting(Trusting(r, on), off) = r
<1>1. r # Absent /\ [r EXCEPT !.trusted = on] # Absent
  BY DEF Paired, Absent
<1>2. [[r EXCEPT !.trusted = on] EXCEPT !.trusted = off] = r
  BY DEF Paired
<1>3. QED
  BY <1>1, <1>2 DEF Trusting

\* A peer that pairs or unpairs keeps the flag.
LEMMA PairingOfRow ==
    ASSUME NEW r \in Row, NEW p \in {"active", "unpaired"}
    PROVE  [r EXCEPT !.pairing = p] \in Row /\ [r EXCEPT !.pairing = p].trusted = r.trusted
<1>1. CASE r = Absent
  BY <1>1 DEF Absent, Row, Paired
<1>2. CASE r \in Paired
  BY <1>2 DEF Row, Paired
<1>3. QED
  BY <1>1, <1>2 DEF Row

\* The record of a trust command that was just made.
LEMMA TrustCallRec ==
    ASSUME NEW on \in BOOLEAN, NEW inDialog \in BOOLEAN
    PROVE  /\ [to |-> on, failed |-> FALSE, dialog |-> inDialog] \in TrustRec
           /\ [to |-> on, failed |-> FALSE, dialog |-> inDialog].to = on
BY Zenon DEF TrustRec

\* A trust command that failed keeps what it asked for.
LEMMA TrustCallFails ==
    ASSUME NEW c \in TrustRec
    PROVE  [c EXCEPT !.failed = TRUE] \in TrustRec /\ [c EXCEPT !.failed = TRUE].to = c.to
BY DEF TrustRec

\* What a trust command does to the calls.
LEMMA TrustDeviceCalls ==
    ASSUME RowsOK, NEW d \in Devices, NEW on \in BOOLEAN, NEW inDialog \in BOOLEAN,
           TrustDevice(d, on, inDialog)
    PROVE  /\ trustCalls' \in [Devices -> Seq(TrustRec)]
           /\ \E c \in TrustRec : c.to = on /\ trustCalls' = [trustCalls EXCEPT ![d] = Append(@, c)]
           /\ rows' \in [Devices -> Row]
<1>1. PICK c \in TrustRec : c.to = on /\ trustCalls' = [trustCalls EXCEPT ![d] = Append(@, c)]
  BY TrustCallRec, Zenon DEF TrustDevice
<1>2. trustCalls[d] \in Seq(TrustRec)
  BY DEF RowsOK
<1>3. Append(trustCalls[d], c) \in Seq(TrustRec)
  BY <1>2, AppendSeq
<1>4. trustCalls' \in [Devices -> Seq(TrustRec)]
  BY <1>1, <1>3 DEF RowsOK
<1>5. rows' \in [Devices -> Row]
  <2>1. rows[d] \in Row /\ Trusting(rows[d], on) \in Row
    BY TrustOfRow DEF RowsOK
  <2>2. rows' = [rows EXCEPT ![d] = Trusting(rows[d], on)]
    BY DEF TrustDevice, ApplyTrust
  <2>3. QED
    BY <2>1, <2>2 DEF RowsOK
<1>6. QED
  BY <1>1, <1>4, <1>5

\* What the end of one does.
LEMMA TrustEndsCalls ==
    ASSUME RowsOK, NEW d \in Devices, NEW i \in DOMAIN trustCalls[d],
           TrustRuns(d, i) \/ TrustFails(d, i)
    PROVE  /\ trustCalls' \in [Devices -> Seq(TrustRec)]
           /\ \A e \in Devices : e # d => trustCalls'[e] = trustCalls[e]
           /\ \A k \in DOMAIN trustCalls'[d] : \E j \in DOMAIN trustCalls[d] :
                trustCalls'[d][k].to = trustCalls[d][j].to
           /\ \/ Len(trustCalls'[d]) = Len(trustCalls[d]) - 1
              \/ /\ Len(trustCalls'[d]) = Len(trustCalls[d]) /\ UNCHANGED records
                 /\ TrustRuns(d, i)
                 /\ \A k \in DOMAIN trustCalls[d] : trustCalls'[d][k].to = trustCalls[d][k].to
<1> DEFINE q == trustCalls[d]
<1>1. q \in Seq(TrustRec)
  BY DEF RowsOK
<1>2. CASE trustCalls' = [trustCalls EXCEPT ![d] = WithoutAt(@, i)]
  <2>1. trustCalls'[d] = WithoutAt(q, i) /\ \A e \in Devices : e # d => trustCalls'[e] = trustCalls[e]
    BY <1>2 DEF RowsOK
  <2>2. /\ WithoutAt(q, i) \in Seq(TrustRec) /\ Len(WithoutAt(q, i)) = Len(q) - 1
        /\ \A k \in DOMAIN WithoutAt(q, i) : \E j \in DOMAIN q : WithoutAt(q, i)[k] = q[j]
    <3> HIDE DEF q
    <3> QED
      BY <1>1, WithoutSeq DEF WithoutAt, q
  <2>3. trustCalls' \in [Devices -> Seq(TrustRec)]
    BY <1>2, <2>2 DEF RowsOK
  <2>4. QED
    BY <2>1, <2>2, <2>3
<1>3. CASE trustCalls' = [trustCalls EXCEPT ![d][i].failed = TRUE] /\ UNCHANGED records /\ TrustRuns(d, i)
  <2>1. q[i] \in TrustRec
    BY <1>1
  <2>2. PICK c \in TrustRec : c = [q[i] EXCEPT !.failed = TRUE] /\ c.to = q[i].to
    BY <2>1, TrustCallFails
  <2>3. trustCalls' = [trustCalls EXCEPT ![d] = [q EXCEPT ![i] = c]]
    BY <1>3, <2>2
  <2>4. /\ [q EXCEPT ![i] = c] \in Seq(TrustRec) /\ Len([q EXCEPT ![i] = c]) = Len(q)
        /\ \A k \in DOMAIN q : [q EXCEPT ![i] = c][k].to = q[k].to
        /\ DOMAIN [q EXCEPT ![i] = c] = DOMAIN q
    <3> HIDE DEF q
    <3> QED
      BY <1>1, <2>2 DEF q
  <2>5. trustCalls'[d] = [q EXCEPT ![i] = c] /\ \A e \in Devices : e # d => trustCalls'[e] = trustCalls[e]
    BY <2>3 DEF RowsOK
  <2>6. trustCalls' \in [Devices -> Seq(TrustRec)]
    BY <2>3, <2>4 DEF RowsOK
  <2>7. QED
    BY <1>3, <2>4, <2>5, <2>6
<1>4. QED
  BY <1>2, <1>3 DEF TrustRuns, TrustFails

\* A peer that pairs or unpairs leaves every flag as it was.
LEMMA PeerKeepsFlags ==
    ASSUME RowsOK, NEW d \in Devices, PeerChanges(d)
    PROVE  /\ records' \in [Devices -> Row]
           /\ \A e \in Devices : records'[e].trusted = records[e].trusted
<1>1. PICK p \in {"active", "unpaired"} : records' = [records EXCEPT ![d] = [@ EXCEPT !.pairing = p]]
  BY DEF PeerChanges, RowsOK
<1>2. records[d] \in Row
  BY DEF RowsOK
<1>3. /\ [records[d] EXCEPT !.pairing = p] \in Row
      /\ [records[d] EXCEPT !.pairing = p].trusted = records[d].trusted
  BY <1>2, PairingOfRow
<1>4. QED
  BY <1>1, <1>3 DEF RowsOK

\* A trust command that runs sets the record of its device, or fails.
LEMMA TrustRunsRecord ==
    ASSUME RowsOK, NEW d \in Devices, NEW i \in DOMAIN trustCalls[d], TrustRuns(d, i)
    PROVE  /\ records' \in [Devices -> Row]
           /\ trustCalls[d][i].to \in BOOLEAN
           /\ \/ UNCHANGED records /\ trustCalls' = [trustCalls EXCEPT ![d][i].failed = TRUE]
              \/ records' = [records EXCEPT ![d] = Trusting(@, trustCalls[d][i].to)]
<1>1. trustCalls[d][i].to \in BOOLEAN
  <2>1. trustCalls[d][i] \in TrustRec
    BY DEF RowsOK
  <2>2. QED
    BY <2>1 DEF TrustRec
<1>2. \/ UNCHANGED records /\ trustCalls' = [trustCalls EXCEPT ![d][i].failed = TRUE]
      \/ records' = [records EXCEPT ![d] = Trusting(@, trustCalls[d][i].to)]
  BY DEF TrustRuns
<1> DEFINE to == trustCalls[d][i].to
<1>3. to \in BOOLEAN /\ records[d] \in Row
  BY <1>1 DEF RowsOK
<1> HIDE DEF to
<1>4. Trusting(records[d], to) \in Row
  BY <1>3, TrustOfRow
<1>5. UNCHANGED records \/ records' = [records EXCEPT ![d] = Trusting(records[d], to)]
  BY <1>2 DEF to
<1>6. records' \in [Devices -> Row]
  BY <1>4, <1>5 DEF RowsOK
<1>7. QED
  BY <1>1, <1>2, <1>6

\* A trust command that failed is rolled back in the list.
LEMMA TrustFailsRow ==
    ASSUME RowsOK, NEW d \in Devices, NEW i \in DOMAIN trustCalls[d], TrustFails(d, i)
    PROVE  /\ rows' \in [Devices -> Row] /\ UNCHANGED records
           /\ \A e \in Devices : e # d => rows'[e] = rows[e]
           /\ \E off \in BOOLEAN : /\ (off = TRUE) <=> ~(trustCalls[d][i].to = TRUE)
                                   /\ rows'[d] = Trusting(rows[d], off)
<1>1. trustCalls[d][i].to \in BOOLEAN
  <2>1. trustCalls[d][i] \in TrustRec
    BY DEF RowsOK
  <2>2. QED
    BY <2>1 DEF TrustRec
<1>2. PICK off \in BOOLEAN : off = ~trustCalls[d][i].to
  OBVIOUS
<1>3. rows' = [rows EXCEPT ![d] = Trusting(rows[d], off)] /\ UNCHANGED records
  BY <1>2, Zenon DEF TrustFails, ApplyTrust
<1>4. rows[d] \in Row /\ Trusting(rows[d], off) \in Row
  BY TrustOfRow DEF RowsOK
<1>5. /\ rows' \in [Devices -> Row] /\ \A e \in Devices : e # d => rows'[e] = rows[e]
      /\ rows'[d] = Trusting(rows[d], off)
  BY <1>3, <1>4 DEF RowsOK
<1>6. (off = TRUE) <=> ~(trustCalls[d][i].to = TRUE)
  BY <1>1, <1>2
<1>7. QED
  BY <1>3, <1>5, <1>6

\* The callers of hydrate.
LEMMA Callers ==
    /\ [by |-> "event", id |-> NoDevice] \in Caller
    /\ \A d \in Devices : /\ [by |-> "forget", id |-> d] \in Caller
                          /\ [by |-> "rename", id |-> d] \in Caller
BY DEF Caller

\* A reload that is asked for.
LEMMA ReloadAsked ==
    ASSUME RowsOK, NEW who \in Caller, Reload(who)
    PROVE  /\ unread' \in Seq(Caller) /\ Len(unread') = Len(unread) + 1 /\ unread' # <<>>
           /\ UNCHANGED answers
           /\ ~disturbed' => ~disturbed /\ ~TrustBusy
<1>1. unread' = Append(unread, who) /\ unread \in Seq(Caller) /\ UNCHANGED answers
  BY DEF Reload, RowsOK
<1>2. unread' \in Seq(Caller) /\ Len(unread') = Len(unread) + 1 /\ unread' # <<>>
  BY <1>1, AppendSeq
<1>3. ~disturbed' => ~disturbed /\ ~TrustBusy
  BY DEF Reload
<1>4. QED
  BY <1>1, <1>2, <1>3

\* A reload that reads the records.
LEMMA ReloadHasRead ==
    ASSUME RowsOK, NEW i \in DOMAIN unread, ReloadReads(i)
    PROVE  /\ unread' \in Seq(Caller) /\ Len(unread') = Len(unread) - 1
           /\ answers' \in Seq(ListAnswer) /\ Len(answers') = Len(answers) + 1
           /\ answers' # <<>> /\ answers'[Len(answers')].list = records
<1>1. unread \in Seq(Caller) /\ answers \in Seq(ListAnswer) /\ unread[i] \in Caller
  BY DEF RowsOK
<1>2. unread' \in Seq(Caller) /\ Len(unread') = Len(unread) - 1
  BY <1>1, WithoutSeq DEF ReloadReads, WithoutAt
<1> DEFINE a == [for |-> unread[i], list |-> records]
<1>3. a \in ListAnswer /\ a.list = records
  BY <1>1 DEF ListAnswer, RowsOK
<1>4. answers' = Append(answers, a)
  BY DEF ReloadReads
<1> HIDE DEF a
<1>5. /\ answers' \in Seq(ListAnswer) /\ Len(answers') = Len(answers) + 1
      /\ answers'[Len(answers) + 1] = a /\ answers' # <<>>
  BY <1>1, <1>3, <1>4, AppendSeq
<1>6. QED
  BY <1>2, <1>3, <1>5

\* An answer that is applied, or whose reload failed.
LEMMA ReloadHasEnded ==
    ASSUME RowsOK, NEW i \in DOMAIN answers, ReloadEnds(i)
    PROVE  /\ answers' \in Seq(ListAnswer) /\ Len(answers') = Len(answers) - 1
           /\ UNCHANGED unread /\ rows' \in [Devices -> Row]
           /\ i \in 1..Len(answers) /\ Len(answers) \in Nat
           /\ answers[i].list \in [Devices -> Row]
           /\ \A k \in 1..(Len(answers) - 1) :
                answers'[k] = IF k < i THEN answers[k] ELSE answers[k + 1]
<1>1. answers \in Seq(ListAnswer) /\ answers[i] \in ListAnswer
  BY DEF RowsOK
<1>2. answers[i].list \in [Devices -> Row]
  BY <1>1 DEF ListAnswer
<1>3. answers' = WithoutAt(answers, i) /\ UNCHANGED unread
  BY DEF ReloadEnds
<1>4. /\ answers' \in Seq(ListAnswer) /\ Len(answers') = Len(answers) - 1
      /\ \A k \in DOMAIN answers' : answers'[k] = IF k < i THEN answers[k] ELSE answers[k + 1]
  <2> DEFINE w == WithoutAt(answers, i)
  <2>1. /\ w \in Seq(ListAnswer) /\ Len(w) = Len(answers) - 1
        /\ \A k \in DOMAIN w : w[k] = IF k < i THEN answers[k] ELSE answers[k + 1]
    BY <1>1, WithoutSeq DEF WithoutAt
  <2>2. answers' = w
    BY <1>3
  <2> HIDE DEF w
  <2>3. QED
    BY <2>1, <2>2
<1>5. rows' \in [Devices -> Row]
  BY <1>2 DEF ReloadEnds, RowsOK
<1>6. DOMAIN answers' = 1..(Len(answers) - 1) /\ i \in 1..Len(answers) /\ Len(answers) \in Nat
  BY <1>1, <1>4
<1>7. QED
  BY <1>2, <1>3, <1>4, <1>5, <1>6

\* The rows part of the page keeps its types.
LEMMA RowsKeepTypes ==
    ASSUME RowsOK, [DeviceRowsNext]_deviceRowsVars
    PROVE  RowsOK'
<1>. USE DEF reloadVars
<1>1. CASE UNCHANGED deviceRowsVars
  BY <1>1 DEF deviceRowsVars, listVars, dialogVars, RowsOK
<1>2. ASSUME NEW i \in DOMAIN unread, ReloadReads(i) PROVE RowsOK'
  <2>1. unread' \in Seq(Caller) /\ answers' \in Seq(ListAnswer)
    BY <1>2, ReloadHasRead
  <2>2. QED
    BY <1>2, <2>1 DEF ReloadReads, RowsOK, dialogVars
<1>3. ASSUME NEW i \in DOMAIN answers, ReloadEnds(i) PROVE RowsOK'
  <2>1. answers' \in Seq(ListAnswer) /\ UNCHANGED unread /\ rows' \in [Devices -> Row]
    BY <1>3, ReloadHasEnded
  <2>2. QED
    BY <1>3, <2>1 DEF ReloadEnds, RowsOK, dialogVars
<1>4. ASSUME NEW d \in Devices, PeerChanges(d) PROVE RowsOK'
  <2>1. records' \in [Devices -> Row]
    BY <1>4, PeerKeepsFlags
  <2>2. rowNews' \in Nat
    BY <1>4 DEF PeerChanges, Announce, RowsOK
  <2>3. QED
    BY <1>4, <2>1, <2>2 DEF PeerChanges, RowsOK, listVars, dialogVars
<1>5. ASSUME NEW d \in Devices, ToggleTrust(d) PROVE RowsOK'
  <2>1. CASE TrustDevice(d, FALSE, FALSE) /\ UNCHANGED <<reloadVars, dialogVars>>
    <3>1. trustCalls' \in [Devices -> Seq(TrustRec)] /\ rows' \in [Devices -> Row]
      BY <2>1, TrustDeviceCalls
    <3>2. QED
      BY <1>5, <2>1, <3>1 DEF ToggleTrust, RowsOK, dialogVars
  <2>2. CASE UNCHANGED <<listVars, trustCalls, forgetPeer>> /\ trustPeer' = d
    BY <1>5, <2>2 DEF ToggleTrust, RowsOK, listVars
  <2>3. QED
    BY <1>5, <2>1, <2>2 DEF ToggleTrust
<1>6. ASSUME NEW d \in Devices, NEW i \in DOMAIN trustCalls[d], TrustRuns(d, i)
      PROVE  RowsOK'
  <2>1. trustCalls' \in [Devices -> Seq(TrustRec)]
    BY <1>6, TrustEndsCalls
  <2>2. records' \in [Devices -> Row]
    BY <1>6, TrustRunsRecord
  <2>3. trustPeer' \in Devices \cup {NoDevice}
    BY <1>6 DEF TrustRuns, TrustDialogEnds, RowsOK
  <2>4. QED
    BY <1>6, <2>1, <2>2, <2>3 DEF TrustRuns, RowsOK, listVars
<1>7. ASSUME NEW d \in Devices, NEW i \in DOMAIN trustCalls[d], TrustFails(d, i)
      PROVE  RowsOK'
  <2>1. trustCalls' \in [Devices -> Seq(TrustRec)]
    BY <1>7, TrustEndsCalls
  <2>2. rows' \in [Devices -> Row]
    BY <1>7, TrustFailsRow
  <2>3. trustPeer' \in Devices \cup {NoDevice}
    BY <1>7 DEF TrustFails, TrustDialogEnds, RowsOK
  <2>4. QED
    BY <1>7, <2>1, <2>2, <2>3 DEF TrustFails, RowsOK
<1>8. ASSUME NEW d \in Devices, OpenForget(d) \/ OpenRenamePeer(d) PROVE RowsOK'
  BY <1>8 DEF OpenForget, OpenRenamePeer, RowsOK, listVars
<1>9. ASSUME NEW d \in Devices, ForgetRuns(d) PROVE RowsOK'
  <2>1. forgetCall' \in [Devices -> RowCalls]
    BY <1>9 DEF ForgetRuns, RowsOK, RowCalls
  <2>2. records' \in [Devices -> Row] /\ rowNews' \in Nat
    <3>1. Absent \in Row
      BY Zenon DEF Row
    <3>2. records' = [records EXCEPT ![d] = Absent] \/ UNCHANGED records
      BY <1>9 DEF ForgetRuns
    <3>3. records' \in [Devices -> Row]
      BY <3>1, <3>2 DEF RowsOK
    <3>4. rowNews' \in Nat
      BY <1>9 DEF ForgetRuns, Announce, RowsOK
    <3>5. QED
      BY <3>3, <3>4
  <2>3. QED
    BY <1>9, <2>1, <2>2 DEF ForgetRuns, RowsOK, listVars
<1>10. ASSUME NEW d \in Devices, ForgetReloads(d) PROVE RowsOK'
  <2>1. unread' \in Seq(Caller) /\ UNCHANGED answers
    BY <1>10, ReloadAsked, Callers DEF ForgetReloads
  <2>2. QED
    BY <1>10, <2>1 DEF ForgetReloads, RowsOK, RowCalls, dialogVars
<1>11. ASSUME NEW d \in Devices, ForgetEnds(d) PROVE RowsOK'
  BY <1>11 DEF ForgetEnds, RowsOK, RowCalls, listVars
<1>12. ASSUME NEW d \in Devices, RenameRuns(d) PROVE RowsOK'
  <2>1. unread' \in Seq(Caller) /\ UNCHANGED answers
    BY <1>12, ReloadAsked, Callers DEF RenameRuns, RowsOK
  <2>2. QED
    BY <1>12, <2>1 DEF RenameRuns, RowsOK, dialogVars
<1>13. ASSUME NEW d \in Devices, RenameEnds(d) PROVE RowsOK'
  BY <1>13 DEF RenameEnds, RowsOK, listVars
<1>14. CASE OnUnpairedOrPaired
  <2>1. unread' \in Seq(Caller) /\ UNCHANGED answers
    BY <1>14, ReloadAsked, Callers DEF OnUnpairedOrPaired
  <2>2. QED
    BY <1>14, <2>1 DEF OnUnpairedOrPaired, RowsOK, dialogVars
<1>15. CASE ConfirmTrust
  <2>1. trustPeer \in Devices /\ TrustDevice(trustPeer, TRUE, TRUE)
    BY <1>15 DEF ConfirmTrust, RowsOK
  <2>2. trustCalls' \in [Devices -> Seq(TrustRec)] /\ rows' \in [Devices -> Row]
    BY <2>1, TrustDeviceCalls
  <2>3. QED
    BY <1>15, <2>2 DEF ConfirmTrust, RowsOK
<1>16. CASE CloseDialog \/ ConfirmForget
  BY <1>16 DEF CloseDialog, ConfirmForget, RowsOK, RowCalls, listVars
<1>17. CASE SaveRename
  BY <1>17 DEF SaveRename, RowsOK, listVars, dialogVars
<1>18. QED
  BY <1>1, <1>2, <1>3, <1>4, <1>5, <1>6, <1>7, <1>8, <1>9, <1>10, <1>11, <1>12, <1>13, <1>14,
     <1>15, <1>16, <1>17 DEF DeviceRowsNext

\* A trust command is made with the dialog's confirmation or takes trust away; only a
\* command that grants it sets the flag, and a peer that pairs again finds the flag
\* that was confirmed.
LEMMA TrustStep ==
    ASSUME RowsOK, TrustsConfirmed, [DeviceRowsNext]_deviceRowsVars
    PROVE  /\ TrustsConfirmed'
           /\ \A d \in Devices : records'[d].trusted = TRUE => d \in confirmed \/ UNCHANGED records
<1> DEFINE Goal == /\ TrustsConfirmed'
                   /\ \A d \in Devices : records'[d].trusted = TRUE => d \in confirmed \/ UNCHANGED records
<1>1. ASSUME UNCHANGED <<trustCalls, confirmed>>,
             \A d \in Devices : records'[d].trusted = records[d].trusted
      PROVE  Goal
  BY <1>1 DEF TrustsConfirmed
<1>2. ASSUME ConfirmationStands,
             \A d \in Devices : records'[d].trusted = TRUE => d \in confirmed,
             \A d \in Devices : \A k \in DOMAIN trustCalls'[d] :
               trustCalls'[d][k].to = TRUE => d \in confirmed
      PROVE  Goal
  BY <1>2 DEF TrustsConfirmed, ConfirmationStands
<1>3. ASSUME UNCHANGED deviceRowsVars PROVE Goal
  BY <1>1, <1>3 DEF deviceRowsVars, dialogVars
<1>4. ASSUME (\E i \in DOMAIN unread : ReloadReads(i)) \/ \E i \in DOMAIN answers : ReloadEnds(i)
      PROVE  Goal
  BY <1>1, <1>4 DEF ReloadReads, ReloadEnds, dialogVars
<1>5. ASSUME NEW d \in Devices, PeerChanges(d) PROVE Goal
  <2>1. UNCHANGED <<trustCalls, confirmed>>
    BY <1>5 DEF PeerChanges, dialogVars
  <2>2. QED
    BY <1>1, <1>5, <2>1, PeerKeepsFlags
<1>6. ASSUME NEW d \in Devices, ForgetRuns(d) PROVE Goal
  <2>1. ConfirmationStands /\ UNCHANGED trustCalls
    BY <1>6 DEF ForgetRuns
  <2>2. \A e \in Devices : records'[e] = records[e] \/ records'[e] = Absent
    BY <1>6 DEF ForgetRuns, RowsOK
  <2>3. Absent.trusted = FALSE
    BY Zenon DEF Absent
  <2>4. \A e \in Devices : records'[e].trusted = TRUE => e \in confirmed
    BY <2>2, <2>3 DEF TrustsConfirmed
  <2>5. QED
    BY <1>2, <2>1, <2>4 DEF TrustsConfirmed
<1>7. ASSUME NEW d \in Devices, OpenForget(d) \/ OpenRenamePeer(d) \/ ForgetReloads(d) \/ ForgetEnds(d)
                                \/ RenameRuns(d) \/ RenameEnds(d)
      PROVE  Goal
  <2>1. UNCHANGED <<trustCalls, confirmed, records>>
    BY <1>7 DEF OpenForget, OpenRenamePeer, ForgetReloads, ForgetEnds, RenameRuns, RenameEnds, dialogVars
  <2>2. QED
    BY <1>1, <2>1
<1>8. ASSUME OnUnpairedOrPaired \/ CloseDialog \/ ConfirmForget \/ SaveRename PROVE Goal
  <2>1. UNCHANGED <<trustCalls, confirmed, records>>
    BY <1>8 DEF OnUnpairedOrPaired, CloseDialog, ConfirmForget, SaveRename, dialogVars
  <2>2. QED
    BY <1>1, <2>1
<1>9. ASSUME NEW d \in Devices, NEW on \in BOOLEAN, NEW inDialog \in BOOLEAN,
             TrustDevice(d, on, inDialog), on = TRUE => d \in confirmed',
             confirmed \subseteq confirmed', UNCHANGED records
      PROVE  Goal
  <2>1. PICK c \in TrustRec : c.to = on /\ trustCalls' = [trustCalls EXCEPT ![d] = Append(@, c)]
    BY <1>9, TrustDeviceCalls
  <2>2. ASSUME NEW e \in Devices, NEW i \in DOMAIN trustCalls'[e], trustCalls'[e][i].to = TRUE
        PROVE  e \in confirmed'
    <3>1. CASE e = d
      <4>1. trustCalls'[e] = Append(trustCalls[e], c) /\ trustCalls[e] \in Seq(TrustRec)
        BY <2>1, <3>1 DEF RowsOK
      <4>2. \/ i \in DOMAIN trustCalls[e] /\ trustCalls'[e][i] = trustCalls[e][i]
            \/ trustCalls'[e][i] = c
        BY <4>1, AppendSeq
      <4>3. QED
        BY <1>9, <2>1, <2>2, <3>1, <4>2 DEF TrustsConfirmed
    <3>2. CASE e # d
      BY <1>9, <2>1, <2>2, <3>2 DEF RowsOK, TrustsConfirmed
    <3>3. QED
      BY <3>1, <3>2
  <2>3. \A e \in Devices : records'[e].trusted = TRUE => e \in confirmed'
    BY <1>9 DEF TrustsConfirmed
  <2>4. QED
    BY <1>9, <2>2, <2>3 DEF TrustsConfirmed
<1>10. ASSUME NEW d \in Devices, ToggleTrust(d) PROVE Goal
  <2>1. UNCHANGED <<records, confirmed>>
    BY <1>10 DEF ToggleTrust, dialogVars
  <2>2. CASE TrustDevice(d, FALSE, FALSE)
    BY <1>9, <2>1, <2>2
  <2>3. CASE UNCHANGED trustCalls
    BY <1>1, <2>1, <2>3
  <2>4. QED
    BY <1>10, <2>2, <2>3 DEF ToggleTrust
<1>11. ASSUME ConfirmTrust PROVE Goal
  <2>1. /\ trustPeer \in Devices /\ TrustDevice(trustPeer, TRUE, TRUE)
        /\ confirmed' = confirmed \cup {trustPeer} /\ UNCHANGED records
    BY <1>11 DEF ConfirmTrust, RowsOK
  <2>2. QED
    BY <1>9, <2>1
<1>12. ASSUME NEW d \in Devices, NEW i \in DOMAIN trustCalls[d], TrustRuns(d, i) \/ TrustFails(d, i)
       PROVE  Goal
  <2>1. /\ \A e \in Devices : e # d => trustCalls'[e] = trustCalls[e]
        /\ \A k \in DOMAIN trustCalls'[d] : \E j \in DOMAIN trustCalls[d] :
              trustCalls'[d][k].to = trustCalls[d][j].to
    BY <1>12, TrustEndsCalls
  <2>2. ConfirmationStands
    BY <1>12 DEF TrustRuns, TrustFails
  <2>3. ASSUME NEW e \in Devices, NEW k \in DOMAIN trustCalls'[e], trustCalls'[e][k].to = TRUE
        PROVE  e \in confirmed
    BY <2>1, <2>3 DEF TrustsConfirmed
  <2>4. ASSUME NEW e \in Devices, records'[e].trusted = TRUE PROVE e \in confirmed
    <3>1. CASE UNCHANGED records
      BY <2>4, <3>1 DEF TrustsConfirmed
    <3>2. CASE TrustRuns(d, i) /\ ~(UNCHANGED records)
      <4> DEFINE to == trustCalls[d][i].to
      <4>1. to \in BOOLEAN /\ records' = [records EXCEPT ![d] = Trusting(records[d], to)]
        BY <3>2, TrustRunsRecord
      <4>2. to = TRUE => d \in confirmed
        BY DEF TrustsConfirmed
      <4> HIDE DEF to
      <4>3. CASE e # d
        BY <2>4, <4>1, <4>3 DEF RowsOK, TrustsConfirmed
      <4>4. CASE e = d
        <5>1. records'[d] = Trusting(records[d], to) /\ records[d] \in Row
          BY <4>1 DEF RowsOK
        <5>2. to = TRUE \/ records[d].trusted = TRUE
          <6>1. Trusting(records[d], to).trusted = TRUE => to = TRUE \/ records[d].trusted = TRUE
            BY <4>1, <5>1, TrustOfRow, Zenon
          <6>2. Trusting(records[d], to).trusted = TRUE
            BY <2>4, <4>4, <5>1, Zenon
          <6>3. QED
            BY <6>1, <6>2, Zenon
        <5>3. QED
          BY <4>2, <4>4, <5>2 DEF TrustsConfirmed
      <4>5. QED
        BY <4>3, <4>4
    <3>3. TrustFails(d, i) => UNCHANGED records
      BY TrustFailsRow
    <3>4. QED
      BY <1>12, <3>1, <3>2, <3>3
  <2>5. QED
    BY <1>2, <2>2, <2>3, <2>4
<1> HIDE DEF Goal
<1>13. Goal
  BY <1>3, <1>4, <1>5, <1>6, <1>7, <1>8, <1>10, <1>11, <1>12 DEF DeviceRowsNext
<1>14. QED
  BY <1>13 DEF Goal

\* The rows part of the page has its types throughout.
LEMMA RowsInvariant == Spec => []RowsOK
<1>1. ASSUME Init PROVE RowsOK
  <2>1. DeviceRowsInit
    BY <1>1 DEF Init
  <2>2. unread = <<>> /\ answers = <<>>
    BY <2>1 DEF DeviceRowsInit
  <2>3. unread \in Seq(Caller) /\ answers \in Seq(ListAnswer)
    BY <2>2
  <2>4. QED
    BY <2>1, <2>3 DEF DeviceRowsInit, RowsOK, RowCalls
<1>2. RowsOK /\ [Next]_vars => RowsOK'
  BY DeviceParts, RowsKeepTypes
<1>3. QED
  BY <1>1, <1>2, PTL DEF Spec

\* A device comes to be accepted without asking, by being trusted or by pairing
\* again, only while a confirmation of the user stands, and pairing is granted to the
\* device whose request was on screen, whatever changed between the dialog and the
\* click (trustDevice of pairing-data-store, NearbyPairRequestDialog).
THEOREM OnlyConfirmedIsTrusted == Spec => OnlyConfirmed
<1>1. Init => TrustsConfirmed
  BY DEF Init, DeviceRowsInit, TrustsConfirmed
<1>2. RowsOK /\ TrustsConfirmed /\ [Next]_vars => TrustsConfirmed'
  BY DeviceParts, TrustStep
<1>3. ASSUME RowsOK, TrustsConfirmed, [Next]_vars
      PROVE  [\A d \in Devices : AcceptedUnasked(records'[d]) /\ ~AcceptedUnasked(records[d])
                                   => d \in confirmed]_deviceRowsVars
  <2>1. RowsOK'
    BY <1>3, DeviceParts, RowsKeepTypes
  <2>2. ASSUME NEW d \in Devices, AcceptedUnasked(records'[d]), ~AcceptedUnasked(records[d])
        PROVE  d \in confirmed
    <3>1. records'[d].trusted = TRUE
      <4>1. records'[d].trusted \in BOOLEAN
        BY <2>1, RowFields DEF RowsOK
      <4>2. records'[d].trusted
        BY <2>2 DEF AcceptedUnasked
      <4>3. QED
        BY <4>1, <4>2
    <3>2. ~(UNCHANGED records)
      BY <2>2
    <3>3. QED
      BY <1>3, <3>1, <3>2, DeviceParts, TrustStep
  <2>3. QED
    BY <2>2
<1>4. ASSUME [Next]_vars
      PROVE  [granted' \subseteq granted \cup {shown}]_nearbyPairingVars
  <2>1. [AskNext \/ PromptNext]_nearbyPairingVars
    BY <1>4, DeviceParts
  <2>2. QED
    BY <2>1 DEF AskNext, HandlePair, PairRequestLands, PairDelivered, PairFails, PairStateFades,
       OnPairResponse, ClearVerification, PromptNext, RequestArrives, RequestSorted,
       PairedDevicesLoad, RenderPrompt, AcceptRequest, DeclineRequest, promptVars
<1>5. QED
  BY <1>1, <1>2, <1>3, <1>4, RowsInvariant, PTL
     DEF Spec, OnlyConfirmed, TrustIsConfirmed, GrantsWhatWasShown

\* A change of the records that the list has not been reloaded for.
Settling == rowNews > 0 \/ \E d \in Devices : forgetCall[d] = "ok"

\* Until changes of the list cross there are reloads, or there is one trust command,
\* on the way.
OneChange == ~disturbed =>
    /\ unread # <<>> \/ answers # <<>> => \A d \in Devices : trustCalls[d] = <<>>
    /\ \A d \in Devices : Len(trustCalls[d]) <= 1
    /\ \A d, e \in Devices : trustCalls[d] # <<>> /\ trustCalls[e] # <<>> => d = e

\* The list is that of the records, but for the device whose trust is being changed,
\* and undoing that change in the list gives its record.
AheadOf(d, call) ==
    /\ \A e \in Devices : e # d => rows[e] = records[e]
    /\ \A on, off \in BOOLEAN : call.to = on /\ on # off =>
         rows[d] = Trusting(records[d], on) /\ records[d] = Trusting(rows[d], off)

\* Once every event has its reload, the reload that was read last has the records.
RowsAgree == ~disturbed /\ ~Settling =>
    /\ unread = <<>> /\ answers = <<>> /\ ~TrustBusy => rows = records
    /\ unread = <<>> /\ answers # <<>> => answers[Len(answers)].list = records
    /\ \A d \in Devices : trustCalls[d] # <<>> => AheadOf(d, trustCalls[d][1])

\* A sequence of one.
LEMMA FirstOfSeq ==
    ASSUME NEW c
    PROVE  Len(Append(<<>>, c)) = 1 /\ Append(<<>>, c)[1] = c /\ Append(<<>>, c) # <<>>
OBVIOUS

\* None or one is at most one.
LEMMA AtMostOne == \A n : n = 0 \/ n = 1 => n <= 1
OBVIOUS

\* The only entry of a sequence of at most one is its first.
LEMMA OnlyOne == \A n \in Nat : n <= 1 => \A i \in 1..n : n = 1 /\ i = 1
OBVIOUS

\* The steps of the list that matter: nothing, a change of the records, a reload
\* that is asked for, read or applied, a trust command that is made or ends.
LEMMA QuietKeepsRows ==
    ASSUME OneChange, RowsAgree, UNCHANGED <<records, rows, unread, answers, trustCalls, disturbed>>,
           Settling => Settling'
    PROVE  OneChange' /\ RowsAgree'
BY DEF OneChange, RowsAgree, TrustBusy, AheadOf

\* A change of the records is settled later: the list promises nothing until then.
LEMMA RecordsChange ==
    ASSUME OneChange, UNCHANGED <<rows, unread, answers, trustCalls, disturbed>>, Settling'
    PROVE  OneChange' /\ RowsAgree'
BY DEF OneChange, RowsAgree

\* A reload is asked for: no trust command is under way, or the list is disturbed.
LEMMA ReloadKeepsRows ==
    ASSUME RowsOK, OneChange, NEW who \in Caller, Reload(who), UNCHANGED <<records, rows, trustCalls>>
    PROVE  OneChange' /\ RowsAgree'
<1>1. SUFFICES ASSUME ~disturbed' PROVE OneChange' /\ RowsAgree'
  BY DEF OneChange, RowsAgree
<1>2. unread' # <<>> /\ \A d \in Devices : trustCalls'[d] = <<>>
  BY <1>1, ReloadAsked DEF TrustBusy
<1>3. OneChange'
  BY <1>2 DEF OneChange
<1>4. RowsAgree'
  BY <1>2 DEF RowsAgree
<1>5. QED
  BY <1>3, <1>4

\* The switch shows what was asked for at once: the list is ahead of the records by
\* that device only (trustDevice).
LEMMA TrustKeepsRows ==
    ASSUME RowsOK, OneChange, RowsAgree, NEW d \in Devices, NEW on \in BOOLEAN, Listed(d),
           NEW inDialog \in BOOLEAN, TrustDevice(d, on, inDialog), Settling' <=> Settling,
           UNCHANGED <<records, unread, answers>>
    PROVE  OneChange' /\ RowsAgree'
<1>1. SUFFICES ASSUME ~disturbed' PROVE OneChange' /\ RowsAgree'
  BY DEF OneChange, RowsAgree
<1>2. PICK c \in TrustRec : c.to = on /\ trustCalls' = [trustCalls EXCEPT ![d] = Append(@, c)]
  BY TrustDeviceCalls
<1>3. ~disturbed /\ unread = <<>> /\ answers = <<>> /\ ~TrustBusy /\ ~(rows[d].trusted = on)
  BY <1>1 DEF TrustDevice
<1>4. /\ Len(trustCalls'[d]) = 1 /\ trustCalls'[d][1] = c /\ trustCalls'[d] # <<>>
      /\ \A e \in Devices : e # d => trustCalls'[e] = <<>>
  <2>1. \A e \in Devices : trustCalls[e] = <<>>
    BY <1>3 DEF TrustBusy
  <2>2. trustCalls'[d] = Append(trustCalls[d], c)
    BY <1>2 DEF RowsOK
  <2>3. Len(trustCalls'[d]) = 1 /\ trustCalls'[d][1] = c /\ trustCalls'[d] # <<>>
    <3>1. trustCalls'[d] = Append(<<>>, c)
      BY <2>1, <2>2, Zenon
    <3>2. QED
      BY <3>1, FirstOfSeq
  <2>4. \A e \in Devices : e # d => trustCalls'[e] = trustCalls[e]
    BY <1>2 DEF RowsOK
  <2>5. QED
    BY <2>1, <2>3, <2>4
<1>5. OneChange'
  <2>1. Len(trustCalls'[d]) = 1 /\ \A e \in Devices : e # d => Len(trustCalls'[e]) = 0
    BY <1>4
  <2>2. ASSUME NEW e \in Devices PROVE Len(trustCalls'[e]) <= 1
    <3>1. Len(trustCalls'[e]) = 0 \/ Len(trustCalls'[e]) = 1
      BY <2>1, <2>2, Zenon
    <3>2. QED
      BY <3>1, AtMostOne
  <2>3. unread' = <<>> /\ answers' = <<>>
    BY <1>3
  <2>4. QED
    BY <1>4, <2>2, <2>3 DEF OneChange
<1>6. ASSUME ~Settling
      PROVE  AheadOf(d, c)'
  <2>1. rows = records
    BY <1>3, <1>6 DEF RowsAgree
  <2>2. rows' = [rows EXCEPT ![d] = Trusting(@, on)]
    BY DEF TrustDevice, ApplyTrust
  <2>3. \A e \in Devices : e # d => rows'[e] = records'[e]
    BY <2>1, <2>2 DEF RowsOK
  <2>4. rows[d] \in Row /\ rows[d] \in Paired /\ rows[d].trusted \in BOOLEAN
    BY RowFields DEF RowsOK, Listed
  <2>5. rows'[d] = Trusting(records[d], on)
    BY <2>1, <2>2 DEF RowsOK
  <2>6. ASSUME NEW off \in BOOLEAN, on # off PROVE records[d] = Trusting(rows'[d], off)
    <3>1. rows[d].trusted = off
      BY <1>3, <2>4, <2>6, Zenon
    <3>2. Trusting(Trusting(rows[d], on), off) = rows[d]
      BY <2>4, <2>6, <3>1, TrustUndone
    <3>3. QED
      BY <2>1, <2>5, <3>2, Zenon
  <2>7. QED
    BY <1>2, <2>3, <2>5, <2>6 DEF AheadOf
<1>7. RowsAgree'
  <2>1. \A e \in Devices : trustCalls'[e] # <<>> => e = d
    BY <1>4
  <2>2. trustCalls'[d][1] = c /\ trustCalls'[d] # <<>>
    BY <1>4
  <2>3. TrustBusy'
    BY <2>2 DEF TrustBusy
  <2>4. answers' = <<>>
    BY <1>3
  <2>5. ASSUME ~Settling, NEW e \in Devices, trustCalls'[e] # <<>>
        PROVE  AheadOf(e, trustCalls[e][1])'
    BY <1>6, <2>1, <2>2, <2>5 DEF AheadOf
  <2>6. QED
    BY <2>3, <2>4, <2>5 DEF RowsAgree
<1>8. QED
  BY <1>5, <1>7

\* The command sets the record to what the list shows, or its failure rolls the list
\* back to the record (the catch of trustDevice).
LEMMA TrustEndKeepsRows ==
    ASSUME RowsOK, OneChange, RowsAgree, NEW d \in Devices, NEW i \in DOMAIN trustCalls[d],
           TrustRuns(d, i) \/ TrustFails(d, i)
    PROVE  OneChange' /\ RowsAgree'
<1>1. UNCHANGED <<unread, answers, disturbed, rowNews, forgetCall>>
  BY DEF TrustRuns, TrustFails, listVars, reloadVars
<1>2. SUFFICES ASSUME ~disturbed PROVE OneChange' /\ RowsAgree'
  BY <1>1 DEF OneChange, RowsAgree
<1>3. /\ \A e \in Devices : e # d => trustCalls'[e] = trustCalls[e]
      /\ trustCalls' \in [Devices -> Seq(TrustRec)]
      /\ \/ Len(trustCalls'[d]) = Len(trustCalls[d]) - 1
         \/ /\ Len(trustCalls'[d]) = Len(trustCalls[d]) /\ UNCHANGED records
            /\ TrustRuns(d, i)
            /\ \A k \in DOMAIN trustCalls[d] : trustCalls'[d][k].to = trustCalls[d][k].to
  BY TrustEndsCalls
<1>4. /\ trustCalls[d] \in Seq(TrustRec) /\ trustCalls[d] # <<>> /\ trustCalls'[d] \in Seq(TrustRec)
  BY <1>3 DEF RowsOK
<1>5. /\ Len(trustCalls[d]) = 1 /\ i = 1 /\ unread = <<>> /\ answers = <<>>
      /\ \A e \in Devices : e # d => trustCalls[e] = <<>>
  <2>1. Len(trustCalls[d]) <= 1 /\ i \in 1..Len(trustCalls[d])
    BY <1>2, <1>4 DEF OneChange
  <2>2. Len(trustCalls[d]) = 1 /\ i = 1
    <3>1. Len(trustCalls[d]) \in Nat
      BY <1>4
    <3>2. QED
      BY <2>1, <3>1, OnlyOne
  <2>3. unread = <<>> /\ answers = <<>>
    BY <1>2, <1>4, Zenon DEF OneChange
  <2>4. \A e \in Devices : e # d => trustCalls[e] = <<>>
    BY <1>2, <1>4, Zenon DEF OneChange
  <2>5. QED
    BY <2>2, <2>3, <2>4
<1>6. Settling' <=> Settling
  BY <1>1 DEF Settling
<1>7. CASE Len(trustCalls'[d]) = 0
  <2>1. \A e \in Devices : trustCalls'[e] = <<>>
    BY <1>3, <1>4, <1>5, <1>7
  <2>2. OneChange'
    <3>1. \A e \in Devices : Len(trustCalls'[e]) = 0
      BY <2>1
    <3>2. \A e \in Devices : Len(trustCalls'[e]) <= 1
      BY <3>1, AtMostOne
    <3>3. QED
      BY <2>1, <3>2, Zenon DEF OneChange
  <2>3. ASSUME ~Settling PROVE rows' = records'
    <3> DEFINE to == trustCalls[d][1].to
    <3>1. AheadOf(d, trustCalls[d][1])
      BY <1>2, <1>4, <2>3 DEF RowsAgree
    <3>2. to \in BOOLEAN
      <4>1. trustCalls[d][1] \in TrustRec
        BY <1>4, <1>5
      <4>2. QED
        BY <4>1 DEF TrustRec
    <3>3. CASE TrustFails(d, i)
      <4>1. PICK off \in BOOLEAN : (off = TRUE <=> ~(to = TRUE)) /\ rows'[d] = Trusting(rows[d], off)
        BY <1>5, <3>3, TrustFailsRow
      <4>2. UNCHANGED records /\ \A e \in Devices : e # d => rows'[e] = rows[e]
        BY <3>3, TrustFailsRow
      <4>3. to # off
        BY <4>1
      <4>4. records[d] = Trusting(rows[d], off)
        BY <3>1, <3>2, <4>1, <4>3 DEF AheadOf
      <4>5. \A e \in Devices : rows'[e] = records'[e]
        BY <3>1, <4>1, <4>2, <4>4 DEF AheadOf
      <4>6. rows' \in [Devices -> Row] /\ records' \in [Devices -> Row]
        BY <3>3, <4>2, TrustFailsRow DEF RowsOK
      <4>7. QED
        BY <4>5, <4>6
    <3>4. CASE TrustRuns(d, i)
      <4>1. UNCHANGED rows
        BY <3>4 DEF TrustRuns, listVars
      <4>2. trustCalls' # [trustCalls EXCEPT ![d][i].failed = TRUE]
        <5>1. SUFFICES ASSUME trustCalls' = [trustCalls EXCEPT ![d][i].failed = TRUE] PROVE FALSE
          OBVIOUS
        <5>2. trustCalls'[d] = [trustCalls[d] EXCEPT ![i].failed = TRUE]
          BY <5>1 DEF RowsOK
        <5>3. DOMAIN trustCalls'[d] = DOMAIN trustCalls[d]
          BY <5>2
        <5>4. QED
          BY <1>4, <1>5, <1>7, <5>3
      <4>3. records' = [records EXCEPT ![d] = Trusting(@, to)] /\ records' \in [Devices -> Row]
        BY <1>5, <3>4, <4>2, TrustRunsRecord
      <4> HIDE DEF to
      <4>4. records'[d] = Trusting(records[d], to) /\ \A e \in Devices : e # d => records'[e] = records[e]
        BY <4>3 DEF RowsOK
      <4>5. PICK off \in BOOLEAN : to # off
        BY <3>2
      <4>6. rows[d] = Trusting(records[d], to)
        BY <3>1, <3>2, <4>5 DEF AheadOf, to
      <4>7. \A e \in Devices : rows'[e] = records'[e]
        BY <3>1, <4>1, <4>4, <4>6 DEF AheadOf
      <4>8. QED
        BY <4>1, <4>3, <4>7 DEF RowsOK
    <3>5. QED
      BY <3>3, <3>4
  <2>4. RowsAgree'
    BY <1>1, <1>5, <1>6, <2>1, <2>3 DEF RowsAgree
  <2>5. QED
    BY <2>2, <2>4
<1>8. CASE Len(trustCalls'[d]) # 0
  <2>1. /\ Len(trustCalls'[d]) = 1 /\ UNCHANGED records /\ TrustRuns(d, i)
        /\ trustCalls'[d][1].to = trustCalls[d][1].to
    BY <1>3, <1>4, <1>5, <1>8
  <2>2. UNCHANGED rows
    BY <2>1 DEF TrustRuns, listVars
  <2>3. \A e \in Devices : e # d => trustCalls'[e] = <<>>
    BY <1>3, <1>5
  <2>4. OneChange'
    BY <1>1, <1>5, <2>1, <2>3 DEF OneChange
  <2>5. ASSUME ~Settling PROVE AheadOf(d, trustCalls[d][1])'
    BY <1>2, <1>4, <2>1, <2>2, <2>5 DEF RowsAgree, AheadOf
  <2>6. TrustBusy'
    BY <1>4, <2>1 DEF TrustBusy
  <2>7. RowsAgree'
    <3>1. ASSUME ~Settling, NEW e \in Devices, trustCalls'[e] # <<>>
          PROVE  AheadOf(e, trustCalls[e][1])'
      BY <2>3, <2>5, <3>1 DEF AheadOf
    <3>2. QED
      BY <1>1, <1>5, <1>6, <2>6, <3>1 DEF RowsAgree
  <2>8. QED
    BY <2>4, <2>7
<1>9. QED
  BY <1>7, <1>8

\* A reload in flight reads the records: its answer is the newest.
LEMMA ReadKeepsRows ==
    ASSUME RowsOK, OneChange, RowsAgree, NEW i \in DOMAIN unread, ReloadReads(i)
    PROVE  OneChange' /\ RowsAgree'
<1>1. /\ answers' # <<>> /\ answers'[Len(answers')].list = records
      /\ UNCHANGED <<records, rows, disturbed, trustCalls, rowNews, forgetCall>>
  <2>1. answers' # <<>> /\ answers'[Len(answers')].list = records
    BY ReloadHasRead
  <2>2. QED
    BY <2>1 DEF ReloadReads
<1>2. unread # <<>>
  OBVIOUS
<1>3. OneChange'
  BY <1>1, <1>2 DEF OneChange
<1>4. Settling' <=> Settling
  BY <1>1 DEF Settling
<1>5. ~disturbed => \A d \in Devices : trustCalls[d] = <<>>
  BY <1>2 DEF OneChange
<1>6. RowsAgree'
  BY <1>1, <1>4, <1>5 DEF RowsAgree
<1>7. QED
  BY <1>3, <1>6

\* The answer replaces the list (hydrate); the newest answer stays the last, or was
\* the same as the one before it.
LEMMA ReloadEndKeepsRows ==
    ASSUME RowsOK, OneChange, RowsAgree, NEW i \in DOMAIN answers, ReloadEnds(i)
    PROVE  OneChange' /\ RowsAgree'
<1> DEFINE n == Len(answers)
<1>1. /\ answers' \in Seq(ListAnswer) /\ Len(answers') = n - 1 /\ UNCHANGED unread
      /\ i \in 1..n /\ n \in Nat
      /\ \A k \in 1..(n - 1) : answers'[k] = IF k < i THEN answers[k] ELSE answers[k + 1]
      /\ UNCHANGED <<records, trustCalls, rowNews, forgetCall>>
  <2>1. /\ answers' \in Seq(ListAnswer) /\ Len(answers') = n - 1 /\ UNCHANGED unread
        /\ i \in 1..n /\ n \in Nat
        /\ \A k \in 1..(n - 1) : answers'[k] = IF k < i THEN answers[k] ELSE answers[k + 1]
    BY ReloadHasEnded
  <2>2. QED
    BY <2>1 DEF ReloadEnds
<1>2. SUFFICES ASSUME ~disturbed' PROVE OneChange' /\ RowsAgree'
  BY DEF OneChange, RowsAgree
<1>3. /\ ~disturbed /\ rows' = answers[i].list
      /\ \A k \in 1..(i - 1) : answers[k].list = answers[i].list
  BY <1>2 DEF ReloadEnds
<1>4. \A d \in Devices : trustCalls'[d] = <<>>
  <2>1. answers # <<>>
    OBVIOUS
  <2>2. QED
    BY <1>1, <1>3, <2>1 DEF OneChange
<1>5. OneChange'
  <2>1. \A d \in Devices : Len(trustCalls'[d]) = 0
    BY <1>4
  <2>2. \A d \in Devices : Len(trustCalls'[d]) <= 1
    BY <2>1, AtMostOne
  <2>3. QED
    BY <1>4, <2>2, Zenon DEF OneChange
<1>6. Settling' <=> Settling
  BY <1>1 DEF Settling
<1>7. ASSUME ~Settling, unread = <<>>
      PROVE  /\ answers' = <<>> => rows' = records'
             /\ answers' # <<>> => answers'[Len(answers')].list = records'
  <2>1. answers[n].list = records
    <3>1. answers # <<>>
      OBVIOUS
    <3>2. QED
      BY <1>3, <1>7, <3>1 DEF RowsAgree
  <2> HIDE DEF n
  <2>2. CASE n = 1
    <3>1. i = 1 /\ answers' = <<>>
      BY <1>1, <2>2
    <3>2. QED
      BY <1>1, <1>3, <2>1, <2>2, <3>1
  <2>3. CASE n # 1 /\ i = n
    <3>1. n - 1 \in 1..(n - 1) /\ n - 1 < i /\ n - 1 \in 1..(i - 1)
      BY <1>1, <2>3
    <3>2. answers'[n - 1] = answers[n - 1] /\ answers[n - 1].list = answers[n].list
      BY <1>1, <1>3, <2>3, <3>1
    <3>3. answers' # <<>>
      BY <1>1, <2>3
    <3>4. QED
      BY <1>1, <2>1, <3>2, <3>3
  <2>4. CASE n # 1 /\ i # n
    <3>1. n - 1 \in 1..(n - 1) /\ ~(n - 1 < i) /\ (n - 1) + 1 = n
      BY <1>1, <2>4
    <3>2. answers'[n - 1] = answers[n]
      BY <1>1, <3>1
    <3>3. answers' # <<>>
      BY <1>1, <2>4
    <3>4. QED
      BY <1>1, <2>1, <3>2, <3>3
  <2>5. QED
    BY <2>2, <2>3, <2>4
<1>8. RowsAgree'
  BY <1>1, <1>4, <1>6, <1>7 DEF RowsAgree
<1>9. QED
  BY <1>5, <1>8

\* So the list of the paired devices agrees with the records throughout.
LEMMA RowsStep ==
    ASSUME RowsOK, OneChange, RowsAgree, [DeviceRowsNext]_deviceRowsVars
    PROVE  OneChange' /\ RowsAgree'
<1>. USE DEF reloadVars
<1>1. CASE UNCHANGED deviceRowsVars
  BY <1>1, QuietKeepsRows DEF deviceRowsVars, listVars, Settling
<1>2. ASSUME NEW d \in Devices, PeerChanges(d) PROVE OneChange' /\ RowsAgree'
  <2>1. UNCHANGED <<rows, unread, answers, trustCalls, disturbed>> /\ Settling'
    BY <1>2 DEF PeerChanges, Announce, listVars, RowsOK, Settling
  <2>2. QED
    BY <2>1, RecordsChange
<1>3. ASSUME NEW d \in Devices, ToggleTrust(d) PROVE OneChange' /\ RowsAgree'
  <2>1. UNCHANGED <<records, unread, answers, rowNews, forgetCall>>
    BY <1>3 DEF ToggleTrust, listVars
  <2>2. Settling' <=> Settling
    BY <2>1 DEF Settling
  <2>3. CASE UNCHANGED <<listVars, trustCalls>>
    BY <2>1, <2>2, <2>3, QuietKeepsRows DEF listVars
  <2>4. CASE TrustDevice(d, FALSE, FALSE)
    <3>1. rows[d] # Absent
      BY <1>3 DEF ToggleTrust, isPairedDeviceActive, Absent
    <3>2. QED
      BY <2>1, <2>2, <2>4, <3>1, TrustKeepsRows DEF Listed
  <2>5. QED
    BY <1>3, <2>3, <2>4 DEF ToggleTrust
<1>4. ASSUME ConfirmTrust PROVE OneChange' /\ RowsAgree'
  <2>1. UNCHANGED <<records, unread, answers, rowNews, forgetCall>> /\ TrustDevice(trustPeer, TRUE, TRUE)
        /\ trustPeer \in Devices /\ Listed(trustPeer)
    BY <1>4 DEF ConfirmTrust, RowsOK
  <2>2. Settling' <=> Settling
    BY <2>1 DEF Settling
  <2>3. QED
    BY <2>1, <2>2, TrustKeepsRows
<1>5. ASSUME NEW d \in Devices, ForgetRuns(d) PROVE OneChange' /\ RowsAgree'
  <2>1. UNCHANGED <<rows, unread, answers, trustCalls, disturbed>>
    BY <1>5 DEF ForgetRuns, listVars
  <2>2. CASE forgetCall' = [forgetCall EXCEPT ![d] = "ok"]
    BY <2>1, <2>2, RecordsChange DEF RowsOK, Settling
  <2>3. CASE forgetCall' = [forgetCall EXCEPT ![d] = "err"] /\ UNCHANGED <<records, rowNews>>
    <3>1. Settling => Settling'
      BY <1>5, <2>1, <2>3 DEF RowsOK, Settling, ForgetRuns
    <3>2. QED
      BY <2>1, <2>3, <3>1, QuietKeepsRows
  <2>4. QED
    BY <1>5, <2>2, <2>3 DEF ForgetRuns
<1>6. ASSUME NEW d \in Devices, ForgetReloads(d) PROVE OneChange' /\ RowsAgree'
  BY <1>6, Callers, ReloadKeepsRows DEF ForgetReloads
<1>7. ASSUME NEW d \in Devices, ForgetEnds(d) PROVE OneChange' /\ RowsAgree'
  <2>1. UNCHANGED <<records, rows, unread, answers, trustCalls, disturbed, rowNews>>
    BY <1>7 DEF ForgetEnds, listVars
  <2>2. Settling => Settling'
    BY <1>7, <2>1 DEF RowsOK, Settling, ForgetEnds
  <2>3. QED
    BY <2>1, <2>2, QuietKeepsRows
<1>8. ASSUME NEW d \in Devices, RenameRuns(d) PROVE OneChange' /\ RowsAgree'
  <2>1. UNCHANGED <<records, rows, trustCalls, rowNews, forgetCall>>
    BY <1>8 DEF RenameRuns
  <2>2. CASE Reload([by |-> "rename", id |-> d])
    BY <2>1, <2>2, Callers, ReloadKeepsRows
  <2>3. CASE UNCHANGED <<unread, answers, disturbed>>
    BY <2>1, <2>3, QuietKeepsRows DEF Settling
  <2>4. QED
    BY <1>8, <2>2, <2>3 DEF RenameRuns
<1>9. ASSUME ConfirmForget PROVE OneChange' /\ RowsAgree'
  <2>1. UNCHANGED <<records, rows, unread, answers, trustCalls, disturbed, rowNews>>
    BY <1>9 DEF ConfirmForget, listVars
  <2>2. Settling => Settling'
    BY <1>9, <2>1 DEF RowsOK, Settling, ConfirmForget
  <2>3. QED
    BY <2>1, <2>2, QuietKeepsRows
<1>10. ASSUME OnUnpairedOrPaired PROVE OneChange' /\ RowsAgree'
  BY <1>10, Callers, ReloadKeepsRows DEF OnUnpairedOrPaired
<1>11. ASSUME NEW d \in Devices, OpenForget(d) \/ OpenRenamePeer(d) \/ RenameEnds(d)
       PROVE  OneChange' /\ RowsAgree'
  <2>1. UNCHANGED <<records, rows, unread, answers, trustCalls, disturbed, rowNews, forgetCall>>
    BY <1>11 DEF OpenForget, OpenRenamePeer, RenameEnds, listVars
  <2>2. QED
    BY <2>1, QuietKeepsRows DEF Settling
<1>12. ASSUME CloseDialog \/ SaveRename PROVE OneChange' /\ RowsAgree'
  <2>1. UNCHANGED <<records, rows, unread, answers, trustCalls, disturbed, rowNews, forgetCall>>
    BY <1>12 DEF CloseDialog, SaveRename, listVars
  <2>2. QED
    BY <2>1, QuietKeepsRows DEF Settling
<1>13. QED
  BY <1>1, <1>2, <1>3, <1>4, <1>5, <1>6, <1>7, <1>8, <1>9, <1>10, <1>11, <1>12,
     ReadKeepsRows, ReloadEndKeepsRows, TrustEndKeepsRows DEF DeviceRowsNext

-----------------------------------------------------------------------------
\* The list of nearby devices.

Answer == {<<>>} \cup ((SUBSET Nearby) \X BOOLEAN)
ListRequest == [for : Nearby \cup {WholeList}, answer : Answer]

\* The part of the types that the proofs about the nearby list need.
NearbyOK ==
    /\ air \in SUBSET Nearby /\ nearbyRows \in SUBSET Nearby
    /\ discovery \in Seq(NearbyEvent) /\ requests \in Seq(ListRequest)
    /\ noDiscovery \in BOOLEAN /\ banner \in BOOLEAN
    /\ unsaid \in SUBSET Nearby /\ unsaidReason \in BOOLEAN

\* What an event tells: of a device, and of discovery itself.
About(e, d) == e.kind \in {"found", "identified", "lost", "paired"} /\ e.id = d
Present(e) == e.kind \in {"found", "identified"}
OfDiscovery(e) == e.kind \in {"found", "unavailable"}
Heard(q, d) == \E k \in DOMAIN q : About(q[k], d)
DiscoveryHeard(q) == \E k \in DOMAIN q : OfDiscovery(q[k])
AskedFor(r, x) == \E i \in DOMAIN r : r[i].for = x

\* The last event of a feed about a device tells whether it is there, and the last
\* one about discovery tells how that is.
DevicesTold(q, told, there) ==
    \A k \in DOMAIN q, d \in told :
      About(q[k], d) /\ (\A j \in DOMAIN q : j > k => ~About(q[j], d))
        => (d \in there <=> Present(q[k]))
ReasonTold(q, none) ==
    \A k \in DOMAIN q :
      OfDiscovery(q[k]) /\ (\A j \in DOMAIN q : j > k => ~OfDiscovery(q[j]))
        => (none <=> q[k].kind = "unavailable")

\* Events are heard on the page only, and the last of them tells how things are.
FeedIsCurrent ==
    /\ hears => panel
    /\ ~hears => discovery = <<>>
    /\ DevicesTold(discovery, Nearby \ unsaid, air)
    /\ ~unsaidReason => ReasonTold(discovery, noDiscovery)

\* An answer that was read is right unless an event about it is to come.
Fresh(r, q, told, there, saying, none) ==
    \A i \in DOMAIN r : r[i].answer # <<>> =>
      /\ \A d \in told : r[i].for \in {d, WholeList} /\ ~Heard(q, d)
           => (d \in r[i].answer[1] <=> d \in there)
      /\ saying /\ r[i].for = WholeList /\ ~DiscoveryHeard(q) => (r[i].answer[2] <=> none)

AnswersAreFresh ==
    panel /\ ~overtaken
      => Fresh(requests, discovery, Nearby \ unsaid, air, ~unsaidReason, noDiscovery)

\* The list is right unless an event or an answer is to come that puts it right.
RightFor(d, listed, r, q, there) ==
    \/ d \in listed <=> d \in there
    \/ Heard(q, d)
    \/ AskedFor(r, WholeList)
    \/ d \in there /\ AskedFor(r, d)
BannerRight(shows, r, q, none) ==
    (shows <=> none) \/ DiscoveryHeard(q) \/ AskedFor(r, WholeList)

ListCatchesUp == panel /\ ~overtaken =>
    /\ \A d \in Nearby \ unsaid : RightFor(d, nearbyRows, requests, discovery, air)
    /\ ~unsaidReason => BannerRight(banner, requests, discovery, noDiscovery)

\* What went without an event is gone.
UnsaidIsGone == (\A d \in unsaid : d \notin air) /\ (unsaidReason => ~noDiscovery)

NearbyInv == FeedIsCurrent /\ AnswersAreFresh /\ ListCatchesUp /\ UnsaidIsGone

\* An event that joins the feed is heard of.
LEMMA HeardGrows ==
    ASSUME NEW q \in Seq(NearbyEvent), NEW e \in NearbyEvent
    PROVE  /\ \A d : Heard(Append(q, e), d) <=> Heard(q, d) \/ About(e, d)
           /\ DiscoveryHeard(Append(q, e)) <=> DiscoveryHeard(q) \/ OfDiscovery(e)
<1> DEFINE w == Append(q, e)
<1>1. /\ \A k \in DOMAIN q : k \in DOMAIN w /\ w[k] = q[k]
      /\ Len(q) + 1 \in DOMAIN w /\ w[Len(q) + 1] = e
      /\ \A k \in DOMAIN w : k \in DOMAIN q \/ k = Len(q) + 1
  BY AppendSeq
<1> HIDE DEF w
<1>2. \A d : Heard(w, d) <=> Heard(q, d) \/ About(e, d)
  BY <1>1 DEF Heard
<1>3. DiscoveryHeard(w) <=> DiscoveryHeard(q) \/ OfDiscovery(e)
  BY <1>1 DEF DiscoveryHeard
<1>4. QED
  BY <1>2, <1>3 DEF w

\* The events of a feed still tell which devices are there when one joins them that
\* tells of its own device.
LEMMA FeedGrows ==
    ASSUME NEW q \in Seq(NearbyEvent), NEW e \in NearbyEvent,
           NEW told, NEW there, NEW told2, NEW there2, DevicesTold(q, told, there),
           \A d \in told2 : IF About(e, d) THEN d \in there2 <=> Present(e)
                                           ELSE d \in told /\ (d \in there2 <=> d \in there)
    PROVE  DevicesTold(Append(q, e), told2, there2)
<1> DEFINE w == Append(q, e)
<1>1. /\ w \in Seq(NearbyEvent) /\ Len(w) = Len(q) + 1 /\ Len(q) \in Nat
      /\ \A k \in DOMAIN q : k \in DOMAIN w /\ w[k] = q[k] /\ Len(q) + 1 > k
      /\ Len(q) + 1 \in DOMAIN w /\ w[Len(q) + 1] = e
      /\ \A k \in DOMAIN w : k \in DOMAIN q \/ k = Len(q) + 1
  BY AppendSeq
<1> HIDE DEF w
<1>2. ASSUME NEW k \in DOMAIN w, NEW d \in told2, About(w[k], d),
             \A j \in DOMAIN w : j > k => ~About(w[j], d)
      PROVE  d \in there2 <=> Present(w[k])
  <2>1. CASE k = Len(q) + 1
    BY <1>1, <1>2, <2>1
  <2>2. CASE k \in DOMAIN q
    <3>1. ~About(e, d) /\ About(q[k], d) /\ \A j \in DOMAIN q : j > k => ~About(q[j], d)
      BY <1>1, <1>2, <2>2
    <3>2. d \in there <=> Present(q[k])
      BY <2>2, <3>1 DEF DevicesTold
    <3>3. QED
      BY <1>1, <2>2, <3>1, <3>2
  <2>3. QED
    BY <1>1, <2>1, <2>2
<1>3. DevicesTold(w, told2, there2)
  BY <1>2 DEF DevicesTold
<1>4. QED
  BY <1>3 DEF w

\* The first event of the feed leaves it: if no other one about the same follows, it
\* was the last and told how that is.
LEMMA FeedShrinks ==
    ASSUME NEW q \in Seq(NearbyEvent), q # <<>>
    PROVE  /\ Head(q) \in NearbyEvent
           /\ \A d : Heard(q, d) <=> Heard(Tail(q), d) \/ About(Head(q), d)
           /\ DiscoveryHeard(q) <=> DiscoveryHeard(Tail(q)) \/ OfDiscovery(Head(q))
           /\ \A told, there : DevicesTold(q, told, there) =>
                /\ DevicesTold(Tail(q), told, there)
                /\ \A d \in told : About(Head(q), d) /\ ~Heard(Tail(q), d)
                                   => (d \in there <=> Present(Head(q)))
           /\ \A none : ReasonTold(q, none) =>
                /\ ReasonTold(Tail(q), none)
                /\ OfDiscovery(Head(q)) /\ ~DiscoveryHeard(Tail(q))
                     => (none <=> Head(q).kind = "unavailable")
<1> DEFINE w == Tail(q)
<1>1. /\ w \in Seq(NearbyEvent) /\ Head(q) = q[1] /\ 1 \in DOMAIN q /\ q[1] \in NearbyEvent
      /\ \A k \in DOMAIN w : k + 1 \in DOMAIN q /\ w[k] = q[k + 1] /\ k + 1 > 1
      /\ \A k \in DOMAIN q : k > 1 => k - 1 \in DOMAIN w /\ w[k - 1] = q[k]
      /\ \A k \in DOMAIN q : k = 1 \/ k > 1
      /\ \A k \in DOMAIN w : \A j \in DOMAIN q : j > k + 1 => j > 1 /\ j - 1 > k
  BY TailSeq
<1> HIDE DEF w
<1>2. \A d : Heard(q, d) <=> Heard(w, d) \/ About(q[1], d)
  BY <1>1 DEF Heard
<1>3. DiscoveryHeard(q) <=> DiscoveryHeard(w) \/ OfDiscovery(q[1])
  BY <1>1 DEF DiscoveryHeard
<1>4. ASSUME NEW told, NEW there, DevicesTold(q, told, there),
             NEW d \in told, About(q[1], d), ~Heard(w, d)
      PROVE  d \in there <=> Present(q[1])
  <2>1. \A j \in DOMAIN q : j > 1 => ~About(q[j], d)
    BY <1>1, <1>4 DEF Heard
  <2>2. QED
    BY <1>1, <1>4, <2>1 DEF DevicesTold
<1>5. ASSUME NEW none, ReasonTold(q, none), OfDiscovery(q[1]), ~DiscoveryHeard(w)
      PROVE  none <=> q[1].kind = "unavailable"
  <2>1. \A j \in DOMAIN q : j > 1 => ~OfDiscovery(q[j])
    BY <1>1, <1>5 DEF DiscoveryHeard
  <2>2. QED
    BY <1>1, <1>5, <2>1 DEF ReasonTold
<1>6. ASSUME NEW told, NEW there, DevicesTold(q, told, there),
             NEW k \in DOMAIN w, NEW d \in told, About(w[k], d),
             \A j \in DOMAIN w : j > k => ~About(w[j], d)
      PROVE  d \in there <=> Present(w[k])
  <2>1. k + 1 \in DOMAIN q /\ w[k] = q[k + 1] /\ \A j \in DOMAIN q : j > k + 1 => ~About(q[j], d)
    BY <1>1, <1>6
  <2>2. QED
    BY <1>6, <2>1 DEF DevicesTold
<1>7. ASSUME NEW none, ReasonTold(q, none), NEW k \in DOMAIN w, OfDiscovery(w[k]),
             \A j \in DOMAIN w : j > k => ~OfDiscovery(w[j])
      PROVE  none <=> w[k].kind = "unavailable"
  <2>1. k + 1 \in DOMAIN q /\ w[k] = q[k + 1] /\ \A j \in DOMAIN q : j > k + 1 => ~OfDiscovery(q[j])
    BY <1>1, <1>7
  <2>2. QED
    BY <1>7, <2>1 DEF ReasonTold
<1>8. \A told, there : DevicesTold(q, told, there) => DevicesTold(w, told, there)
  BY <1>6 DEF DevicesTold
<1>9. \A none : ReasonTold(q, none) => ReasonTold(w, none)
  BY <1>7 DEF ReasonTold
<1>10. QED
  BY <1>1, <1>2, <1>3, <1>4, <1>5, <1>8, <1>9 DEF w

\* A request that is made, answered, or done with.
LEMMA RequestMade ==
    ASSUME NEW r \in Seq(ListRequest), NEW x \in Nearby \cup {WholeList}
    PROVE  LET w == Append(r, [for |-> x, answer |-> <<>>]) IN
           /\ w \in Seq(ListRequest) /\ AskedFor(w, x)
           /\ \A y : AskedFor(r, y) => AskedFor(w, y)
           /\ \A k \in DOMAIN w : w[k].answer # <<>> => k \in DOMAIN r /\ w[k] = r[k]
<1>1. PICK c \in ListRequest : c = [for |-> x, answer |-> <<>>] /\ c.for = x /\ c.answer = <<>>
  <2>1. <<>> \in Answer
    BY DEF Answer
  <2>2. [for |-> x, answer |-> <<>>] \in ListRequest
    BY <2>1 DEF ListRequest
  <2>3. QED
    BY <2>2, Zenon
<1> DEFINE w == Append(r, c)
<1>2. /\ w \in Seq(ListRequest)
      /\ \A k \in DOMAIN r : k \in DOMAIN w /\ w[k] = r[k]
      /\ Len(r) + 1 \in DOMAIN w /\ w[Len(r) + 1] = c
      /\ \A k \in DOMAIN w : k \in DOMAIN r \/ k = Len(r) + 1
  BY AppendSeq
<1> HIDE DEF w
<1>3. AskedFor(w, x) /\ \A y : AskedFor(r, y) => AskedFor(w, y)
  BY <1>1, <1>2 DEF AskedFor
<1>4. \A k \in DOMAIN w : w[k].answer # <<>> => k \in DOMAIN r /\ w[k] = r[k]
  BY <1>1, <1>2
<1>5. QED
  BY <1>1, <1>2, <1>3, <1>4 DEF w

\* A request that is done with: the others stay.
LEMMA RequestDone ==
    ASSUME NEW r \in Seq(ListRequest), NEW i \in DOMAIN r
    PROVE  /\ Without(r, i) \in Seq(ListRequest)
           /\ \A k \in DOMAIN Without(r, i) : \E j \in DOMAIN r : Without(r, i)[k] = r[j]
           /\ \A y : AskedFor(r, y) /\ y # r[i].for => AskedFor(Without(r, i), y)
<1> DEFINE w == Without(r, i)
<1>1. /\ w \in Seq(ListRequest)
      /\ \A k \in DOMAIN w : \E j \in DOMAIN r : w[k] = r[j]
      /\ \A k \in DOMAIN r : /\ k < i => k \in DOMAIN w /\ w[k] = r[k]
                             /\ k > i => k - 1 \in DOMAIN w /\ w[k - 1] = r[k]
  BY WithoutSeq DEF Without
<1>2. \A k \in DOMAIN r : k = i \/ k < i \/ k > i
  OBVIOUS
<1> HIDE DEF w
<1>3. \A y : AskedFor(r, y) /\ y # r[i].for => AskedFor(w, y)
  BY <1>1, <1>2 DEF AskedFor
<1>4. QED
  BY <1>1, <1>3 DEF w

\* A request that is answered: it is still for the same device.
LEMMA RequestRead ==
    ASSUME NEW r \in Seq(ListRequest), NEW i \in DOMAIN r, NEW a \in Answer
    PROVE  LET w == [r EXCEPT ![i].answer = a] IN
           /\ w \in Seq(ListRequest) /\ DOMAIN w = DOMAIN r
           /\ \A k \in DOMAIN r : /\ w[k].for = r[k].for
                                  /\ k # i => w[k] = r[k]
                                  /\ k = i => w[k].answer = a
<1>1. r[i] \in ListRequest
  OBVIOUS
<1>2. /\ [r[i] EXCEPT !.answer = a] \in ListRequest
      /\ [r[i] EXCEPT !.answer = a].for = r[i].for /\ [r[i] EXCEPT !.answer = a].answer = a
  BY <1>1 DEF ListRequest
<1>3. QED
  BY <1>2

\* The requests of a list stay fresh when some are done with or made.
LEMMA FewerAreFresh ==
    ASSUME NEW r, NEW w, NEW q, NEW told, NEW there, NEW saying \in BOOLEAN, NEW none,
           Fresh(r, q, told, there, saying, none),
           \A k \in DOMAIN w : w[k].answer # <<>> => \E j \in DOMAIN r : w[k] = r[j]
    PROVE  Fresh(w, q, told, there, saying, none)
<1>1. SUFFICES ASSUME NEW k \in DOMAIN w, w[k].answer # <<>>
      PROVE  /\ \A d \in told : w[k].for \in {d, WholeList} /\ ~Heard(q, d)
                  => (d \in w[k].answer[1] <=> d \in there)
             /\ saying /\ w[k].for = WholeList /\ ~DiscoveryHeard(q) => (w[k].answer[2] <=> none)
  BY DEF Fresh
<1>2. PICK j \in DOMAIN r : w[k] = r[j]
  BY <1>1
<1>3. QED
  BY <1>1, <1>2 DEF Fresh

\* The registry changes and reports it.
LEMMA ReportKeepsNearby ==
    ASSUME NearbyOK, NearbyInv, NEW e \in NearbyEvent, Reports(e), UnsaidIsGone',
           unsaidReason' \in BOOLEAN,
           \A d \in Nearby \ unsaid' :
             IF About(e, d) THEN d \in air' <=> Present(e)
                            ELSE d \notin unsaid /\ (d \in air' <=> d \in air),
           ~unsaidReason' => IF OfDiscovery(e) THEN noDiscovery' <=> e.kind = "unavailable"
                             ELSE ~unsaidReason /\ (noDiscovery' <=> noDiscovery)
    PROVE  NearbyInv'
<1> DEFINE told == Nearby \ unsaid
           saying == ~unsaidReason
<1>1. /\ UNCHANGED <<hears, panel, requests, nearbyRows, banner>>
      /\ discovery \in Seq(NearbyEvent) /\ saying \in BOOLEAN /\ saying' \in BOOLEAN
  BY DEF Reports, NearbyOK
<1>2. CASE hears
  <2>1. discovery' = Append(discovery, e) /\ panel
    BY <1>2 DEF Reports, NearbyInv, FeedIsCurrent
  <2>2. \A d \in told' : IF About(e, d) THEN d \in air' <=> Present(e)
                                        ELSE d \in told /\ (d \in air' <=> d \in air)
    OBVIOUS
  <2>3. /\ DevicesTold(discovery', Nearby \ unsaid', air')
        /\ \A d : Heard(discovery', d) <=> Heard(discovery, d) \/ About(e, d)
        /\ DiscoveryHeard(discovery') <=> DiscoveryHeard(discovery) \/ OfDiscovery(e)
        /\ ~unsaidReason' => ReasonTold(discovery', noDiscovery')
    <3>1. /\ DevicesTold(discovery, Nearby \ unsaid, air)
          /\ ~unsaidReason => ReasonTold(discovery, noDiscovery)
      BY DEF NearbyInv, FeedIsCurrent
    <3>2. /\ DevicesTold(discovery', Nearby \ unsaid', air')
          /\ \A d : Heard(discovery', d) <=> Heard(discovery, d) \/ About(e, d)
          /\ DiscoveryHeard(discovery') <=> DiscoveryHeard(discovery) \/ OfDiscovery(e)
      <4> DEFINE after == Nearby \ unsaid'
      <4>1. \A d \in after : IF About(e, d) THEN d \in air' <=> Present(e)
                                            ELSE d \in told /\ (d \in air' <=> d \in air)
        BY <2>2
      <4>2. DevicesTold(discovery, told, air)
        BY <3>1
      <4> HIDE DEF told, after
      <4>3. DevicesTold(discovery', after, air')
        BY <1>1, <2>1, <4>1, <4>2, FeedGrows
      <4>4. /\ \A d : Heard(discovery', d) <=> Heard(discovery, d) \/ About(e, d)
            /\ DiscoveryHeard(discovery') <=> DiscoveryHeard(discovery) \/ OfDiscovery(e)
        BY <1>1, <2>1, HeardGrows
      <4>5. QED
        BY <4>3, <4>4 DEF after
    <3>3. ASSUME ~unsaidReason' PROVE ReasonTold(discovery', noDiscovery')
      <4>1. OfDiscovery(e) => (noDiscovery' <=> e.kind = "unavailable")
        BY <3>3
      <4>2. ~OfDiscovery(e) => ReasonTold(discovery, noDiscovery) /\ (noDiscovery' <=> noDiscovery)
        BY <3>1, <3>3
      <4>3. /\ Len(discovery) \in Nat
            /\ \A k \in DOMAIN discovery : k \in DOMAIN discovery' /\ discovery'[k] = discovery[k]
                                           /\ Len(discovery) + 1 > k
            /\ Len(discovery) + 1 \in DOMAIN discovery' /\ discovery'[Len(discovery) + 1] = e
            /\ \A k \in DOMAIN discovery' : k \in DOMAIN discovery \/ k = Len(discovery) + 1
        BY <1>1, <2>1, AppendSeq
      <4>4. ASSUME NEW k \in DOMAIN discovery', OfDiscovery(discovery'[k]),
                   \A j \in DOMAIN discovery' : j > k => ~OfDiscovery(discovery'[j])
            PROVE  noDiscovery' <=> discovery'[k].kind = "unavailable"
        <5>1. CASE k = Len(discovery) + 1
          BY <4>1, <4>3, <4>4, <5>1
        <5>2. CASE k \in DOMAIN discovery
          <6>1. /\ ~OfDiscovery(e) /\ OfDiscovery(discovery[k])
                /\ \A j \in DOMAIN discovery : j > k => ~OfDiscovery(discovery[j])
            BY <4>3, <4>4, <5>2
          <6>2. noDiscovery <=> discovery[k].kind = "unavailable"
            BY <4>2, <5>2, <6>1 DEF ReasonTold
          <6>3. QED
            BY <4>2, <4>3, <5>2, <6>1, <6>2
        <5>3. QED
          BY <4>3, <5>1, <5>2
      <4>5. QED
        BY <4>4 DEF ReasonTold
    <3>4. QED
      BY <3>2, <3>3
  <2>4. FeedIsCurrent'
    BY <1>1, <1>2, <2>1, <2>3 DEF FeedIsCurrent
  <2>5. ASSUME ~overtaken' PROVE ~overtaken
    BY <2>5 DEF Reports
  <2>6. ASSUME ~overtaken PROVE Fresh(requests, discovery', told', air', saying', noDiscovery')
    <3>1. Fresh(requests, discovery, told, air, saying, noDiscovery)
      BY <2>1, <2>6 DEF NearbyInv, AnswersAreFresh
    <3>2. QED
      BY <2>2, <2>3, <3>1 DEF Fresh
  <2>7. ASSUME ~overtaken, NEW d \in told'
        PROVE  RightFor(d, nearbyRows, requests, discovery', air')
    <3>1. CASE About(e, d)
      BY <2>3, <3>1 DEF RightFor
    <3>2. CASE ~About(e, d)
      <4>1. RightFor(d, nearbyRows, requests, discovery, air)
        BY <2>1, <2>2, <2>7, <3>2 DEF NearbyInv, ListCatchesUp
      <4>2. QED
        BY <2>2, <2>3, <2>7, <3>2, <4>1 DEF RightFor
    <3>3. QED
      BY <3>1, <3>2
  <2>8. ASSUME ~overtaken, saying' PROVE BannerRight(banner, requests, discovery', noDiscovery')
    <3>1. CASE OfDiscovery(e)
      BY <2>3, <3>1 DEF BannerRight
    <3>2. CASE ~OfDiscovery(e)
      <4>1. BannerRight(banner, requests, discovery, noDiscovery)
        BY <2>1, <2>8, <3>2 DEF NearbyInv, ListCatchesUp
      <4>2. QED
        BY <2>3, <2>8, <3>2, <4>1 DEF BannerRight
    <3>3. QED
      BY <3>1, <3>2
  <2>9. QED
    BY <1>1, <2>4, <2>5, <2>6, <2>7, <2>8 DEF NearbyInv, AnswersAreFresh, ListCatchesUp
<1>3. CASE ~hears
  <2>1. UNCHANGED discovery /\ discovery = <<>>
    BY <1>3 DEF Reports, NearbyInv, FeedIsCurrent
  <2>2. DevicesTold(discovery', Nearby \ unsaid', air') /\ ReasonTold(discovery', noDiscovery')
    BY <2>1 DEF DevicesTold, ReasonTold
  <2>3. ~panel \/ overtaken'
    <3>1. overtaken' = (overtaken \/ (panel /\ ~hears))
      BY DEF Reports
    <3>2. QED
      BY <1>3, <3>1
  <2>4. QED
    BY <1>1, <1>3, <2>1, <2>2, <2>3
       DEF NearbyInv, FeedIsCurrent, AnswersAreFresh, ListCatchesUp
<1>4. QED
  BY <1>2, <1>3

\* The registry changes without an event: less is promised then.
LEMMA SilenceKeepsNearby ==
    ASSUME NearbyInv, Silently, UnsaidIsGone',
           \A d \in Nearby \ unsaid' : d \notin unsaid /\ (d \in air' <=> d \in air),
           ~unsaidReason' => ~unsaidReason /\ (noDiscovery' <=> noDiscovery)
    PROVE  NearbyInv'
<1>1. UNCHANGED <<discovery, hears, panel, requests, nearbyRows, banner, overtaken>>
  BY DEF Silently
<1>2. FeedIsCurrent'
  BY <1>1 DEF NearbyInv, FeedIsCurrent, DevicesTold, ReasonTold
<1>3. AnswersAreFresh'
  BY <1>1 DEF NearbyInv, AnswersAreFresh, Fresh
<1>4. ListCatchesUp'
  BY <1>1 DEF NearbyInv, ListCatchesUp, RightFor, BannerRight
<1>5. QED
  BY <1>2, <1>3, <1>4 DEF NearbyInv

\* A request reads the registry.
LEMMA ReadKeepsNearby ==
    ASSUME NearbyOK, NearbyInv, NEW i \in DOMAIN requests, RequestRuns(i)
    PROVE  NearbyInv' /\ requests' \in Seq(ListRequest)
<1> DEFINE a == <<air, noDiscovery>>
           told == Nearby \ unsaid
           saying == ~unsaidReason
<1>1. /\ UNCHANGED <<air, noDiscovery, discovery, hears, panel, nearbyRows, banner, overtaken,
                     unsaid, unsaidReason>>
      /\ requests' = [requests EXCEPT ![i].answer = a] /\ requests \in Seq(ListRequest)
  BY DEF RequestRuns, NearbyOK, unsaidVars
<1>2. a \in Answer /\ a[1] = air /\ a[2] = noDiscovery
  BY DEF NearbyOK, Answer
<1>3. /\ requests' \in Seq(ListRequest) /\ DOMAIN requests' = DOMAIN requests
      /\ \A k \in DOMAIN requests : /\ requests'[k].for = requests[k].for
                                    /\ k # i => requests'[k] = requests[k]
                                    /\ k = i => requests'[k].answer = a
  <2> HIDE DEF a
  <2> QED
    BY <1>1, <1>2, RequestRead
<1>4. \A y : AskedFor(requests', y) <=> AskedFor(requests, y)
  BY <1>3 DEF AskedFor
<1>5. ASSUME Fresh(requests, discovery, told, air, saying, noDiscovery)
      PROVE  Fresh(requests', discovery, told, air, saying, noDiscovery)
  <2> SUFFICES ASSUME NEW k \in DOMAIN requests', requests'[k].answer # <<>>
      PROVE  /\ \A d \in told : requests'[k].for \in {d, WholeList} /\ ~Heard(discovery, d)
                  => (d \in requests'[k].answer[1] <=> d \in air)
             /\ saying /\ requests'[k].for = WholeList /\ ~DiscoveryHeard(discovery)
                  => (requests'[k].answer[2] <=> noDiscovery)
    BY DEF Fresh
  <2>1. CASE k = i
    BY <1>2, <1>3, <2>1
  <2>2. CASE k # i
    BY <1>3, <1>5, <2>2 DEF Fresh
  <2>3. QED
    BY <2>1, <2>2
<1>6. AnswersAreFresh'
  BY <1>1, <1>5 DEF NearbyInv, AnswersAreFresh
<1>7. ListCatchesUp'
  BY <1>1, <1>4 DEF NearbyInv, ListCatchesUp, RightFor, BannerRight
<1>8. FeedIsCurrent' /\ UnsaidIsGone'
  BY <1>1 DEF NearbyInv, FeedIsCurrent, UnsaidIsGone
<1>9. QED
  BY <1>3, <1>6, <1>7, <1>8 DEF NearbyInv

\* The page opens: the whole list is asked for, and no older request is in flight
\* or nothing is promised.
LEMMA OpenKeepsNearby ==
    ASSUME NearbyOK, NearbyInv, OpenPanel
    PROVE  NearbyInv' /\ requests' \in Seq(ListRequest)
<1>1. /\ Request(WholeList) /\ unsaid' = {} /\ ~unsaidReason' /\ ~panel
      /\ UNCHANGED <<air, noDiscovery, discovery, hears>>
  BY DEF OpenPanel
<1>2. panel' /\ (overtaken' \/ requests = <<>>)
  BY DEF OpenPanel
<1>3. /\ requests' \in Seq(ListRequest) /\ AskedFor(requests', WholeList)
      /\ \A k \in DOMAIN requests' : requests'[k].answer # <<>>
           => k \in DOMAIN requests /\ requests'[k] = requests[k]
  BY <1>1, RequestMade DEF NearbyOK, Request
<1>4. ~hears /\ discovery = <<>>
  BY <1>1 DEF NearbyInv, FeedIsCurrent
<1>5. FeedIsCurrent' /\ UnsaidIsGone'
  BY <1>1, <1>2, <1>4 DEF FeedIsCurrent, DevicesTold, ReasonTold, UnsaidIsGone
<1>6. ListCatchesUp'
  BY <1>3 DEF ListCatchesUp, RightFor, BannerRight
<1>7. CASE overtaken'
  BY <1>3, <1>5, <1>6, <1>7 DEF NearbyInv, AnswersAreFresh
<1>8. CASE requests = <<>>
  <2>1. \A k \in DOMAIN requests' : requests'[k].answer = <<>>
    BY <1>3, <1>8
  <2>2. AnswersAreFresh'
    BY <2>1 DEF AnswersAreFresh, Fresh
  <2>3. QED
    BY <1>3, <1>5, <1>6, <2>2 DEF NearbyInv
<1>9. QED
  BY <1>2, <1>7, <1>8

\* An answer is applied, or the request failed.
LEMMA AnswerKeepsNearby ==
    ASSUME NearbyOK, NearbyInv, NEW i \in DOMAIN requests, HydrateEnds(i) \/ RefreshOneEnds(i)
    PROVE  NearbyInv' /\ requests' \in Seq(ListRequest)
<1> DEFINE told == Nearby \ unsaid
           saying == ~unsaidReason
<1>1. /\ UNCHANGED <<air, noDiscovery, discovery, hears, panel, unsaid, unsaidReason>>
      /\ requests' = Without(requests, i) /\ requests[i].answer # <<>>
      /\ requests \in Seq(ListRequest)
  BY DEF HydrateEnds, RefreshOneEnds, NearbyOK, Pending, unsaidVars
<1>2. /\ requests' \in Seq(ListRequest)
      /\ \A k \in DOMAIN requests' : \E j \in DOMAIN requests : requests'[k] = requests[j]
      /\ \A y : AskedFor(requests, y) /\ y # requests[i].for => AskedFor(requests', y)
  BY <1>1, RequestDone
<1>3. FeedIsCurrent' /\ UnsaidIsGone'
  BY <1>1 DEF NearbyInv, FeedIsCurrent, UnsaidIsGone
<1>4. SUFFICES ASSUME panel, ~overtaken' PROVE AnswersAreFresh' /\ ListCatchesUp'
  BY <1>1, <1>2, <1>3 DEF NearbyInv, AnswersAreFresh, ListCatchesUp
<1>5. ~overtaken
  BY <1>4 DEF HydrateEnds, RefreshOneEnds
<1>6. Fresh(requests, discovery, told, air, saying, noDiscovery)
  BY <1>4, <1>5 DEF NearbyInv, AnswersAreFresh
<1>7. Fresh(requests', discovery, told, air, saying, noDiscovery)
  <2>1. saying \in BOOLEAN
    OBVIOUS
  <2> HIDE DEF told, saying
  <2>2. QED
    BY <1>2, <1>6, <2>1, FewerAreFresh
<1>8. AnswersAreFresh'
  BY <1>1, <1>7 DEF AnswersAreFresh
<1>9. CASE HydrateEnds(i)
  <2>1. /\ nearbyRows' = requests[i].answer[1] /\ banner' = requests[i].answer[2]
        /\ requests[i].for = WholeList
    BY <1>4, <1>9 DEF HydrateEnds
  <2>2. \A d \in told : Heard(discovery, d) \/ (d \in nearbyRows' <=> d \in air)
    BY <1>1, <1>6, <2>1 DEF Fresh
  <2>3. saying => DiscoveryHeard(discovery) \/ (banner' <=> noDiscovery)
    BY <1>1, <1>6, <2>1 DEF Fresh
  <2>4. ListCatchesUp'
    BY <1>1, <2>2, <2>3 DEF ListCatchesUp, RightFor, BannerRight
  <2>5. QED
    BY <1>8, <2>4
<1>10. CASE RefreshOneEnds(i)
  <2>1. /\ nearbyRows' = nearbyRows \cup ({requests[i].for} \cap requests[i].answer[1])
        /\ UNCHANGED banner /\ requests[i].for # WholeList
    BY <1>4, <1>10 DEF RefreshOneEnds
  <2>2. AskedFor(requests, WholeList) => AskedFor(requests', WholeList)
    BY <1>2, <2>1
  <2>3. ASSUME saying PROVE BannerRight(banner', requests', discovery, noDiscovery)
    <3>1. BannerRight(banner, requests, discovery, noDiscovery)
      BY <1>4, <1>5, <2>3 DEF NearbyInv, ListCatchesUp
    <3>2. QED
      BY <2>1, <2>2, <3>1 DEF BannerRight
  <2>4. ASSUME NEW d \in told PROVE RightFor(d, nearbyRows', requests', discovery, air)
    <3>1. RightFor(d, nearbyRows, requests, discovery, air)
      BY <1>4, <1>5 DEF NearbyInv, ListCatchesUp
    <3>2. CASE d # requests[i].for
      BY <1>2, <2>1, <2>2, <3>1, <3>2 DEF RightFor
    <3>3. CASE d = requests[i].for
      <4>1. Heard(discovery, d) \/ (d \in requests[i].answer[1] <=> d \in air)
        BY <1>1, <1>6, <3>3 DEF Fresh
      <4>2. QED
        BY <2>1, <2>2, <3>1, <3>3, <4>1 DEF RightFor
    <3>4. QED
      BY <3>2, <3>3
  <2>5. ListCatchesUp'
    BY <1>1, <2>3, <2>4 DEF ListCatchesUp
  <2>6. QED
    BY <1>8, <2>5
<1>11. QED
  BY <1>9, <1>10

\* An event is applied: it puts right what it is about, unless another one follows.
LEMMA EventKeepsNearby ==
    ASSUME NearbyOK, NearbyInv, OnSighting \/ OnPairedNearby \/ OnLost \/ OnUnavailable
    PROVE  NearbyInv' /\ requests' \in Seq(ListRequest)
<1> DEFINE e == Head(discovery)
           rest == Tail(discovery)
           told == Nearby \ unsaid
           saying == ~unsaidReason
<1>1. /\ UNCHANGED <<air, noDiscovery, hears, panel, unsaid, unsaidReason>> /\ discovery # <<>>
      /\ discovery' = rest /\ discovery \in Seq(NearbyEvent) /\ requests \in Seq(ListRequest)
      /\ hears /\ panel
  BY DEF OnSighting, OnPairedNearby, OnLost, OnUnavailable, NearbyOK, NearbyInv, FeedIsCurrent,
         unsaidVars
<1>2. /\ e \in NearbyEvent /\ DevicesTold(rest, told, air)
      /\ saying => ReasonTold(rest, noDiscovery)
      /\ \A d : Heard(discovery, d) <=> Heard(rest, d) \/ About(e, d)
      /\ DiscoveryHeard(discovery) <=> DiscoveryHeard(rest) \/ OfDiscovery(e)
      /\ \A d \in told : About(e, d) /\ ~Heard(rest, d) => (d \in air <=> Present(e))
      /\ saying /\ OfDiscovery(e) /\ ~DiscoveryHeard(rest)
           => (noDiscovery <=> e.kind = "unavailable")
  <2>1. DevicesTold(discovery, told, air) /\ (saying => ReasonTold(discovery, noDiscovery))
    BY DEF NearbyInv, FeedIsCurrent
  <2> HIDE DEF told
  <2>2. QED
    BY <1>1, <2>1, FeedShrinks
<1> HIDE DEF e, rest
<1>3. FeedIsCurrent' /\ UnsaidIsGone'
  BY <1>1, <1>2 DEF FeedIsCurrent, UnsaidIsGone, NearbyInv
<1>4. /\ requests' \in Seq(ListRequest)
      /\ \A y : AskedFor(requests, y) => AskedFor(requests', y)
      /\ e.kind \in {"found", "identified"} => AskedFor(requests', e.id)
      /\ e.kind = "paired" => AskedFor(requests', WholeList)
      /\ \A k \in DOMAIN requests' : requests'[k].answer # <<>>
           => \E j \in DOMAIN requests : requests'[k] = requests[j]
  <2>1. CASE OnSighting
    <3>1. e.id \in Nearby /\ Request(e.id)
      BY <1>2, <2>1 DEF OnSighting, NearbyEvent, e
    <3>2. e.kind # "paired"
      BY <2>1 DEF OnSighting, e
    <3>3. QED
      BY <1>1, <3>1, <3>2, RequestMade DEF Request
  <2>2. CASE OnLost \/ OnUnavailable
    BY <1>1, <2>2 DEF OnLost, OnUnavailable, e
  <2>3. CASE OnPairedNearby
    <3>1. e.kind = "paired" /\ Request(WholeList)
      BY <2>3 DEF OnPairedNearby, e
    <3>2. QED
      BY <1>1, <3>1, RequestMade DEF Request
  <2>4. QED
    BY <2>1, <2>2, <2>3
<1>5. SUFFICES ASSUME ~overtaken' PROVE AnswersAreFresh' /\ ListCatchesUp'
  BY <1>3, <1>4 DEF NearbyInv, AnswersAreFresh, ListCatchesUp
<1>6. ~overtaken
  BY <1>5 DEF OnSighting, OnPairedNearby, OnLost, OnUnavailable
<1>7. \A i \in DOMAIN requests : requests[i].answer # <<>> =>
        /\ \A d \in Nearby : requests[i].for \in {d, WholeList} => ~About(e, d)
        /\ requests[i].for = WholeList => ~OfDiscovery(e)
  <2>1. CASE OnUnavailable
    <3>1. ~Overtakes(WholeList) /\ e.kind = "unavailable"
      BY <1>5, <2>1 DEF OnUnavailable, e
    <3>2. QED
      BY <3>1 DEF Overtakes, Pending, About
  <2>2. CASE OnSighting \/ OnPairedNearby \/ OnLost
    <3>1. ~Overtakes(e.id)
      BY <1>5, <2>2 DEF OnSighting, OnPairedNearby, OnLost, e
    <3>2. QED
      BY <3>1 DEF Overtakes, Pending, About
  <2>3. QED
    BY <2>1, <2>2
<1>8. AnswersAreFresh'
  <2>1. Fresh(requests, discovery, told, air, saying, noDiscovery)
    BY <1>1, <1>6 DEF NearbyInv, AnswersAreFresh
  <2>2. Fresh(requests, rest, told, air, saying, noDiscovery)
    BY <1>2, <1>7, <2>1 DEF Fresh
  <2>3. Fresh(requests', rest, told, air, saying, noDiscovery)
    <3>1. saying \in BOOLEAN
      OBVIOUS
    <3> HIDE DEF told, saying
    <3>2. QED
      BY <1>4, <2>2, <3>1, FewerAreFresh
  <2>4. QED
    BY <1>1, <2>3 DEF AnswersAreFresh
<1>9. ASSUME NEW d \in told PROVE RightFor(d, nearbyRows', requests', rest, air)
  <2>1. RightFor(d, nearbyRows, requests, discovery, air)
    BY <1>1, <1>6 DEF NearbyInv, ListCatchesUp
  <2>2. CASE ~About(e, d)
    <3>1. d \in nearbyRows' <=> d \in nearbyRows
      BY <2>2 DEF OnSighting, OnPairedNearby, OnLost, OnUnavailable, About, e
    <3>2. QED
      BY <1>2, <1>4, <2>1, <2>2, <3>1 DEF RightFor
  <2>3. CASE About(e, d) /\ Heard(rest, d)
    BY <2>3 DEF RightFor
  <2>4. CASE About(e, d) /\ ~Heard(rest, d)
    <3>1. d \in air <=> Present(e)
      BY <1>2, <2>4
    <3>2. CASE e.kind = "lost"
      <4>1. d \notin nearbyRows'
        BY <2>4, <3>2 DEF OnSighting, OnPairedNearby, OnLost, OnUnavailable, About, e
      <4>2. QED
        BY <3>1, <3>2, <4>1 DEF RightFor, Present
    <3>3. CASE Present(e)
      BY <1>4, <2>4, <3>1, <3>3 DEF RightFor, About, Present
    <3>4. CASE e.kind = "paired"
      BY <1>4, <3>4 DEF RightFor
    <3>5. QED
      BY <2>4, <3>2, <3>3, <3>4 DEF About, Present
  <2>5. QED
    BY <2>2, <2>3, <2>4
<1>10. ASSUME saying PROVE BannerRight(banner', requests', rest, noDiscovery)
  <2>1. BannerRight(banner, requests, discovery, noDiscovery)
    BY <1>1, <1>6, <1>10 DEF NearbyInv, ListCatchesUp
  <2>2. CASE ~OfDiscovery(e)
    <3>1. banner' <=> banner
      <4>1. CASE OnSighting
        <5>1. banner' = (banner /\ e.kind # "found") /\ e.kind # "found"
          BY <2>2, <4>1 DEF OnSighting, OfDiscovery, e
        <5>2. QED
          BY <5>1
      <4>2. CASE OnLost \/ OnPairedNearby
        BY <4>2 DEF OnLost, OnPairedNearby
      <4>3. QED
        BY <2>2, <4>1, <4>2 DEF OnUnavailable, OfDiscovery, e
    <3>2. QED
      BY <1>2, <1>4, <2>1, <2>2, <3>1 DEF BannerRight
  <2>3. CASE OfDiscovery(e) /\ DiscoveryHeard(rest)
    BY <2>3 DEF BannerRight
  <2>4. CASE OfDiscovery(e) /\ ~DiscoveryHeard(rest)
    <3>1. noDiscovery <=> e.kind = "unavailable"
      BY <1>2, <1>10, <2>4
    <3>2. banner' <=> e.kind = "unavailable"
      BY <2>4 DEF OnSighting, OnPairedNearby, OnLost, OnUnavailable, OfDiscovery, e
    <3>3. QED
      BY <3>1, <3>2 DEF BannerRight
  <2>5. QED
    BY <2>2, <2>3, <2>4
<1>11. ListCatchesUp'
  BY <1>1, <1>9, <1>10 DEF ListCatchesUp
<1>12. QED
  BY <1>8, <1>11

\* So the nearby list catches up with the registry.
LEMMA NearbyStep ==
    ASSUME NearbyOK, NearbyInv, [NearbyListNext]_nearbyListVars
    PROVE  NearbyInv' /\ requests' \in Seq(ListRequest)
<1>1. CASE UNCHANGED nearbyListVars
  BY <1>1 DEF nearbyListVars, unsaidVars, NearbyOK, NearbyInv, FeedIsCurrent, AnswersAreFresh,
         ListCatchesUp, UnsaidIsGone
<1>2. ASSUME NEW d \in Nearby,
             DeviceFound(d) \/ DeviceIdentified(d) \/ DeviceLost(d) \/ DevicePaired(d)
      PROVE  NearbyInv' /\ UNCHANGED requests
  <2>1. PICK e \in NearbyEvent :
          /\ Reports(e) /\ e.id = d /\ e.kind \in {"found", "identified", "lost", "paired"}
          /\ d \in air' <=> Present(e)
          /\ \A x \in Nearby : x # d => (x \in air' <=> x \in air) /\ (x \in unsaid' <=> x \in unsaid)
          /\ d \in unsaid' => d \in unsaid /\ ~Present(e)
          /\ noDiscovery' = noDiscovery /\ (e.kind = "found" => ~noDiscovery)
          /\ unsaidReason' = unsaidReason \/ (e.kind = "found" /\ ~unsaidReason')
    <3>1. CASE DeviceFound(d)
      <4>1. [kind |-> "found", id |-> d] \in NearbyEvent
        BY DEF NearbyEvent
      <4>2. QED
        BY <3>1, <4>1 DEF DeviceFound, Present
    <3>2. CASE DeviceIdentified(d)
      <4>1. [kind |-> "identified", id |-> d] \in NearbyEvent
        BY DEF NearbyEvent
      <4>2. QED
        BY <3>2, <4>1 DEF DeviceIdentified, Present, unsaidVars, NearbyInv, UnsaidIsGone
    <3>3. CASE DeviceLost(d)
      <4>1. [kind |-> "lost", id |-> d] \in NearbyEvent
        BY DEF NearbyEvent
      <4>2. QED
        BY <3>3, <4>1 DEF DeviceLost, Present, unsaidVars
    <3>4. CASE DevicePaired(d)
      <4>1. [kind |-> "paired", id |-> d] \in NearbyEvent
        BY DEF NearbyEvent
      <4>2. QED
        BY <3>4, <4>1 DEF DevicePaired, Present
    <3>5. QED
      BY <1>2, <3>1, <3>2, <3>3, <3>4
  <2>2. \A x \in Nearby \ unsaid' :
          IF About(e, x) THEN x \in air' <=> Present(e)
                         ELSE x \notin unsaid /\ (x \in air' <=> x \in air)
    BY <2>1 DEF About
  <2>3. ~unsaidReason' => IF OfDiscovery(e) THEN noDiscovery' <=> e.kind = "unavailable"
                          ELSE ~unsaidReason /\ (noDiscovery' <=> noDiscovery)
    BY <2>1 DEF OfDiscovery
  <2>4. unsaid' \in SUBSET Nearby
    BY <1>2 DEF DeviceFound, DeviceIdentified, DeviceLost, DevicePaired, NearbyOK, unsaidVars
  <2>5. UnsaidIsGone'
    BY <2>1, <2>4 DEF NearbyInv, UnsaidIsGone
  <2>6. unsaidReason' \in BOOLEAN
    BY <1>2, Zenon DEF DeviceFound, DeviceIdentified, DeviceLost, DevicePaired, NearbyOK, unsaidVars
  <2>7. QED
    BY <2>1, <2>2, <2>3, <2>5, <2>6, ReportKeepsNearby DEF Reports
<1>3. ASSUME DiscoveryFails PROVE NearbyInv' /\ UNCHANGED requests
  <2>1. PICK e \in NearbyEvent : Reports(e) /\ e.kind = "unavailable"
    <3>1. [kind |-> "unavailable"] \in NearbyEvent
      BY DEF NearbyEvent
    <3>2. QED
      BY <1>3, <3>1 DEF DiscoveryFails
  <2>2. noDiscovery' /\ ~unsaidReason' /\ unsaidReason' \in BOOLEAN /\ UNCHANGED <<air, unsaid>>
    BY <1>3, Zenon DEF DiscoveryFails
  <2>3. \A x \in Nearby \ unsaid' :
          IF About(e, x) THEN x \in air' <=> Present(e)
                         ELSE x \notin unsaid /\ (x \in air' <=> x \in air)
    BY <2>1, <2>2 DEF About
  <2>4. IF OfDiscovery(e) THEN noDiscovery' <=> e.kind = "unavailable"
                          ELSE ~unsaidReason /\ (noDiscovery' <=> noDiscovery)
    BY <2>1, <2>2 DEF OfDiscovery
  <2>5. UnsaidIsGone'
    BY <2>2 DEF NearbyInv, UnsaidIsGone
  <2>6. QED
    BY <2>1, <2>2, <2>3, <2>4, <2>5, ReportKeepsNearby DEF Reports
<1>4. ASSUME (\E d \in Nearby : DeviceBlocked(d)) \/ DiscoveryRestarts \/ DiscoverabilityOff
      PROVE  NearbyInv' /\ UNCHANGED requests
  <2>1. Silently
    BY <1>4 DEF DeviceBlocked, DiscoveryRestarts, DiscoverabilityOff
  <2>2. \A d \in Nearby \ unsaid' : d \notin unsaid /\ (d \in air' <=> d \in air)
    BY <1>4 DEF DeviceBlocked, DiscoveryRestarts, DiscoverabilityOff
  <2>3. ~unsaidReason' => ~unsaidReason /\ (noDiscovery' <=> noDiscovery)
    BY <1>4 DEF DeviceBlocked, DiscoveryRestarts, DiscoverabilityOff
  <2>4. UnsaidIsGone'
    <3>1. \A d \in unsaid' : d \notin air'
      BY <1>4 DEF DeviceBlocked, DiscoveryRestarts, DiscoverabilityOff, NearbyInv, UnsaidIsGone
    <3>2. unsaidReason' => ~noDiscovery'
      BY <1>4 DEF DeviceBlocked, DiscoveryRestarts, DiscoverabilityOff, NearbyInv, UnsaidIsGone
    <3>3. QED
      BY <3>1, <3>2 DEF UnsaidIsGone
  <2>5. QED
    BY <2>1, <2>2, <2>3, <2>4, SilenceKeepsNearby DEF Silently
<1>5. ASSUME StartNearbyListeners PROVE NearbyInv' /\ UNCHANGED requests
  <2>1. /\ UNCHANGED <<air, noDiscovery, discovery, panel, requests, nearbyRows, banner, overtaken,
                       unsaid, unsaidReason>>
        /\ panel
    BY <1>5 DEF StartNearbyListeners, unsaidVars
  <2>2. hears'
    BY <1>5, Zenon DEF StartNearbyListeners
  <2>3. QED
    BY <2>1, <2>2 DEF NearbyInv, FeedIsCurrent, AnswersAreFresh, ListCatchesUp, UnsaidIsGone
<1>6. ASSUME ClosePanel PROVE NearbyInv' /\ UNCHANGED requests
  <2>1. discovery' = <<>> /\ UNCHANGED <<requests, air, noDiscovery, unsaid, unsaidReason>>
    BY <1>6 DEF ClosePanel, unsaidVars
  <2>2. ~panel' /\ ~hears'
    BY <1>6, Zenon DEF ClosePanel
  <2>3. DevicesTold(discovery', Nearby \ unsaid', air') /\ ReasonTold(discovery', noDiscovery')
    BY <2>1 DEF DevicesTold, ReasonTold
  <2>4. QED
    BY <2>1, <2>2, <2>3 DEF NearbyInv, FeedIsCurrent, AnswersAreFresh, ListCatchesUp, UnsaidIsGone
<1>7. QED
  BY <1>1, <1>2, <1>3, <1>4, <1>5, <1>6, ReadKeepsNearby, OpenKeepsNearby, AnswerKeepsNearby,
     EventKeepsNearby DEF NearbyListNext, NearbyOK

\* The nearby part of the page keeps its types.
LEMMA NearbyKeepsTypes ==
    ASSUME NearbyOK, NearbyInv, [NearbyListNext]_nearbyListVars
    PROVE  NearbyOK'
<1>1. requests' \in Seq(ListRequest)
  BY NearbyStep
<1>2. CASE UNCHANGED nearbyListVars
  BY <1>2 DEF nearbyListVars, unsaidVars, NearbyOK
<1>3. ASSUME NEW d \in Nearby,
             DeviceFound(d) \/ DeviceIdentified(d) \/ DeviceLost(d) \/ DevicePaired(d)
      PROVE  NearbyOK'
  <2>1. /\ air' \in SUBSET Nearby /\ unsaid' \in SUBSET Nearby /\ UNCHANGED <<nearbyRows, banner>>
    BY <1>3 DEF DeviceFound, DeviceIdentified, DeviceLost, DevicePaired, Reports, NearbyOK, unsaidVars
  <2>2. noDiscovery' \in BOOLEAN /\ unsaidReason' \in BOOLEAN
    BY <1>3, Zenon DEF DeviceFound, DeviceIdentified, DeviceLost, DevicePaired, NearbyOK, unsaidVars
  <2>3. PICK e \in NearbyEvent : Reports(e)
    <3>1. /\ [kind |-> "found", id |-> d] \in NearbyEvent /\ [kind |-> "lost", id |-> d] \in NearbyEvent
          /\ [kind |-> "identified", id |-> d] \in NearbyEvent
          /\ [kind |-> "paired", id |-> d] \in NearbyEvent
      BY DEF NearbyEvent
    <3>2. QED
      BY <1>3, <3>1 DEF DeviceFound, DeviceIdentified, DeviceLost, DevicePaired
  <2>4. discovery' \in Seq(NearbyEvent)
    BY <2>3, AppendSeq DEF Reports, NearbyOK
  <2>5. QED
    BY <1>1, <2>1, <2>2, <2>4 DEF NearbyOK
<1>4. ASSUME DiscoveryFails PROVE NearbyOK'
  <2>1. /\ UNCHANGED <<air, nearbyRows, banner, unsaid>>
    BY <1>4 DEF DiscoveryFails, Reports
  <2>2. noDiscovery' \in BOOLEAN /\ unsaidReason' \in BOOLEAN
    BY <1>4, Zenon DEF DiscoveryFails
  <2>3. [kind |-> "unavailable"] \in NearbyEvent
    BY DEF NearbyEvent
  <2>4. discovery' \in Seq(NearbyEvent)
    BY <1>4, <2>3, AppendSeq DEF DiscoveryFails, Reports, NearbyOK
  <2>5. QED
    BY <1>1, <2>1, <2>2, <2>4 DEF NearbyOK
<1>5. ASSUME NEW i \in DOMAIN requests, RequestRuns(i) \/ HydrateEnds(i) \/ RefreshOneEnds(i)
      PROVE  NearbyOK'
  <2>1. UNCHANGED <<air, noDiscovery, discovery, unsaid, unsaidReason>>
    BY <1>5 DEF RequestRuns, HydrateEnds, RefreshOneEnds, unsaidVars
  <2>2. requests[i] \in ListRequest
    BY DEF NearbyOK
  <2>3. requests[i].answer # <<>> =>
          requests[i].answer[1] \in SUBSET Nearby /\ requests[i].answer[2] \in BOOLEAN
    BY <2>2 DEF ListRequest, Answer
  <2>4. nearbyRows' \in SUBSET Nearby
    BY <1>5, <2>3 DEF RequestRuns, HydrateEnds, RefreshOneEnds, NearbyOK, Pending
  <2>5. banner' \in BOOLEAN
    <3>1. UNCHANGED banner \/ (banner' = requests[i].answer[2] /\ Pending(i))
      BY <1>5 DEF RequestRuns, HydrateEnds, RefreshOneEnds
    <3>2. QED
      BY <2>3, <3>1, Zenon DEF NearbyOK, Pending
  <2>6. QED
    BY <1>1, <2>1, <2>4, <2>5 DEF NearbyOK
<1>6. ASSUME OpenPanel \/ StartNearbyListeners PROVE NearbyOK'
  <2>1. UNCHANGED <<air, noDiscovery, discovery, nearbyRows, banner>>
    BY <1>6 DEF OpenPanel, StartNearbyListeners
  <2>2. unsaid' \in SUBSET Nearby
    BY <1>6 DEF OpenPanel, StartNearbyListeners, NearbyOK, unsaidVars
  <2>3. unsaidReason' \in BOOLEAN
    BY <1>6, Zenon DEF OpenPanel, StartNearbyListeners, NearbyOK, unsaidVars
  <2>4. QED
    BY <1>1, <2>1, <2>2, <2>3 DEF NearbyOK
<1>7. ASSUME ClosePanel PROVE NearbyOK'
  BY <1>1, <1>7 DEF ClosePanel, NearbyOK, unsaidVars
<1>8. ASSUME OnSighting \/ OnPairedNearby \/ OnLost \/ OnUnavailable PROVE NearbyOK'
  <2>1. /\ UNCHANGED <<air, noDiscovery, unsaid, unsaidReason>>
        /\ discovery # <<>> /\ discovery' = Tail(discovery)
    BY <1>8 DEF OnSighting, OnPairedNearby, OnLost, OnUnavailable, unsaidVars
  <2>2. discovery' \in Seq(NearbyEvent)
    BY <2>1, TailSeq DEF NearbyOK
  <2>3. nearbyRows' \in SUBSET Nearby
    BY <1>8 DEF OnSighting, OnPairedNearby, OnLost, OnUnavailable, NearbyOK
  <2>4. banner' \in BOOLEAN
    BY <1>8, Zenon DEF OnSighting, OnPairedNearby, OnLost, OnUnavailable, NearbyOK
  <2>5. QED
    BY <1>1, <2>1, <2>2, <2>3, <2>4 DEF NearbyOK
<1>9. ASSUME (\E d \in Nearby : DeviceBlocked(d)) \/ DiscoveryRestarts \/ DiscoverabilityOff
      PROVE  NearbyOK'
  <2>1. UNCHANGED <<discovery, nearbyRows, banner>>
    BY <1>9 DEF DeviceBlocked, DiscoveryRestarts, DiscoverabilityOff, Silently
  <2>2. air' \in SUBSET Nearby /\ unsaid' \in SUBSET Nearby
    BY <1>9 DEF DeviceBlocked, DiscoveryRestarts, DiscoverabilityOff, NearbyOK
  <2>3. noDiscovery' \in BOOLEAN /\ unsaidReason' \in BOOLEAN
    BY <1>9, Zenon DEF DeviceBlocked, DiscoveryRestarts, DiscoverabilityOff, NearbyOK
  <2>4. QED
    BY <1>1, <2>1, <2>2, <2>3 DEF NearbyOK
<1>10. QED
  BY <1>2, <1>3, <1>4, <1>5, <1>6, <1>7, <1>8, <1>9 DEF NearbyListNext

\* The nearby part of the page has its types and its invariant throughout.
LEMMA NearbyInvariant == Spec => [](NearbyOK /\ NearbyInv)
<1>1. ASSUME Init PROVE NearbyOK /\ NearbyInv
  <2>1. NearbyListInit
    BY <1>1 DEF Init
  <2>2. NearbyOK
    <3>1. noDiscovery \in BOOLEAN /\ banner \in BOOLEAN /\ unsaidReason \in BOOLEAN
      BY <2>1, Zenon DEF NearbyListInit
    <3>2. QED
      BY <2>1, <3>1 DEF NearbyListInit, NearbyOK
  <2>3. ~panel /\ ~hears
    BY <2>1, Zenon DEF NearbyListInit
  <2>4. discovery = <<>> /\ unsaid = {} /\ ~unsaidReason
    BY <2>1 DEF NearbyListInit
  <2>5. QED
    BY <2>2, <2>3, <2>4
       DEF NearbyInv, FeedIsCurrent, DevicesTold, ReasonTold, AnswersAreFresh, ListCatchesUp,
           UnsaidIsGone
<1>2. NearbyOK /\ NearbyInv /\ [Next]_vars => NearbyOK' /\ NearbyInv'
  BY DeviceParts, NearbyStep, NearbyKeepsTypes
<1>3. QED
  BY <1>1, <1>2, PTL DEF Spec

-----------------------------------------------------------------------------
\* When all is quiet both lists of the page show what the backend has: the paired
\* devices and their trust (pairing-data-store: hydrate, trustDevice and its
\* rollback, the reload after an event, a removal or a renaming), and the nearby
\* devices (nearby-store: events applied at once, answers in any order), for any
\* number of devices, of commands and of requests in flight.
THEOREM ListsAreRight == Spec => []ListsMatchBackend
<1>1. ASSUME Init PROVE OneChange /\ RowsAgree
  <2>1. DeviceRowsInit
    BY <1>1 DEF Init
  <2>2. /\ rows = records /\ unread = <<>> /\ answers = <<>>
        /\ \A d \in Devices : trustCalls[d] = <<>>
    BY <2>1 DEF DeviceRowsInit
  <2>3. QED
    BY <2>2 DEF OneChange, RowsAgree
<1>2. RowsOK /\ OneChange /\ RowsAgree /\ [Next]_vars => OneChange' /\ RowsAgree'
  BY DeviceParts, RowsStep
<1>3. RowsOK /\ RowsAgree => RowsMatchRecords
  <2>1. SUFFICES ASSUME RowsOK, RowsAgree, ~disturbed, unread = <<>>, answers = <<>>, rowNews = 0,
                        ~TrustBusy, \A d \in Devices : forgetCall[d] # "ok"
                 PROVE  rows = records
    BY DEF RowsMatchRecords
  <2>2. ~Settling
    BY <2>1 DEF Settling
  <2>3. QED
    BY <2>1, <2>2 DEF RowsAgree
<1>4. NearbyOK /\ NearbyInv => NearbyMatchesRegistry
  <2>1. SUFFICES ASSUME NearbyOK, NearbyInv, panel, discovery = <<>>, requests = <<>>, ~overtaken
                 PROVE  nearbyRows \ unsaid = air /\ (banner /\ ~unsaidReason) = noDiscovery
    BY DEF NearbyMatchesRegistry
  <2>2. /\ \A d : ~Heard(discovery, d) /\ ~AskedFor(requests, d)
        /\ ~DiscoveryHeard(discovery)
    BY <2>1 DEF Heard, AskedFor, DiscoveryHeard
  <2>3. \A d \in Nearby \ unsaid : d \in nearbyRows <=> d \in air
    BY <2>1, <2>2 DEF NearbyInv, ListCatchesUp, RightFor
  <2>4. ~unsaidReason => (banner <=> noDiscovery)
    BY <2>1, <2>2 DEF NearbyInv, ListCatchesUp, BannerRight
  <2>5. (\A d \in unsaid : d \notin air) /\ (unsaidReason => ~noDiscovery)
    BY <2>1 DEF NearbyInv, UnsaidIsGone
  <2>6. nearbyRows \ unsaid = air
    BY <2>1, <2>3, <2>5 DEF NearbyOK
  <2>7. (banner /\ ~unsaidReason) = noDiscovery
    BY <2>1, <2>4, <2>5 DEF NearbyOK
  <2>8. QED
    BY <2>6, <2>7
<1>5. QED
  BY <1>1, <1>2, <1>3, <1>4, RowsInvariant, NearbyInvariant, PTL DEF Spec, ListsMatchBackend

-----------------------------------------------------------------------------
\* The types of the page.

\* The flags of the node's status, each true or false.
NodeFlags ==
    /\ home \in BOOLEAN /\ listening \in BOOLEAN /\ ipcBreaks \in BOOLEAN
    /\ hasResolved \in BOOLEAN /\ isNetworkReady \in BOOLEAN /\ fallback \in BOOLEAN
    /\ preloading \in BOOLEAN /\ page \in BOOLEAN /\ hasHydrated \in BOOLEAN

\* The rest of the types of the node's status.
NodeParts ==
    /\ phase \in {"starting", "ready", "failed"}
    /\ warms \in 0..MaxWarm /\ extras \in 0..MaxExtras
    /\ feed \in Seq(Events) /\ Len(feed) <= MaxFeed
    /\ nodeStatus \in {"starting", "ready", "unavailable"}
    /\ poll \in Answers \cup {"none", "asked"}
    /\ waiting \in {"no", "yes", "over"}
    /\ loads \in 0..MaxLoads
    /\ data \in {"none", "empty", "loaded"}
    /\ sync \in {"todo", "asked", "done"}

\* Pairing data that is loaded, emptied or left alone keeps its types (hydrate).
LEMMA HydrateTypes ==
    ASSUME NodeParts, Hydrate \/ UNCHANGED dataVars
    PROVE  loads' \in 0..MaxLoads /\ data' \in {"none", "empty", "loaded"}
<1>1. loads' \in {loads, loads + 1} /\ (loads' = loads \/ loads < MaxLoads)
  BY DEF Hydrate, dataVars, NodeParts
<1>2. MaxLoads \in Nat
  BY NodeStatusAssumption
<1>. QED
  BY <1>1, <1>2 DEF Hydrate, dataVars, NodeParts

\* Likewise its flag.
LEMMA HydrateFlag ==
    ASSUME NodeFlags, Hydrate \/ UNCHANGED dataVars
    PROVE  hasHydrated' \in BOOLEAN
BY Zenon DEF Hydrate, dataVars, NodeFlags

\* An event that is emitted is one of the feed, which stays short.
LEMMA EmitTypes ==
    ASSUME NodeParts, NEW e \in Events, Emit(e)
    PROVE  feed' \in Seq(Events) /\ Len(feed') <= MaxFeed
<1>1. MaxFeed \in Nat
  BY NodeStatusAssumption
<1>. QED
  BY <1>1 DEF Emit, NodeParts

\* A step of the node's status keeps the types other than the flags.
LEMMA NodePartsStep ==
    ASSUME NodeParts, [NodeStatusNext]_nodeStatusVars
    PROVE  NodeParts'
<1>0. MaxFeed \in Nat /\ MaxWarm \in Nat /\ MaxExtras \in Nat /\ MaxLoads \in Nat
  BY NodeStatusAssumption
<1>. USE DEF nodeVars, capVars, dataVars
<1>1. CASE UNCHANGED nodeStatusVars
  BY <1>1 DEF nodeStatusVars, NodeParts
<1>2. CASE NodeStarts
  <2>1. feed' \in Seq(Events) /\ Len(feed') <= MaxFeed
    BY <1>2, EmitTypes DEF NodeStarts, Events
  <2>. QED
    BY <1>2, <2>1 DEF NodeStarts, NodeParts
<1>3. CASE HomeReached
  <2>1. feed' \in Seq(Events) /\ Len(feed') <= MaxFeed
    BY <1>3, EmitTypes DEF HomeReached, Events
  <2>. QED
    BY <1>3, <2>1 DEF HomeReached, NodeParts
<1>4. CASE RelayChanged
  <2>1. feed' \in Seq(Events) /\ Len(feed') <= MaxFeed
    BY <1>4, EmitTypes DEF RelayChanged, Events
  <2>. QED
    BY <1>0, <1>4, <2>1 DEF RelayChanged, NodeParts
<1>5. CASE PeerPairs
  <2>1. feed' \in Seq(Events) /\ Len(feed') <= MaxFeed
    BY <1>5, EmitTypes DEF PeerPairs, Events
  <2>. QED
    BY <1>0, <1>5, <2>1 DEF PeerPairs, NodeParts
<1>6. CASE Register
  BY <1>6 DEF Register, NodeParts
<1>7. CASE NodeAnswers
  <2>1. poll' \in Answers
    BY <1>7 DEF NodeAnswers, Answers
  <2>. QED
    BY <1>7, <2>1 DEF NodeAnswers, NodeParts
<1>8. CASE FirstRefresh \/ FallbackFires
  BY <1>8 DEF FirstRefresh, FallbackFires, Refresh, NodeParts
<1>9. CASE RefreshSettles \/ RefreshGivesUp \/ RefreshWaits
  <2>1. loads' \in 0..MaxLoads /\ data' \in {"none", "empty", "loaded"}
    BY <1>9, HydrateTypes DEF RefreshSettles, RefreshGivesUp, RefreshWaits, AfterPreload
  <2>2. /\ nodeStatus' \in {"starting", "ready", "unavailable"} /\ poll' = "none"
        /\ waiting' \in {"no", "yes"}
    BY <1>9 DEF RefreshSettles, RefreshGivesUp, RefreshWaits, Settle
  <2>3. UNCHANGED <<phase, warms, extras, feed, sync>>
    BY <1>9 DEF RefreshSettles, RefreshGivesUp, RefreshWaits
  <2>. QED
    BY <2>1, <2>2, <2>3 DEF NodeParts
<1>10. CASE WaitMaxPasses
  BY <1>10 DEF WaitMaxPasses, NodeParts
<1>11. CASE OnLifecycleEvent
  <2>1. feed' \in Seq(Events) /\ Len(feed') <= MaxFeed
    <3>1. feed # <<>> /\ feed' = Tail(feed)
      BY <1>11 DEF OnLifecycleEvent
    <3>. QED
      BY <1>0, <3>1 DEF NodeParts
  <2>2. loads' \in 0..MaxLoads /\ data' \in {"none", "empty", "loaded"}
    BY <1>11, HydrateTypes DEF OnLifecycleEvent
  <2>3. /\ nodeStatus' \in {nodeStatus, "unavailable"} /\ poll' \in {poll, "asked"}
        /\ waiting' \in {waiting, "no"} /\ UNCHANGED <<phase, warms, extras, sync>>
    BY <1>11 DEF OnLifecycleEvent, OnNodeReady, Refresh, Settle
  <2>. QED
    BY <2>1, <2>2, <2>3 DEF NodeParts
<1>12. CASE RunEffects
  <2>1. loads' \in 0..MaxLoads /\ data' \in {"none", "empty", "loaded"}
    BY <1>12, HydrateTypes DEF RunEffects
  <2>. QED
    BY <1>12, <2>1 DEF RunEffects, NodeParts
<1>13. CASE SyncAnswers
  BY <1>13 DEF SyncAnswers, NodeParts
<1>14. CASE OpenPage
  <2>1. loads' \in 0..MaxLoads /\ data' \in {"none", "empty", "loaded"}
    BY <1>14, HydrateTypes DEF OpenPage
  <2>. QED
    BY <1>14, <2>1 DEF OpenPage, Refresh, NodeParts
<1>15. CASE ClosePage
  BY <1>15 DEF ClosePage, NodeParts
<1>16. CASE LoadAnswers
  BY <1>0, <1>16 DEF LoadAnswers, NodeParts
<1>. QED
  BY <1>1, <1>2, <1>3, <1>4, <1>5, <1>6, <1>7, <1>8, <1>9, <1>10, <1>11, <1>12, <1>13, <1>14,
     <1>15, <1>16 DEF NodeStatusNext

\* What the effects saw is true or false too.
NodeSeen == seen \in [resolved : BOOLEAN, ready : BOOLEAN]

\* A step of the node's status keeps its flags.
LEMMA NodeFlagsStep ==
    ASSUME NodeFlags, NodeSeen, [NodeStatusNext]_nodeStatusVars
    PROVE  NodeFlags' /\ NodeSeen'
<1>. USE DEF nodeVars, capVars
<1>1. ASSUME UNCHANGED nodeStatusVars PROVE NodeFlags' /\ NodeSeen'
  BY <1>1 DEF nodeStatusVars, NodeFlags, NodeSeen, dataVars
<1>2. ASSUME NodeStarts \/ PeerPairs PROVE NodeFlags' /\ NodeSeen'
  BY <1>2 DEF NodeStarts, PeerPairs, NodeFlags, NodeSeen, dataVars
<1>3. ASSUME HomeReached \/ RelayChanged PROVE NodeFlags' /\ NodeSeen'
  BY <1>3 DEF HomeReached, RelayChanged, NodeFlags, NodeSeen, dataVars
<1>4. ASSUME Register \/ NodeAnswers PROVE NodeFlags' /\ NodeSeen'
  BY <1>4 DEF Register, NodeAnswers, NodeFlags, NodeSeen, dataVars
<1>5. ASSUME FirstRefresh \/ FallbackFires \/ WaitMaxPasses PROVE NodeFlags' /\ NodeSeen'
  BY <1>5 DEF FirstRefresh, FallbackFires, WaitMaxPasses, NodeFlags, NodeSeen, dataVars
<1>6. ASSUME RefreshSettles \/ RefreshGivesUp \/ RefreshWaits PROVE NodeFlags' /\ NodeSeen'
  <2>1. hasHydrated' \in BOOLEAN
    BY <1>6, HydrateFlag DEF RefreshSettles, RefreshGivesUp, RefreshWaits, AfterPreload
  <2>2. hasResolved' \in BOOLEAN /\ fallback' \in BOOLEAN /\ preloading' \in BOOLEAN
    BY <1>6, Zenon DEF RefreshSettles, RefreshGivesUp, RefreshWaits, Settle
  <2>3. isNetworkReady' \in BOOLEAN
    BY <1>6, Zenon DEF RefreshSettles, RefreshGivesUp, RefreshWaits, Settle
  <2>4. UNCHANGED <<home, listening, ipcBreaks, seen, page>>
    BY <1>6 DEF RefreshSettles, RefreshGivesUp, RefreshWaits
  <2>. QED
    BY <2>1, <2>2, <2>3, <2>4 DEF NodeFlags, NodeSeen
<1>7. ASSUME OnLifecycleEvent PROVE NodeFlags' /\ NodeSeen'
  <2>1. hasHydrated' \in BOOLEAN
    BY <1>7, HydrateFlag DEF OnLifecycleEvent
  <2>2. hasResolved' \in BOOLEAN /\ fallback' \in BOOLEAN /\ isNetworkReady' \in BOOLEAN
    BY <1>7 DEF OnLifecycleEvent, OnNodeReady, Settle, NodeFlags
  <2>3. UNCHANGED <<home, listening, ipcBreaks, preloading, seen, page>>
    BY <1>7 DEF OnLifecycleEvent
  <2>. QED
    BY <2>1, <2>2, <2>3 DEF NodeFlags, NodeSeen
<1>8. ASSUME RunEffects PROVE NodeFlags' /\ NodeSeen'
  <2>1. hasHydrated' \in BOOLEAN
    BY <1>8, HydrateFlag DEF RunEffects
  <2>2. UNCHANGED <<home, listening, ipcBreaks, hasResolved, isNetworkReady, fallback, preloading, page>>
    BY <1>8 DEF RunEffects
  <2>3. seen' = [resolved |-> hasResolved, ready |-> nodeStatus = "ready"]
    BY <1>8 DEF RunEffects
  <2>4. seen' \in [resolved : BOOLEAN, ready : BOOLEAN]
    BY <2>3, Zenon DEF NodeFlags
  <2>. QED
    BY <2>1, <2>2, <2>4 DEF NodeFlags, NodeSeen
<1>9. ASSUME SyncAnswers \/ ClosePage PROVE NodeFlags' /\ NodeSeen'
  BY <1>9 DEF SyncAnswers, ClosePage, NodeFlags, NodeSeen, dataVars
<1>10. ASSUME OpenPage PROVE NodeFlags' /\ NodeSeen'
  <2>1. hasHydrated' \in BOOLEAN
    BY <1>10, HydrateFlag DEF OpenPage
  <2>2. UNCHANGED <<home, listening, ipcBreaks, hasResolved, isNetworkReady, fallback, preloading, seen>>
    BY <1>10 DEF OpenPage
  <2>3. page' \in BOOLEAN
    BY <1>10 DEF OpenPage
  <2>. QED
    BY <2>1, <2>2, <2>3 DEF NodeFlags, NodeSeen
<1>11. ASSUME LoadAnswers PROVE NodeFlags' /\ NodeSeen'
  BY <1>11 DEF LoadAnswers, NodeFlags, NodeSeen
<1>. QED
  BY <1>1, <1>2, <1>3, <1>4, <1>5, <1>6, <1>7, <1>8, <1>9, <1>10, <1>11, Zenon DEF NodeStatusNext

\* The node's status keeps its types.
LEMMA NodeTypesStep ==
    ASSUME NodeStatusTypeOK, [NodeStatusNext]_nodeStatusVars
    PROVE  NodeStatusTypeOK'
<1>1. NodeParts /\ NodeFlags /\ NodeSeen
  BY DEF NodeStatusTypeOK, NodeParts, NodeFlags, NodeSeen
<1>2. NodeParts' /\ NodeFlags' /\ NodeSeen'
  BY <1>1, NodePartsStep, NodeFlagsStep
<1>. QED
  BY <1>2, Zenon DEF NodeStatusTypeOK, NodeParts, NodeFlags, NodeSeen

\* The flags of the pairing panel, each true or false.
HostFlags ==
    /\ hostOpen \in BOOLEAN /\ pairingCode \in BOOLEAN /\ pairingTicket \in BOOLEAN
    /\ ticketRef \in BOOLEAN /\ isLoading \in BOOLEAN /\ copyAfter \in BOOLEAN
    /\ copyMark \in BOOLEAN /\ joinOpen \in BOOLEAN /\ joinText \in BOOLEAN
    /\ isJoining \in BOOLEAN /\ nameOpen \in BOOLEAN /\ nameSaving \in BOOLEAN

\* The rest of the types of the pairing panel.
HostParts ==
    /\ opens \in 0..MaxOpens /\ hostExpiresIn \in 0..HostTTL
    /\ hostFeed \in Seq({"paired", "expired"}) /\ Len(hostFeed) <= MaxHostFeed
    /\ start \in CallStates /\ joinCall \in CallStates /\ nameCall \in CallStates
    /\ stops \in 0..MaxOpens

\* A step of the pairing panel keeps the types other than the flags.
LEMMA HostPartsStep ==
    ASSUME HostParts, [HostPairingNext]_hostPairingVars
    PROVE  HostParts'
<1>0. MaxOpens \in Nat /\ MaxHostFeed \in Nat /\ HostTTL \in Nat
  BY HostPairingAssumption
<1>. USE DEF hostVars, joinVars, nameVars
<1>1. CASE UNCHANGED hostPairingVars
  BY <1>1 DEF hostPairingVars, HostParts
<1>2. ASSUME NEW e \in {"paired", "expired"}, HostCloses(e) PROVE HostParts'
  BY <1>0, <1>2 DEF HostCloses, HostRoom, HostParts
<1>3. CASE HostStarts \/ HostStops
  BY <1>0, <1>3 DEF HostStarts, HostStops, HostParts, CallStates
<1>4. CASE CopyPairingCode
  BY <1>0, <1>4 DEF CopyPairingCode, HostParts, CallStates
<1>5. CASE OpenHostPairingEnds
  BY <1>0, <1>5 DEF OpenHostPairingEnds, HostParts, CallStates
<1>6. CASE CloseHostPairing
  BY <1>0, <1>6 DEF CloseHostPairing, HostParts
<1>7. CASE TicketEffect \/ CopiedFades
  BY <1>7 DEF TicketEffect, CopiedFades, HostParts
<1>8. CASE Countdown
  BY <1>0, <1>8 DEF Countdown, HostParts
<1>9. CASE OnHostEvent
  <2>1. hostFeed # <<>> /\ hostFeed' = Tail(hostFeed)
    BY <1>9 DEF OnHostEvent
  <2>2. hostFeed' \in Seq({"paired", "expired"}) /\ Len(hostFeed') <= MaxHostFeed
    BY <1>0, <2>1 DEF HostParts
  <2>3. hostExpiresIn' \in {0, hostExpiresIn}
    BY <1>9 DEF OnHostEvent
  <2>4. UNCHANGED <<opens, start, stops, joinCall, nameCall>>
    BY <1>9 DEF OnHostEvent
  <2>. QED
    BY <1>0, <2>2, <2>3, <2>4 DEF HostParts
<1>10. CASE OpenJoin \/ CloseJoin \/ TypeCode \/ HandleJoin
  <2>1. joinCall' \in {joinCall, "asked"} /\ UNCHANGED <<hostVars, nameVars>>
    BY <1>10 DEF OpenJoin, CloseJoin, TypeCode, HandleJoin
  <2>. QED
    BY <2>1 DEF HostParts, CallStates
<1>11. CASE PeerJoined \/ JoinEnds
  <2>1. joinCall' \in CallStates /\ UNCHANGED <<hostVars, nameVars>>
    BY <1>11 DEF PeerJoined, JoinEnds, CallStates
  <2>. QED
    BY <2>1 DEF HostParts
<1>12. CASE OpenRename \/ CloseRename \/ HandleSaveName \/ NameSaved \/ SaveNameEnds
  <2>1. nameCall' \in {nameCall} \cup CallStates /\ UNCHANGED <<hostVars, joinVars>>
    BY <1>12 DEF OpenRename, CloseRename, HandleSaveName, NameSaved, SaveNameEnds, CallStates
  <2>. QED
    BY <2>1 DEF HostParts
<1>. QED
  BY <1>1, <1>2, <1>3, <1>4, <1>5, <1>6, <1>7, <1>8, <1>9, <1>10, <1>11, <1>12 DEF HostPairingNext

\* A step of the pairing panel keeps its flags.
LEMMA HostFlagsStep ==
    ASSUME HostFlags, [HostPairingNext]_hostPairingVars
    PROVE  HostFlags'
<1>. USE DEF hostVars, joinVars, nameVars
<1>1. ASSUME UNCHANGED hostPairingVars PROVE HostFlags'
  BY <1>1 DEF hostPairingVars, HostFlags
<1>2. ASSUME NEW e \in {"paired", "expired"}, HostCloses(e) PROVE HostFlags'
  BY <1>2 DEF HostCloses, HostFlags
<1>3. ASSUME HostStarts \/ HostStops PROVE HostFlags'
  <2>1. hostOpen' \in BOOLEAN
    BY <1>3 DEF HostStarts, HostStops, HostFlags
  <2>2. UNCHANGED <<pairingCode, pairingTicket, ticketRef, isLoading, copyAfter, copyMark, joinVars, nameVars>>
    BY <1>3 DEF HostStarts, HostStops
  <2>. QED
    BY <2>1, <2>2 DEF HostFlags
<1>4. ASSUME CopyPairingCode PROVE HostFlags'
  <2>1. copyMark' \in BOOLEAN /\ copyAfter' \in BOOLEAN /\ isLoading' \in BOOLEAN
    BY <1>4, Zenon DEF CopyPairingCode
  <2>2. UNCHANGED <<hostOpen, pairingCode, pairingTicket, ticketRef, joinVars, nameVars>>
    BY <1>4 DEF CopyPairingCode
  <2>. QED
    BY <2>1, <2>2 DEF HostFlags
<1>5. ASSUME OpenHostPairingEnds PROVE HostFlags'
  <2>1. copyAfter' \in BOOLEAN /\ isLoading' \in BOOLEAN
    BY <1>5, Zenon DEF OpenHostPairingEnds
  <2>2. copyMark' \in BOOLEAN /\ pairingTicket' \in BOOLEAN
    <3>1. CASE start = "ok"
      BY <1>5, <3>1, Zenon DEF OpenHostPairingEnds
    <3>2. CASE start # "ok"
      BY <1>5, <3>2 DEF OpenHostPairingEnds, HostFlags
    <3>. QED
      BY <3>1, <3>2
  <2>3. UNCHANGED <<hostOpen, pairingCode, ticketRef, joinVars, nameVars>>
    BY <1>5 DEF OpenHostPairingEnds
  <2>. QED
    BY <2>1, <2>2, <2>3 DEF HostFlags
<1>6. ASSUME CloseHostPairing \/ TicketEffect \/ Countdown \/ CopiedFades PROVE HostFlags'
  <2>1. pairingTicket' \in BOOLEAN /\ ticketRef' \in BOOLEAN /\ copyMark' \in BOOLEAN
    BY <1>6 DEF CloseHostPairing, TicketEffect, Countdown, CopiedFades, HostFlags
  <2>2. UNCHANGED <<hostOpen, pairingCode, isLoading, copyAfter, joinVars, nameVars>>
    BY <1>6 DEF CloseHostPairing, TicketEffect, Countdown, CopiedFades
  <2>. QED
    BY <2>1, <2>2 DEF HostFlags
<1>7. ASSUME OnHostEvent PROVE HostFlags'
  <2>1. pairingCode' \in BOOLEAN
    BY <1>7, Zenon DEF OnHostEvent
  <2>2. pairingTicket' \in BOOLEAN
    BY <1>7 DEF OnHostEvent, HostFlags
  <2>3. UNCHANGED <<hostOpen, ticketRef, isLoading, copyAfter, copyMark, joinVars, nameVars>>
    BY <1>7 DEF OnHostEvent
  <2>. QED
    BY <2>1, <2>2, <2>3 DEF HostFlags
<1>8. ASSUME OpenJoin \/ CloseJoin \/ HandleJoin \/ PeerJoined \/ JoinEnds PROVE HostFlags'
  <2>1. joinOpen' \in BOOLEAN /\ joinText' \in BOOLEAN /\ isJoining' \in BOOLEAN
    BY <1>8 DEF OpenJoin, CloseJoin, HandleJoin, PeerJoined, JoinEnds, HostFlags
  <2>2. UNCHANGED <<hostVars, nameVars>>
    BY <1>8 DEF OpenJoin, CloseJoin, HandleJoin, PeerJoined, JoinEnds
  <2>. QED
    BY <2>1, <2>2 DEF HostFlags
<1>9. ASSUME TypeCode PROVE HostFlags'
  <2>1. joinText' \in BOOLEAN
    BY <1>9, Zenon DEF TypeCode
  <2>2. UNCHANGED <<hostVars, joinOpen, isJoining, nameVars>>
    BY <1>9 DEF TypeCode
  <2>. QED
    BY <2>1, <2>2 DEF HostFlags
<1>10. ASSUME OpenRename \/ CloseRename \/ HandleSaveName \/ NameSaved PROVE HostFlags'
  <2>1. nameOpen' \in BOOLEAN /\ nameSaving' \in BOOLEAN
    BY <1>10 DEF OpenRename, CloseRename, HandleSaveName, NameSaved, HostFlags
  <2>2. UNCHANGED <<hostVars, joinVars>>
    BY <1>10 DEF OpenRename, CloseRename, HandleSaveName, NameSaved
  <2>. QED
    BY <2>1, <2>2 DEF HostFlags
<1>11. ASSUME SaveNameEnds PROVE HostFlags'
  <2>1. nameOpen' \in BOOLEAN /\ nameSaving' \in BOOLEAN
    BY <1>11, Zenon DEF SaveNameEnds
  <2>2. UNCHANGED <<hostVars, joinVars>>
    BY <1>11 DEF SaveNameEnds
  <2>. QED
    BY <2>1, <2>2 DEF HostFlags
<1>. QED
  BY <1>1, <1>2, <1>3, <1>4, <1>5, <1>6, <1>7, <1>8, <1>9, <1>10, <1>11 DEF HostPairingNext

\* The types of the panel are those two parts.
LEMMA HostTypesAre == HostPairingTypeOK <=> HostParts /\ HostFlags
<1>1. HostPairingTypeOK => HostParts /\ HostFlags
  BY Zenon DEF HostPairingTypeOK, HostParts, HostFlags
<1>2. HostFlags => {hostOpen, pairingCode, pairingTicket, ticketRef, isLoading, copyAfter,
                    copyMark, joinOpen, joinText, isJoining, nameOpen, nameSaving} \subseteq BOOLEAN
  BY Zenon DEF HostFlags
<1>3. HostParts => {start, joinCall, nameCall} \subseteq CallStates
  BY DEF HostParts
<1>. QED
  BY <1>1, <1>2, <1>3, Zenon DEF HostPairingTypeOK, HostParts

\* The pairing panel keeps its types.
LEMMA HostTypesStep ==
    ASSUME HostPairingTypeOK, [HostPairingNext]_hostPairingVars
    PROVE  HostPairingTypeOK'
<1>1. HostParts' /\ HostFlags'
  BY HostTypesAre, HostPartsStep, HostFlagsStep
<1>2. (HostPairingTypeOK <=> HostParts /\ HostFlags)'
  BY HostTypesAre, PTL
<1>. QED
  BY <1>1, <1>2

\* No device has more requests on their way than the button allows, and the sets are
\* of devices.
AsksBounded ==
    /\ pairState \in [Others -> {"none", "pairing", "sent", "failed"}]
    /\ pairCalls \in [Others -> Nat] /\ landed \in [Others -> Nat]
    /\ \A d \in Others : pairCalls[d] + landed[d] <= MaxAsks
    /\ pairTimers \in [Others -> 0..MaxAsks]
    /\ target \in Others \cup {Nobody} /\ hydrated \in BOOLEAN
    /\ reached \subseteq Others /\ deciding \subseteq Others /\ known \subseteq Others
    /\ unsorted \subseteq Others /\ granted \subseteq Others /\ refused \subseteq Others
    /\ request \in Others \cup {Nobody} /\ shown \in Others \cup {Nobody}

\* Asking, answering, the timers and the dialogs keep those bounds.
LEMMA AsksBoundedStep ==
    ASSUME AsksBounded, [AskNext \/ PromptNext]_nearbyPairingVars
    PROVE  AsksBounded'
<1>0. MaxAsks \in Nat
  BY NearbyPairingAssumption
<1>. USE <1>0 DEF AsksBounded, promptVars, askVars
<1>1. CASE UNCHANGED nearbyPairingVars
  BY <1>1 DEF nearbyPairingVars
<1>2. ASSUME NEW d \in Others, HandlePair(d) PROVE AsksBounded'
  BY <1>2 DEF HandlePair
<1>3. ASSUME NEW d \in Others, PairRequestLands(d) PROVE AsksBounded'
  BY <1>3 DEF PairRequestLands
<1>4. ASSUME NEW d \in Others, PairDelivered(d) PROVE AsksBounded'
  BY <1>4 DEF PairDelivered, StartPairTimer
<1>5. ASSUME NEW d \in Others, PairFails(d) PROVE AsksBounded'
  BY <1>5 DEF PairFails, StartPairTimer
<1>6. ASSUME NEW d \in Others, PairStateFades(d) PROVE AsksBounded'
  BY <1>6 DEF PairStateFades
<1>7. ASSUME NEW d \in Others, OnPairResponse(d) PROVE AsksBounded'
  BY <1>7 DEF OnPairResponse
<1>8. CASE ClearVerification
  BY <1>8 DEF ClearVerification
<1>9. ASSUME NEW d \in Others, RequestArrives(d) \/ RequestSorted(d) PROVE AsksBounded'
  BY <1>9 DEF RequestArrives, RequestSorted
<1>10. CASE PairedDevicesLoad \/ RenderPrompt \/ AcceptRequest \/ DeclineRequest
  BY <1>10 DEF PairedDevicesLoad, RenderPrompt, AcceptRequest, DeclineRequest
<1>. QED
  BY <1>1, <1>2, <1>3, <1>4, <1>5, <1>6, <1>7, <1>8, <1>9, <1>10 DEF AskNext, PromptNext

\* The types of nearby pairing follow.
LEMMA AsksTypes ==
    ASSUME AsksBounded
    PROVE  NearbyPairingTypeOK
<1>0. MaxAsks \in Nat
  BY NearbyPairingAssumption
<1>1. \A d \in Others : pairCalls[d] \in 0..MaxAsks /\ landed[d] \in 0..MaxAsks
  BY <1>0 DEF AsksBounded
<1>2. pairCalls \in [Others -> 0..MaxAsks] /\ landed \in [Others -> 0..MaxAsks]
  BY <1>1 DEF AsksBounded
<1>3. \A s \in {reached, deciding, known, unsorted, granted, refused} : s \subseteq Others
  BY Zenon DEF AsksBounded
<1>4. {request, shown} \subseteq Others \cup {Nobody}
  BY DEF AsksBounded
<1>. QED
  BY <1>2, <1>3, <1>4, Zenon DEF AsksBounded, NearbyPairingTypeOK

\* The bounds of the rows: every event on its way was a change, and the queues are
\* short; and the types that the proofs above do not need.
RowsBounded ==
    /\ remote \in 0..MaxRemote /\ rowNews \in Nat /\ rowNews <= MaxNews
    /\ Len(unread) + Len(answers) <= MaxReloads
    /\ \A d \in Devices : Len(trustCalls[d]) <= MaxTrusts
    /\ renameCall \in [Devices -> RowCalls]
    /\ forgettingIds \subseteq Devices /\ confirmed \subseteq Devices
    /\ renamePeer \in Devices \cup {NoDevice}

\* The flags of the rows, each true or false.
RowFlags == trustSaving \in BOOLEAN /\ forgetSaving \in BOOLEAN /\ disturbed \in BOOLEAN

\* A reload that is asked for keeps the queue short.
LEMMA ReloadBounded ==
    ASSUME RowsOK, RowsBounded, NEW who \in Caller, Reload(who)
    PROVE  Len(unread') + Len(answers') <= MaxReloads
<1>1. /\ Len(unread') = Len(unread) + 1 /\ UNCHANGED answers
      /\ Len(unread) + Len(answers) < MaxReloads
  BY ReloadAsked DEF Reload
<1>2. Len(unread) \in Nat /\ Len(answers) \in Nat /\ MaxReloads \in Nat
  BY DeviceRowsAssumption DEF RowsOK
<1>. QED
  BY <1>1, <1>2

\* A trust command that is made keeps its queue short.
LEMMA TrustBounded ==
    ASSUME RowsOK, RowsBounded, NEW d \in Devices, NEW on \in BOOLEAN, NEW inDialog \in BOOLEAN,
           TrustDevice(d, on, inDialog)
    PROVE  \A e \in Devices : Len(trustCalls'[e]) <= MaxTrusts
<1>1. PICK c \in TrustRec : trustCalls' = [trustCalls EXCEPT ![d] = Append(@, c)]
  BY TrustDeviceCalls
<1>2. Len(trustCalls[d]) < MaxTrusts
  BY DEF TrustDevice
<1>3. trustCalls'[d] = Append(trustCalls[d], c) /\ \A e \in Devices : e # d => trustCalls'[e] = trustCalls[e]
  BY <1>1 DEF RowsOK
<1>4. trustCalls[d] \in Seq(TrustRec)
  BY DEF RowsOK
<1>5. Len(trustCalls'[d]) = Len(trustCalls[d]) + 1 /\ Len(trustCalls[d]) \in Nat /\ MaxTrusts \in Nat
  BY <1>3, <1>4, DeviceRowsAssumption
<1>6. Len(trustCalls'[d]) <= MaxTrusts
  BY <1>2, <1>5
<1>. QED
  BY <1>3, <1>6 DEF RowsBounded

\* A step of the rows keeps the bounds.
LEMMA RowsBoundedStep ==
    ASSUME RowsOK, RowsBounded, [DeviceRowsNext]_deviceRowsVars
    PROVE  RowsBounded'
<1>0. MaxRemote \in Nat /\ MaxReloads \in Nat /\ MaxTrusts \in Nat /\ MaxNews \in Nat
  BY DeviceRowsAssumption
<1>. USE DEF listVars, reloadVars, dialogVars
<1>1. CASE UNCHANGED deviceRowsVars
  BY <1>1 DEF deviceRowsVars, RowsBounded
<1>2. ASSUME NEW i \in DOMAIN unread, ReloadReads(i) PROVE RowsBounded'
  <2>1. Len(unread') = Len(unread) - 1 /\ Len(answers') = Len(answers) + 1
    BY <1>2, ReloadHasRead
  <2>2. Len(unread') + Len(answers') <= MaxReloads
    BY <1>0, <2>1 DEF RowsBounded, RowsOK
  <2>. QED
    BY <1>2, <2>2 DEF ReloadReads, RowsBounded
<1>3. ASSUME NEW i \in DOMAIN answers, ReloadEnds(i) PROVE RowsBounded'
  <2>1. Len(answers') = Len(answers) - 1 /\ UNCHANGED unread
    BY <1>3, ReloadHasEnded
  <2>2. Len(unread') + Len(answers') <= MaxReloads
    BY <1>0, <2>1 DEF RowsBounded, RowsOK
  <2>. QED
    BY <1>3, <2>2 DEF ReloadEnds, RowsBounded
<1>4. ASSUME NEW d \in Devices, PeerChanges(d) PROVE RowsBounded'
  BY <1>0, <1>4 DEF PeerChanges, Announce, RowsBounded
<1>5. ASSUME NEW d \in Devices, ToggleTrust(d) PROVE RowsBounded'
  <2>1. \A e \in Devices : Len(trustCalls'[e]) <= MaxTrusts
    <3>1. CASE TrustDevice(d, FALSE, FALSE)
      BY <3>1, TrustBounded
    <3>2. CASE UNCHANGED trustCalls
      BY <3>2 DEF RowsBounded
    <3>. QED
      BY <1>5, <3>1, <3>2 DEF ToggleTrust
  <2>2. UNCHANGED <<remote, rowNews, unread, answers, renameCall, forgettingIds, confirmed, renamePeer>>
    BY <1>5 DEF ToggleTrust
  <2>. QED
    BY <2>1, <2>2 DEF RowsBounded
<1>6. ASSUME NEW d \in Devices, NEW i \in DOMAIN trustCalls[d], TrustRuns(d, i) \/ TrustFails(d, i)
      PROVE  RowsBounded'
  <2>1. /\ \A e \in Devices : e # d => trustCalls'[e] = trustCalls[e]
        /\ \/ Len(trustCalls'[d]) = Len(trustCalls[d]) - 1
           \/ Len(trustCalls'[d]) = Len(trustCalls[d])
    BY <1>6, TrustEndsCalls
  <2>2. Len(trustCalls[d]) \in Nat /\ Len(trustCalls[d]) <= MaxTrusts
    BY DEF RowsOK, RowsBounded
  <2>3. Len(trustCalls'[d]) <= MaxTrusts
    BY <1>0, <2>1, <2>2
  <2>4. \A e \in Devices : Len(trustCalls'[e]) <= MaxTrusts
    BY <2>1, <2>3 DEF RowsBounded
  <2>5. UNCHANGED <<remote, rowNews, unread, answers, renameCall, forgettingIds, renamePeer>>
    BY <1>6 DEF TrustRuns, TrustFails
  <2>6. confirmed' \subseteq confirmed
    BY <1>6 DEF TrustRuns, TrustFails, ConfirmationStands
  <2>. QED
    BY <2>4, <2>5, <2>6 DEF RowsBounded
<1>7. ASSUME NEW d \in Devices, OpenForget(d) \/ OpenRenamePeer(d) PROVE RowsBounded'
  BY <1>7 DEF OpenForget, OpenRenamePeer, RowsBounded
<1>15. ASSUME NEW d \in Devices, ForgetRuns(d) PROVE RowsBounded'
  <2>1. rowNews' \in Nat /\ rowNews' <= MaxNews
    BY <1>0, <1>15 DEF ForgetRuns, Announce, RowsBounded
  <2>2. confirmed' \subseteq confirmed
    BY <1>15 DEF ForgetRuns, ConfirmationStands
  <2>. QED
    BY <1>15, <2>1, <2>2 DEF ForgetRuns, RowsBounded
<1>8. ASSUME NEW d \in Devices, ForgetReloads(d) PROVE RowsBounded'
  <2>1. Len(unread') + Len(answers') <= MaxReloads
    BY <1>8, ReloadBounded, Callers DEF ForgetReloads
  <2>. QED
    BY <1>8, <2>1 DEF ForgetReloads, RowsBounded
<1>9. ASSUME NEW d \in Devices, ForgetEnds(d) \/ RenameEnds(d) PROVE RowsBounded'
  BY <1>9 DEF ForgetEnds, RenameEnds, RowsBounded, RowCalls
<1>10. ASSUME NEW d \in Devices, RenameRuns(d) PROVE RowsBounded'
  <2>1. Len(unread') + Len(answers') <= MaxReloads
    BY <1>10, ReloadBounded, Callers DEF RenameRuns, RowsBounded
  <2>. QED
    BY <1>10, <2>1 DEF RenameRuns, RowsBounded, RowCalls
<1>11. CASE OnUnpairedOrPaired
  <2>1. Len(unread') + Len(answers') <= MaxReloads
    BY <1>11, ReloadBounded, Callers DEF OnUnpairedOrPaired
  <2>. QED
    BY <1>0, <1>11, <2>1 DEF OnUnpairedOrPaired, RowsBounded
<1>12. CASE ConfirmTrust
  <2>1. trustPeer \in Devices /\ TrustDevice(trustPeer, TRUE, TRUE)
    BY <1>12 DEF ConfirmTrust, RowsOK
  <2>2. \A e \in Devices : Len(trustCalls'[e]) <= MaxTrusts
    BY <2>1, TrustBounded
  <2>. QED
    BY <1>12, <2>1, <2>2 DEF ConfirmTrust, RowsBounded
<1>13. CASE CloseDialog \/ ConfirmForget
  BY <1>13 DEF CloseDialog, ConfirmForget, RowsBounded, RowsOK
<1>14. CASE SaveRename
  BY <1>14 DEF SaveRename, RowsBounded, RowCalls
<1>. QED
  BY <1>1, <1>2, <1>3, <1>4, <1>5, <1>6, <1>7, <1>8, <1>9, <1>10, <1>11, <1>12, <1>13, <1>14, <1>15
     DEF DeviceRowsNext

\* A step of the rows keeps their flags.
LEMMA RowFlagsStep ==
    ASSUME RowFlags, [DeviceRowsNext]_deviceRowsVars
    PROVE  RowFlags'
<1>. USE DEF listVars, reloadVars, dialogVars
<1>1. ASSUME UNCHANGED deviceRowsVars PROVE RowFlags'
  BY <1>1 DEF deviceRowsVars, RowFlags
<1>2. ASSUME NEW i \in DOMAIN unread, ReloadReads(i) PROVE RowFlags'
  BY <1>2 DEF ReloadReads, RowFlags
<1>11. ASSUME NEW i \in DOMAIN answers, ReloadEnds(i) PROVE RowFlags'
  <2>1. disturbed' \in BOOLEAN
    BY <1>11, Zenon DEF ReloadEnds
  <2>2. UNCHANGED <<trustSaving, forgetSaving>>
    BY <1>11 DEF ReloadEnds
  <2>. QED
    BY <2>1, <2>2 DEF RowFlags
<1>3. ASSUME NEW d \in Devices, PeerChanges(d) \/ OpenForget(d) \/ OpenRenamePeer(d) \/ ForgetRuns(d)
      PROVE  RowFlags'
  BY <1>3 DEF PeerChanges, OpenForget, OpenRenamePeer, ForgetRuns, RowFlags
<1>4. ASSUME NEW d \in Devices, ToggleTrust(d) PROVE RowFlags'
  <2>1. UNCHANGED disturbed \/ \E b \in BOOLEAN : disturbed' = b
    BY <1>4, Zenon DEF ToggleTrust, TrustDevice
  <2>2. trustSaving' \in {FALSE, trustSaving} /\ UNCHANGED forgetSaving
    BY <1>4 DEF ToggleTrust
  <2>. QED
    BY <2>1, <2>2 DEF RowFlags
<1>5. ASSUME NEW d \in Devices, NEW i \in DOMAIN trustCalls[d], TrustRuns(d, i) \/ TrustFails(d, i)
      PROVE  RowFlags'
  <2>1. trustSaving' \in BOOLEAN
    BY <1>5, Zenon DEF TrustRuns, TrustFails, TrustDialogEnds, RowFlags
  <2>2. UNCHANGED <<forgetSaving, disturbed>>
    BY <1>5 DEF TrustRuns, TrustFails
  <2>. QED
    BY <2>1, <2>2 DEF RowFlags
<1>6. ASSUME NEW d \in Devices, ForgetReloads(d) \/ RenameRuns(d) PROVE RowFlags'
  <2>1. disturbed' \in BOOLEAN
    BY <1>6, Zenon DEF ForgetReloads, RenameRuns, Reload, RowFlags
  <2>2. UNCHANGED <<trustSaving, forgetSaving>>
    BY <1>6 DEF ForgetReloads, RenameRuns
  <2>. QED
    BY <2>1, <2>2 DEF RowFlags
<1>7. ASSUME NEW d \in Devices, ForgetEnds(d) \/ RenameEnds(d) PROVE RowFlags'
  <2>1. forgetSaving' \in BOOLEAN
    BY <1>7, Zenon DEF ForgetEnds, RenameEnds, RowFlags
  <2>2. UNCHANGED <<trustSaving, disturbed>>
    BY <1>7 DEF ForgetEnds, RenameEnds
  <2>. QED
    BY <2>1, <2>2 DEF RowFlags
<1>8. ASSUME OnUnpairedOrPaired PROVE RowFlags'
  <2>1. disturbed' \in BOOLEAN
    BY <1>8, Zenon DEF OnUnpairedOrPaired, Reload
  <2>2. UNCHANGED <<trustSaving, forgetSaving>>
    BY <1>8 DEF OnUnpairedOrPaired
  <2>. QED
    BY <2>1, <2>2 DEF RowFlags
<1>9. ASSUME ConfirmTrust PROVE RowFlags'
  <2>1. disturbed' \in BOOLEAN
    BY <1>9, Zenon DEF ConfirmTrust, TrustDevice
  <2>2. trustSaving' = TRUE /\ UNCHANGED forgetSaving
    BY <1>9 DEF ConfirmTrust
  <2>. QED
    BY <2>1, <2>2 DEF RowFlags
<1>10. ASSUME CloseDialog \/ ConfirmForget \/ SaveRename PROVE RowFlags'
  BY <1>10 DEF CloseDialog, ConfirmForget, SaveRename, RowFlags
<1>. QED
  BY <1>1, <1>2, <1>3, <1>4, <1>5, <1>6, <1>7, <1>8, <1>9, <1>10, <1>11 DEF DeviceRowsNext

\* The types of the rows follow.
LEMMA RowsTypes ==
    ASSUME RowsOK, RowsBounded, RowFlags
    PROVE  DeviceRowsTypeOK
<1>1. remote \in 0..MaxRemote /\ rowNews \in 0..MaxNews
  BY DeviceRowsAssumption DEF RowsBounded
<1>2. unread \in Seq(Caller) /\ answers \in Seq([for : Caller, list : [Devices -> Row]])
  BY DEF RowsOK, ListAnswer
<1>3. \A d \in Devices : trustCalls[d] \in Seq(TrustRec)
  BY DEF RowsOK
<1>4. {trustPeer, forgetPeer, renamePeer} \subseteq Devices \cup {NoDevice}
  BY DEF RowsOK, RowsBounded
<1>5. {trustSaving, forgetSaving, disturbed} \subseteq BOOLEAN
  BY Zenon DEF RowFlags
<1>. QED
  BY <1>1, <1>2, <1>3, <1>4, <1>5, Zenon DEF RowsOK, RowsBounded, DeviceRowsTypeOK, TrustRec

\* Every event on its way to the nearby list was a sighting, and the requests are few.
NearbyBounded ==
    /\ sightings \in 0..MaxSightings
    /\ Len(discovery) <= sightings /\ Len(requests) <= MaxRequests

\* The flags of the nearby list, each true or false.
NearbyFlags == hears \in BOOLEAN /\ panel \in BOOLEAN /\ overtaken \in BOOLEAN

\* A step of the nearby list keeps the bounds.
LEMMA NearbyBoundedStep ==
    ASSUME NearbyOK, NearbyBounded, [NearbyListNext]_nearbyListVars
    PROVE  NearbyBounded'
<1>0. MaxSightings \in Nat /\ MaxRequests \in Nat
  BY NearbyListAssumption
<1>1. Len(discovery) \in Nat /\ Len(requests) \in Nat
  BY DEF NearbyOK
<1>2. CASE UNCHANGED nearbyListVars
  BY <1>2 DEF nearbyListVars, NearbyBounded
<1>3. ASSUME NEW e, Reports(e) PROVE NearbyBounded'
  <2>1. /\ sightings < MaxSightings /\ sightings' = sightings + 1 /\ UNCHANGED requests
        /\ discovery' = discovery \/ discovery' = Append(discovery, e)
    BY <1>3 DEF Reports
  <2>2. Len(discovery') <= Len(discovery) + 1 /\ Len(discovery') \in Nat
    BY <1>1, <2>1 DEF NearbyOK
  <2>. QED
    BY <1>0, <1>1, <2>1, <2>2 DEF NearbyBounded
<1>4. ASSUME NEW i \in DOMAIN requests, RequestRuns(i) PROVE NearbyBounded'
  <2>1. Len(requests') = Len(requests) /\ UNCHANGED <<sightings, discovery>>
    BY <1>4 DEF RequestRuns, NearbyOK
  <2>. QED
    BY <2>1 DEF NearbyBounded
<1>5. ASSUME NEW i \in DOMAIN requests, HydrateEnds(i) \/ RefreshOneEnds(i) PROVE NearbyBounded'
  <2>1. requests' = Without(requests, i) /\ UNCHANGED <<sightings, discovery>>
    BY <1>5 DEF HydrateEnds, RefreshOneEnds
  <2>2. Len(requests') = Len(requests) - 1
    BY <2>1, WithoutSeq DEF Without, NearbyOK
  <2>. QED
    BY <1>0, <1>1, <2>1, <2>2 DEF NearbyBounded
<1>6. ASSUME NEW d, CanRequest, Request(d) PROVE Len(requests') <= MaxRequests
  <2>1. Len(requests') = Len(requests) + 1
    BY <1>1, <1>6 DEF Request, NearbyOK
  <2>. QED
    BY <1>0, <1>1, <1>6, <2>1 DEF CanRequest
<1>7. ASSUME OpenPanel PROVE NearbyBounded'
  <2>1. Len(requests') <= MaxRequests
    BY <1>6, <1>7 DEF OpenPanel
  <2>. QED
    BY <1>7, <2>1 DEF OpenPanel, NearbyBounded
<1>8. CASE StartNearbyListeners
  BY <1>8 DEF StartNearbyListeners, NearbyBounded
<1>9. CASE ClosePanel
  <2>1. Len(discovery') = 0 /\ UNCHANGED <<sightings, requests>>
    BY <1>9 DEF ClosePanel
  <2>. QED
    BY <1>0, <2>1 DEF NearbyBounded
<1>10. ASSUME OnSighting \/ OnPairedNearby \/ OnLost \/ OnUnavailable PROVE NearbyBounded'
  <2>1. discovery # <<>> /\ discovery' = Tail(discovery) /\ UNCHANGED sightings
    BY <1>10 DEF OnSighting, OnPairedNearby, OnLost, OnUnavailable
  <2>2. Len(discovery') = Len(discovery) - 1
    BY <2>1 DEF NearbyOK
  <2>3. Len(requests') <= MaxRequests
    BY <1>6, <1>10 DEF OnSighting, OnPairedNearby, OnLost, OnUnavailable, NearbyBounded
  <2>. QED
    BY <1>0, <1>1, <2>1, <2>2, <2>3 DEF NearbyBounded
<1>11. ASSUME Silently PROVE NearbyBounded'
  <2>1. sightings < MaxSightings /\ sightings' = sightings + 1 /\ UNCHANGED <<requests, discovery>>
    BY <1>11 DEF Silently
  <2>. QED
    BY <1>0, <1>1, <2>1 DEF NearbyBounded
<1>. QED
  BY <1>2, <1>3, <1>4, <1>5, <1>7, <1>8, <1>9, <1>10, <1>11
     DEF NearbyListNext, DeviceFound, DeviceIdentified, DeviceLost, DevicePaired, DeviceBlocked,
         DiscoveryFails, DiscoveryRestarts, DiscoverabilityOff

\* A step of the nearby list keeps its flags.
LEMMA NearbyFlagsStep ==
    ASSUME NearbyFlags, [NearbyListNext]_nearbyListVars
    PROVE  NearbyFlags'
<1>1. ASSUME UNCHANGED nearbyListVars PROVE NearbyFlags'
  BY <1>1 DEF nearbyListVars, NearbyFlags
<1>2. ASSUME NEW e, Reports(e) PROVE NearbyFlags'
  <2>1. overtaken' \in BOOLEAN
    BY <1>2, Zenon DEF Reports
  <2>. QED
    BY <1>2, <2>1 DEF Reports, NearbyFlags
<1>3. ASSUME NEW i \in DOMAIN requests, RequestRuns(i) \/ HydrateEnds(i) \/ RefreshOneEnds(i)
      PROVE  NearbyFlags'
  BY <1>3 DEF RequestRuns, HydrateEnds, RefreshOneEnds, NearbyFlags
<1>4. ASSUME OpenPanel PROVE NearbyFlags'
  <2>1. overtaken' \in BOOLEAN
    BY <1>4, Zenon DEF OpenPanel
  <2>. QED
    BY <1>4, <2>1 DEF OpenPanel, NearbyFlags
<1>5. ASSUME StartNearbyListeners \/ ClosePanel \/ Silently PROVE NearbyFlags'
  BY <1>5 DEF StartNearbyListeners, ClosePanel, Silently, NearbyFlags
<1>6. ASSUME OnSighting \/ OnPairedNearby \/ OnLost \/ OnUnavailable PROVE NearbyFlags'
  <2>1. overtaken' \in BOOLEAN
    BY <1>6, Zenon DEF OnSighting, OnPairedNearby, OnLost, OnUnavailable
  <2>2. UNCHANGED <<hears, panel>>
    BY <1>6 DEF OnSighting, OnPairedNearby, OnLost, OnUnavailable
  <2>. QED
    BY <2>1, <2>2 DEF NearbyFlags
<1>. QED
  BY <1>1, <1>2, <1>3, <1>4, <1>5, <1>6
     DEF NearbyListNext, DeviceFound, DeviceIdentified, DeviceLost, DevicePaired, DeviceBlocked,
         DiscoveryFails, DiscoveryRestarts, DiscoverabilityOff

\* The types of the nearby list follow.
LEMMA NearbyTypes ==
    ASSUME NearbyOK, NearbyBounded, NearbyFlags
    PROVE  NearbyListTypeOK
<1>1. Len(discovery) \in Nat /\ MaxSightings \in Nat
  BY NearbyListAssumption DEF NearbyOK
<1>2. Len(discovery) <= MaxSightings
  BY <1>1 DEF NearbyBounded
<1>3. ASSUME NEW i \in DOMAIN requests
      PROVE  /\ requests[i].for \in Nearby \cup {WholeList}
             /\ Pending(i) => /\ requests[i].answer[1] \subseteq Nearby
                              /\ requests[i].answer[2] \in BOOLEAN
  <2>1. requests[i] \in ListRequest
    BY DEF NearbyOK
  <2>. QED
    BY <2>1 DEF ListRequest, Answer, Pending
<1>4. {noDiscovery, hears, panel, banner, overtaken, unsaidReason} \subseteq BOOLEAN
  BY Zenon DEF NearbyOK, NearbyFlags
<1>5. /\ air \subseteq Nearby /\ nearbyRows \subseteq Nearby /\ unsaid \subseteq Nearby
      /\ discovery \in Seq(NearbyEvent)
  BY DEF NearbyOK
<1>. QED
  BY <1>2, <1>3, <1>4, <1>5, Zenon DEF NearbyBounded, NearbyListTypeOK

\* The inductive invariant of the types that no other invariant of the page gives.
PageTypes ==
    /\ NodeStatusTypeOK /\ HostPairingTypeOK /\ AsksBounded
    /\ RowsBounded /\ RowFlags /\ NearbyBounded /\ NearbyFlags

\* It holds when the page opens.
LEMMA PageTypesStart ==
    ASSUME Init
    PROVE  PageTypes
<1>1. NodeStatusTypeOK
  <2>1. MaxWarm \in Nat /\ MaxExtras \in Nat /\ MaxFeed \in Nat /\ MaxLoads \in Nat
    BY NodeStatusAssumption
  <2>2. NodeParts
    BY <2>1 DEF Init, NodeStatusInit, NodeParts
  <2>3. NodeFlags /\ NodeSeen
    BY Zenon DEF Init, NodeStatusInit, NodeFlags, NodeSeen
  <2>. QED
    BY <2>2, <2>3, Zenon DEF NodeStatusTypeOK, NodeParts, NodeFlags, NodeSeen
<1>2. HostPairingTypeOK
  <2>1. HostParts
    BY HostPairingAssumption DEF Init, HostPairingInit, HostParts, CallStates
  <2>2. HostFlags
    BY Zenon DEF Init, HostPairingInit, HostFlags
  <2>. QED
    BY <2>1, <2>2, HostTypesAre
<1>3. AsksBounded
  <2>1. NearbyPairingInit
    BY DEF Init
  <2>2. hydrated \in BOOLEAN
    BY <2>1, Zenon DEF NearbyPairingInit
  <2>3. /\ pairState \in [Others -> {"none", "pairing", "sent", "failed"}]
        /\ pairCalls \in [Others -> Nat] /\ landed \in [Others -> Nat]
        /\ \A d \in Others : pairCalls[d] = 0 /\ landed[d] = 0
        /\ pairTimers \in [Others -> 0..MaxAsks]
    BY <2>1, NearbyPairingAssumption DEF NearbyPairingInit
  <2>4. /\ target = Nobody /\ request = Nobody /\ shown = Nobody /\ known \subseteq Others
        /\ reached = {} /\ deciding = {} /\ unsorted = {} /\ granted = {} /\ refused = {}
    BY <2>1, Zenon DEF NearbyPairingInit
  <2>. QED
    BY <2>2, <2>3, <2>4, NearbyPairingAssumption DEF AsksBounded
<1>4. RowsBounded
  <2>1. /\ remote = 0 /\ rowNews = 0 /\ Len(unread) + Len(answers) = 0
        /\ \A d \in Devices : Len(trustCalls[d]) = 0
    BY DEF Init, DeviceRowsInit
  <2>2. /\ renameCall \in [Devices -> RowCalls]
        /\ forgettingIds = {} /\ confirmed \subseteq Devices /\ renamePeer = NoDevice
    BY DEF Init, DeviceRowsInit, RowCalls
  <2>. QED
    BY <2>1, <2>2, DeviceRowsAssumption DEF RowsBounded
<1>5. NearbyBounded
  <2>1. sightings = 0 /\ Len(discovery) = 0 /\ Len(requests) = 0
    BY DEF Init, NearbyListInit
  <2>. QED
    BY <2>1, NearbyListAssumption DEF NearbyBounded
<1>6. RowFlags /\ NearbyFlags
  BY Zenon DEF Init, DeviceRowsInit, NearbyListInit, RowFlags, NearbyFlags
<1>. QED
  BY <1>1, <1>2, <1>3, <1>4, <1>5, <1>6 DEF PageTypes

\* The devices page has its types at all times: statuses, dialogs and buttons are in
\* their states, the feeds, the reloads, the trust commands and the requests stay
\* within their bounds, and every row and every dialog names a device (NodeStatus,
\* HostPairing, PairingWindow, DeviceRows, NearbyList, NearbyPairing).
THEOREM DevicesTypes == Spec => []TypeOK
<1>1. RowsOK /\ NearbyOK /\ PageTypes /\ [Next]_vars => PageTypes'
  <2>. SUFFICES ASSUME RowsOK, NearbyOK, PageTypes, [Next]_vars PROVE PageTypes'
    OBVIOUS
  <2>1. NodeStatusTypeOK' /\ HostPairingTypeOK' /\ AsksBounded'
    BY DeviceParts, NodeTypesStep, HostTypesStep, AsksBoundedStep DEF PageTypes
  <2>2. RowsBounded' /\ RowFlags' /\ NearbyBounded' /\ NearbyFlags'
    BY DeviceParts, RowsBoundedStep, RowFlagsStep, NearbyBoundedStep, NearbyFlagsStep DEF PageTypes
  <2>. QED
    BY <2>1, <2>2 DEF PageTypes
<1>2. Init => PageTypes
  BY PageTypesStart
<1>3. Spec => WindowSpec
  <2>1. Init => WindowInit
    BY DEF Init
  <2>2. [Next]_vars => [WindowNext]_windowVars
    BY DeviceParts
  <2>. QED
    BY <2>1, <2>2, PTL DEF Spec, WindowSpec
<1>4. RowsOK /\ NearbyOK /\ PageTypes /\ WindowTypeOK => TypeOK
  BY RowsTypes, NearbyTypes, AsksTypes DEF PageTypes, TypeOK
<1>. QED
  BY <1>1, <1>2, <1>3, <1>4, RowsInvariant, NearbyInvariant, WindowTypes, PTL DEF Spec
=============================================================================
