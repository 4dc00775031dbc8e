---------------------------- MODULE Shell_proof -----------------------------
(***************************************************************************)
(* Proofs about the small state machines around the transfers (MCShell):   *)
(* the updater's status (Updater), the stored settings (AppSettings), the  *)
(* history page (HistoryUI), the network pages and their guard             *)
(* (NetworkPages, NetworkGuard), and what the browser build receives,      *)
(* packs and sends (WebPlatform, WebSend), the scripts of a release        *)
(* (ReleaseScripts) and its notes (ReleaseNotes).  Each has its inductive  *)
(* invariant; the theorems at the end state what a run promises.           *)
(***************************************************************************)
EXTENDS MCShell, UnpairedRateLimiter_proof, FiniteSetTheorems, TLAPS

-----------------------------------------------------------------------------
\* Updater.

\* The types of the updater's state.
UTypes ==
  /\ uphase \in {"idle", "available"} \cup Busy
  /\ uversion \in Releases \cup {UNone} /\ dismissed \in Releases \cup {UNone}
  /\ ubytes \in Nat /\ ulength \in {0, Size}
  /\ ucache \in Releases \cup {UNone, Unfetched}
  /\ synced \in Releases \cup {UNone, Unfetched}
  /\ staged \in Releases \cup {UNone}

\* An install that is under way, with what it has downloaded.
Installing(h, g, d) == [handle |-> h, got |-> g, done |-> d]

\* One install is under way, and the status shows how far it is.
InstallRuns(h, g, d) ==
  /\ installs = <<Installing(h, g, d)>>
  /\ uphase \in {"downloading", "installing"}
  /\ h \in Releases \cup {UNone} /\ g = ubytes
  /\ (h # UNone /\ ~offbeat) => h = uversion

\* The status tells whether an install is under way, and how far it is.
InstallTracked ==
  \/ installs = <<>> /\ uphase \notin {"downloading", "installing"}
  \/ \E h, g, d : InstallRuns(h, g, d)

\* The invariant of the updater.
UpdInv == UTypes /\ InstallTracked /\ ReadyIsStaged

\* A status other than that of an install means that none runs.
LEMMA NotYetRunning ==
  ASSUME UpdInv, uphase \notin {"downloading", "installing"}
  PROVE  installs = <<>>
  BY DEF UpdInv, InstallTracked, InstallRuns

\* There is at most one install under way, and the status is its own.
LEMMA UpdInstallSteps ==
  ASSUME UpdInv, NEW i \in DOMAIN installs
  PROVE  i = 1 /\ \E h, g, d : InstallRuns(h, g, d)
<1>1. CASE installs = <<>>
  BY <1>1
<1>2. CASE \E h, g, d : InstallRuns(h, g, d)
  <2>1. PICK h, g, d : InstallRuns(h, g, d)
    BY <1>2
  <2>. QED
    BY <2>1 DEF InstallRuns
<1>. QED
  BY <1>1, <1>2 DEF UpdInv, InstallTracked

\* A step that leaves the install and the status alone keeps the invariant.
LEMMA UpdQuiet ==
  ASSUME UpdInv, UNCHANGED <<uphase, uversion, ubytes, ulength, installs, staged, offbeat>>, UTypes'
  PROVE  UpdInv'
  BY DEF UpdInv, InstallTracked, ReadyIsStaged, InstallRuns

\* What a check finds changes the status only while no install is busy.
LEMMA HeardKeeps ==
  ASSUME UpdInv, NEW v \in Releases \cup {UNone}, Heard(v)
  PROVE  /\ uphase' \in {"idle", "available"} \cup Busy
         /\ uversion' \in Releases \cup {UNone}
         /\ ubytes' \in Nat /\ ulength' \in {0, Size}
         /\ \/ UNCHANGED <<uphase, uversion, ubytes, ulength>>
            \/ uphase \notin Busy /\ uphase' \notin Busy
  BY DEF UpdInv, UTypes, Heard, NoUpdate, UpdateFound, ClearProgress, Busy, UNone

\* What a check finds keeps the status true to the install.
LEMMA HeardTracks ==
  ASSUME UpdInv, NEW v \in Releases \cup {UNone}, Heard(v), UNCHANGED <<installs, staged, offbeat>>,
         UTypes'
  PROVE  UpdInv'
<1>1. CASE UNCHANGED <<uphase, uversion, ubytes, ulength>>
  BY <1>1, UpdQuiet
<1>2. CASE uphase \notin Busy /\ uphase' \notin Busy
  <2>1. installs = <<>>
    BY <1>2, NotYetRunning DEF Busy
  <2>. QED
    BY <1>2, <2>1 DEF UpdInv, InstallTracked, ReadyIsStaged, Busy
<1>. QED
  BY <1>1, <1>2, HeardKeeps

\* The background checks and the user's keep the invariant.
LEMMA UpdChecks ==
  ASSUME UpdInv,
         \/ PollStarts \/ PollAnswers \/ SyncEffect \/ AskForUpdates \/ AskAnswers
         \/ ToggleAutoUpdate
  PROVE  UpdInv'
<1>1. CASE PollStarts \/ AskForUpdates \/ ToggleAutoUpdate
  <2>1. UTypes'
    BY <1>1 DEF UpdInv, UTypes, PollStarts, AskForUpdates, ToggleAutoUpdate
  <2>. QED
    BY <1>1, <2>1, UpdQuiet DEF PollStarts, AskForUpdates, ToggleAutoUpdate
<1>2. CASE PollAnswers
  <2>1. UTypes'
    BY <1>2 DEF UpdInv, UTypes, PollAnswers
  <2>. QED
    BY <1>2, <2>1, UpdQuiet DEF PollAnswers
<1>3. CASE SyncEffect
  <2>1. ucache \in Releases \cup {UNone}
    BY <1>3 DEF SyncEffect, UpdInv, UTypes
  <2>2. Heard(ucache)
    BY <1>3 DEF SyncEffect
  <2>3. UTypes'
    BY <1>3, <2>1, <2>2, HeardKeeps DEF SyncEffect, UpdInv, UTypes
  <2>. QED
    BY <1>3, <2>1, <2>2, <2>3, HeardTracks DEF SyncEffect
<1>4. CASE AskAnswers
  <2>1. CASE \E v \in Releases \cup {UNone} : ucache' = v /\ Heard(v)
    <3>1. PICK v \in Releases \cup {UNone} : ucache' = v /\ Heard(v)
      BY <2>1
    <3>2. UTypes'
      BY <1>4, <3>1, HeardKeeps DEF AskAnswers, UpdInv, UTypes
    <3>. QED
      BY <1>4, <3>1, <3>2, HeardTracks DEF AskAnswers
  <2>2. CASE UNCHANGED <<ucache, uphase, uversion, ubytes, ulength>>
    <3>1. UTypes'
      BY <1>4, <2>2 DEF AskAnswers, UpdInv, UTypes
    <3>. QED
      BY <1>4, <2>2, <3>1, UpdQuiet DEF AskAnswers
  <2>. QED
    BY <1>4, <2>1, <2>2 DEF AskAnswers
<1>. QED
  BY <1>1, <1>2, <1>3, <1>4

\* What the user clicks in the banner and the panel keeps the invariant.
LEMMA UpdClicks ==
  ASSUME UpdInv,
         \/ Draw \/ Dismiss \/ BannerRestart \/ BannerKeepsRunning \/ PanelRestart
         \/ TransfersChange
  PROVE  UpdInv'
<1>1. CASE Draw \/ Dismiss \/ BannerKeepsRunning \/ TransfersChange
  <2>1. UTypes'
    BY <1>1 DEF UpdInv, UTypes, Draw, Dismiss, BannerKeepsRunning, TransfersChange
  <2>. QED
    BY <1>1, <2>1, UpdQuiet DEF Draw, Dismiss, BannerKeepsRunning, TransfersChange
<1>2. CASE BannerRestart \/ PanelRestart
  <2>1. /\ uphase = "ready" /\ uphase' \in {"ready", "restarting"}
        /\ UNCHANGED <<uversion, dismissed, ubytes, ulength, ucache, synced, installs, staged, offbeat>>
    BY <1>2 DEF BannerRestart, PanelRestart
  <2>2. installs = <<>>
    BY <2>1, NotYetRunning
  <2>. QED
    BY <2>1, <2>2 DEF UpdInv, UTypes, InstallTracked, ReadyIsStaged, Busy
<1>. QED
  BY <1>1, <1>2

\* An install that starts is the only one: the status is busy from then on.
LEMMA UpdInstall ==
  ASSUME UpdInv, Install
  PROVE  UpdInv'
<1>. DEFINE h == IF ucache \in Releases THEN ucache ELSE UNone
<1>. DEFINE d == FALSE
<1>1. installs = <<>>
  BY NotYetRunning DEF Install, StartDownload
<1>2. installs' = <<Installing(h, 0, d)>>
  BY <1>1 DEF Install, Installing
<1>3. h \in Releases \cup {UNone}
  OBVIOUS
<1>4. h # UNone => ucache \in Releases /\ h = ucache
  OBVIOUS
<1>5. offbeat' = (ucache \in Releases /\ ucache # uversion)
  BY DEF Install
<1>6. /\ uphase' = "downloading" /\ ubytes' = 0 /\ ulength' = 0
      /\ UNCHANGED <<uversion, dismissed, ucache, synced, staged>>
  BY DEF Install, ClearProgress
<1>7. ~offbeat' /\ h # UNone => h = uversion'
  BY <1>4, <1>5, <1>6, Zenon
<1>8. UTypes'
  BY <1>6 DEF UpdInv, UTypes, Busy
<1>. HIDE DEF h, d
<1>9. PICK h1, d1 : /\ installs' = <<Installing(h1, 0, d1)>> /\ h1 \in Releases \cup {UNone}
                    /\ ~offbeat' /\ h1 # UNone => h1 = uversion'
  BY <1>2, <1>3, <1>7
<1>10. InstallRuns(h1, 0, d1)'
  BY <1>6, <1>9 DEF InstallRuns, Installing
<1>. QED
  BY <1>6, <1>8, <1>10 DEF UpdInv, InstallTracked, ReadyIsStaged

\* The only install taken out leaves none.
LEMMA DropOnly ==
  ASSUME NEW r, installs = <<r>>, DropInstall(1)
  PROVE  installs' = <<>>
  BY DEF DropInstall

\* An install that fails hands the status back.
LEMMA FailsBack ==
  ASSUME UpdInv, Fail, installs' = <<>>,
         UNCHANGED <<uversion, dismissed, ucache, synced, staged>>
  PROVE  UpdInv'
  BY DEF Fail, ClearProgress, UpdInv, UTypes, InstallTracked, ReadyIsStaged

\* The steps of the install under way keep the invariant.
LEMMA UpdRunning ==
  ASSUME UpdInv, UpdaterAssumption, NEW i \in DOMAIN installs,
         Recheck(i) \/ AddProgress(i) \/ InstallEnds(i)
  PROVE  UpdInv'
<1>1. i = 1 /\ \E h, g, d : InstallRuns(h, g, d)
  BY UpdInstallSteps
<1>2. PICK h, g, d : InstallRuns(h, g, d)
  BY <1>1
<1>3. /\ installs = <<Installing(h, g, d)>>
      /\ installs[1].handle = h /\ installs[1].got = g /\ installs[1].done = d
  BY <1>2 DEF InstallRuns, Installing
<1>4. CASE Recheck(i)
  <2>1. CASE DropInstall(1) /\ Fail
    BY <1>1, <1>3, <1>4, <2>1, DropOnly, FailsBack DEF Recheck
  <2>2. CASE \E v \in Releases :
               /\ installs' = [installs EXCEPT ![1].handle = v]
               /\ offbeat' = (v # uversion)
               /\ UNCHANGED <<uphase, ubytes, ulength>>
    <3>1. PICK v \in Releases :
               /\ installs' = [installs EXCEPT ![1].handle = v]
               /\ offbeat' = (v # uversion)
               /\ UNCHANGED <<uphase, ubytes, ulength>>
      BY <2>2
    <3>2. installs' = <<Installing(v, g, d)>>
      BY <1>3, <3>1 DEF Installing
    <3>3. UNCHANGED <<uversion, dismissed, ucache, synced, staged>>
      BY <1>4 DEF Recheck
    <3>4. ~offbeat' => v = uversion'
      BY <3>1, <3>3, Zenon
    <3>5. InstallRuns(v, g, d)'
      BY <1>2, <3>1, <3>2, <3>3, <3>4 DEF InstallRuns, Installing
    <3>6. UTypes'
      BY <3>1, <3>3 DEF UpdInv, UTypes
    <3>. QED
      BY <3>5, <3>6 DEF UpdInv, InstallTracked, ReadyIsStaged, InstallRuns
  <2>. QED
    BY <1>1, <1>4, <2>1, <2>2 DEF Recheck
<1>5. CASE AddProgress(i)
  <2>0. UNCHANGED <<uversion, dismissed, ucache, synced, staged, offbeat>> /\ h # UNone
    BY <1>1, <1>3, <1>5 DEF AddProgress
  <2>1. /\ \E g2, d2 : installs' = <<Installing(h, g2, d2)>> /\ g2 = ubytes'
        /\ uphase' \in {uphase, "installing"} /\ ubytes' \in {ubytes, ubytes + 1}
        /\ ulength' \in {ulength, Size}
    <3>1. CASE ulength' = Size /\ UNCHANGED <<ubytes, installs, uphase>>
      BY <1>2, <1>3, <3>1 DEF InstallRuns
    <3>2. CASE /\ ubytes' = ubytes + 1
               /\ installs' = [installs EXCEPT ![1].got = @ + 1]
               /\ UNCHANGED <<ulength, uphase>>
      <4>1. installs' = <<Installing(h, g + 1, d)>>
        BY <1>3, <3>2 DEF Installing
      <4>. QED
        BY <1>2, <4>1, <3>2 DEF InstallRuns
    <3>3. CASE /\ uphase' = "installing"
               /\ installs' = [installs EXCEPT ![1].done = TRUE]
               /\ UNCHANGED <<ubytes, ulength>>
      <4>1. PICK d2 : installs' = [installs EXCEPT ![1].done = d2]
        BY <3>3, Zenon
      <4>2. installs' = <<Installing(h, g, d2)>>
        BY <1>3, <4>1 DEF Installing
      <4>. QED
        BY <1>2, <4>2, <3>3 DEF InstallRuns
    <3>. QED
      BY <1>1, <1>5, <3>1, <3>2, <3>3 DEF AddProgress
  <2>2. UTypes'
    BY <2>0, <2>1, <1>2 DEF UpdInv, UTypes, Busy, InstallRuns
  <2>3. PICK g2, d2 : installs' = <<Installing(h, g2, d2)>> /\ g2 = ubytes'
    BY <2>1
  <2>4. InstallRuns(h, g2, d2)'
    BY <1>2, <2>0, <2>1, <2>3 DEF InstallRuns, Installing
  <2>. QED
    BY <2>2, <2>4 DEF UpdInv, InstallTracked, ReadyIsStaged, InstallRuns
<1>6. CASE InstallEnds(i)
  <2>1. installs' = <<>> /\ h # UNone
    BY <1>1, <1>3, <1>6, DropOnly DEF InstallEnds
  <2>2. UNCHANGED <<uversion, dismissed, ucache, synced, offbeat>>
    BY <1>6 DEF InstallEnds
  <2>3. CASE uphase' = "ready" /\ staged' = h /\ UNCHANGED <<ubytes, ulength>>
    BY <1>2, <2>1, <2>2, <2>3 DEF InstallRuns, UpdInv, UTypes, InstallTracked, ReadyIsStaged, Busy
  <2>4. CASE Fail /\ UNCHANGED staged
    BY <2>1, <2>2, <2>4, FailsBack
  <2>. QED
    BY <1>1, <1>3, <1>6, <2>3, <2>4 DEF InstallEnds
<1>. QED
  BY <1>4, <1>5, <1>6

\* A relaunch forgets the install and the status with it.
LEMMA UpdRelaunch ==
  ASSUME UpdInv, RelaunchEnds
  PROVE  UpdInv'
<1>1. installs = <<>>
  BY NotYetRunning DEF RelaunchEnds
<1>2. UNCHANGED dismissed
  BY DEF RelaunchEnds
<1>3. CASE /\ uphase' = "ready"
           /\ UNCHANGED <<uversion, ubytes, ulength, ucache, synced, installs, staged, offbeat>>
  BY <1>1, <1>2, <1>3 DEF RelaunchEnds, UpdInv, UTypes, InstallTracked, ReadyIsStaged, Busy
<1>4. CASE /\ uphase' = "idle" /\ uversion' = UNone /\ ubytes' = 0 /\ ulength' = 0
           /\ ucache' = Unfetched /\ synced' = Unfetched /\ installs' = <<>> /\ staged' = UNone
  BY <1>2, <1>4 DEF UpdInv, UTypes, InstallTracked, ReadyIsStaged, Busy
<1>. QED
  BY <1>3, <1>4 DEF RelaunchEnds, ClearProgress

\* The updater's invariant is inductive.
LEMMA UpdStep ==
  ASSUME UpdInv, UpdaterAssumption, [UNext]_upVars
  PROVE  UpdInv'
<1>1. CASE UNCHANGED upVars
  <2>1. UTypes'
    BY <1>1 DEF upVars, UpdInv, UTypes
  <2>. QED
    BY <1>1, <2>1, UpdQuiet DEF upVars
<1>2. CASE UNext
  BY <1>2, UpdChecks, UpdClicks, UpdInstall, UpdRunning, UpdRelaunch DEF UNext
<1>. QED
  BY <1>1, <1>2

\* It implies the property.
LEMMA UpdGoal ==
  ASSUME UpdInv
  PROVE  UpdateIsTracked
<1>1. CASE installs = <<>> /\ uphase \notin {"downloading", "installing"}
  BY <1>1 DEF UpdInv, UpdateIsTracked, StoreTracksDownload
<1>2. CASE \E h, g, d : InstallRuns(h, g, d)
  <2>1. PICK h, g, d : InstallRuns(h, g, d)
    BY <1>2
  <2>2. /\ installs # <<>> /\ Len(installs) = 1 /\ ubytes = installs[1].got
        /\ uphase \in {"downloading", "installing"}
    BY <2>1 DEF InstallRuns, Installing
  <2>. QED
    BY <2>2 DEF UpdInv, UpdateIsTracked, StoreTracksDownload
<1>. QED
  BY <1>1, <1>2 DEF UpdInv, InstallTracked

\* It holds at launch.
LEMMA UpdStart ==
  ASSUME UInit
  PROVE  UpdInv
  BY DEF UInit, UpdInv, UTypes, InstallTracked, ReadyIsStaged, Busy, UNone, Unfetched

-----------------------------------------------------------------------------
\* AppSettings.

\* A call that turns the launch at login or the menu entry on or off.
SettingsCall == [want : BOOLEAN, user : BOOLEAN]

\* The types of the settings.
SettingsTypes ==
  /\ sfile \in SettingsRecord /\ smem \in SettingsRecord /\ sread \in SettingsRecord
  /\ swrites \in Seq(SettingsRecord)
  /\ bootCalls \in Seq(SettingsCall) /\ menuCalls \in Seq(SettingsCall)
  /\ osBoot \in BOOLEAN /\ osMenu \in BOOLEAN
  /\ shydration \in {"idle", "reading", "done"} /\ firstRuns \in Nat
  /\ nodeDisc \in {"everyone", "off"}
  /\ discCall \in {"everyone", "off", NoValue} /\ discShown \in {"everyone", "off", NoValue}

\* The discoverability alone is changed.
LEMMA SetDisc ==
  ASSUME NEW m \in SettingsRecord, NEW v \in {"everyone", "off"}
  PROVE  LET n == [m EXCEPT !.disc = v] IN
         n \in SettingsRecord /\ n.disc = v /\ n.claimed = m.claimed /\ n.menu = m.menu
  BY DEF SettingsRecord

\* The launch at login alone is changed.
LEMMA SetBoot ==
  ASSUME NEW m \in SettingsRecord, NEW b \in BOOLEAN
  PROVE  LET n == [m EXCEPT !.boot = b] IN
         n \in SettingsRecord /\ n.disc = m.disc /\ n.claimed = m.claimed /\ n.menu = m.menu
  BY DEF SettingsRecord

\* The menu entry alone is changed.
LEMMA SetMenu ==
  ASSUME NEW m \in SettingsRecord, NEW b \in BOOLEAN
  PROVE  LET n == [m EXCEPT !.menu = b] IN
         n \in SettingsRecord /\ n.disc = m.disc /\ n.claimed = m.claimed /\ n.menu = b
  BY DEF SettingsRecord

\* The mark of the first run alone is changed.
LEMMA SetClaimed ==
  ASSUME NEW m \in SettingsRecord
  PROVE  LET n == [m EXCEPT !.claimed = TRUE] IN
         n \in SettingsRecord /\ n.disc = m.disc /\ n.claimed /\ n.menu = m.menu
  BY DEF SettingsRecord

\* Turning the menu entry over is setting it to the opposite.
LEMMA FlipMenu ==
  ASSUME NEW m \in SettingsRecord
  PROVE  /\ m.menu \in BOOLEAN /\ (~m.menu) \in BOOLEAN
         /\ [m EXCEPT !.menu = ~@] = [m EXCEPT !.menu = ~m.menu]
<1>1. m.menu \in BOOLEAN /\ (~m.menu) \in BOOLEAN
  BY DEF SettingsRecord
<1>2. [m EXCEPT !.menu = ~@] = [m EXCEPT !.menu = ~m.menu]
  BY Zenon
<1>. QED
  BY <1>1, <1>2

\* A call taken out of the calls under way.
LEMMA DropSeq ==
  ASSUME NEW T, NEW q \in Seq(T), NEW i \in DOMAIN q
  PROVE  /\ DropCall(q, i) \in Seq(T) /\ Len(DropCall(q, i)) = Len(q) - 1
         /\ Len(q) = 1 => DropCall(q, i) = <<>>
<1>1. i \in 1..Len(q) /\ Len(q) \in Nat /\ Len(q) > 0
  OBVIOUS
<1>2. \A j \in 1..(Len(q) - 1) : (IF j < i THEN q[j] ELSE q[j + 1]) \in T
  BY <1>1
<1>. QED
  BY <1>1, <1>2 DEF DropCall

\* The fields of a call under way are Booleans.
LEMMA CallFields ==
  ASSUME NEW q \in Seq(SettingsCall), NEW i \in DOMAIN q
  PROVE  /\ q[i] \in SettingsCall
         /\ q[i].want \in BOOLEAN /\ (~q[i].want) \in BOOLEAN /\ q[i].user \in BOOLEAN
<1>1. q[i] \in SettingsCall
  OBVIOUS
<1>. DEFINE c == q[i]
<1>. HIDE DEF c
<1>2. c \in SettingsCall => c.want \in BOOLEAN /\ c.user \in BOOLEAN
  BY DEF SettingsCall
<1>. QED
  BY <1>1, <1>2, Zenon DEF c

\* Setting the settings queues a write of them.
LEMMA SetKeepsTypes ==
  ASSUME SettingsTypes, NEW m \in SettingsRecord, SetSettings(m)
  PROVE  smem' \in SettingsRecord /\ swrites' \in Seq(SettingsRecord)
  BY DEF SettingsTypes, SetSettings

\* The types survive the steps of the store.
LEMMA StoreTypes ==
  ASSUME SettingsTypes, SettingsAssumption, StoreNext
  PROVE  SettingsTypes'
<1>0. Defaults \in SettingsRecord
  BY DEF SettingsAssumption, SettingsRecord
<1>1. CASE FileSaves
  BY <1>1 DEF FileSaves, SettingsTypes, nodeVars, discVars, bootVars, menuVars
<1>2. CASE MountWaits
  BY <1>2 DEF MountWaits, StartHydration, SettingsTypes, nodeVars, discVars, bootVars, menuVars
<1>3. CASE Relaunch
  <2>1. sfile.disc \in {"everyone", "off"}
    BY DEF SettingsTypes, SettingsRecord
  <2>. QED
    BY <1>0, <1>3, <2>1 DEF Relaunch, SettingsTypes
<1>4. CASE FinishHydration
  <2>1. smem' \in SettingsRecord /\ swrites' \in Seq(SettingsRecord) /\ firstRuns' \in Nat
    <3>. DEFINE n == [sread EXCEPT !.claimed = TRUE]
    <3>1. n \in SettingsRecord /\ sread \in SettingsRecord
      BY SetClaimed DEF SettingsTypes
    <3>2. \/ smem' = sread /\ UNCHANGED <<swrites, firstRuns>>
          \/ smem' = n /\ swrites' = Append(swrites, n) /\ firstRuns' = firstRuns + 1
      BY <1>4, Zenon DEF FinishHydration, FirstRun
    <3>3. swrites \in Seq(SettingsRecord) /\ firstRuns \in Nat
      BY DEF SettingsTypes
    <3>. HIDE DEF n
    <3>4. Append(swrites, n) \in Seq(SettingsRecord)
      BY <3>1, <3>3
    <3>. QED
      BY <3>1, <3>2, <3>3, <3>4
  <2>2. menuCalls' \in Seq(SettingsCall)
    <3>1. PICK w \in BOOLEAN, u \in BOOLEAN : menuCalls' = Append(menuCalls, [want |-> w, user |-> u])
      <4>1. sread.menu \in BOOLEAN
        BY DEF SettingsTypes, SettingsRecord
      <4>. QED
        BY <1>4, <4>1, Zenon DEF FinishHydration, WindowsContextMenuSync
    <3>. QED
      BY <3>1 DEF SettingsTypes, SettingsCall
  <2>3. bootCalls' \in Seq(SettingsCall)
    <3>1. \/ bootCalls' = bootCalls
          \/ \E w, u \in BOOLEAN : bootCalls' = Append(bootCalls, [want |-> w, user |-> u])
      BY <1>4, Zenon DEF FinishHydration, FirstRun
    <3>2. ASSUME NEW w \in BOOLEAN, NEW u \in BOOLEAN,
                 bootCalls' = Append(bootCalls, [want |-> w, user |-> u])
          PROVE  bootCalls' \in Seq(SettingsCall)
      BY <3>2 DEF SettingsTypes, SettingsCall
    <3>. QED
      BY <3>1, <3>2 DEF SettingsTypes
  <2>. QED
    BY <1>4, <2>1, <2>2, <2>3 DEF FinishHydration, SettingsTypes, nodeVars, discVars
<1>. QED
  BY <1>1, <1>2, <1>3, <1>4 DEF StoreNext

\* The types survive the steps of the discoverability switch.
LEMMA DiscTypes ==
  ASSUME SettingsTypes, DiscNext
  PROVE  SettingsTypes'
<1>1. CASE NodeBecomesReady \/ LoadDiscoverability \/ \E v \in {"everyone", "off"} : ChangeDiscoverability(v)
  BY <1>1 DEF NodeBecomesReady, LoadDiscoverability, ChangeDiscoverability, SettingsTypes, fileVars,
     nodeVars, discVars, bootVars, menuVars
<1>2. CASE SyncNodeOnStartup
  <2>1. smem.disc \in {"everyone", "off"}
    BY DEF SettingsTypes, SettingsRecord
  <2>. QED
    BY <1>2, <2>1 DEF SyncNodeOnStartup, SettingsTypes, fileVars, discVars, bootVars, menuVars
<1>3. CASE DiscoverabilityAnswers
  <2>1. discCall \in {"everyone", "off"}
    BY <1>3 DEF DiscoverabilityAnswers, SettingsTypes
  <2>2. smem' \in SettingsRecord /\ swrites' \in Seq(SettingsRecord)
    BY <1>3, <2>1, SetDisc, SetKeepsTypes DEF DiscoverabilityAnswers, SettingsTypes
  <2>. QED
    BY <1>3, <2>1, <2>2 DEF DiscoverabilityAnswers, SettingsTypes, fileVars, bootVars, menuVars
<1>. QED
  BY <1>1, <1>2, <1>3 DEF DiscNext

\* The types survive the steps of the launch at login.
LEMMA BootTypes ==
  ASSUME SettingsTypes, BootNext
  PROVE  SettingsTypes'
<1>1. ASSUME NEW w \in BOOLEAN, ToggleBoot(w)
      PROVE  SettingsTypes'
  <2>1. PICK u \in BOOLEAN : bootCalls' = Append(bootCalls, [want |-> w, user |-> u])
    BY <1>1, Zenon DEF ToggleBoot
  <2>2. bootCalls' \in Seq(SettingsCall)
    BY <2>1 DEF SettingsTypes, SettingsCall
  <2>. QED
    BY <1>1, <2>2 DEF ToggleBoot, SettingsTypes, fileVars, nodeVars, discVars, menuVars
<1>2. ASSUME NEW i \in DOMAIN bootCalls, BootAnswers(i)
      PROVE  SettingsTypes'
  <2>0. bootCalls' = DropCall(bootCalls, i)
    BY <1>2 DEF BootAnswers
  <2>1. bootCalls' \in Seq(SettingsCall)
    <3>1. bootCalls \in Seq(SettingsCall)
      BY DEF SettingsTypes
    <3>. QED
      BY <2>0, <3>1, DropSeq, Zenon
  <2>2. bootCalls[i].want \in BOOLEAN
    BY CallFields, Zenon DEF SettingsTypes
  <2>3. osBoot' \in BOOLEAN
    BY <1>2, <2>2, Zenon DEF BootAnswers, SettingsTypes
  <2>4. smem' \in SettingsRecord /\ swrites' \in Seq(SettingsRecord)
    <3>1. CASE UNCHANGED <<smem, swrites>>
      BY <3>1 DEF SettingsTypes
    <3>2. CASE SetSettings([smem EXCEPT !.boot = osBoot'])
      <4>1. [smem EXCEPT !.boot = osBoot'] \in SettingsRecord
        BY <2>3, SetBoot DEF SettingsTypes
      <4>. QED
        BY <3>2, <4>1, SetKeepsTypes
    <3>. QED
      BY <1>2, <3>1, <3>2 DEF BootAnswers
  <2>. QED
    BY <1>2, <2>1, <2>3, <2>4 DEF BootAnswers, SettingsTypes, fileVars, nodeVars, discVars, menuVars
<1>3. CASE BootLoads
  <2>1. [smem EXCEPT !.boot = osBoot] \in SettingsRecord
    BY SetBoot DEF SettingsTypes
  <2>2. smem' \in SettingsRecord /\ swrites' \in Seq(SettingsRecord)
    BY <1>3, <2>1, SetKeepsTypes DEF BootLoads
  <2>. QED
    BY <1>3, <2>2 DEF BootLoads, SettingsTypes, fileVars, nodeVars, discVars, bootVars, menuVars
<1>. QED
  BY <1>1, <1>2, <1>3 DEF BootNext

\* The types survive the steps of the menu entry.
LEMMA MenuTypes ==
  ASSUME SettingsTypes, MenuNext
  PROVE  SettingsTypes'
<1>1. CASE ToggleMenu
  <2>0. smem.menu \in BOOLEAN
    BY DEF SettingsTypes, SettingsRecord
  <2>1. PICK w \in BOOLEAN, u \in BOOLEAN : menuCalls' = Append(menuCalls, [want |-> w, user |-> u])
    BY <1>1, Zenon DEF ToggleMenu
  <2>2. menuCalls' \in Seq(SettingsCall)
    BY <2>1 DEF SettingsTypes, SettingsCall
  <2>3. [smem EXCEPT !.menu = ~@] \in SettingsRecord
    BY FlipMenu, SetMenu DEF SettingsTypes
  <2>4. smem' \in SettingsRecord /\ swrites' \in Seq(SettingsRecord)
    BY <1>1, <2>3, SetKeepsTypes DEF ToggleMenu
  <2>. QED
    BY <1>1, <2>2, <2>4 DEF ToggleMenu, SettingsTypes, fileVars, nodeVars, discVars, bootVars
<1>2. ASSUME NEW i \in DOMAIN menuCalls, MenuAnswers(i)
      PROVE  SettingsTypes'
  <2>0. menuCalls' = DropCall(menuCalls, i)
    BY <1>2 DEF MenuAnswers
  <2>1. menuCalls' \in Seq(SettingsCall)
    <3>1. menuCalls \in Seq(SettingsCall)
      BY DEF SettingsTypes
    <3>. QED
      BY <2>0, <3>1, DropSeq, Zenon
  <2>2. menuCalls[i].want \in BOOLEAN /\ (~menuCalls[i].want) \in BOOLEAN
    BY CallFields, Zenon DEF SettingsTypes
  <2>3. osMenu' \in BOOLEAN
    BY <1>2, <2>2, Zenon DEF MenuAnswers, SettingsTypes
  <2>4. smem' \in SettingsRecord /\ swrites' \in Seq(SettingsRecord)
    <3>1. CASE UNCHANGED <<smem, swrites>>
      BY <3>1 DEF SettingsTypes
    <3>2. CASE SetSettings([smem EXCEPT !.menu = ~menuCalls[i].want])
      <4>1. [smem EXCEPT !.menu = ~menuCalls[i].want] \in SettingsRecord
        BY <2>2, SetMenu DEF SettingsTypes
      <4>. QED
        BY <3>2, <4>1, SetKeepsTypes
    <3>. QED
      BY <1>2, <3>1, <3>2 DEF MenuAnswers
  <2>. QED
    BY <1>2, <2>1, <2>3, <2>4 DEF MenuAnswers, SettingsTypes, fileVars, nodeVars, discVars, bootVars
<1>. QED
  BY <1>1, <1>2 DEF MenuNext

\* What the settings file will hold once the writes are through.
SavedLast == IF swrites = <<>> THEN sfile ELSE swrites[Len(swrites)]

\* Unless a setting was changed before the settings were read: the last write is the settings
\* in memory, none is queued before, and the first run was claimed once and for good.
StoreKept ==
  ~early => /\ shydration # "done" => swrites = <<>>
            /\ shydration = "reading" => sread = sfile
            /\ shydration = "done" => SavedLast = smem
            /\ firstRuns # 0 => firstRuns = 1 /\ SavedLast.claimed

\* The node is discoverable as the setting says, and the switch shows that or the call under way.
DiscKept ==
  ~early /\ ~discOff =>
    /\ shydration # "done" => nodeDisc = sfile.disc
    /\ shydration = "done" => nodeDisc = smem.disc
    /\ discCall = NoValue => discGuessed = TRUE \/ discShown \in {NoValue, nodeDisc}
    /\ discCall # NoValue => discShown = discCall

\* At most one call on the menu entry is under way and is for the setting; without one the
\* system has the entry the setting says.
MenuKept ==
  ~early /\ ~menuOff =>
    /\ shydration # "done" => menuCalls = <<>>
    /\ shydration = "done" =>
         /\ Len(menuCalls) =< 1
         /\ menuCalls = <<>> => osMenu = smem.menu
         /\ menuCalls # <<>> => /\ menuCalls[1].want = smem.menu
                                /\ menuCalls[1].user => osMenu = ~menuCalls[1].want

\* The invariant of the settings: the three switches interleave over one store.
SettingsInv == SettingsTypes /\ StoreKept /\ DiscKept /\ MenuKept

\* The store changes as setSettings(m) changes it.
StoreEdited(m) ==
  \/ m = smem /\ smem' = m /\ swrites' = swrites /\ (~early' => ~early)
  \/ smem' = m /\ swrites' = Append(swrites, m) /\ (~early' => ~early /\ shydration = "done")

\* setSettings is such a change.
LEMMA SetIsEdit ==
  ASSUME NEW m, SetSettings(m)
  PROVE  StoreEdited(m)
<1>1. ~early' => ~early /\ shydration = "done"
  BY Zenon DEF SetSettings
<1>. QED
  BY <1>1 DEF SetSettings, StoreEdited

\* So is leaving the store alone.
LEMMA NoSetIsEdit ==
  ASSUME UNCHANGED <<smem, swrites>>, ~early' => ~early
  PROVE  StoreEdited(smem)
  BY DEF StoreEdited

\* The discoverability switch edits its own setting and nothing of the others.
LEMMA DiscEdits ==
  ASSUME SettingsTypes, DiscNext
  PROVE  /\ UNCHANGED <<sfile, shydration, sread, firstRuns, osMenu, menuCalls, menuOff>>
         /\ \E m \in SettingsRecord : /\ StoreEdited(m) /\ m.claimed = smem.claimed
                                      /\ m.menu = smem.menu
<1>0. smem \in SettingsRecord
  BY DEF SettingsTypes
<1>1. CASE NodeBecomesReady \/ LoadDiscoverability \/ \E v \in {"everyone", "off"} : ChangeDiscoverability(v)
  <2>1. /\ UNCHANGED <<sfile, shydration, sread, firstRuns, osMenu, menuCalls, menuOff>>
        /\ UNCHANGED <<smem, swrites, early>>
    BY <1>1 DEF NodeBecomesReady, LoadDiscoverability, ChangeDiscoverability, fileVars, menuVars
  <2>. QED
    BY <1>0, <2>1, NoSetIsEdit
<1>2. CASE SyncNodeOnStartup
  <2>1. /\ UNCHANGED <<sfile, shydration, sread, firstRuns, osMenu, menuCalls, menuOff>>
        /\ UNCHANGED <<smem, swrites>>
    BY <1>2 DEF SyncNodeOnStartup, fileVars, menuVars
  <2>2. ~early' => ~early
    BY <1>2, Zenon DEF SyncNodeOnStartup
  <2>. QED
    BY <1>0, <2>1, <2>2, NoSetIsEdit
<1>3. CASE DiscoverabilityAnswers
  <2>1. UNCHANGED <<sfile, shydration, sread, firstRuns, osMenu, menuCalls, menuOff>>
    BY <1>3 DEF DiscoverabilityAnswers, fileVars, menuVars
  <2>2. CASE SetSettings([smem EXCEPT !.disc = discCall])
    <3>1. discCall \in {"everyone", "off"}
      BY <1>3 DEF DiscoverabilityAnswers, SettingsTypes
    <3>. DEFINE n == [smem EXCEPT !.disc = discCall]
    <3>2. n \in SettingsRecord /\ n.claimed = smem.claimed /\ n.menu = smem.menu
      BY <1>0, <3>1, SetDisc
    <3>3. StoreEdited(n)
      BY <2>2, SetIsEdit
    <3>. HIDE DEF n
    <3>. QED
      BY <2>1, <3>2, <3>3
  <2>3. CASE UNCHANGED <<smem, swrites, early>>
    BY <1>0, <2>1, <2>3, NoSetIsEdit
  <2>. QED
    BY <1>3, <2>2, <2>3 DEF DiscoverabilityAnswers
<1>. QED
  BY <1>1, <1>2, <1>3 DEF DiscNext

\* The launch at login edits its own setting and nothing of the others.
LEMMA BootEdits ==
  ASSUME SettingsTypes, BootNext
  PROVE  /\ UNCHANGED <<sfile, shydration, sread, firstRuns, osMenu, menuCalls, menuOff,
                        nodeDisc, discCall, discShown, discGuessed, discOff>>
         /\ \E m \in SettingsRecord : /\ StoreEdited(m) /\ m.claimed = smem.claimed
                                      /\ m.menu = smem.menu /\ m.disc = smem.disc
<1>0. smem \in SettingsRecord /\ osBoot \in BOOLEAN
  BY DEF SettingsTypes
<1>e. UNCHANGED <<sfile, shydration, sread, firstRuns, osMenu, menuCalls, menuOff,
                        nodeDisc, discCall, discShown, discGuessed, discOff>>
  BY DEF BootNext, ToggleBoot, BootAnswers, BootLoads, fileVars, nodeVars, discVars, menuVars
<1>1. CASE UNCHANGED <<smem, swrites, early>>
  BY <1>0, <1>e, <1>1, NoSetIsEdit
<1>2. ASSUME NEW b \in BOOLEAN, SetSettings([smem EXCEPT !.boot = b])
      PROVE  \E m \in SettingsRecord : /\ StoreEdited(m) /\ m.claimed = smem.claimed
                                       /\ m.menu = smem.menu /\ m.disc = smem.disc
  <2>. DEFINE n == [smem EXCEPT !.boot = b]
  <2>1. /\ n \in SettingsRecord /\ n.claimed = smem.claimed /\ n.menu = smem.menu
        /\ n.disc = smem.disc
    BY <1>0, SetBoot
  <2>2. StoreEdited(n)
    BY <1>2, SetIsEdit
  <2>. HIDE DEF n
  <2>. QED
    BY <2>1, <2>2
<1>3. osBoot' \in BOOLEAN
  BY BootTypes DEF SettingsTypes
<1>4. \/ UNCHANGED <<smem, swrites, early>>
      \/ SetSettings([smem EXCEPT !.boot = osBoot'])
      \/ SetSettings([smem EXCEPT !.boot = osBoot])
  BY DEF BootNext, ToggleBoot, BootAnswers, BootLoads
<1>. QED
  BY <1>0, <1>e, <1>1, <1>2, <1>3, <1>4

\* The menu entry edits its own setting and nothing of the others.
LEMMA MenuEdits ==
  ASSUME SettingsTypes, MenuNext
  PROVE  /\ UNCHANGED <<sfile, shydration, sread, firstRuns, nodeDisc, discCall, discShown, discGuessed, discOff>>
         /\ \E m \in SettingsRecord : /\ StoreEdited(m) /\ m.claimed = smem.claimed
                                      /\ m.disc = smem.disc
<1>0. smem \in SettingsRecord
  BY DEF SettingsTypes
<1>e. UNCHANGED <<sfile, shydration, sread, firstRuns, nodeDisc, discCall, discShown, discGuessed, discOff>>
  BY DEF MenuNext, ToggleMenu, MenuAnswers, fileVars, nodeVars, discVars
<1>1. ASSUME NEW b \in BOOLEAN, SetSettings([smem EXCEPT !.menu = b])
      PROVE  \E m \in SettingsRecord : /\ StoreEdited(m) /\ m.claimed = smem.claimed
                                       /\ m.disc = smem.disc
  <2>. DEFINE n == [smem EXCEPT !.menu = b]
  <2>1. n \in SettingsRecord /\ n.claimed = smem.claimed /\ n.disc = smem.disc
    BY <1>0, SetMenu
  <2>2. StoreEdited(n)
    BY <1>1, SetIsEdit
  <2>. HIDE DEF n
  <2>. QED
    BY <2>1, <2>2
<1>2. CASE ToggleMenu
  <2>1. (~smem.menu) \in BOOLEAN
    BY <1>0, FlipMenu
  <2>2. SetSettings([smem EXCEPT !.menu = ~smem.menu])
    BY <1>2, Zenon DEF ToggleMenu
  <2>. QED
    BY <1>e, <1>1, <2>1, <2>2
<1>3. ASSUME NEW i \in DOMAIN menuCalls, MenuAnswers(i)
      PROVE  \E m \in SettingsRecord : /\ StoreEdited(m) /\ m.claimed = smem.claimed
                                       /\ m.disc = smem.disc
  <2>1. (~menuCalls[i].want) \in BOOLEAN
    BY CallFields, Zenon DEF SettingsTypes
  <2>2. \/ UNCHANGED <<smem, swrites, early>>
        \/ SetSettings([smem EXCEPT !.menu = ~menuCalls[i].want])
    BY <1>3 DEF MenuAnswers
  <2>3. CASE UNCHANGED <<smem, swrites, early>>
    BY <1>0, <2>3, NoSetIsEdit
  <2>. QED
    BY <1>1, <2>1, <2>2, <2>3
<1>. QED
  BY <1>e, <1>2, <1>3 DEF MenuNext

\* An edit by any of them keeps the store's part of the invariant.
LEMMA EditKeepsStore ==
  ASSUME SettingsTypes, StoreKept, UNCHANGED <<sfile, shydration, sread, firstRuns>>,
         NEW m \in SettingsRecord, StoreEdited(m), m.claimed = smem.claimed
  PROVE  StoreKept'
<1>1. CASE m = smem /\ smem' = m /\ swrites' = swrites /\ (~early' => ~early)
  BY <1>1 DEF StoreKept, SavedLast
<1>2. CASE smem' = m /\ swrites' = Append(swrites, m) /\ (~early' => ~early /\ shydration = "done")
  <2>1. SavedLast' = m /\ swrites' # <<>>
    BY <1>2 DEF SavedLast, SettingsTypes
  <2>. QED
    BY <1>2, <2>1 DEF StoreKept
<1>. QED
  BY <1>1, <1>2 DEF StoreEdited

\* A write that reaches the file keeps every part.
LEMMA FileSavesKeeps ==
  ASSUME SettingsInv, FileSaves
  PROVE  StoreKept' /\ DiscKept' /\ MenuKept'
<1>1. /\ swrites # <<>> /\ sfile' = Head(swrites) /\ swrites' = Tail(swrites)
      /\ UNCHANGED <<smem, shydration, sread, nodeDisc, discShown, discCall, discGuessed, osMenu,
                     menuCalls, firstRuns, early, discOff, menuOff>>
  BY DEF FileSaves, nodeVars, discVars, menuVars
<1>2. SavedLast' = SavedLast
  <2>1. swrites \in Seq(SettingsRecord)
    BY DEF SettingsInv, SettingsTypes
  <2>4. Len(swrites) \in Nat /\ Len(swrites) > 0
    BY <1>1, <2>1
  <2>2. CASE Len(swrites) = 1
    BY <1>1, <2>1, <2>2 DEF SavedLast
  <2>3. CASE Len(swrites) > 1
    <3>1. /\ Len(Tail(swrites)) = Len(swrites) - 1
          /\ Tail(swrites)[Len(swrites) - 1] = swrites[Len(swrites)]
      BY <2>1, <2>4, <2>3
    <3>2. swrites' = Tail(swrites)
      BY <1>1
    <3>3. Len(swrites') = Len(swrites) - 1
      BY <3>1, <3>2, Zenon
    <3>4. Len(swrites') # 0
      BY <2>3, <2>4, <3>3
    <3>5. swrites'[Len(swrites')] = swrites[Len(swrites)]
      BY <3>1, <3>2, <3>3, Zenon
    <3>6. swrites' # <<>> /\ swrites # <<>>
      <4>1. Len(<<>>) = 0
        OBVIOUS
      <4>. QED
        BY <1>1, <3>4, <4>1, Zenon
    <3>. QED
      BY <3>5, <3>6, Zenon DEF SavedLast
  <2>. QED
    BY <2>4, <2>2, <2>3
<1>3. ~early => shydration = "done"
  BY <1>1 DEF SettingsInv, StoreKept
<1>4. StoreKept'
  BY <1>1, <1>2, <1>3 DEF SettingsInv, StoreKept
<1>5. DiscKept'
  BY <1>1, <1>3 DEF SettingsInv, DiscKept
<1>6. MenuKept'
  BY <1>1 DEF SettingsInv, MenuKept
<1>. QED
  BY <1>4, <1>5, <1>6

\* A page that is mounted before the settings were read keeps every part.
LEMMA MountKeeps ==
  ASSUME SettingsInv, MountWaits
  PROVE  StoreKept' /\ DiscKept' /\ MenuKept'
<1>1. /\ shydration = "idle" /\ shydration' = "reading" /\ sread' = sfile
      /\ UNCHANGED <<sfile, smem, swrites, nodeDisc, discShown, discCall, discGuessed, osMenu,
                     menuCalls, firstRuns, early, discOff, menuOff>>
  BY DEF MountWaits, StartHydration, nodeVars, discVars, menuVars
<1>2. StoreKept'
  BY <1>1 DEF SettingsInv, StoreKept, SavedLast
<1>3. DiscKept'
  BY <1>1 DEF SettingsInv, DiscKept
<1>4. MenuKept'
  BY <1>1 DEF SettingsInv, MenuKept
<1>. QED
  BY <1>2, <1>3, <1>4

\* A relaunch, with writes still queued, keeps every part.
LEMMA RelaunchKeeps ==
  ASSUME SettingsInv, Relaunch
  PROVE  StoreKept' /\ DiscKept' /\ MenuKept'
<1>1. /\ shydration' = "idle" /\ swrites' = <<>> /\ nodeDisc' = sfile.disc
      /\ discShown' = NoValue /\ discCall' = NoValue /\ menuCalls' = <<>> /\ UNCHANGED <<sfile, firstRuns>>
  BY DEF Relaunch
<1>2. ~early' => ~early /\ swrites = <<>>
  BY Zenon DEF Relaunch
<1>3. StoreKept'
  BY <1>1, <1>2 DEF SettingsInv, StoreKept, SavedLast
<1>4. DiscKept'
  BY <1>1 DEF DiscKept
<1>5. MenuKept'
  BY <1>1 DEF MenuKept
<1>. QED
  BY <1>3, <1>4, <1>5

\* Reading the file at last keeps every part.
LEMMA HydrationKeeps ==
  ASSUME SettingsInv, FinishHydration
  PROVE  StoreKept' /\ DiscKept' /\ MenuKept'
<1>. DEFINE n == [sread EXCEPT !.claimed = TRUE]
<1>1. /\ shydration = "reading" /\ shydration' = "done"
      /\ UNCHANGED <<sfile, sread, nodeDisc, discShown, discCall, discGuessed, osMenu, early, discOff>>
  BY DEF FinishHydration, nodeVars, discVars
<1>2. /\ sread \in SettingsRecord /\ n \in SettingsRecord /\ n.disc = sread.disc
      /\ n.claimed /\ n.menu = sread.menu /\ swrites \in Seq(SettingsRecord)
      /\ firstRuns \in Nat
  BY SetClaimed DEF SettingsInv, SettingsTypes
<1>3. \/ smem' = sread /\ sread.claimed /\ swrites' = swrites /\ firstRuns' = firstRuns
      \/ smem' = n /\ ~sread.claimed /\ swrites' = Append(swrites, n) /\ firstRuns' = firstRuns + 1
  BY Zenon DEF FinishHydration, FirstRun
<1>. HIDE DEF n
<1>4. ~early => swrites = <<>> /\ sread = sfile
  BY <1>1 DEF SettingsInv, StoreKept
<1>5. StoreKept'
  <2>1. CASE smem' = sread /\ sread.claimed /\ swrites' = swrites /\ firstRuns' = firstRuns
    BY <1>1, <1>4, <2>1 DEF SettingsInv, StoreKept, SavedLast
  <2>2. CASE smem' = n /\ ~sread.claimed /\ swrites' = Append(swrites, n) /\ firstRuns' = firstRuns + 1
    <3>1. swrites = <<>> => swrites' = <<n>> /\ SavedLast' = n
      BY <2>2 DEF SavedLast
    <3>2. ~early => firstRuns = 0
      BY <1>1, <1>4, <2>2 DEF SettingsInv, StoreKept, SavedLast
    <3>. QED
      BY <1>1, <1>2, <1>4, <2>2, <3>1, <3>2 DEF StoreKept
  <2>. QED
    BY <1>3, <2>1, <2>2
<1>6. smem'.disc = sread.disc /\ smem'.menu = sread.menu
  BY <1>2, <1>3
<1>7. DiscKept'
  BY <1>1, <1>4, <1>6 DEF SettingsInv, DiscKept
<1>8. MenuKept'
  <2>1. ~menuOff' => ~menuOff /\ menuCalls = <<>>
    BY Zenon DEF FinishHydration, WindowsContextMenuSync
  <2>2. menuCalls = <<>> => \E u : menuCalls' = <<[want |-> sread.menu, user |-> u]>> /\ ~u
    <3>1. menuCalls' = Append(menuCalls, [want |-> sread.menu, user |-> FALSE])
      BY Zenon DEF FinishHydration, WindowsContextMenuSync
    <3>. DEFINE f == FALSE
    <3>2. menuCalls' = Append(menuCalls, [want |-> sread.menu, user |-> f]) /\ ~f
      BY <3>1
    <3>. HIDE DEF f
    <3>. QED
      BY <3>2
  <2>3. CASE menuCalls = <<>>
    <3>1. PICK u : menuCalls' = <<[want |-> sread.menu, user |-> u]>> /\ ~u
      BY <2>2, <2>3
    <3>2. menuCalls' # <<>> /\ Len(menuCalls') = 1 /\ menuCalls'[1].want = sread.menu
          /\ ~menuCalls'[1].user
      BY <3>1
    <3>. QED
      BY <1>1, <1>6, <3>2 DEF MenuKept
  <2>4. CASE menuCalls # <<>>
    BY <2>1, <2>4 DEF MenuKept
  <2>. QED
    BY <2>3, <2>4
<1>. QED
  BY <1>5, <1>7, <1>8

\* The discoverability switch keeps its own part.
LEMMA DiscKeepsDisc ==
  ASSUME SettingsInv, DiscNext
  PROVE  DiscKept'
<1>0. /\ smem \in SettingsRecord /\ nodeDisc \in {"everyone", "off"}
      /\ discCall \in {"everyone", "off", NoValue}
  BY DEF SettingsInv, SettingsTypes
<1>1. CASE NodeBecomesReady
  BY <1>1 DEF NodeBecomesReady, SettingsInv, DiscKept, fileVars, discVars
<1>2. CASE LoadDiscoverability
  BY <1>2 DEF LoadDiscoverability, SettingsInv, DiscKept, fileVars, nodeVars
<1>3. ASSUME NEW v \in {"everyone", "off"}, ChangeDiscoverability(v)
      PROVE  DiscKept'
  BY <1>3 DEF ChangeDiscoverability, SettingsInv, DiscKept, fileVars, nodeVars
<1>4. CASE SyncNodeOnStartup
  <2>1. UNCHANGED <<sfile, smem, shydration, discShown, discCall, discGuessed>>
    BY <1>4 DEF SyncNodeOnStartup, fileVars, discVars
  <2>2. CASE nodeDisc' = smem.disc /\ early' = (early \/ shydration # "done")
             /\ discOff' = (discOff \/ discCall # NoValue)
    <3>1. ~early' => ~early /\ shydration = "done"
      BY <2>2, Zenon
    <3>2. ~discOff' => ~discOff
      BY <2>2, Zenon
    <3>. QED
      BY <2>1, <2>2, <3>1, <3>2 DEF SettingsInv, DiscKept
  <2>3. CASE UNCHANGED <<nodeDisc, early, discOff>>
    BY <2>1, <2>3 DEF SettingsInv, DiscKept
  <2>. QED
    BY <1>4, <2>2, <2>3 DEF SyncNodeOnStartup
<1>5. CASE DiscoverabilityAnswers
  <2>1. /\ UNCHANGED <<sfile, shydration>> /\ discCall \in {"everyone", "off"}
        /\ discCall # NoValue /\ discCall' = NoValue
    BY <1>0, <1>5 DEF DiscoverabilityAnswers, fileVars
  <2>2. CASE /\ nodeDisc' = discCall /\ SetSettings([smem EXCEPT !.disc = discCall])
             /\ UNCHANGED <<discShown, discOff>>
    <3>1. smem'.disc = discCall
      BY <1>0, <2>1, <2>2, SetDisc DEF SetSettings
    <3>2. ~early' => ~early /\ shydration = "done"
      BY <2>2, Zenon DEF SetSettings
    <3>. QED
      BY <2>1, <2>2, <3>1, <3>2 DEF SettingsInv, DiscKept
  <2>3. CASE discShown' = nodeDisc /\ UNCHANGED <<nodeDisc, smem, early, discOff>>
    BY <2>1, <2>3 DEF SettingsInv, DiscKept
  <2>4. CASE discGuessed' = TRUE /\ UNCHANGED <<nodeDisc, smem, early, discOff>>
    BY <2>1, <2>4 DEF SettingsInv, DiscKept
  <2>. QED
    BY <1>5, <2>2, <2>3, <2>4 DEF DiscoverabilityAnswers
<1>. QED
  BY <1>1, <1>2, <1>3, <1>4, <1>5 DEF DiscNext

\* The only index of a sequence of one.
LEMMA OnlyIndex ==
  ASSUME NEW n \in Nat, NEW j \in 1..n
  PROVE  n =< 1 => j = 1 /\ n = 1
  OBVIOUS

\* The menu entry keeps its own part.
LEMMA MenuKeepsMenu ==
  ASSUME SettingsInv, MenuNext
  PROVE  MenuKept'
<1>0. /\ smem \in SettingsRecord /\ menuCalls \in Seq(SettingsCall) /\ osMenu \in BOOLEAN
      /\ smem.menu \in BOOLEAN
  BY FlipMenu DEF SettingsInv, SettingsTypes
<1>1. CASE ToggleMenu
  <2>. DEFINE w == ~smem.menu
              u == TRUE
  <2>1. ~early' => ~early /\ shydration = "done"
    BY <1>1, Zenon DEF ToggleMenu, SetSettings
  <2>2. ~menuOff' => ~menuOff /\ menuCalls = <<>>
    BY <1>1, Zenon DEF ToggleMenu
  <2>3. UNCHANGED <<shydration, osMenu>>
    BY <1>1 DEF ToggleMenu, fileVars
  <2>4. smem'.menu = w
    <3>1. w \in BOOLEAN
      BY <1>0, FlipMenu
    <3>2. smem' = [smem EXCEPT !.menu = w]
      BY <1>1, Zenon DEF ToggleMenu, SetSettings
    <3>. HIDE DEF w
    <3>. QED
      BY <1>0, <3>1, <3>2, SetMenu
  <2>5. menuCalls' = Append(menuCalls, [want |-> w, user |-> u])
    BY <1>1, Zenon DEF ToggleMenu
  <2>6. ~early' /\ ~menuOff' => osMenu = ~w
    <3>1. ~early' /\ ~menuOff' => osMenu = smem.menu
      BY <2>1, <2>2 DEF SettingsInv, MenuKept
    <3>2. smem.menu = ~w
      BY <1>0, Zenon
    <3>. QED
      BY <3>1, <3>2, Zenon
  <2>. HIDE DEF w, u
  <2>7. menuCalls = <<>> => menuCalls' # <<>> /\ Len(menuCalls') = 1 /\ menuCalls'[1].want = w
    BY <2>5
  <2>8. osMenu = ~w /\ menuCalls'[1].want = w => osMenu' = ~menuCalls'[1].want
    BY <2>3, Zenon
  <2>9. Len(menuCalls') = 1 => Len(menuCalls') =< 1
    OBVIOUS
  <2>10. ~early' /\ ~menuOff' => /\ shydration' = "done" /\ Len(menuCalls') =< 1
                                /\ menuCalls' # <<>> /\ menuCalls'[1].want = smem'.menu
                                /\ osMenu' = ~menuCalls'[1].want
    BY <2>1, <2>2, <2>3, <2>4, <2>6, <2>7, <2>8, <2>9, Zenon
  <2>. QED
    BY <2>10, Zenon DEF MenuKept
<1>2. ASSUME NEW i \in DOMAIN menuCalls, MenuAnswers(i)
      PROVE  MenuKept'
  <2>. DEFINE w == menuCalls[i].want
  <2>1. UNCHANGED shydration /\ menuCalls' = DropCall(menuCalls, i)
    BY <1>2 DEF MenuAnswers, fileVars
  <2>2. w \in BOOLEAN /\ (~w) \in BOOLEAN
    BY <1>0, CallFields, Zenon
  <2>3. (~early' => ~early) /\ (~menuOff' => ~menuOff)
    <3>1. CASE UNCHANGED <<early, menuOff>>
      BY <3>1, Zenon
    <3>2. CASE SetSettings([smem EXCEPT !.menu = ~menuCalls[i].want]) /\ UNCHANGED menuOff
      BY <3>2, Zenon DEF SetSettings
    <3>3. CASE menuOff' = TRUE /\ UNCHANGED early
      BY <3>3, Zenon
    <3>. QED
      BY <1>2, <3>1, <3>2, <3>3, Zenon DEF MenuAnswers
  <2>4. ~early /\ ~menuOff => /\ shydration = "done" /\ i = 1 /\ Len(menuCalls) = 1
                              /\ w = smem.menu /\ (menuCalls[i].user => osMenu = ~w)
    <3>1. Len(menuCalls) \in Nat /\ i \in 1..Len(menuCalls) /\ menuCalls # <<>>
      BY <1>0
    <3>. HIDE DEF w
    <3>2. ~early /\ ~menuOff => shydration = "done" /\ Len(menuCalls) =< 1
      BY <3>1 DEF SettingsInv, MenuKept
    <3>3. Len(menuCalls) =< 1 => i = 1 /\ Len(menuCalls) = 1
      BY <3>1, OnlyIndex, Zenon
    <3>4. ~early /\ ~menuOff => /\ menuCalls[1].want = smem.menu
                                /\ (menuCalls[1].user => osMenu = ~menuCalls[1].want)
      BY <3>1, <3>2, Zenon DEF SettingsInv, MenuKept
    <3>. QED
      BY <3>2, <3>3, <3>4, Zenon DEF w
  <2>5. Len(menuCalls) = 1 => menuCalls' = <<>>
    BY <1>0, <2>1, DropSeq
  <2>6. ~early' /\ ~menuOff' => osMenu' = smem'.menu
    <3>1. CASE osMenu' = w /\ UNCHANGED smem
      BY <2>3, <2>4, <3>1, Zenon
    <3>2. CASE menuCalls[i].user /\ SetSettings([smem EXCEPT !.menu = ~w]) /\ UNCHANGED osMenu
      <4>1. smem'.menu = ~w
        <5>. DEFINE b == ~w
        <5>1. b \in BOOLEAN /\ smem' = [smem EXCEPT !.menu = b]
          BY <2>2, <3>2 DEF SetSettings
        <5>. HIDE DEF b
        <5>2. smem'.menu = b
          BY <1>0, <5>1, SetMenu
        <5>. QED
          BY <5>2 DEF b
      <4>. QED
        BY <2>3, <2>4, <3>2, <4>1, Zenon
    <3>3. CASE menuOff' = TRUE
      BY <3>3, Zenon
    <3>. QED
      BY <1>2, <3>1, <3>2, <3>3, Zenon DEF MenuAnswers
  <2>. HIDE DEF w
  <2>7. ~early' /\ ~menuOff' => shydration' = "done" /\ menuCalls' = <<>>
    BY <2>1, <2>3, <2>4, <2>5
  <2>. QED
    BY <2>6, <2>7 DEF MenuKept
<1>. QED
  BY <1>1, <1>2 DEF MenuNext

\* The invariant of the settings is inductive, whichever switch moves.
LEMMA SettingsStep ==
  ASSUME SettingsInv, SettingsAssumption, [ANext]_aVars
  PROVE  SettingsInv'
<1>t. SettingsTypes
  BY DEF SettingsInv
<1>0. CASE UNCHANGED aVars
  <2>1. SettingsTypes'
    BY <1>t, <1>0 DEF aVars, SettingsTypes
  <2>2. StoreKept' /\ DiscKept' /\ MenuKept'
    BY <1>0 DEF aVars, SettingsInv, StoreKept, DiscKept, MenuKept, SavedLast
  <2>. QED
    BY <2>1, <2>2 DEF SettingsInv
<1>1. CASE StoreNext
  <2>1. StoreKept' /\ DiscKept' /\ MenuKept'
    BY <1>1, FileSavesKeeps, MountKeeps, HydrationKeeps, RelaunchKeeps DEF StoreNext
  <2>. QED
    BY <1>t, <1>1, <2>1, StoreTypes DEF SettingsInv
<1>2. CASE DiscNext
  <2>1. PICK m \in SettingsRecord : StoreEdited(m) /\ m.claimed = smem.claimed /\ m.menu = smem.menu
    BY <1>t, <1>2, DiscEdits
  <2>2. UNCHANGED <<sfile, shydration, sread, firstRuns, osMenu, menuCalls, menuOff>>
    BY <1>t, <1>2, DiscEdits
  <2>3. StoreKept'
    BY <1>t, <2>1, <2>2, EditKeepsStore DEF SettingsInv
  <2>4. smem'.menu = smem.menu /\ (~early' => ~early)
    BY <2>1 DEF StoreEdited
  <2>5. MenuKept'
    BY <2>2, <2>4 DEF SettingsInv, MenuKept
  <2>. QED
    BY <1>t, <1>2, <2>3, <2>5, DiscKeepsDisc, DiscTypes DEF SettingsInv
<1>3. CASE BootNext
  <2>1. PICK m \in SettingsRecord : /\ StoreEdited(m) /\ m.claimed = smem.claimed
                                    /\ m.menu = smem.menu /\ m.disc = smem.disc
    BY <1>t, <1>3, BootEdits
  <2>2. UNCHANGED <<sfile, shydration, sread, firstRuns, osMenu, menuCalls, menuOff,
                    nodeDisc, discCall, discShown, discGuessed, discOff>>
    BY <1>t, <1>3, BootEdits
  <2>3. StoreKept'
    BY <1>t, <2>1, <2>2, EditKeepsStore DEF SettingsInv
  <2>4. smem'.menu = smem.menu /\ smem'.disc = smem.disc /\ (~early' => ~early)
    BY <2>1 DEF StoreEdited
  <2>5. MenuKept'
    BY <2>2, <2>4 DEF SettingsInv, MenuKept
  <2>6. DiscKept'
    BY <2>2, <2>4 DEF SettingsInv, DiscKept
  <2>. QED
    BY <1>t, <1>3, <2>3, <2>5, <2>6, BootTypes DEF SettingsInv
<1>4. CASE MenuNext
  <2>1. PICK m \in SettingsRecord : /\ StoreEdited(m) /\ m.claimed = smem.claimed
                                    /\ m.disc = smem.disc
    BY <1>t, <1>4, MenuEdits
  <2>2. UNCHANGED <<sfile, shydration, sread, firstRuns, nodeDisc, discCall, discShown, discGuessed, discOff>>
    BY <1>t, <1>4, MenuEdits
  <2>3. StoreKept'
    BY <1>t, <2>1, <2>2, EditKeepsStore DEF SettingsInv
  <2>4. smem'.disc = smem.disc /\ (~early' => ~early)
    BY <2>1 DEF StoreEdited
  <2>6. DiscKept'
    BY <2>2, <2>4 DEF SettingsInv, DiscKept
  <2>. QED
    BY <1>t, <1>4, <2>3, <2>6, MenuKeepsMenu, MenuTypes DEF SettingsInv
<1>. QED
  BY <1>0, <1>1, <1>2, <1>3, <1>4 DEF ANext

\* It holds at launch.
LEMMA SettingsStart ==
  ASSUME SettingsAssumption, AInit
  PROVE  SettingsInv
<1>0. Defaults \in SettingsRecord /\ Defaults.disc \in {"everyone", "off"}
  BY DEF SettingsAssumption, SettingsRecord
<1>1. /\ sfile = Defaults /\ smem = Defaults /\ sread = Defaults /\ swrites = <<>>
      /\ shydration = "idle" /\ nodeDisc = Defaults.disc /\ discShown = NoValue
      /\ discCall = NoValue /\ bootCalls = <<>> /\ menuCalls = <<>> /\ firstRuns = 0
  BY DEF AInit
<1>2. osBoot \in BOOLEAN /\ osMenu \in BOOLEAN
  BY Zenon DEF AInit
<1>3. SettingsTypes
  BY <1>0, <1>1, <1>2 DEF SettingsTypes
<1>4. StoreKept /\ DiscKept /\ MenuKept
  BY <1>1 DEF StoreKept, DiscKept, MenuKept
<1>. QED
  BY <1>3, <1>4 DEF SettingsInv

\* It implies the property.
LEMMA SettingsGoal ==
  ASSUME SettingsInv
  PROVE  SettingsAgree
<1>1. FirstRunOnce
  BY DEF SettingsInv, StoreKept, FirstRunOnce, SettingsTypes
<1>2. DiscoverabilityAgrees
  BY DEF SettingsInv, DiscKept, DiscoverabilityAgrees
<1>3. MenuTellsTruth
  BY DEF SettingsInv, MenuKept, MenuTellsTruth
<1>. QED
  BY <1>1, <1>2, <1>3 DEF SettingsAgree

-----------------------------------------------------------------------------
\* HistoryUI.

\* The refreshes of the history page.
Reads ==
  [who : {"load", "event", "op"}, stage : {"ask", "list", "stat", "stats"},
   seen : [Rows -> Statuses], asked : SUBSET Rows, temps : SUBSET Rows, late : BOOLEAN]

\* A list is current: only rows whose transfer runs differ.
ListCurrent(s, st) == \A r \in Rows : st[r] # "running" => s[r] = st[r]
TempCurrent(t, st) ==
  \A r \in Rows : st[r] # "running" => (r \in t <=> r \in WithStore(st))

\* A refresh that will show the current list.
ListReady(e, st) == \/ e.stage = "ask"
                    \/ e.stage = "list" /\ ListCurrent(e.seen, st)
TempReady(e, st) == \/ ListReady(e, st)
                    \/ e.stage = "stat" /\ TempCurrent(e.asked, st)
                    \/ e.stage = "stats" /\ TempCurrent(e.temps, st)

\* The list is current, or the last refresh to answer will make it so.
ListCovered(q, l, st) ==
  /\ ListCurrent(l, st) \/ \E k \in DOMAIN q : ListReady(q[k], st)
  /\ \A j \in DOMAIN q : q[j].stage = "list" =>
       \/ ListReady(q[j], st)
       \/ \E k \in DOMAIN q : k > j /\ ListReady(q[k], st)

\* The stores shown are current, or the last refresh to answer will make them so.
TempCovered(q, t, st) ==
  /\ TempCurrent(t, st) \/ \E k \in DOMAIN q : TempReady(q[k], st)
  /\ \A j \in DOMAIN q : \/ TempReady(q[j], st)
                         \/ \E k \in DOMAIN q : k > j /\ TempReady(q[k], st)

\* No refresh was overtaken by a later one.
Calm(q) == \A j \in DOMAIN q : ~q[j].late

\* A refresh that just began covers whatever is shown.
LEMMA CoverAppend ==
  ASSUME NEW q \in Seq(Reads), NEW e \in Reads, e.stage = "ask", NEW l, NEW t, NEW st
  PROVE  ListCovered(Append(q, e), l, st) /\ TempCovered(Append(q, e), t, st)
<1>. DEFINE n == Len(q) + 1
            p == Append(q, e)
<1>1. n \in DOMAIN p /\ p[n] = e /\ \A j \in DOMAIN p : j = n \/ n > j
  OBVIOUS
<1>2. ListReady(e, st) /\ TempReady(e, st)
  BY DEF ListReady, TempReady
<1>. HIDE DEF n, p
<1>3. ListCovered(p, l, st) /\ TempCovered(p, t, st)
  BY <1>1, <1>2 DEF ListCovered, TempCovered
<1>. QED
  BY <1>3 DEF p

\* Cover survives a step that leaves every refresh as ready as it was.
LEMMA CoverMono ==
  ASSUME NEW q, NEW p, NEW l, NEW t, NEW st, NEW su, DOMAIN p = DOMAIN q,
         ListCovered(q, l, st), TempCovered(q, t, st),
         ListCurrent(l, st) => ListCurrent(l, su),
         TempCurrent(t, st) => TempCurrent(t, su),
         \A k \in DOMAIN q : ListReady(q[k], st) => ListReady(p[k], su),
         \A k \in DOMAIN q : TempReady(q[k], st) => TempReady(p[k], su),
         \A k \in DOMAIN q : p[k].stage = "list" => q[k].stage = "list" \/ ListReady(p[k], su)
  PROVE  ListCovered(p, l, su) /\ TempCovered(p, t, su)
  BY DEF ListCovered, TempCovered

\* Cover survives a transfer that starts: its row is not compared.
LEMMA RunningMono ==
  ASSUME NEW st \in [Rows -> Statuses], NEW r \in Rows, NEW q, NEW l, NEW t,
         ListCovered(q, l, st), TempCovered(q, t, st)
  PROVE  LET su == [st EXCEPT ![r] = "running"] IN
         ListCovered(q, l, su) /\ TempCovered(q, t, su)
<1>. DEFINE su == [st EXCEPT ![r] = "running"]
<1>1. \A s \in Rows : su[s] # "running" => st[s] # "running" /\ su[s] = st[s]
  OBVIOUS
<1>2. \A s \in Rows : su[s] # "running" => (s \in WithStore(su) <=> s \in WithStore(st))
  BY <1>1 DEF WithStore
<1>. HIDE DEF su
<1>3. /\ \A s : ListCurrent(s, st) => ListCurrent(s, su)
      /\ \A u : TempCurrent(u, st) => TempCurrent(u, su)
  BY <1>1, <1>2 DEF ListCurrent, TempCurrent
<1>4. /\ \A k \in DOMAIN q : ListReady(q[k], st) => ListReady(q[k], su)
      /\ \A k \in DOMAIN q : TempReady(q[k], st) => TempReady(q[k], su)
  BY <1>3 DEF ListReady, TempReady
<1>5. ListCovered(q, l, su) /\ TempCovered(q, t, su)
  BY <1>3, <1>4, CoverMono
<1>. QED
  BY <1>5 DEF su

\* Two refreshes that differ in the history mark only.
SameButLate(a, b) ==
  a.who = b.who /\ a.stage = b.stage /\ a.seen = b.seen /\ a.asked = b.asked /\ a.temps = b.temps

\* The mark alone is changed.
LEMMA LateField ==
  ASSUME NEW e \in Reads, NEW b \in BOOLEAN
  PROVE  LET f == [e EXCEPT !.late = b] IN f \in Reads /\ SameButLate(f, e) /\ f.late = b
  BY DEF Reads, SameButLate

\* A refresh whose list was read.
LEMMA AskField ==
  ASSUME NEW e \in Reads, NEW st \in [Rows -> Statuses]
  PROVE  LET f == [e EXCEPT !.stage = "list", !.seen = st] IN
         /\ f \in Reads /\ f.who = e.who /\ f.stage = "list" /\ f.seen = st /\ f.late = e.late
  BY DEF Reads

\* A refresh whose stores were read.
LEMMA StatField ==
  ASSUME NEW e \in Reads, NEW a \in SUBSET Rows
  PROVE  LET f == [e EXCEPT !.stage = "stats", !.asked = {}, !.temps = a] IN
         /\ f \in Reads /\ f.who = e.who /\ f.stage = "stats" /\ f.temps = a /\ f.late = e.late
  BY DEF Reads

\* One entry of the refreshes is replaced.
LEMMA EntryChanged ==
  ASSUME NEW q \in Seq(Reads), NEW i \in DOMAIN q, NEW e \in Reads
  PROVE  LET p == [q EXCEPT ![i] = e] IN
         /\ p \in Seq(Reads) /\ Len(p) = Len(q) /\ DOMAIN p = DOMAIN q /\ p[i] = e
         /\ \A j \in DOMAIN q : j # i => p[j] = q[j]
  OBVIOUS

\* The same, for the two fields that reading the list sets.
LEMMA AskTwice ==
  ASSUME NEW q \in Seq(Reads), NEW i \in DOMAIN q, NEW st
  PROVE  [q EXCEPT ![i].stage = "list", ![i].seen = st]
           = [q EXCEPT ![i] = [q[i] EXCEPT !.stage = "list", !.seen = st]]
  OBVIOUS

\* The same, for the three fields that reading the stores sets.
LEMMA StatThrice ==
  ASSUME NEW q \in Seq(Reads), NEW i \in DOMAIN q, NEW a
  PROVE  [q EXCEPT ![i].stage = "stats", ![i].asked = {}, ![i].temps = a]
           = [q EXCEPT ![i] = [q[i] EXCEPT !.stage = "stats", !.asked = {}, !.temps = a]]
  OBVIOUS

\* The same, for the three fields that showing the list sets.
LEMMA ListThrice ==
  ASSUME NEW q \in Seq(Reads), NEW i \in DOMAIN q, NEW a, NEW st
  PROVE  [q EXCEPT ![i].stage = "stat", ![i].asked = a, ![i].seen = st]
           = [q EXCEPT ![i] = [q[i] EXCEPT !.stage = "stat", !.asked = a, !.seen = st]]
  OBVIOUS

\* p is q without its entry i, the entries in their order.
TakenFrom(p, q, i) ==
  /\ \A j \in DOMAIN p : \E k \in DOMAIN q :
       /\ k # i /\ SameButLate(p[j], q[k]) /\ (~p[j].late => ~q[k].late)
       /\ (k < i <=> j < i) /\ (j < i => k = j) /\ (j >= i => k = j + 1)
  /\ \A k \in DOMAIN q : k # i => \E j \in DOMAIN p :
       /\ SameButLate(p[j], q[k]) /\ (~p[j].late => ~q[k].late)
       /\ (k < i => j = k) /\ (k > i => j = k - 1)

\* One entry of the refreshes is taken out.
LEMMA EntryTaken ==
  ASSUME NEW q \in Seq(Reads), NEW i \in DOMAIN q,
         NEW p, p = [j \in 1..(Len(q) - 1) |-> IF j < i THEN q[j] ELSE q[j + 1]]
  PROVE  p \in Seq(Reads) /\ Len(p) = Len(q) - 1 /\ TakenFrom(p, q, i)
<1>1. Len(q) \in Nat /\ DOMAIN q = 1..Len(q) /\ i \in 1..Len(q)
  OBVIOUS
<1>2. \A j \in 1..(Len(q) - 1) : j \in DOMAIN q /\ j + 1 \in DOMAIN q /\ p[j] \in Reads
  BY <1>1
<1>3. p \in Seq(Reads) /\ Len(p) = Len(q) - 1 /\ DOMAIN p = 1..(Len(q) - 1)
  BY <1>1, <1>2
<1>4. \A j \in DOMAIN p : p[j] = IF j < i THEN q[j] ELSE q[j + 1]
  BY <1>3
<1>5. \A j \in DOMAIN p : \E k \in DOMAIN q :
        /\ k # i /\ p[j] = q[k] /\ (k < i <=> j < i) /\ (j < i => k = j) /\ (j >= i => k = j + 1)
  <2>. TAKE j \in DOMAIN p
  <2>1. CASE j < i
    BY <1>1, <1>3, <1>4, <2>1
  <2>2. CASE ~(j < i)
    BY <1>1, <1>3, <1>4, <2>2
  <2>. QED
    BY <2>1, <2>2
<1>6. \A k \in DOMAIN q : k # i => \E j \in DOMAIN p :
        p[j] = q[k] /\ (k < i => j = k) /\ (k > i => j = k - 1)
  <2>. TAKE k \in DOMAIN q
  <2>1. CASE k < i
    BY <1>1, <1>3, <1>4, <2>1
  <2>2. CASE k > i
    BY <1>1, <1>3, <1>4, <2>2
  <2>. QED
    BY <1>1, <2>1, <2>2
<1>7. TakenFrom(p, q, i)
  BY <1>5, <1>6, Zenon DEF TakenFrom, SameButLate
<1>. QED
  BY <1>3, <1>7

\* A refresh that answers marks those that read before it.
LEMMA Overtakes ==
  ASSUME hreads \in Seq(Reads), NEW i \in DOMAIN hreads
  PROVE  /\ OvertakenBy(i) \in Seq(Reads) /\ Len(OvertakenBy(i)) = Len(hreads)
         /\ DOMAIN OvertakenBy(i) = DOMAIN hreads
         /\ \A j \in DOMAIN hreads : SameButLate(OvertakenBy(i)[j], hreads[j])
         /\ \A j \in DOMAIN hreads : ~OvertakenBy(i)[j].late =>
              ~hreads[j].late /\ (j < i => hreads[j].stage = "ask")
<1>. DEFINE o == OvertakenBy(i)
            b(j) == hreads[j].late \/ (j < i /\ hreads[j].stage # "ask")
<1>1. \A j \in DOMAIN hreads : o[j] = [hreads[j] EXCEPT !.late = b(j)]
  BY Zenon DEF OvertakenBy
<1>2. DOMAIN o = DOMAIN hreads
  BY Zenon DEF OvertakenBy
<1>3. \A j \in DOMAIN hreads : b(j) \in BOOLEAN
  BY Zenon
<1>4. \A j \in DOMAIN hreads : ~b(j) => ~hreads[j].late /\ (j < i => hreads[j].stage = "ask")
  BY Zenon
<1>. HIDE DEF b
<1>5. \A j \in DOMAIN hreads : hreads[j] \in Reads
  OBVIOUS
<1>6. \A j \in DOMAIN hreads : o[j] \in Reads /\ SameButLate(o[j], hreads[j]) /\ o[j].late = b(j)
  <2>. TAKE j \in DOMAIN hreads
  <2>1. hreads[j] \in Reads /\ b(j) \in BOOLEAN
    BY <1>3, <1>5
  <2>2. o[j] = [hreads[j] EXCEPT !.late = b(j)]
    BY <1>1
  <2>3. LET f == [hreads[j] EXCEPT !.late = b(j)] IN
        f \in Reads /\ SameButLate(f, hreads[j]) /\ f.late = b(j)
    BY <2>1, LateField, Zenon
  <2>. QED
    BY <2>2, <2>3, Zenon
<1>7. o \in Seq(Reads) /\ Len(o) = Len(hreads)
  <2>1. o = [j \in 1..Len(hreads) |-> o[j]] /\ Len(hreads) \in Nat
    BY DEF OvertakenBy
  <2>2. \A j \in 1..Len(hreads) : o[j] \in Reads
    BY <1>6
  <2>. HIDE DEF o
  <2>. QED
    BY <2>1, <2>2
<1>8. \A j \in DOMAIN hreads : ~o[j].late => ~hreads[j].late /\ (j < i => hreads[j].stage = "ask")
  BY <1>4, <1>6, Zenon
<1>. QED
  BY <1>2, <1>6, <1>7, <1>8, Zenon

\* Cover survives a refresh that reads the list.
LEMMA CoverAsk ==
  ASSUME NEW q \in Seq(Reads), NEW i \in DOMAIN q, q[i].stage = "ask",
         NEW st \in [Rows -> Statuses], NEW l, NEW t,
         ListCovered(q, l, st), TempCovered(q, t, st),
         NEW p, DOMAIN p = DOMAIN q, p[i].stage = "list", p[i].seen = st,
         \A j \in DOMAIN q : j # i => p[j] = q[j]
  PROVE  ListCovered(p, l, st) /\ TempCovered(p, t, st)
<1>1. ListReady(p[i], st) /\ TempReady(p[i], st)
  BY DEF ListReady, TempReady, ListCurrent
<1>2. \A k \in DOMAIN q : ListReady(q[k], st) => ListReady(p[k], st)
  BY <1>1
<1>3. \A k \in DOMAIN q : TempReady(q[k], st) => TempReady(p[k], st)
  BY <1>1
<1>4. \A k \in DOMAIN q : p[k].stage = "list" => q[k].stage = "list" \/ ListReady(p[k], st)
  BY <1>1
<1>. QED
  BY <1>2, <1>3, <1>4, CoverMono

\* Cover survives a refresh that reads the stores.
LEMMA CoverStat ==
  ASSUME NEW q \in Seq(Reads), NEW i \in DOMAIN q, q[i].stage = "stat",
         NEW st \in [Rows -> Statuses], NEW l, NEW t,
         ListCovered(q, l, st), TempCovered(q, t, st),
         NEW p, DOMAIN p = DOMAIN q, p[i].stage = "stats",
         p[i].temps = q[i].asked \cap WithStore(st),
         \A j \in DOMAIN q : j # i => p[j] = q[j]
  PROVE  ListCovered(p, l, st) /\ TempCovered(p, t, st)
<1>0. ~ListReady(q[i], st) /\ p[i].stage # "list"
  BY DEF ListReady
<1>1. TempReady(q[i], st) => TempReady(p[i], st)
  BY <1>0 DEF TempReady, TempCurrent
<1>2. \A k \in DOMAIN q : ListReady(q[k], st) => ListReady(p[k], st)
  BY <1>0
<1>3. \A k \in DOMAIN q : TempReady(q[k], st) => TempReady(p[k], st)
  BY <1>1
<1>4. \A k \in DOMAIN q : p[k].stage = "list" => q[k].stage = "list" \/ ListReady(p[k], st)
  BY <1>0
<1>. QED
  BY <1>2, <1>3, <1>4, CoverMono

\* The mark does not matter for being ready.
LEMMA SameReady ==
  ASSUME NEW a, NEW b, NEW st, SameButLate(a, b)
  PROVE  (ListReady(a, st) <=> ListReady(b, st)) /\ (TempReady(a, st) <=> TempReady(b, st))
  BY DEF SameButLate, ListReady, TempReady

\* Cover survives a refresh that shows its list, no earlier one being on its way.
LEMMA CoverList ==
  ASSUME NEW q \in Seq(Reads), NEW i \in DOMAIN q, q[i].stage = "list",
         NEW st \in [Rows -> Statuses], NEW l, NEW t,
         ListCovered(q, l, st), TempCovered(q, t, st),
         \A j \in DOMAIN q : j < i => q[j].stage = "ask",
         NEW p, DOMAIN p = DOMAIN q, p[i].stage = "stat",
         p[i].asked = WithStore(q[i].seen),
         \A j \in DOMAIN q : j # i => SameButLate(p[j], q[j])
  PROVE  ListCovered(p, q[i].seen, st) /\ TempCovered(p, t, st)
<1>0. \A j \in DOMAIN q : j # i =>
        /\ p[j].stage = q[j].stage
        /\ (ListReady(p[j], st) <=> ListReady(q[j], st))
        /\ (TempReady(p[j], st) <=> TempReady(q[j], st))
  BY SameReady DEF SameButLate
<1>1. ListReady(q[i], st) <=> ListCurrent(q[i].seen, st)
  BY DEF ListReady
<1>2. ListCurrent(q[i].seen, st) => TempCurrent(p[i].asked, st)
  BY DEF ListCurrent, TempCurrent, WithStore
<1>3. TempReady(q[i], st) => TempReady(p[i], st)
  BY <1>1, <1>2 DEF TempReady
<1>4. TempCovered(p, t, st)
  BY <1>0, <1>3 DEF TempCovered
<1>5. \A j \in DOMAIN q : j \in Int
  OBVIOUS
<1>6. ListCurrent(q[i].seen, st) \/ \E k \in DOMAIN q : k > i /\ ListReady(q[k], st)
  BY <1>1 DEF ListCovered
<1>7. ListCurrent(q[i].seen, st) \/ \E k \in DOMAIN p : ListReady(p[k], st)
  BY <1>0, <1>5, <1>6
<1>8. ASSUME NEW j \in DOMAIN p, p[j].stage = "list"
      PROVE  ListReady(p[j], st) \/ \E k \in DOMAIN p : k > j /\ ListReady(p[k], st)
  <2>1. j # i /\ q[j].stage = "list"
    BY <1>0, <1>8
  <2>2. j > i
    BY <1>5, <2>1
  <2>3. ListReady(q[j], st) \/ \E k \in DOMAIN q : k > j /\ ListReady(q[k], st)
    BY <2>1 DEF ListCovered
  <2>. QED
    BY <1>0, <1>5, <2>1, <2>2, <2>3
<1>. QED
  BY <1>4, <1>7, <1>8 DEF ListCovered

\* Cover survives a refresh that shows its stores and ends, no earlier one being on its way.
LEMMA CoverEnd ==
  ASSUME NEW q \in Seq(Reads), NEW i \in DOMAIN q, q[i].stage = "stats",
         NEW st \in [Rows -> Statuses], NEW l, NEW t,
         ListCovered(q, l, st), TempCovered(q, t, st),
         \A j \in DOMAIN q : j < i => q[j].stage = "ask",
         NEW p \in Seq(Reads),
         TakenFrom(p, q, i)
  PROVE  ListCovered(p, l, st) /\ TempCovered(p, q[i].temps, st)
<1>0. ~ListReady(q[i], st) /\ (TempReady(q[i], st) <=> TempCurrent(q[i].temps, st))
  BY DEF ListReady, TempReady
<1>1. /\ \A j \in DOMAIN q : j \in Int
      /\ \A j \in DOMAIN p : j \in Int
  OBVIOUS
<1>2. \A k \in DOMAIN q : k # i /\ ListReady(q[k], st) =>
        \E j \in DOMAIN p : ListReady(p[j], st) /\ (k < i => j = k) /\ (k > i => j = k - 1)
  BY SameReady DEF TakenFrom
<1>3. \A k \in DOMAIN q : k # i /\ TempReady(q[k], st) =>
        \E j \in DOMAIN p : TempReady(p[j], st) /\ (k < i => j = k) /\ (k > i => j = k - 1)
  BY SameReady DEF TakenFrom
<1>4. ASSUME NEW j \in DOMAIN p
      PROVE  /\ p[j].stage = "list" => \/ ListReady(p[j], st)
                                       \/ \E k \in DOMAIN p : k > j /\ ListReady(p[k], st)
             /\ TempReady(p[j], st) \/ \E k \in DOMAIN p : k > j /\ TempReady(p[k], st)
  <2>1. PICK k \in DOMAIN q :
           /\ k # i /\ SameButLate(p[j], q[k]) /\ (k < i <=> j < i) /\ (j < i => k = j) /\ (j >= i => k = j + 1)
    BY DEF TakenFrom
  <2>2. p[j].stage = q[k].stage
    BY <2>1 DEF SameButLate
  <2>3. /\ (ListReady(p[j], st) <=> ListReady(q[k], st))
        /\ (TempReady(p[j], st) <=> TempReady(q[k], st))
    BY <2>1, SameReady
  <2>4. CASE k < i
    <3>1. ListReady(q[k], st) /\ TempReady(q[k], st)
      BY <2>4 DEF ListReady, TempReady
    <3>. QED
      BY <2>3, <3>1
  <2>5. CASE k > i
    <3>1. k = j + 1
      BY <1>1, <2>1, <2>5
    <3>2. ASSUME NEW n \in DOMAIN q, n > k
          PROVE  n # i /\ n > i /\ n - 1 > j
      BY <1>1, <2>5, <3>1, <3>2
    <3>3. q[k].stage = "list" => \/ ListReady(q[k], st)
                                 \/ \E n \in DOMAIN q : n > k /\ ListReady(q[n], st)
      BY DEF ListCovered
    <3>4. TempReady(q[k], st) \/ \E n \in DOMAIN q : n > k /\ TempReady(q[n], st)
      BY DEF TempCovered
    <3>5. q[k].stage = "list" => \/ ListReady(q[k], st)
                                 \/ \E m \in DOMAIN p : m > j /\ ListReady(p[m], st)
      BY <1>2, <3>2, <3>3
    <3>6. TempReady(q[k], st) \/ \E m \in DOMAIN p : m > j /\ TempReady(p[m], st)
      BY <1>3, <3>2, <3>4
    <3>. QED
      BY <2>2, <2>3, <3>5, <3>6
  <2>. QED
    BY <1>1, <2>1, <2>4, <2>5
<1>5. ListCurrent(l, st) \/ \E k \in DOMAIN p : ListReady(p[k], st)
  BY <1>0, <1>2 DEF ListCovered
<1>6. TempCurrent(q[i].temps, st) \/ \E k \in DOMAIN p : TempReady(p[k], st)
  <2>1. TempReady(q[i], st) \/ \E k \in DOMAIN q : k > i /\ TempReady(q[k], st)
    BY DEF TempCovered
  <2>. QED
    BY <1>0, <1>1, <1>3, <2>1
<1>. QED
  BY <1>4, <1>5, <1>6 DEF ListCovered, TempCovered

\* The operations on history rows.
Ops ==
  [kind : {"none", "remove", "clear", "reclaim"}, row : Rows \cup {"none"},
   stage : {"none", "call", "refresh"}]

\* An operation on one row names it.
OpHasRow(op) ==
  op.stage = "call" => op.kind # "none" /\ (op.kind # "clear" => op.row \in Rows)

\* The types of the history page.
HistTypes ==
  /\ hstore \in [Rows -> Statuses] /\ hlist \in [Rows -> Statuses] /\ htemp \in SUBSET Rows
  /\ hnews \in Nat /\ hreads \in Seq(Reads) /\ hop \in Ops /\ OpHasRow(hop)

\* The operation of the page runs, or its refresh does.
OpUnderWay(op, q) ==
  /\ op.stage \in {"call", "refresh"}
  /\ op.stage = "refresh" => \E i \in DOMAIN q : q[i].who = "op"

\* The page is busy only while its operation runs.
BusyRuns == hbusy => OpUnderWay(hop, hreads)

\* While the page is open, no event is to come and no refresh was overtaken or failed halfway,
\* what the page shows is covered.
ReadsCover ==
  hpage /\ hnews = 0 /\ ~htorn /\ Calm(hreads)
    => ListCovered(hreads, hlist, hstore) /\ TempCovered(hreads, htemp, hstore)

\* The invariant of the history page.
HistInv == HistTypes /\ ReadsCover /\ BusyRuns

\* A new refresh has read nothing.
LEMMA NewReadAsks ==
  ASSUME NEW who \in {"load", "event", "op"}
  PROVE  /\ NewRead(who) \in Reads /\ NewRead(who).stage = "ask" /\ NewRead(who).who = who
  BY DEF NewRead, Reads, Empty, Statuses

\* No operation, and the empty list.
LEMMA NoOpIdle == NoOp \in Ops /\ OpHasRow(NoOp) /\ Empty \in [Rows -> Statuses]
  BY DEF NoOp, Ops, OpHasRow, Empty, Statuses

\* What an operation leaves in the history.
LEMMA AfterIsStore ==
  ASSUME HistTypes, hop.stage = "call"
  PROVE  HistoryAfter(hop) \in [Rows -> Statuses]
<1>1. hop.kind \in {"remove", "clear", "reclaim"} /\ (hop.kind # "clear" => hop.row \in Rows)
  BY DEF HistTypes, Ops, OpHasRow
<1>2. CASE hop.kind = "remove"
  BY <1>1, <1>2 DEF HistTypes, HistoryAfter, RowRemoved, Statuses
<1>3. CASE hop.kind = "clear"
  BY <1>3, NoOpIdle DEF HistoryAfter
<1>4. CASE hop.kind = "reclaim"
  BY <1>1, <1>4 DEF HistTypes, HistoryAfter, StatusOf, Statuses
<1>. QED
  BY <1>1, <1>2, <1>3, <1>4

\* A step that leaves the page alone keeps the invariant.
LEMMA HistQuiet ==
  ASSUME HistInv, UNCHANGED <<hstore, hlist, htemp, hnews, hreads, hop, hbusy, hpage, htorn>>
  PROVE  HistInv'
<1>1. HistTypes'
  BY DEF HistInv, HistTypes
<1>2. ReadsCover' /\ BusyRuns'
  BY DEF HistInv, ReadsCover, BusyRuns
<1>. QED
  BY <1>1, <1>2 DEF HistInv

\* A transfer that starts or ends keeps the invariant.
LEMMA HistShell ==
  ASSUME HistInv, NEW r \in Rows, TransferStarts(r) \/ TransferEnds(r)
  PROVE  HistInv'
<1>1. CASE TransferStarts(r)
  <2>1. /\ hstore' = [hstore EXCEPT ![r] = "running"]
        /\ UNCHANGED <<hlist, htemp, hnews, hreads, hop, hbusy, hpage, htorn>>
    BY <1>1 DEF TransferStarts
  <2>2. HistTypes'
    BY <2>1 DEF HistInv, HistTypes, Statuses
  <2>3. ReadsCover'
    BY <2>1, RunningMono DEF HistInv, HistTypes, ReadsCover
  <2>4. BusyRuns'
    BY <2>1 DEF HistInv, BusyRuns
  <2>. QED
    BY <2>2, <2>3, <2>4 DEF HistInv
<1>2. CASE TransferEnds(r)
  <2>1. PICK s \in {"completed", "failed", "partial"} : hstore' = [hstore EXCEPT ![r] = s]
    BY <1>2 DEF TransferEnds
  <2>2. hnews' = hnews + 1 /\ UNCHANGED <<hlist, htemp, hreads, hop, hbusy, hpage, htorn>>
    BY <1>2 DEF TransferEnds
  <2>3. HistTypes'
    BY <2>1, <2>2 DEF HistInv, HistTypes, Statuses
  <2>4. hnews' # 0
    BY <2>2 DEF HistInv, HistTypes
  <2>5. BusyRuns'
    BY <2>2 DEF HistInv, BusyRuns
  <2>. QED
    BY <2>3, <2>4, <2>5 DEF HistInv, ReadsCover
<1>. QED
  BY <1>1, <1>2

\* A refresh that begins covers the page again.
LEMMA HistAppend ==
  ASSUME HistInv, NEW who \in {"event", "op"},
         hreads' = Append(hreads, NewRead(who)), hstore' \in [Rows -> Statuses], hnews' \in Nat,
         UNCHANGED <<hlist, htemp, hpage, htorn>>
  PROVE  hreads' \in Seq(Reads) /\ ReadsCover' /\ (OpUnderWay(hop, hreads) => OpUnderWay(hop, hreads'))
<1>1. hreads \in Seq(Reads) /\ NewRead(who) \in Reads /\ NewRead(who).stage = "ask"
  BY NewReadAsks DEF HistInv, HistTypes
<1>2. ListCovered(hreads', hlist', hstore') /\ TempCovered(hreads', htemp', hstore')
  BY <1>1, CoverAppend
<1>3. \A i \in DOMAIN hreads : i \in DOMAIN hreads' /\ hreads'[i] = hreads[i]
  BY <1>1
<1>4. OpUnderWay(hop, hreads) => OpUnderWay(hop, hreads')
  BY <1>3 DEF OpUnderWay
<1>. QED
  BY <1>1, <1>2, <1>4 DEF ReadsCover

\* The operations of the page keep the invariant.
LEMMA HistOps ==
  ASSUME HistInv, HandleRemove \/ HandleClearAll \/ (\E r \in Rows : HandleReclaim(r))
                  \/ OpFails \/ OpRuns
  PROVE  HistInv'
<1>1. CASE HandleRemove \/ HandleClearAll \/ (\E r \in Rows : HandleReclaim(r))
  <2>1. PICK k \in {"remove", "clear", "reclaim"}, row \in Rows \cup {"none"} :
          Begin(k, row) /\ (k # "clear" => row \in Rows)
    BY <1>1 DEF HandleRemove, HandleClearAll, HandleReclaim
  <2>2. /\ hop' = [kind |-> k, row |-> row, stage |-> "call"]
        /\ UNCHANGED <<hstore, hlist, htemp, hnews, hreads, hpage, htorn>>
    BY <2>1 DEF Begin
  <2>3. hop' \in Ops /\ OpHasRow(hop') /\ OpUnderWay(hop', hreads')
    BY <2>1, <2>2 DEF Ops, OpHasRow, OpUnderWay
  <2>4. HistTypes'
    BY <2>2, <2>3 DEF HistInv, HistTypes
  <2>5. ReadsCover'
    BY <2>2 DEF HistInv, ReadsCover
  <2>. QED
    BY <2>3, <2>4, <2>5 DEF HistInv, BusyRuns
<1>2. CASE OpFails
  <2>1. hop' = NoOp /\ UNCHANGED <<hstore, hlist, htemp, hnews, hreads, hpage, htorn>>
    BY <1>2 DEF OpFails
  <2>2. ~hbusy'
    BY <1>2, Zenon DEF OpFails
  <2>3. HistTypes'
    BY <2>1, NoOpIdle DEF HistInv, HistTypes
  <2>4. ReadsCover'
    BY <2>1 DEF HistInv, ReadsCover
  <2>. QED
    BY <2>2, <2>3, <2>4 DEF HistInv, BusyRuns
<1>3. CASE OpRuns
  <2>1. /\ hop.stage = "call" /\ hstore' = HistoryAfter(hop) /\ hop' = [hop EXCEPT !.stage = "refresh"]
        /\ hreads' = Append(hreads, NewRead("op"))
        /\ UNCHANGED <<hlist, htemp, hnews, hpage, htorn>>
    BY <1>3 DEF OpRuns
  <2>2. hstore' \in [Rows -> Statuses] /\ hnews' \in Nat /\ hreads \in Seq(Reads) /\ hop \in Ops
    BY <2>1, AfterIsStore DEF HistInv, HistTypes
  <2>3. hreads' \in Seq(Reads) /\ ReadsCover'
    BY <2>1, <2>2, HistAppend
  <2>4. hop' \in Ops /\ hop'.stage = "refresh"
    BY <2>1, <2>2 DEF Ops
  <2>5. Len(hreads) + 1 \in DOMAIN hreads' /\ hreads'[Len(hreads) + 1].who = "op"
    BY <2>1, <2>2, NewReadAsks
  <2>6. OpUnderWay(hop', hreads') /\ OpHasRow(hop')
    BY <2>4, <2>5 DEF OpUnderWay, OpHasRow
  <2>7. HistTypes'
    BY <2>1, <2>2, <2>3, <2>4, <2>6 DEF HistInv, HistTypes
  <2>. QED
    BY <2>3, <2>6, <2>7 DEF HistInv, BusyRuns
<1>. QED
  BY <1>1, <1>2, <1>3

\* Opening, closing, clearing and the event keep the invariant.
LEMMA HistPage ==
  ASSUME HistInv, OnHistoryUpdated \/ OpenHistory \/ CloseHistory \/ SettingsClear
                  \/ AnnouncementLost
  PROVE  HistInv'
<1>1. CASE OnHistoryUpdated
  <2>1. /\ hnews > 0 /\ hnews' = hnews - 1 /\ hreads' = Append(hreads, NewRead("event"))
        /\ UNCHANGED <<hstore, hlist, htemp, hop, hbusy, hpage, htorn>>
    BY <1>1 DEF OnHistoryUpdated
  <2>2. hstore' \in [Rows -> Statuses] /\ hnews' \in Nat
    BY <2>1 DEF HistInv, HistTypes
  <2>3. hreads' \in Seq(Reads) /\ ReadsCover' /\ (OpUnderWay(hop, hreads) => OpUnderWay(hop, hreads'))
    BY <2>1, <2>2, HistAppend
  <2>4. HistTypes'
    BY <2>1, <2>2, <2>3 DEF HistInv, HistTypes
  <2>. QED
    BY <2>1, <2>3, <2>4 DEF HistInv, BusyRuns
<1>2. CASE OpenHistory
  <2>1. /\ hlist' = Empty /\ htemp' = {} /\ hreads' = <<NewRead("load")>> /\ hop' = NoOp
        /\ hnews' = 0 /\ UNCHANGED hstore
    BY <1>2 DEF OpenHistory
  <2>2. ~hbusy'
    BY <1>2, Zenon DEF OpenHistory
  <2>3. HistTypes'
    BY <2>1, NewReadAsks, NoOpIdle DEF HistInv, HistTypes
  <2>4. hreads' = Append(<<>>, NewRead("load")) /\ <<>> \in Seq(Reads)
    BY <2>1
  <2>5. ListCovered(hreads', hlist', hstore') /\ TempCovered(hreads', htemp', hstore')
    BY <2>4, NewReadAsks, CoverAppend
  <2>. QED
    BY <2>2, <2>3, <2>5 DEF HistInv, ReadsCover, BusyRuns
<1>3. CASE CloseHistory
  <2>1. /\ hlist' = Empty /\ htemp' = {} /\ hreads' = <<>> /\ hop' = NoOp /\ hnews' = 0
        /\ \/ UNCHANGED hstore
           \/ hop.stage = "call" /\ hstore' = HistoryAfter(hop)
    BY <1>3 DEF CloseHistory
  <2>2. ~hbusy' /\ ~hpage'
    BY <1>3, Zenon DEF CloseHistory
  <2>3. hstore' \in [Rows -> Statuses]
    BY <2>1, AfterIsStore DEF HistInv, HistTypes
  <2>4. HistTypes'
    BY <2>1, <2>3, NoOpIdle DEF HistInv, HistTypes
  <2>. QED
    BY <2>2, <2>4 DEF HistInv, ReadsCover, BusyRuns
<1>4. CASE SettingsClear
  <2>1. UNCHANGED <<hlist, htemp, hnews, hreads, hop, hbusy, hpage>>
    BY <1>4 DEF SettingsClear
  <2>2. CASE UNCHANGED <<hstore, htorn>>
    BY <2>1, <2>2, HistQuiet
  <2>3. CASE hstore' = Empty /\ htorn' = (htorn \/ hpage)
    <3>1. hpage => htorn'
      BY <2>3, Zenon
    <3>2. HistTypes'
      BY <2>1, <2>3, NoOpIdle DEF HistInv, HistTypes
    <3>3. BusyRuns'
      BY <2>1 DEF HistInv, BusyRuns
    <3>4. ReadsCover'
      BY <2>1, <3>1 DEF ReadsCover
    <3>. QED
      BY <3>2, <3>3, <3>4 DEF HistInv
  <2>. QED
    BY <1>4, <2>2, <2>3 DEF SettingsClear
<1>5. CASE AnnouncementLost
  <2>1. /\ hnews > 0 /\ hnews' = hnews - 1
        /\ UNCHANGED <<hstore, hlist, htemp, hreads, hop, hbusy, hpage>>
    BY <1>5 DEF AnnouncementLost
  <2>2. ~htorn' => ~htorn /\ hreads = <<NewRead("load")>>
    BY <1>5, Zenon DEF AnnouncementLost
  <2>3. HistTypes'
    BY <2>1 DEF HistInv, HistTypes
  <2>4. ReadsCover'
    <3>1. SUFFICES ASSUME ~htorn'
                   PROVE  /\ ListCovered(hreads', hlist', hstore')
                          /\ TempCovered(hreads', htemp', hstore')
      BY DEF ReadsCover
    <3>2. hreads' = Append(<<>>, NewRead("load")) /\ <<>> \in Seq(Reads)
      BY <2>1, <2>2, <3>1
    <3>. QED
      BY <3>2, NewReadAsks, CoverAppend
  <2>5. BusyRuns'
    BY <2>1 DEF HistInv, BusyRuns
  <2>. QED
    BY <2>3, <2>4, <2>5 DEF HistInv
<1>. QED
  BY <1>1, <1>2, <1>3, <1>4, <1>5

\* Taking out an entry, whatever the marks.
LEMMA TakenSame ==
  ASSUME NEW p, NEW o, NEW q, NEW i, TakenFrom(p, o, i), DOMAIN o = DOMAIN q,
         \A j \in DOMAIN q : SameButLate(o[j], q[j]),
         \A j \in DOMAIN q : ~o[j].late => ~q[j].late
  PROVE  TakenFrom(p, q, i)
<1>1. ASSUME NEW j \in DOMAIN p
      PROVE  \E k \in DOMAIN q :
               /\ k # i /\ SameButLate(p[j], q[k]) /\ (~p[j].late => ~q[k].late)
               /\ (k < i <=> j < i) /\ (j < i => k = j) /\ (j >= i => k = j + 1)
  <2>1. PICK k \in DOMAIN o :
               /\ k # i /\ SameButLate(p[j], o[k]) /\ (~p[j].late => ~o[k].late)
               /\ (k < i <=> j < i) /\ (j < i => k = j) /\ (j >= i => k = j + 1)
    BY Zenon DEF TakenFrom
  <2>2. SameButLate(p[j], q[k])
    BY <2>1 DEF SameButLate
  <2>. QED
    BY <2>1, <2>2
<1>2. ASSUME NEW k \in DOMAIN q, k # i
      PROVE  \E j \in DOMAIN p :
               /\ SameButLate(p[j], q[k]) /\ (~p[j].late => ~q[k].late)
               /\ (k < i => j = k) /\ (k > i => j = k - 1)
  <2>1. PICK j \in DOMAIN p :
               /\ SameButLate(p[j], o[k]) /\ (~p[j].late => ~o[k].late)
               /\ (k < i => j = k) /\ (k > i => j = k - 1)
    BY <1>2, Zenon DEF TakenFrom
  <2>2. SameButLate(p[j], q[k])
    BY <2>1 DEF SameButLate
  <2>. QED
    BY <2>1, <2>2
<1>. QED
  BY <1>1, <1>2 DEF TakenFrom

\* A refresh that reads the list or the stores keeps the invariant.
LEMMA HistRead ==
  ASSUME HistInv, NEW i \in DOMAIN hreads, RefreshReads(i)
  PROVE  HistInv'
<1>u. UNCHANGED <<hstore, hlist, htemp, hnews, hop, hbusy, hpage>>
  BY Zenon DEF RefreshReads
<1>y. hreads \in Seq(Reads) /\ hstore \in [Rows -> Statuses] /\ hreads[i] \in Reads
  BY DEF HistInv, HistTypes
<1>0. /\ hreads \in Seq(Reads) /\ hstore \in [Rows -> Statuses] /\ hreads[i] \in Reads
      /\ UNCHANGED <<hstore, hlist, htemp, hnews, hop, hbusy, hpage>>
  BY <1>u, <1>y, Zenon
<1>h. ~htorn' => ~htorn
  BY Zenon DEF RefreshReads
<1>t. hreads \in Seq(Reads) /\ hstore \in [Rows -> Statuses]
  BY <1>0
<1>1. ASSUME NEW e \in Reads, hreads' = [hreads EXCEPT ![i] = e], e.who = hreads[i].who,
             e.late = hreads[i].late,
             ~htorn' /\ ListCovered(hreads, hlist, hstore) /\ TempCovered(hreads, htemp, hstore)
               => ListCovered(hreads', hlist, hstore) /\ TempCovered(hreads', htemp, hstore)
      PROVE  HistInv'
  <2>1. /\ hreads' \in Seq(Reads) /\ DOMAIN hreads' = DOMAIN hreads /\ hreads'[i] = e
        /\ \A j \in DOMAIN hreads : j # i => hreads'[j] = hreads[j]
    BY <1>0, <1>1, EntryChanged
  <2>2. HistTypes'
    BY <1>0, <2>1 DEF HistInv, HistTypes
  <2>3. Calm(hreads') => Calm(hreads)
    BY <1>1, <2>1, Zenon DEF Calm
  <2>4. ReadsCover'
    BY <1>0, <1>h, <1>1, <2>3 DEF HistInv, ReadsCover
  <2>5. \A j \in DOMAIN hreads : hreads'[j].who = hreads[j].who
    BY <1>1, <2>1
  <2>6. BusyRuns'
    BY <1>0, <2>1, <2>5 DEF HistInv, BusyRuns, OpUnderWay
  <2>. QED
    BY <2>2, <2>4, <2>6 DEF HistInv
<1>2. CASE hreads[i].stage = "ask" /\ hreads' = [hreads EXCEPT ![i].stage = "list", ![i].seen = hstore]
  <2>. DEFINE e == [hreads[i] EXCEPT !.stage = "list", !.seen = hstore]
  <2>0. hreads[i].stage = "ask"
    BY <1>2
  <2>1. hreads' = [hreads EXCEPT ![i] = e]
    BY <1>0, <1>2, AskTwice
  <2>2. /\ e \in Reads /\ e.who = hreads[i].who /\ e.stage = "list" /\ e.seen = hstore
        /\ e.late = hreads[i].late
    BY <1>0, AskField
  <2>. HIDE DEF e
  <2>3. /\ DOMAIN hreads' = DOMAIN hreads /\ hreads'[i] = e
        /\ \A j \in DOMAIN hreads : j # i => hreads'[j] = hreads[j]
    BY <1>0, <2>1, <2>2, EntryChanged
  <2>4. hreads'[i].stage = "list" /\ hreads'[i].seen = hstore
    BY <2>2, <2>3
  <2>5. ASSUME ListCovered(hreads, hlist, hstore), TempCovered(hreads, htemp, hstore)
        PROVE  ListCovered(hreads', hlist, hstore) /\ TempCovered(hreads', htemp, hstore)
    BY <1>t, <2>0, <2>3, <2>4, <2>5, CoverAsk
  <2>. QED
    BY <1>1, <2>1, <2>2, <2>5
<1>3. ASSUME hreads[i].stage = "stat",
             NEW omitted \in SUBSET (hreads[i].asked \cap WithStore(hstore)),
             hreads' = [hreads EXCEPT ![i].stage = "stats", ![i].asked = {},
                          ![i].temps = (hreads[i].asked \cap WithStore(hstore)) \ omitted],
             htorn' = (htorn \/ omitted # {})
      PROVE  HistInv'
  <2>. DEFINE a == (hreads[i].asked \cap WithStore(hstore)) \ omitted
              e == [hreads[i] EXCEPT !.stage = "stats", !.asked = {}, !.temps = a]
  <2>0. a \in SUBSET Rows /\ hreads[i].stage = "stat"
    BY <1>3 DEF WithStore
  <2>1. hreads' = [hreads EXCEPT ![i] = e]
    BY <1>0, <1>3, StatThrice
  <2>2. /\ e \in Reads /\ e.who = hreads[i].who /\ e.stage = "stats" /\ e.temps = a
        /\ e.late = hreads[i].late
    BY <1>0, <2>0, StatField
  <2>. HIDE DEF e
  <2>3. /\ DOMAIN hreads' = DOMAIN hreads /\ hreads'[i] = e
        /\ \A j \in DOMAIN hreads : j # i => hreads'[j] = hreads[j]
    BY <1>0, <2>1, <2>2, EntryChanged
  <2>4. hreads'[i].stage = "stats" /\ hreads'[i].temps = a
    BY <2>2, <2>3
  <2>5. ASSUME ~htorn', ListCovered(hreads, hlist, hstore), TempCovered(hreads, htemp, hstore)
        PROVE  ListCovered(hreads', hlist, hstore) /\ TempCovered(hreads', htemp, hstore)
    <3>1. omitted = {}
      BY <1>3, <2>5, Zenon
    <3>2. hreads'[i].temps = hreads[i].asked \cap WithStore(hstore)
      BY <2>4, <3>1
    <3>. QED
      BY <1>t, <2>0, <2>3, <2>4, <2>5, <3>2, CoverStat
  <2>. QED
    BY <1>1, <2>1, <2>2, <2>5
<1>. QED
  BY <1>2, <1>3 DEF RefreshReads

\* A refresh that shows its list keeps the invariant.
LEMMA HistLists ==
  ASSUME HistInv, NEW i \in DOMAIN hreads, RefreshLists(i)
  PROVE  HistInv'
<1>. DEFINE o == OvertakenBy(i)
            a == WithStore(hreads[i].seen)
            x == o[i]
            e == [x EXCEPT !.stage = "stat", !.asked = a, !.seen = Empty]
<1>0. /\ hreads \in Seq(Reads) /\ hstore \in [Rows -> Statuses] /\ hreads[i] \in Reads
      /\ hreads[i].stage = "list" /\ hlist' = hreads[i].seen
      /\ UNCHANGED <<hstore, htemp, hnews, hop, hbusy, hpage>>
  BY DEF HistInv, HistTypes, RefreshLists
<1>1. ~htorn' => ~htorn
  BY Zenon DEF RefreshLists
<1>2. a \in SUBSET Rows /\ Empty \in [Rows -> Statuses]
  BY NoOpIdle DEF WithStore
<1>3. /\ o \in Seq(Reads) /\ DOMAIN o = DOMAIN hreads
      /\ \A j \in DOMAIN hreads : SameButLate(o[j], hreads[j])
      /\ \A j \in DOMAIN hreads : ~o[j].late => ~hreads[j].late /\ (j < i => hreads[j].stage = "ask")
  BY <1>0, Overtakes, Zenon
<1>4. hreads' = [o EXCEPT ![i].stage = "stat", ![i].asked = a, ![i].seen = Empty]
  BY DEF RefreshLists
<1>. HIDE DEF o, a
<1>s. o \in Seq(Reads) /\ i \in DOMAIN o
  BY <1>3
<1>5. i \in DOMAIN o /\ o[i] \in Reads
  BY <1>s
<1>6. hreads' = [o EXCEPT ![i] = e]
  BY <1>s, <1>4, ListThrice
<1>7. e \in Reads /\ e.who = o[i].who /\ e.stage = "stat" /\ e.asked = a /\ e.late = o[i].late
  <2>1. x \in Reads /\ a \in SUBSET Rows /\ Empty \in [Rows -> Statuses]
    BY <1>2, <1>5
  <2>. HIDE DEF x
  <2>2. e \in Reads /\ e.who = x.who /\ e.stage = "stat" /\ e.asked = a /\ e.late = x.late
    BY <2>1 DEF Reads
  <2>. HIDE DEF e
  <2>. QED
    BY <2>2, Zenon DEF x
<1>. HIDE DEF e
<1>8. /\ hreads' \in Seq(Reads) /\ DOMAIN hreads' = DOMAIN hreads /\ hreads'[i] = e
      /\ \A j \in DOMAIN hreads : j # i => hreads'[j] = o[j]
  BY <1>3, <1>5, <1>6, <1>7, EntryChanged
<1>9. Calm(hreads') => Calm(hreads) /\ \A j \in DOMAIN hreads : j < i => hreads[j].stage = "ask"
  <2>1. \A j \in DOMAIN hreads : ~hreads'[j].late => ~o[j].late
    BY <1>7, <1>8, Zenon
  <2>. QED
    BY <1>3, <1>8, <2>1, Zenon DEF Calm
<1>10. \A j \in DOMAIN hreads : hreads'[j].who = hreads[j].who
  BY <1>3, <1>7, <1>8 DEF SameButLate
<1>11. HistTypes'
  <2>1. hreads[i].seen \in [Rows -> Statuses]
    BY <1>0 DEF Reads
  <2>. QED
    BY <1>0, <1>8, <2>1 DEF HistInv, HistTypes
<1>12. BusyRuns'
  BY <1>0, <1>8, <1>10 DEF HistInv, BusyRuns, OpUnderWay
<1>13. ReadsCover'
  <2>1. SUFFICES ASSUME hpage', hnews' = 0, ~htorn', Calm(hreads')
                 PROVE  ListCovered(hreads', hlist', hstore') /\ TempCovered(hreads', htemp', hstore')
    BY DEF ReadsCover
  <2>2. ListCovered(hreads, hlist, hstore) /\ TempCovered(hreads, htemp, hstore)
    BY <1>0, <1>1, <1>9, <2>1 DEF HistInv, ReadsCover
  <2>3. \A j \in DOMAIN hreads : j # i => SameButLate(hreads'[j], hreads[j])
    BY <1>3, <1>8
  <2>4. hreads'[i].stage = "stat" /\ hreads'[i].asked = WithStore(hreads[i].seen)
    BY <1>7, <1>8 DEF a
  <2>. QED
    BY <1>0, <1>8, <1>9, <2>1, <2>2, <2>3, <2>4, CoverList
<1>. QED
  BY <1>11, <1>12, <1>13 DEF HistInv

\* The end of a refresh frees the page only of its own operation.
LEMMA AfterRefreshRuns ==
  ASSUME HistTypes, BusyRuns, NEW i \in DOMAIN hreads, NEW ok, AfterRefresh(hreads[i].who, ok),
         \A k \in DOMAIN hreads : k # i => \E j \in DOMAIN hreads' : hreads'[j].who = hreads[k].who
  PROVE  hop' \in Ops /\ OpHasRow(hop') /\ BusyRuns'
<1>1. CASE hreads[i].who = "op"
  <2>1. hop' = NoOp /\ ~hbusy'
    BY <1>1, Zenon DEF AfterRefresh
  <2>. QED
    BY <2>1, NoOpIdle DEF BusyRuns
<1>2. CASE hreads[i].who # "op"
  <2>1. UNCHANGED <<hop, hbusy>>
    BY <1>2 DEF AfterRefresh
  <2>2. OpUnderWay(hop, hreads) => OpUnderWay(hop, hreads')
    BY <1>2 DEF OpUnderWay
  <2>. QED
    BY <2>1, <2>2 DEF BusyRuns, HistTypes
<1>. QED
  BY <1>1, <1>2

\* A refresh that fails keeps the invariant.
LEMMA HistFails ==
  ASSUME HistInv, NEW i \in DOMAIN hreads, RefreshFails(i)
  PROVE  HistInv'
<1>0. /\ hreads \in Seq(Reads) /\ UNCHANGED <<hstore, hlist, htemp, hnews, hpage>>
      /\ hreads' = [j \in 1..(Len(hreads) - 1) |-> IF j < i THEN hreads[j] ELSE hreads[j + 1]]
  BY DEF HistInv, HistTypes, RefreshFails, DropRead
<1>1. htorn' /\ AfterRefresh(hreads[i].who, FALSE)
  BY Zenon DEF RefreshFails
<1>2. hreads' \in Seq(Reads) /\ TakenFrom(hreads', hreads, i)
  BY <1>0, EntryTaken
<1>5. \A k \in DOMAIN hreads : k # i => \E j \in DOMAIN hreads' : hreads'[j].who = hreads[k].who
  BY <1>2 DEF TakenFrom, SameButLate
<1>3. hop' \in Ops /\ OpHasRow(hop') /\ BusyRuns'
  BY <1>1, <1>5, AfterRefreshRuns DEF HistInv
<1>4. HistTypes'
  BY <1>0, <1>2, <1>3 DEF HistInv, HistTypes
<1>. QED
  BY <1>1, <1>3, <1>4 DEF HistInv, ReadsCover

\* A refresh that shows its stores and ends keeps the invariant.
LEMMA HistStats ==
  ASSUME HistInv, NEW i \in DOMAIN hreads, RefreshStats(i)
  PROVE  HistInv'
<1>. DEFINE o == OvertakenBy(i)
<1>0. /\ hreads \in Seq(Reads) /\ hstore \in [Rows -> Statuses] /\ hreads[i] \in Reads
      /\ hreads[i].stage = "stats" /\ htemp' = hreads[i].temps
      /\ UNCHANGED <<hstore, hlist, hnews, hpage>>
      /\ hreads' = [j \in 1..(Len(o) - 1) |-> IF j < i THEN o[j] ELSE o[j + 1]]
  BY DEF HistInv, HistTypes, RefreshStats
<1>1. (~htorn' => ~htorn) /\ AfterRefresh(hreads[i].who, TRUE)
  BY Zenon DEF RefreshStats
<1>2. /\ o \in Seq(Reads) /\ DOMAIN o = DOMAIN hreads
      /\ \A j \in DOMAIN hreads : SameButLate(o[j], hreads[j])
      /\ \A j \in DOMAIN hreads : ~o[j].late => ~hreads[j].late /\ (j < i => hreads[j].stage = "ask")
  BY <1>0, Overtakes, Zenon
<1>. HIDE DEF o
<1>s. o \in Seq(Reads) /\ i \in DOMAIN o
  BY <1>2
<1>d. hreads' = [j \in 1..(Len(o) - 1) |-> IF j < i THEN o[j] ELSE o[j + 1]]
  BY <1>0
<1>3. hreads' \in Seq(Reads) /\ TakenFrom(hreads', o, i)
  BY <1>s, <1>d, EntryTaken
<1>4. TakenFrom(hreads', hreads, i)
  BY <1>2, <1>3, TakenSame
<1>5. \A k \in DOMAIN hreads : k # i => \E j \in DOMAIN hreads' : hreads'[j].who = hreads[k].who
  BY <1>4 DEF TakenFrom, SameButLate
<1>6. hop' \in Ops /\ OpHasRow(hop') /\ BusyRuns'
  BY <1>1, <1>5, AfterRefreshRuns DEF HistInv
<1>7. HistTypes'
  <2>1. hreads[i].temps \in SUBSET Rows
    BY <1>0 DEF Reads
  <2>. QED
    BY <1>0, <1>3, <1>6, <2>1 DEF HistInv, HistTypes
<1>8. ReadsCover'
  <2>1. SUFFICES ASSUME hpage', hnews' = 0, ~htorn', Calm(hreads')
                 PROVE  ListCovered(hreads', hlist', hstore') /\ TempCovered(hreads', htemp', hstore')
    BY DEF ReadsCover
  <2>2. \A k \in DOMAIN hreads : k # i => ~o[k].late
    <3>1. \A k \in DOMAIN o : k # i => \E j \in DOMAIN hreads' : ~hreads'[j].late => ~o[k].late
      BY <1>3, Zenon DEF TakenFrom
    <3>2. \A j \in DOMAIN hreads' : ~hreads'[j].late
      BY <2>1 DEF Calm
    <3>. QED
      BY <1>2, <3>1, <3>2, Zenon
  <2>3. \A k \in DOMAIN hreads : k < i => hreads[k].stage = "ask"
    BY <1>2, <2>2
  <2>4. CASE ~hreads[i].late
    <3>1. Calm(hreads)
      BY <1>2, <2>2, <2>4, Zenon DEF Calm
    <3>2. ListCovered(hreads, hlist, hstore) /\ TempCovered(hreads, htemp, hstore)
      BY <1>0, <1>1, <2>1, <3>1 DEF HistInv, ReadsCover
    <3>3. /\ hreads \in Seq(Reads) /\ hreads' \in Seq(Reads) /\ hstore \in [Rows -> Statuses]
          /\ hreads[i].stage = "stats"
      BY <1>0, <1>3
    <3>4. ListCovered(hreads', hlist, hstore) /\ TempCovered(hreads', hreads[i].temps, hstore)
      BY <1>4, <2>3, <3>2, <3>3, CoverEnd
    <3>. QED
      BY <1>0, <3>4
  <2>5. CASE hreads[i].late
    BY <2>1, <2>5, Zenon DEF RefreshStats
  <2>. QED
    BY <2>4, <2>5
<1>. QED
  BY <1>6, <1>7, <1>8 DEF HistInv

\* The invariant of the history page is inductive.
LEMMA HistStep ==
  ASSUME HistInv, [HNext]_hVars
  PROVE  HistInv'
<1>1. CASE UNCHANGED hVars
  BY <1>1, HistQuiet DEF hVars
<1>2. CASE HNext
  <2>1. CASE \/ \E r \in Rows : ToggleRow(r) \/ AskRemove(r) \/ HandleOpen(r)
             \/ \E s \in {"all", "failed"} : SetStatus(s)
             \/ AskClearAll \/ CloseDialogs \/ ClearQuestion \/ HistoryListens
    <3>1. UNCHANGED <<hstore, hlist, htemp, hnews, hreads, hop, hbusy, hpage, htorn>>
      BY <2>1 DEF ToggleRow, AskRemove, HandleOpen, SetStatus, AskClearAll, CloseDialogs, ClearQuestion,
                   HistoryListens
    <3>. QED
      BY <3>1, HistQuiet
  <2>. QED
    BY <1>2, <2>1, HistShell, HistOps, HistPage, HistRead, HistLists, HistStats, HistFails DEF HNext
<1>. QED
  BY <1>1, <1>2

\* It holds at launch.
LEMMA HistStart ==
  ASSUME HInit
  PROVE  HistInv
<1>1. HistTypes
  BY NoOpIdle DEF HInit, HistTypes, Statuses
<1>2. ~hpage /\ ~hbusy
  BY Zenon DEF HInit
<1>. QED
  BY <1>1, <1>2 DEF HistInv, ReadsCover, BusyRuns

\* It implies the property.
LEMMA HistGoal ==
  ASSUME HistInv
  PROVE  HistoryAgrees
<1>1. HistoryMatchesStore
  <2>1. SUFFICES ASSUME hpage, hreads = <<>>, hnews = 0, ~htorn
                 PROVE  \A r \in Rows : hstore[r] # "running" =>
                          hlist[r] = hstore[r] /\ (r \in htemp <=> r \in WithStore(hstore))
    BY DEF HistoryMatchesStore
  <2>2. Calm(hreads) /\ DOMAIN hreads = {}
    BY <2>1 DEF Calm
  <2>3. ListCurrent(hlist, hstore) /\ TempCurrent(htemp, hstore)
    BY <2>1, <2>2 DEF HistInv, ReadsCover, ListCovered, TempCovered
  <2>. QED
    BY <2>3 DEF ListCurrent, TempCurrent
<1>2. HistoryBusyHasCall
  <2>1. hbusy => OpUnderWay(hop, hreads)
    BY DEF HistInv, BusyRuns
  <2>2. OpUnderWay(hop, hreads) => hop # NoOp
    BY DEF OpUnderWay, NoOp
  <2>. QED
    BY <2>1, <2>2 DEF OpUnderWay, HistoryBusyHasCall
<1>. QED
  BY <1>1, <1>2 DEF HistoryAgrees

-----------------------------------------------------------------------------
\* NetworkPages: the relay page.

\* A mark that was set is the last answer, and a spinning row is being tested.
MarksEarned ==
  /\ rmarks \in [Urls -> {"none", "checking", "ok", "failed"}]
  /\ rtesting \in BOOLEAN
  /\ \A u \in Urls :
       /\ rmarks[u] \in {"ok", "failed"} => rproved[u] = rmarks[u]
       /\ rmarks[u] = "checking" => rtesting /\ \E k \in DOMAIN rtest : rtest[k] = u

\* A step that leaves the marks and the test alone keeps them earned.
LEMMA MarksQuiet ==
  ASSUME MarksEarned, UNCHANGED <<rmarks, rtest, rtesting, rproved>>
  PROVE  MarksEarned'
BY DEF MarksEarned

\* A test that begins turns the rows it tests to spinning.
LEMMA MarksTestBegins ==
  ASSUME MarksEarned, VerifyCustomRelays
  PROVE  MarksEarned'
<1>1. /\ ~rtesting /\ rtesting' = TRUE /\ rtest' = UniqueUrls /\ rproved' = rproved
      /\ rmarks' = [u \in Urls |-> IF \E k \in DOMAIN UniqueUrls : UniqueUrls[k] = u
                               THEN "checking" ELSE rmarks[u]]
  BY DEF VerifyCustomRelays, TestOffered
<1>2. rmarks' \in [Urls -> {"none", "checking", "ok", "failed"}]
  BY <1>1 DEF MarksEarned
<1>3. rtesting' \in BOOLEAN /\ rtesting'
  BY <1>1, Zenon
<1>4. ASSUME NEW u \in Urls
      PROVE  /\ rmarks'[u] \in {"ok", "failed"} => rproved'[u] = rmarks'[u]
             /\ rmarks'[u] = "checking" => \E k \in DOMAIN rtest' : rtest'[k] = u
  <2>1. rmarks[u] # "checking"
    BY <1>1 DEF MarksEarned
  <2>2. CASE \E k \in DOMAIN UniqueUrls : UniqueUrls[k] = u
    <3>1. rmarks'[u] = "checking"
      BY <1>1, <2>2, Zenon
    <3>2. \E k \in DOMAIN rtest' : rtest'[k] = u
      BY <1>1, <2>2, Zenon
    <3>. QED
      BY <3>1, <3>2
  <2>3. CASE ~ \E k \in DOMAIN UniqueUrls : UniqueUrls[k] = u
    <3>1. rmarks'[u] = rmarks[u]
      BY <1>1, <2>3, Zenon
    <3>. QED
      BY <1>1, <2>1, <3>1 DEF MarksEarned
  <2>. QED
    BY <2>2, <2>3
<1>. QED
  BY <1>2, <1>3, <1>4 DEF MarksEarned

\* A test that ends marks the rows it tested with its answers, and no others.
LEMMA MarksTestEnds ==
  ASSUME MarksEarned, VerifyAnswers
  PROVE  MarksEarned'
<1>1. PICK ok \in [DOMAIN rtest -> {"ok", "failed"}] :
        LET OfTest(u) == CHOOSE k \in DOMAIN rtest : rtest[k] = u
            Tested(u) == \E k \in DOMAIN rtest : rtest[k] = u
        IN /\ rproved' = [u \in Urls |-> IF Tested(u) THEN ok[OfTest(u)] ELSE rproved[u]]
           /\ rmarks' = [u \in Urls |-> IF Tested(u) THEN ok[OfTest(u)] ELSE rmarks[u]]
  BY DEF VerifyAnswers
<1>. DEFINE OfTest(u) == CHOOSE k \in DOMAIN rtest : rtest[k] = u
            Tested(u) == \E k \in DOMAIN rtest : rtest[k] = u
<1>2. /\ rproved' = [u \in Urls |-> IF Tested(u) THEN ok[OfTest(u)] ELSE rproved[u]]
      /\ rmarks' = [u \in Urls |-> IF Tested(u) THEN ok[OfTest(u)] ELSE rmarks[u]]
  BY <1>1, Zenon
<1>3. \A u \in Urls : Tested(u) => ok[OfTest(u)] \in {"ok", "failed"}
  <2>1. SUFFICES ASSUME NEW u \in Urls, Tested(u) PROVE OfTest(u) \in DOMAIN rtest
    BY Zenon
  <2>. QED
    BY <2>1, Zenon
<1>4. rtesting' \in BOOLEAN
  BY Zenon DEF VerifyAnswers
<1>. HIDE DEF OfTest
<1>5. \A u \in Urls : rmarks[u] = "checking" => Tested(u)
  BY DEF MarksEarned
<1>. HIDE DEF Tested
<1>6. \A u \in Urls : rmarks[u] \in {"none", "checking", "ok", "failed"}
  BY DEF MarksEarned
<1>7. \A u \in Urls : Tested(u) => rmarks'[u] = ok[OfTest(u)] /\ rproved'[u] = ok[OfTest(u)]
  BY <1>2, Zenon
<1>8. \A u \in Urls : ~Tested(u) => rmarks'[u] = rmarks[u] /\ rproved'[u] = rproved[u]
  BY <1>2, Zenon
<1>9. rmarks' \in [Urls -> {"none", "checking", "ok", "failed"}]
  <2>1. \A u \in Urls : rmarks'[u] \in {"none", "checking", "ok", "failed"}
    BY <1>3, <1>6, <1>7, <1>8
  <2>2. DOMAIN rmarks' = Urls /\ rmarks' = [u \in Urls |-> rmarks'[u]]
    BY <1>2, Zenon
  <2>. QED
    BY <2>1, <2>2
<1>10. ASSUME NEW u \in Urls
       PROVE  /\ rmarks'[u] \in {"ok", "failed"} => rproved'[u] = rmarks'[u]
              /\ rmarks'[u] # "checking"
  BY <1>3, <1>5, <1>7, <1>8 DEF MarksEarned
<1>. QED
  BY <1>4, <1>9, <1>10 DEF MarksEarned

\* A test of the default relays keeps the marks earned.
LEMMA MarksDefaults ==
  ASSUME MarksEarned, TestDefaultRelays
  PROVE  MarksEarned'
<1>1. UNCHANGED <<rmarks, rtest, rproved>>
  BY DEF TestDefaultRelays
<1>2. CASE rtesting /\ rtest = <<>> /\ rtesting' = FALSE
  <2>1. \A u \in Urls : rmarks[u] # "checking"
    BY <1>2 DEF MarksEarned
  <2>2. rtesting' \in BOOLEAN
    BY <1>2, Zenon
  <2>. QED
    BY <1>1, <2>1, <2>2 DEF MarksEarned
<1>3. CASE ~rtesting /\ rtesting' = TRUE
  <2>1. \A u \in Urls : rmarks[u] # "checking"
    BY <1>3 DEF MarksEarned
  <2>2. rtesting' \in BOOLEAN
    BY <1>3, Zenon
  <2>. QED
    BY <1>1, <2>1, <2>2 DEF MarksEarned
<1>. QED
  BY <1>2, <1>3 DEF TestDefaultRelays, TestOffered

\* The invariant of the marks is inductive.
LEMMA MarksStep ==
  ASSUME MarksEarned, [RelayNext]_relayVars
  PROVE  MarksEarned'
<1>1. CASE UNCHANGED relayVars
  BY <1>1, MarksQuiet DEF relayVars
<1>2. CASE \/ \E m \in ModesOffered : SetRelayMode(m)
           \/ \E f \in {"strict", "public"} : SetRelayFallback(f)
           \/ \E i \in DOMAIN rrows : RemoveUrl(i) \/ \E u \in Fields : UpdateUrl(i, u)
           \/ AddUrl \/ ToggleToken
  <2>1. UNCHANGED <<rmarks, rtest, rtesting, rproved>>
    BY <1>2, Zenon DEF SetRelayMode, SetRelayFallback, RemoveUrl, UpdateUrl, AddUrl, ToggleToken
  <2>. QED
    BY <2>1, MarksQuiet
<1>. QED
  BY <1>1, <1>2, MarksTestBegins, MarksTestEnds, MarksDefaults DEF RelayNext

\* It holds at launch.
LEMMA MarksStart == PInit => MarksEarned
<1>. SUFFICES ASSUME PInit PROVE MarksEarned
  OBVIOUS
<1>1. rmarks = [u \in Urls |-> "none"]
  BY Zenon DEF PInit
<1>2. rtesting \in BOOLEAN
  BY Zenon DEF PInit
<1>. QED
  BY <1>1, <1>2 DEF MarksEarned

\* It implies the property.
LEMMA MarksGoal == MarksEarned => RelayMarksAreEarned
BY DEF MarksEarned, RelayMarksAreEarned, RowMark

-----------------------------------------------------------------------------
\* NetworkPages: the discovery page.

\* Unless a field was edited, the test is of what the fields show.
TestOfFields == dtest # <<>> /\ ~dedited => dtest = <<durl, dorigin>>

\* The invariant of the discovery page.
DiscoveryInv == TestOfFields /\ DiscoveryMarkIsEarned

\* It is inductive: an edit of a field drops the mark.
LEMMA DiscoveryStep ==
  ASSUME DiscoveryInv, [DiscoveryNext]_discoveryVars
  PROVE  DiscoveryInv'
<1>. USE DEF DiscoveryInv, TestOfFields, DiscoveryMarkIsEarned
<1>1. CASE UNCHANGED discoveryVars
  BY <1>1 DEF discoveryVars
<1>2. CASE SetDiscoveryMode
  BY <1>2, Zenon DEF SetDiscoveryMode
<1>3. CASE \E u \in Fields : UpdatePkarrUrl(u) \/ UpdateDnsOrigin(u)
  BY <1>3, Zenon DEF UpdatePkarrUrl, UpdateDnsOrigin
<1>4. CASE TestDiscovery
  BY <1>4, Zenon DEF TestDiscovery
<1>5. CASE DiscoveryAnswers
  BY <1>5 DEF DiscoveryAnswers
<1>. QED
  BY <1>1, <1>2, <1>3, <1>4, <1>5 DEF DiscoveryNext

\* It holds at launch.
LEMMA DiscoveryStart == PInit => DiscoveryInv
BY Zenon DEF PInit, DiscoveryInv, TestOfFields, DiscoveryMarkIsEarned

-----------------------------------------------------------------------------
\* NetworkPages: the relay button.

\* A call that still counts is of the configuration that is set.
StatusInv ==
  /\ sasks \in Seq([cfg : {"relay1", "relay2", "disabled"}, cancelled : BOOLEAN])
  /\ sloading \in BOOLEAN
  /\ \A k \in DOMAIN sasks : ~sasks[k].cancelled => sasks[k].cfg = scfg
  /\ RelayStatusIsCurrent

\* A change of the configuration cancels the calls under way and makes a new one.
LEMMA StatusAsks ==
  ASSUME StatusInv, NEW c \in {"relay1", "relay2", "disabled"}, RelayConfigChanges(c)
  PROVE  StatusInv'
<1>. DEFINE S == [cfg : {"relay1", "relay2", "disabled"}, cancelled : BOOLEAN]
            d == FALSE
            t == TRUE
            new == [cfg |-> c, cancelled |-> d]
            old == [k \in DOMAIN sasks |-> [sasks[k] EXCEPT !.cancelled = t]]
<1>1. d \in BOOLEAN /\ t \in BOOLEAN /\ ~d /\ t
  BY Zenon
<1>2. scfg' = c /\ sasks' = Append(old, new)
  BY Zenon DEF RelayConfigChanges
<1>3. sloading' \in BOOLEAN /\ sloading'
  BY Zenon DEF RelayConfigChanges
<1>. HIDE DEF d, t
<1>4. new \in S /\ new.cfg = c /\ ~new.cancelled
  BY <1>1
<1>5. sasks \in Seq(S)
  BY DEF StatusInv
<1>6. ASSUME NEW k \in DOMAIN sasks
      PROVE  old[k] \in S /\ old[k].cancelled
  <2>1. ASSUME NEW r \in S
        PROVE  [r EXCEPT !.cancelled = t] \in S /\ [r EXCEPT !.cancelled = t].cancelled = t
    <3>1. [r EXCEPT !.cancelled = t] = [cfg |-> r.cfg, cancelled |-> t]
      OBVIOUS
    <3>. QED
      BY <1>1, <3>1
  <2>2. old[k] = [sasks[k] EXCEPT !.cancelled = t]
    OBVIOUS
  <2>. HIDE DEF S, old
  <2>3. sasks[k] \in S
    BY <1>5
  <2>. QED
    BY <1>1, <2>1, <2>2, <2>3
<1>7. DOMAIN old = 1..Len(sasks) /\ old = [k \in 1..Len(sasks) |-> old[k]]
  BY <1>5
<1>. HIDE DEF old, S
<1>8. old \in Seq(S) /\ Len(old) = Len(sasks)
  <2>1. \A k \in 1..Len(sasks) : old[k] \in S
    BY <1>5, <1>6
  <2>. QED
    BY <1>5, <1>7, <2>1
<1>9. \A k \in DOMAIN old : old[k].cancelled
  <2>1. \A k \in 1..Len(sasks) : old[k].cancelled
    BY <1>5, <1>6
  <2>. QED
    BY <1>7, <2>1
<1>. HIDE DEF new
<1>10. sasks' \in Seq(S) /\ Len(sasks') = Len(old) + 1 /\ sasks'[Len(old) + 1] = new
  BY <1>2, <1>4, <1>8
<1>11. \A k \in DOMAIN sasks' : k = Len(old) + 1 \/ (k \in DOMAIN old /\ sasks'[k] = old[k])
  BY <1>2, <1>4, <1>8
<1>12. \A k \in DOMAIN sasks' : ~sasks'[k].cancelled => sasks'[k].cfg = scfg'
  BY <1>2, <1>4, <1>9, <1>10, <1>11
<1>13. \E k \in DOMAIN sasks' : ~sasks'[k].cancelled
  <2>1. Len(old) + 1 \in DOMAIN sasks'
    BY <1>8, <1>10
  <2>. QED
    BY <1>4, <1>10, <2>1
<1>14. RelayStatusIsCurrent'
  BY <1>3, <1>13 DEF RelayStatusIsCurrent
<1>. QED
  BY <1>3, <1>10, <1>12, <1>14 DEF StatusInv, S

\* An answer is shown only if its call was not cancelled.
LEMMA StatusIsRead ==
  ASSUME StatusInv, NEW k \in DOMAIN sasks, StatusAnswers(k)
  PROVE  StatusInv'
<1>. DEFINE S == [cfg : {"relay1", "relay2", "disabled"}, cancelled : BOOLEAN]
<1>1. /\ sasks' = [j \in 1..(Len(sasks) - 1) |-> IF j < k THEN sasks[j] ELSE sasks[j + 1]]
      /\ scfg' = scfg
  BY DEF StatusAnswers
<1>2. sasks \in Seq(S) /\ k \in 1..Len(sasks)
  BY DEF StatusInv
<1>. HIDE DEF S
<1>3. sasks' \in Seq(S) /\ Len(sasks') = Len(sasks) - 1
  BY <1>1, <1>2
<1>4. \A j \in DOMAIN sasks' : \E i \in DOMAIN sasks : sasks'[j] = sasks[i]
  BY <1>1, <1>2
<1>5. \A i \in DOMAIN sasks : i # k => \E j \in DOMAIN sasks' : sasks'[j] = sasks[i]
  <2>. SUFFICES ASSUME NEW i \in DOMAIN sasks, i # k
                PROVE  \E j \in DOMAIN sasks' : sasks'[j] = sasks[i]
    OBVIOUS
  <2>1. CASE i < k
    <3>1. i \in DOMAIN sasks' /\ sasks'[i] = sasks[i]
      BY <1>1, <1>2, <2>1
    <3>. QED
      BY <3>1
  <2>2. CASE i > k
    <3>1. i - 1 \in DOMAIN sasks' /\ sasks'[i - 1] = sasks[i]
      BY <1>1, <1>2, <2>2
    <3>. QED
      BY <3>1
  <2>. QED
    BY <1>2, <2>1, <2>2
<1>6. \A j \in DOMAIN sasks' : ~sasks'[j].cancelled => sasks'[j].cfg = scfg'
  BY <1>1, <1>4 DEF StatusInv
<1>7. sloading' \in BOOLEAN /\ RelayStatusIsCurrent'
  <2>1. CASE sasks[k].cancelled
    <3>1. UNCHANGED <<sshown, sloading>>
      BY <2>1, Zenon DEF StatusAnswers
    <3>2. sloading => \E j \in DOMAIN sasks' : ~sasks'[j].cancelled
      BY <1>5, <2>1 DEF StatusInv, RelayStatusIsCurrent
    <3>3. ~sloading => sshown \in {scfg, "unavailable"}
      BY DEF StatusInv, RelayStatusIsCurrent
    <3>4. sloading \in BOOLEAN
      BY DEF StatusInv
    <3>. QED
      BY <1>1, <3>1, <3>2, <3>3, <3>4 DEF RelayStatusIsCurrent
  <2>2. CASE ~sasks[k].cancelled
    <3>1. sshown' \in {sasks[k].cfg, "unavailable"}
      BY <2>2, Zenon DEF StatusAnswers
    <3>2. sloading' \in BOOLEAN /\ ~sloading'
      BY <2>2, Zenon DEF StatusAnswers
    <3>3. sasks[k].cfg = scfg
      BY <2>2 DEF StatusInv
    <3>. QED
      BY <1>1, <3>1, <3>2, <3>3 DEF RelayStatusIsCurrent
  <2>. QED
    BY <2>1, <2>2
<1>. QED
  BY <1>3, <1>6, <1>7 DEF StatusInv, S

\* The invariant of the relay status is inductive.
LEMMA StatusStep ==
  ASSUME StatusInv, [StatusNext]_statusVars
  PROVE  StatusInv'
<1>1. CASE UNCHANGED statusVars
  BY <1>1 DEF statusVars, StatusInv, RelayStatusIsCurrent
<1>. QED
  BY <1>1, StatusAsks, StatusIsRead DEF StatusNext

\* It holds at launch.
LEMMA StatusStart == PInit => StatusInv
<1>. SUFFICES ASSUME PInit PROVE StatusInv
  OBVIOUS
<1>. DEFINE d == FALSE
<1>1. scfg = "relay1" /\ sasks = <<[cfg |-> "relay1", cancelled |-> d]>>
  BY Zenon DEF PInit
<1>2. sloading \in BOOLEAN /\ sloading /\ d \in BOOLEAN /\ ~d
  BY Zenon DEF PInit
<1>. HIDE DEF d
<1>3. 1 \in DOMAIN sasks /\ ~sasks[1].cancelled
  BY <1>1, <1>2
<1>. QED
  BY <1>1, <1>2, <1>3 DEF StatusInv, RelayStatusIsCurrent

\* A step of the pages is a step of one of the three.
LEMMA PageParts ==
  ASSUME \/ RelayNext \/ DiscoveryNext \/ StatusNext
         \/ UNCHANGED pVars
  PROVE  [RelayNext]_relayVars /\ [DiscoveryNext]_discoveryVars /\ [StatusNext]_statusVars
BY DEF RelayNext, DiscoveryNext, StatusNext, pVars

-----------------------------------------------------------------------------
\* NetworkGuard.

\* The calls that configure the node.
Syncs == [cfg : Networks, late : BOOLEAN]

\* The last call made still waits with the settings as they are.
SyncToCome ==
  /\ nsyncs # <<>>
  /\ ~nsyncs[Len(nsyncs)].late
  /\ nsyncs[Len(nsyncs)].cfg = ncfg

\* After a confirmed leave the settings are closed, and either the call with
\* them is still to run or what is left was overtaken by it.
GuardInv ==
  /\ nsyncs \in Seq(Syncs) /\ ncfg \in Networks
  /\ nleft = "warned" =>
       /\ ~npage
       /\ \/ SyncToCome
          \/ /\ \A j \in DOMAIN nsyncs : nsyncs[j].late
             /\ nsyncs = <<>> /\ ~nlost => nnode = ncfg

\* A call that is made is the last one, with the settings as they are.
LEMMA GuardSyncs ==
  ASSUME GuardInv, NEW c \in Networks, SyncNodeNetworkSettings(c)
  PROVE  /\ nsyncs' \in Seq(Syncs) /\ nsyncs' # <<>>
         /\ ~nsyncs'[Len(nsyncs')].late /\ nsyncs'[Len(nsyncs')].cfg = c
<1>. DEFINE d == FALSE
            e == [cfg |-> c, late |-> d]
<1>1. d \in BOOLEAN /\ ~d
  BY Zenon
<1>2. nsyncs' = Append(nsyncs, e)
  BY Zenon DEF SyncNodeNetworkSettings
<1>. HIDE DEF d
<1>3. e \in Syncs /\ e.cfg = c /\ ~e.late
  BY <1>1 DEF Syncs
<1>. HIDE DEF e
<1>4. nsyncs \in Seq(Syncs)
  BY DEF GuardInv
<1>5. nsyncs' \in Seq(Syncs) /\ Len(nsyncs') = Len(nsyncs) + 1 /\ nsyncs'[Len(nsyncs) + 1] = e
  BY <1>2, <1>3, <1>4
<1>. QED
  BY <1>3, <1>4, <1>5

\* Entering, editing and the warning keep the invariant.
LEMMA GuardPage ==
  ASSUME GuardInv, EnterSettings \/ BlockLeave \/ CancelLeave \/ LeaveQuietly \/ SharingChanges
                   \/ \E c \in Networks : EditNetwork(c)
  PROVE  GuardInv'
<1>0. NotLeft # "warned"
  BY Zenon DEF NotLeft
<1>1. CASE EnterSettings \/ LeaveQuietly
  <2>1. nleft' # "warned" /\ UNCHANGED <<ncfg, nsyncs>>
    BY <1>0, <1>1 DEF EnterSettings, LeaveQuietly
  <2>. QED
    BY <2>1 DEF GuardInv
<1>2. CASE BlockLeave \/ CancelLeave \/ SharingChanges
  <2>1. UNCHANGED <<ncfg, nnode, nsyncs, npage, nleft, nlost>>
    BY <1>2 DEF BlockLeave, CancelLeave, SharingChanges
  <2>. QED
    BY <2>1 DEF GuardInv, SyncToCome
<1>3. CASE \E c \in Networks : EditNetwork(c)
  <2>1. npage /\ ncfg' \in Networks /\ UNCHANGED <<nsyncs, nleft>>
    BY <1>3, Zenon DEF EditNetwork
  <2>. QED
    BY <2>1 DEF GuardInv
<1>. QED
  BY <1>1, <1>2, <1>3

\* Leaving past the warning and a node that becomes ready make the call.
LEMMA GuardSyncSteps ==
  ASSUME GuardInv, ConfirmLeave \/ NodeReadyChanges
  PROVE  GuardInv'
<1>1. ncfg \in Networks /\ UNCHANGED <<ncfg, nnode, nlost>>
  BY DEF GuardInv, ConfirmLeave, NodeReadyChanges
<1>2. npage' = npage \/ ~npage'
  BY Zenon DEF ConfirmLeave, NodeReadyChanges
<1>3. CASE SyncNodeNetworkSettings(ncfg)
  <2>1. SyncToCome' /\ nsyncs' \in Seq(Syncs)
    BY <1>1, <1>3, GuardSyncs DEF SyncToCome
  <2>2. nleft' = "warned" => ~npage'
    <3>1. CASE ConfirmLeave
      BY <3>1, Zenon DEF ConfirmLeave
    <3>2. CASE NodeReadyChanges
      BY <3>2 DEF NodeReadyChanges, GuardInv
    <3>. QED
      BY <3>1, <3>2
  <2>. QED
    BY <1>1, <2>1, <2>2 DEF GuardInv
<1>4. CASE ~SyncNodeNetworkSettings(ncfg)
  <2>1. UNCHANGED <<nsyncs, nleft>>
    BY <1>4 DEF ConfirmLeave, NodeReadyChanges
  <2>. QED
    BY <1>1, <1>2, <2>1 DEF GuardInv, SyncToCome
<1>. QED
  BY <1>3, <1>4

\* A call that runs leaves the last one to come, or was the last.
LEMMA GuardRuns ==
  ASSUME GuardInv, NEW i \in DOMAIN nsyncs, ReconfigureNodeRelay(i)
  PROVE  GuardInv'
<1>. DEFINE marked == [j \in DOMAIN nsyncs |-> [nsyncs[j] EXCEPT !.late = @ \/ j < i]]
<1>1. /\ nsyncs' = [j \in 1..(Len(nsyncs) - 1) |-> IF j < i THEN marked[j] ELSE marked[j + 1]]
      /\ UNCHANGED <<ncfg, npage, nleft>>
  BY Zenon DEF ReconfigureNodeRelay
<1>2. nsyncs \in Seq(Syncs) /\ i \in 1..Len(nsyncs) /\ Len(nsyncs) \in Nat
  BY DEF GuardInv
<1>3. \A j \in DOMAIN nsyncs : nsyncs[j] \in Syncs
  BY <1>2
<1>4. ASSUME NEW j \in DOMAIN nsyncs
      PROVE  /\ marked[j] \in Syncs /\ marked[j].cfg = nsyncs[j].cfg
             /\ marked[j].late <=> (nsyncs[j].late \/ j < i)
  BY <1>3 DEF Syncs
<1>5. \A j \in DOMAIN nsyncs : marked[j] \in Syncs
  BY <1>4
<1>. HIDE DEF marked
<1>6. nsyncs' \in Seq(Syncs) /\ Len(nsyncs') = Len(nsyncs) - 1
  BY <1>1, <1>2, <1>5
<1>7. \A j \in DOMAIN nsyncs' : nsyncs'[j] = IF j < i THEN marked[j] ELSE marked[j + 1]
  BY <1>1, <1>2
<1>8. ASSUME nleft = "warned"
      PROVE  \/ SyncToCome'
             \/ /\ \A j \in DOMAIN nsyncs' : nsyncs'[j].late
                /\ nsyncs' = <<>> /\ ~nlost' => nnode' = ncfg'
  <2>1. CASE SyncToCome /\ i # Len(nsyncs)
    <3>1. Len(nsyncs') \in DOMAIN nsyncs' /\ nsyncs'[Len(nsyncs')] = marked[Len(nsyncs)]
      BY <1>2, <1>6, <1>7, <2>1
    <3>2. Len(nsyncs) \in DOMAIN nsyncs /\ ~(Len(nsyncs) < i)
      BY <1>2, <2>1
    <3>3. ~nsyncs'[Len(nsyncs')].late /\ nsyncs'[Len(nsyncs')].cfg = ncfg
      BY <1>4, <2>1, <3>1, <3>2 DEF SyncToCome
    <3>4. nsyncs' # <<>>
      BY <1>6, <3>1
    <3>. QED
      BY <1>1, <3>3, <3>4 DEF SyncToCome
  <2>2. CASE SyncToCome /\ i = Len(nsyncs)
    <3>1. \A j \in DOMAIN nsyncs' : nsyncs'[j].late
      BY <1>2, <1>4, <1>6, <1>7, <2>2
    <3>2. ~nlost' => nnode' = ncfg
      <4>1. CASE nnode' = nsyncs[i].cfg
        BY <2>2, <4>1 DEF SyncToCome
      <4>2. CASE nlost' = TRUE
        BY <4>2
      <4>. QED
        BY <4>1, <4>2, Zenon DEF ReconfigureNodeRelay
    <3>. QED
      BY <1>1, <3>1, <3>2
  <2>3. CASE ~SyncToCome
    <3>1. \A j \in DOMAIN nsyncs : nsyncs[j].late
      BY <1>8, <2>3 DEF GuardInv
    <3>2. \A j \in DOMAIN nsyncs' : nsyncs'[j].late
      BY <1>2, <1>4, <1>6, <1>7, <3>1
    <3>3. nlost'
      <4>1. nsyncs[i].late
        BY <3>1
      <4>. QED
        BY <4>1, Zenon DEF ReconfigureNodeRelay
    <3>. QED
      BY <3>2, <3>3
  <2>. QED
    BY <2>1, <2>2, <2>3
<1>. QED
  BY <1>1, <1>6, <1>8 DEF GuardInv

\* The invariant of the guard is inductive.
LEMMA GuardStep ==
  ASSUME GuardInv, [GNext]_gVars
  PROVE  GuardInv'
<1>1. CASE UNCHANGED gVars
  BY <1>1 DEF gVars, GuardInv, SyncToCome
<1>. QED
  BY <1>1, GuardPage, GuardSyncSteps, GuardRuns DEF GNext

\* It holds at launch.
LEMMA GuardStart == GInit => GuardInv
<1>. SUFFICES ASSUME GInit PROVE GuardInv
  OBVIOUS
<1>1. nleft = NotLeft /\ NotLeft # "warned"
  BY Zenon DEF GInit, NotLeft
<1>2. nsyncs = <<>> /\ ncfg \in Networks
  BY DEF GInit
<1>. QED
  BY <1>1, <1>2 DEF GuardInv

\* It implies the property.
LEMMA GuardGoal == GuardInv => WarnedChangeReachesNode
BY DEF GuardInv, SyncToCome, WarnedChangeReachesNode

-----------------------------------------------------------------------------
\* WebPlatform: the engine.

\* The promise of the load tells how many loads run and callbacks there are.
BridgeInv ==
  \/ winit = "none" /\ wloads = 0 /\ wcallbacks = 0
  \/ winit = "pending" /\ wloads = 1 /\ wcallbacks = 0
  \/ winit = "ready" /\ wloads = 0 /\ wcallbacks = 1

\* The invariant of the load is inductive.
LEMMA BridgeStep ==
  ASSUME BridgeInv, [WebReceiveNext]_webVars
  PROVE  BridgeInv'
<1>. USE DEF BridgeInv
<1>1. CASE UNCHANGED <<winit, wloads, wcallbacks>>
  BY <1>1
<1>2. ASSUME NEW c \in Receives, InvokeReceive(c) PROVE BridgeInv'
  BY <1>2 DEF InvokeReceive, EnsureWasmBridge
<1>3. CASE LoadWasmBridge
  BY <1>3 DEF LoadWasmBridge
<1>4. ASSUME NEW c \in Receives,
             \/ EngineReceives(c) \/ CallFails(c) \/ WriteReceivedCollection(c)
             \/ WriteBytes(c) \/ DispatchCompleted(c) \/ PickDownloadDirectory
             \/ \E k \in 0..MaxConflict : ResolveWritableFileName(c, k)
      PROVE  UNCHANGED <<winit, wloads, wcallbacks>>
  BY <1>4, Zenon DEF EngineReceives, CallFails, WriteReceivedCollection, WriteBytes,
     DispatchCompleted, PickDownloadDirectory, ResolveWritableFileName
<1>5. PickDownloadDirectory => UNCHANGED <<winit, wloads, wcallbacks>>
  BY DEF PickDownloadDirectory
<1>6. UNCHANGED webVars => UNCHANGED <<winit, wloads, wcallbacks>>
  BY DEF webVars
<1>. QED
  BY <1>1, <1>2, <1>3, <1>4, <1>5, <1>6 DEF WebReceiveNext

-----------------------------------------------------------------------------
\* WebPlatform: what a receive writes.

\* The stages of a receive, and its calls.
Stages == {"idle", "bridge", "failed", "received", "resolve", "write", "saved", "downloaded"}
WebCalls == [stage : Stages, files : Seq(Names), at : Nat, slot : 0..MaxConflict]

\* File i of receive c is in the directory.
InDirectory(dir, c, i) == \E s \in Slots : dir[s] = <<c, i>>

\* The files before position n of a receive are in the directory.
WrittenUpTo(dir, c, n) == \A i \in 1..(n - 1) : InDirectory(dir, c, i)

\* A receive that writes to the directory.
IsSaving(w) == w.stage \in {"resolve", "write"}

\* The name a receive chose is still free, and what it wrote so far is there.
CallHolds(dir, c, w) ==
  /\ w.stage = "write" => dir[<<w.files[w.at], w.slot>>] = free
  /\ IsSaving(w) => WrittenUpTo(dir, c, w.at)
  /\ w.stage = "saved" => WrittenUpTo(dir, c, Len(w.files) + 1)

\* A call that is under way has files, and its position is one of them.
CallPlaced(w) ==
  /\ w.stage \notin {"idle", "failed"} => w.files # <<>>
  /\ IsSaving(w) => w.at \in 1..Len(w.files)

\* Unless two receives ever saved at once: one saves at a time, the name it
\* chose is free, and what it and the receives that are done wrote is there.
SaveInv ==
  /\ wcall \in [Receives -> WebCalls] /\ DOMAIN wdir = Slots
  /\ wcompleted \subseteq Receives /\ wshared \in BOOLEAN
  /\ \A c \in wcompleted : wcall[c].stage \in {"saved", "downloaded"}
  /\ \A c \in Receives : CallPlaced(wcall[c])
  /\ ~wshared => \A c, d \in Receives : IsSaving(wcall[c]) /\ IsSaving(wcall[d]) => c = d
  /\ ~wshared => \A c \in Receives : CallHolds(wdir, c, wcall[c])

\* A step of one receive keeps the invariant if what it wrote and chose holds, and
\* what the others wrote still does.
LEMMA OneCallMoves ==
  ASSUME NEW c \in Receives, NEW w \in WebCalls, SaveInv, c \notin wcompleted,
         wcall' = [wcall EXCEPT ![c] = w], wcompleted' = wcompleted,
         wshared' \in BOOLEAN, ~wshared' => ~wshared, DOMAIN wdir' = Slots,
         CallPlaced(w),
         ~wshared' /\ IsSaving(w) => \A d \in Receives \ {c} : ~IsSaving(wcall[d]),
         ~wshared' => CallHolds(wdir', c, w),
         ~wshared' => \A d \in Receives \ {c} : CallHolds(wdir', d, wcall[d])
  PROVE  SaveInv'
<1>1. wcall' \in [Receives -> WebCalls] /\ wcall'[c] = w
  BY DEF SaveInv
<1>2. \A d \in Receives \ {c} : wcall'[d] = wcall[d]
  BY DEF SaveInv
<1>3. wcompleted' \subseteq Receives /\ \A d \in wcompleted' : wcall'[d].stage \in {"saved", "downloaded"}
  BY <1>2 DEF SaveInv
<1>4. \A d \in Receives : CallPlaced(wcall'[d])
  BY <1>1, <1>2 DEF SaveInv
<1>5. ~wshared' => \A d, e \in Receives : IsSaving(wcall'[d]) /\ IsSaving(wcall'[e]) => d = e
  <2>. SUFFICES ASSUME ~wshared', NEW d \in Receives, NEW e \in Receives,
                       IsSaving(wcall'[d]), IsSaving(wcall'[e]), d # e
                PROVE  FALSE
    OBVIOUS
  <2>1. CASE c \notin {d, e}
    BY <1>2, <2>1 DEF SaveInv
  <2>2. CASE c \in {d, e}
    BY <1>1, <1>2, <2>2
  <2>. QED
    BY <2>1, <2>2
<1>6. ~wshared' => \A d \in Receives : CallHolds(wdir', d, wcall'[d])
  BY <1>1, <1>2
<1>. QED
  BY <1>1, <1>3, <1>4, <1>5, <1>6 DEF SaveInv

\* A saved file is not a free name.
LEMMA FileIsNotFree == \A c, i : <<c, i>> # free
BY DEF free

\* What is in the directory stays when a file is written under a free name.
LEMMA WrittenStays ==
  ASSUME NEW dir, NEW new, NEW c, NEW n,
         \A s \in Slots : dir[s] # free => new[s] = dir[s],
         WrittenUpTo(dir, c, n)
  PROVE  WrittenUpTo(new, c, n)
<1>. SUFFICES ASSUME NEW i \in 1..(n - 1) PROVE InDirectory(new, c, i)
  BY DEF WrittenUpTo
<1>1. PICK s \in Slots : dir[s] = <<c, i>>
  BY DEF WrittenUpTo, InDirectory
<1>2. dir[s] # free
  BY <1>1, FileIsNotFree
<1>. QED
  BY <1>1, <1>2 DEF InDirectory

\* A call that is not about to write holds while files are added.
LEMMA CallStays ==
  ASSUME NEW dir, NEW new, NEW c, NEW w,
         \A s \in Slots : dir[s] # free => new[s] = dir[s],
         w.stage # "write", CallHolds(dir, c, w)
  PROVE  CallHolds(new, c, w)
BY WrittenStays DEF CallHolds

\* The stage alone is changed.
LEMMA StageMoves ==
  ASSUME NEW w \in WebCalls, NEW g \in Stages
  PROVE  LET v == [w EXCEPT !.stage = g] IN
         v \in WebCalls /\ v.stage = g /\ v.files = w.files /\ v.at = w.at /\ v.slot = w.slot
BY DEF WebCalls

\* The files alone are changed.
LEMMA FilesMove ==
  ASSUME NEW w \in WebCalls, NEW fs \in Seq(Names)
  PROVE  LET v == [w EXCEPT !.files = fs] IN
         v \in WebCalls /\ v.stage = w.stage /\ v.files = fs
BY DEF WebCalls

\* A receive that is not under way.
LEMMA IdleIsCall == Idle \in WebCalls /\ Idle.files = <<>> /\ Idle.stage = "idle"
<1>1. 0 \in 0..MaxConflict
  BY WebAssumption
<1>2. <<>> \in Seq(Names)
  OBVIOUS
<1>3. "idle" \in Stages
  BY DEF Stages
<1>. QED
  BY <1>1, <1>2, <1>3 DEF Idle, WebCalls

\* A receive that was not saved was not announced either.
LEMMA CallIsNotDone ==
  ASSUME SaveInv, NEW c \in Receives, wcall[c].stage \notin {"saved", "downloaded"}
  PROVE  c \notin wcompleted
BY DEF SaveInv

\* A call moves on without touching the directory or starting to save.
LEMMA CallMovesOn ==
  ASSUME SaveInv, NEW c \in Receives, NEW w \in WebCalls,
         wcall[c].stage \notin {"saved", "downloaded"},
         wcall' = [wcall EXCEPT ![c] = w],
         w.stage \notin {"resolve", "write", "saved"}, CallPlaced(w),
         UNCHANGED <<wdir, wcompleted, wshared>>
  PROVE  SaveInv'
<1>1. c \notin wcompleted
  BY CallIsNotDone
<1>2. ~IsSaving(w) /\ CallHolds(wdir', c, w)
  BY DEF IsSaving, CallHolds
<1>3. wshared' \in BOOLEAN /\ (~wshared' => ~wshared) /\ DOMAIN wdir' = Slots /\ wcompleted' = wcompleted
  BY DEF SaveInv
<1>4. ~wshared' => \A d \in Receives \ {c} : CallHolds(wdir', d, wcall[d])
  BY DEF SaveInv
<1>. QED
  BY <1>1, <1>2, <1>3, <1>4, OneCallMoves

\* A receive that is asked for keeps the invariant.
LEMMA SaveInvoke ==
  ASSUME SaveInv, NEW c \in Receives, InvokeReceive(c)
  PROVE  SaveInv'
<1>1. PICK fs \in {<<n>> : n \in Names} \cup (Names \X Names) :
        wcall' = [wcall EXCEPT ![c] = [Idle EXCEPT !.stage = "bridge", !.files = fs]]
  BY Zenon DEF InvokeReceive
<1>2. fs \in Seq(Names) /\ fs # <<>>
  <2>1. \A n \in Names : <<n>> \in Seq(Names) /\ <<n>> # <<>>
    OBVIOUS
  <2>2. \A n, m \in Names : <<n, m>> \in Seq(Names) /\ <<n, m>> # <<>>
    OBVIOUS
  <2>. QED
    BY <2>1, <2>2
<1>. DEFINE w == [Idle EXCEPT !.stage = "bridge", !.files = fs]
<1>3. w \in WebCalls /\ w.stage = "bridge" /\ w.files = fs
  <2>. DEFINE v == [Idle EXCEPT !.stage = "bridge"]
  <2>1. "bridge" \in Stages
    BY DEF Stages
  <2>2. v \in WebCalls /\ v.stage = "bridge"
    BY <2>1, IdleIsCall, StageMoves
  <2>. HIDE DEF v
  <2>3. LET u == [v EXCEPT !.files = fs] IN u \in WebCalls /\ u.stage = v.stage /\ u.files = fs
    BY <1>2, <2>2, FilesMove
  <2>. QED
    BY <2>2, <2>3 DEF v
<1>. HIDE DEF w
<1>4. UNCHANGED <<wdir, wcompleted, wshared>> /\ wcall[c].stage = "idle"
  BY Zenon DEF InvokeReceive
<1>5. wcall' = [wcall EXCEPT ![c] = w]
  BY <1>1 DEF w
<1>6. CallPlaced(w)
  BY <1>2, <1>3 DEF CallPlaced, IsSaving
<1>. QED
  BY <1>3, <1>4, <1>5, <1>6, CallMovesOn

\* The engine's answer keeps the invariant.
LEMMA SaveReceives ==
  ASSUME SaveInv, NEW c \in Receives, EngineReceives(c)
  PROVE  SaveInv'
<1>. DEFINE w == [wcall[c] EXCEPT !.stage = "received"]
<1>1. wcall' = [wcall EXCEPT ![c] = w]
  BY DEF EngineReceives
<1>2. wcall[c] \in WebCalls /\ "received" \in Stages
  BY DEF SaveInv, Stages
<1>3. w \in WebCalls /\ w.stage = "received" /\ w.files = wcall[c].files
  BY <1>2, StageMoves
<1>. HIDE DEF w
<1>4. UNCHANGED <<wdir, wcompleted, wshared>> /\ wcall[c].stage = "bridge"
  BY DEF EngineReceives
<1>5. CallPlaced(w)
  BY <1>3, <1>4 DEF SaveInv, CallPlaced, IsSaving
<1>. QED
  BY <1>1, <1>3, <1>4, <1>5, CallMovesOn

\* A failure keeps the invariant, whatever was written by then.
LEMMA SaveFails ==
  ASSUME SaveInv, NEW c \in Receives, CallFails(c)
  PROVE  SaveInv'
<1>. DEFINE w == [wcall[c] EXCEPT !.stage = "failed"]
<1>1. wcall' = [wcall EXCEPT ![c] = w]
  BY DEF CallFails
<1>2. wcall[c] \in WebCalls /\ "failed" \in Stages
  BY DEF SaveInv, Stages
<1>3. w \in WebCalls /\ w.stage = "failed"
  BY <1>2, StageMoves
<1>. HIDE DEF w
<1>4. UNCHANGED <<wcompleted, wshared>> /\ wcall[c].stage \notin {"saved", "downloaded"}
  BY DEF CallFails
<1>7. CallPlaced(w)
  BY <1>3 DEF CallPlaced, IsSaving
<1>5. CASE UNCHANGED wdir
  BY <1>1, <1>3, <1>4, <1>5, <1>7, CallMovesOn
<1>6. CASE /\ wcall[c].stage = "write"
           /\ LET s == <<wcall[c].files[wcall[c].at], wcall[c].slot>> IN
                wdir' = [wdir EXCEPT ![s] = IF @ = free THEN <<c, 0>> ELSE @]
  <2>1. \A s \in Slots : wdir[s] # free => wdir'[s] = wdir[s]
    BY <1>6 DEF SaveInv
  <2>2. DOMAIN wdir' = Slots
    BY <1>6 DEF SaveInv
  <2>3. c \notin wcompleted
    BY <1>4, CallIsNotDone
  <2>4. ~IsSaving(w) /\ CallHolds(wdir', c, w)
    BY <1>3 DEF IsSaving, CallHolds
  <2>5. ~wshared' => \A d \in Receives \ {c} : CallHolds(wdir', d, wcall[d])
    <3>. SUFFICES ASSUME ~wshared', NEW d \in Receives \ {c} PROVE CallHolds(wdir', d, wcall[d])
      OBVIOUS
    <3>1. ~wshared
      BY <1>4
    <3>2. wcall[d].stage # "write"
      BY <1>6, <3>1 DEF SaveInv, IsSaving
    <3>3. CallHolds(wdir, d, wcall[d])
      BY <3>1 DEF SaveInv
    <3>. QED
      BY <2>1, <3>2, <3>3, CallStays
  <2>6. wshared' \in BOOLEAN /\ (~wshared' => ~wshared) /\ wcompleted' = wcompleted
    BY <1>4 DEF SaveInv
  <2>. QED
    BY <1>1, <1>3, <1>7, <2>2, <2>3, <2>4, <2>5, <2>6, OneCallMoves
<1>. QED
  BY <1>5, <1>6 DEF CallFails

\* A receive that begins to save is alone, or the two are marked.
LEMMA SaveBegins ==
  ASSUME SaveInv, NEW c \in Receives, WriteReceivedCollection(c)
  PROVE  SaveInv'
<1>1. wcall[c].stage = "received" /\ UNCHANGED <<wdir, wcompleted>> /\ wcall[c] \in WebCalls
  BY DEF WriteReceivedCollection, SaveInv
<1>4. wcall[c].files # <<>>
  BY <1>1 DEF SaveInv, CallPlaced
<1>2. CASE wcall' = [wcall EXCEPT ![c].stage = "downloaded"] /\ UNCHANGED wshared
  <2>. DEFINE w == [wcall[c] EXCEPT !.stage = "downloaded"]
  <2>1. wcall' = [wcall EXCEPT ![c] = w]
    BY <1>2
  <2>2. "downloaded" \in Stages
    BY DEF Stages
  <2>3. w \in WebCalls /\ w.stage = "downloaded" /\ w.files = wcall[c].files
    BY <1>1, <2>2, StageMoves
  <2>. HIDE DEF w
  <2>4. CallPlaced(w)
    BY <1>4, <2>3 DEF CallPlaced, IsSaving
  <2>. QED
    BY <1>1, <1>2, <2>1, <2>3, <2>4, CallMovesOn
<1>3. CASE /\ wcall' = [wcall EXCEPT ![c].stage = "resolve", ![c].at = 1]
           /\ wshared' = (wshared \/ \E d \in Receives \ {c} : Saving(d))
  <2>. DEFINE w == [wcall[c] EXCEPT !.stage = "resolve", !.at = 1]
  <2>1. wcall' = [wcall EXCEPT ![c] = w]
    BY <1>3 DEF SaveInv
  <2>2. w \in WebCalls /\ w.stage = "resolve" /\ w.at = 1 /\ w.files = wcall[c].files
    BY <1>1 DEF WebCalls, Stages
  <2>. HIDE DEF w
  <2>3. CallPlaced(w)
    <3>1. w.files \in Seq(Names) /\ w.files # <<>>
      BY <1>4, <2>2 DEF WebCalls
    <3>2. 1 \in 1..Len(w.files)
      BY <3>1
    <3>. QED
      BY <2>2, <3>1, <3>2 DEF CallPlaced
  <2>4. CallHolds(wdir', c, w)
    BY <2>2 DEF CallHolds, WrittenUpTo
  <2>5. /\ wshared' \in BOOLEAN
        /\ ~wshared' => ~wshared /\ \A d \in Receives \ {c} : ~Saving(d)
    BY <1>3, Zenon
  <2>6. ~wshared' => \A d \in Receives \ {c} : ~IsSaving(wcall[d])
    BY <2>5 DEF Saving, IsSaving
  <2>7. ~wshared' => \A d \in Receives \ {c} : CallHolds(wdir', d, wcall[d])
    BY <1>1, <2>5 DEF SaveInv
  <2>8. c \notin wcompleted
    BY <1>1, CallIsNotDone
  <2>9. DOMAIN wdir' = Slots /\ wcompleted' = wcompleted
    BY <1>1 DEF SaveInv
  <2>. QED
    BY <2>1, <2>2, <2>3, <2>4, <2>5, <2>6, <2>7, <2>8, <2>9, OneCallMoves
<1>. QED
  BY <1>2, <1>3, Zenon DEF WriteReceivedCollection

\* The name that is chosen is free.
LEMMA SaveResolves ==
  ASSUME SaveInv, NEW c \in Receives, NEW k \in 0..MaxConflict, ResolveWritableFileName(c, k)
  PROVE  SaveInv'
<1>. DEFINE v == [wcall[c] EXCEPT !.stage = "write"]
            w == [v EXCEPT !.slot = k]
<1>1. wcall' = [wcall EXCEPT ![c] = w]
  BY DEF ResolveWritableFileName, SaveInv
<1>2. /\ wcall[c].stage = "resolve" /\ UNCHANGED <<wdir, wcompleted, wshared>>
      /\ wdir[<<wcall[c].files[wcall[c].at], k>>] = free
  BY DEF ResolveWritableFileName
<1>3. wcall[c] \in WebCalls /\ "write" \in Stages
  BY DEF SaveInv, Stages
<1>4. v \in WebCalls /\ v.stage = "write" /\ v.files = wcall[c].files /\ v.at = wcall[c].at
  BY <1>3, StageMoves
<1>. HIDE DEF v
<1>5. /\ w \in WebCalls /\ w.stage = v.stage /\ w.files = v.files /\ w.at = v.at /\ w.slot = k
  BY <1>4 DEF WebCalls
<1>. HIDE DEF w
<1>6. IsSaving(wcall[c]) /\ CallPlaced(wcall[c])
  BY <1>2 DEF SaveInv, IsSaving
<1>7. CallPlaced(w)
  BY <1>2, <1>4, <1>5, <1>6 DEF CallPlaced, IsSaving
<1>8. ~wshared => CallHolds(wdir, c, wcall[c]) /\ \A d \in Receives \ {c} : ~IsSaving(wcall[d])
  BY <1>6 DEF SaveInv
<1>9. ~wshared => CallHolds(wdir, c, w)
  BY <1>2, <1>4, <1>5, <1>6, <1>8 DEF CallHolds
<1>10. c \notin wcompleted
  BY <1>2, CallIsNotDone
<1>11. ~wshared => \A d \in Receives \ {c} : CallHolds(wdir, d, wcall[d])
  BY DEF SaveInv
<1>12. DOMAIN wdir' = Slots /\ wshared' \in BOOLEAN /\ wcompleted' = wcompleted /\ (~wshared' => ~wshared)
  BY <1>2 DEF SaveInv
<1>. QED
  BY <1>1, <1>2, <1>5, <1>7, <1>8, <1>9, <1>10, <1>11, <1>12, OneCallMoves

\* A file is written under a name that is free, unless receives share.
LEMMA WritesFreeName ==
  ASSUME SaveInv, NEW c \in Receives, WriteBytes(c)
  PROVE  /\ DOMAIN wdir' = Slots
         /\ ~wshared => \A s \in Slots : wdir[s] # free => wdir'[s] = wdir[s]
         /\ ~wshared => WrittenUpTo(wdir', c, wcall[c].at + 1)
<1>. DEFINE w == wcall[c]
            key == <<w.files[w.at], w.slot>>
<1>1. w.stage = "write" /\ wdir' = [wdir EXCEPT ![key] = <<c, w.at>>]
  BY DEF WriteBytes
<1>2. w \in WebCalls /\ CallPlaced(w) /\ DOMAIN wdir = Slots
  BY DEF SaveInv
<1>3. w.at \in 1..Len(w.files) /\ w.at \in Nat /\ w.files \in Seq(Names)
  BY <1>1, <1>2 DEF CallPlaced, IsSaving, WebCalls
<1>4. key \in Slots
  <2>1. w.files[w.at] \in Names /\ w.slot \in 0..MaxConflict
    BY <1>2, <1>3 DEF WebCalls
  <2>. QED
    BY <2>1 DEF Slots
<1>5. ~wshared => CallHolds(wdir, c, w)
  BY DEF SaveInv
<1>6. ~wshared => wdir[key] = free /\ WrittenUpTo(wdir, c, w.at)
  BY <1>1, <1>5 DEF CallHolds, IsSaving
<1>. HIDE DEF key, w
<1>7. DOMAIN wdir' = Slots /\ wdir'[key] = <<c, w.at>>
  BY <1>1, <1>2, <1>4
<1>8. ~wshared => \A s \in Slots : wdir[s] # free => wdir'[s] = wdir[s]
  BY <1>1, <1>2, <1>6
<1>9. ~wshared => WrittenUpTo(wdir', c, w.at + 1)
  <2>. SUFFICES ASSUME ~wshared, NEW i \in 1..w.at PROVE InDirectory(wdir', c, i)
    BY <1>3 DEF WrittenUpTo
  <2>1. CASE i = w.at
    BY <1>4, <1>7, <2>1 DEF InDirectory
  <2>2. CASE i # w.at
    <3>1. WrittenUpTo(wdir', c, w.at)
      BY <1>6, <1>8, WrittenStays
    <3>2. i \in 1..(w.at - 1)
      BY <1>3, <2>2
    <3>. QED
      BY <3>1, <3>2 DEF WrittenUpTo
  <2>. QED
    BY <2>1, <2>2
<1>. QED
  BY <1>7, <1>8, <1>9 DEF w

\* A write keeps the invariant.
LEMMA SaveWrites ==
  ASSUME SaveInv, NEW c \in Receives, WriteBytes(c)
  PROVE  SaveInv'
<1>. DEFINE x == wcall[c]
            g == IF x.at < Len(x.files) THEN "resolve" ELSE "saved"
            v == [x EXCEPT !.stage = g]
            w == [v EXCEPT !.at = @ + 1]
<1>1. wcall' = [wcall EXCEPT ![c] = w]
  BY DEF WriteBytes, SaveInv
<1>2. x.stage = "write" /\ UNCHANGED <<wcompleted, wshared>>
  BY DEF WriteBytes
<1>3. x \in WebCalls /\ CallPlaced(x)
  BY DEF SaveInv
<1>4. x.at \in 1..Len(x.files) /\ x.at \in Nat /\ x.files \in Seq(Names)
  BY <1>2, <1>3 DEF CallPlaced, IsSaving, WebCalls
<1>. HIDE DEF x
<1>5. g \in Stages
  BY DEF Stages
<1>6. v \in WebCalls /\ v.stage = g /\ v.files = x.files /\ v.at = x.at
  <2>. HIDE DEF g
  <2>. QED
    BY <1>3, <1>5, StageMoves
<1>. HIDE DEF v
<1>7. w \in WebCalls /\ w.stage = v.stage /\ w.files = v.files /\ w.at = v.at + 1
  BY <1>6 DEF WebCalls
<1>. HIDE DEF w
<1>8. CallPlaced(w)
  BY <1>4, <1>6, <1>7 DEF CallPlaced, IsSaving
<1>9. IsSaving(x)
  BY <1>2 DEF IsSaving
<1>10. ~wshared => \A d \in Receives \ {c} : ~IsSaving(wcall[d]) /\ CallHolds(wdir, d, wcall[d])
  BY <1>9 DEF SaveInv, x
<1>11. /\ DOMAIN wdir' = Slots
       /\ ~wshared => \A s \in Slots : wdir[s] # free => wdir'[s] = wdir[s]
       /\ ~wshared => WrittenUpTo(wdir', c, x.at + 1)
  BY WritesFreeName DEF x
<1>12. ~wshared => CallHolds(wdir', c, w)
  <2>1. w.stage = "saved" => w.at = Len(w.files) + 1
    BY <1>4, <1>6, <1>7
  <2>2. w.stage # "write"
    BY <1>6, <1>7
  <2>3. ~wshared => WrittenUpTo(wdir', c, w.at)
    BY <1>6, <1>7, <1>11
  <2>. QED
    BY <2>1, <2>2, <2>3 DEF CallHolds
<1>13. ~wshared => \A d \in Receives \ {c} : CallHolds(wdir', d, wcall[d])
  <2>. SUFFICES ASSUME ~wshared, NEW d \in Receives \ {c} PROVE CallHolds(wdir', d, wcall[d])
    OBVIOUS
  <2>1. wcall[d].stage # "write" /\ CallHolds(wdir, d, wcall[d])
    BY <1>10 DEF IsSaving
  <2>. QED
    BY <1>11, <2>1, CallStays
<1>14. c \notin wcompleted
  BY <1>2, CallIsNotDone DEF x
<1>15. wshared' \in BOOLEAN /\ wcompleted' = wcompleted /\ (~wshared' => ~wshared)
  BY <1>2 DEF SaveInv
<1>. QED
  BY <1>1, <1>2, <1>7, <1>8, <1>10, <1>11, <1>12, <1>13, <1>14, <1>15, OneCallMoves

\* The load of the engine keeps the invariant.
LEMMA SaveLoads ==
  ASSUME SaveInv, LoadWasmBridge
  PROVE  SaveInv'
<1>1. UNCHANGED <<wdir, wcompleted, wshared>>
  BY DEF LoadWasmBridge
<1>2. CASE UNCHANGED wcall
  BY <1>1, <1>2 DEF SaveInv
<1>3. CASE wcall' = [c \in Receives |->
             IF wcall[c].stage = "bridge" THEN [Idle EXCEPT !.stage = "failed"] ELSE wcall[c]]
  <2>. DEFINE f == [Idle EXCEPT !.stage = "failed"]
  <2>1. "failed" \in Stages
    BY DEF Stages
  <2>2. f \in WebCalls /\ f.stage = "failed"
    BY <2>1, IdleIsCall, StageMoves
  <2>. HIDE DEF f
  <2>3. \A c \in Receives : wcall'[c] = IF wcall[c].stage = "bridge" THEN f ELSE wcall[c]
    BY <1>3 DEF f
  <2>4. wcall' \in [Receives -> WebCalls]
    BY <1>3, <2>2 DEF SaveInv, f
  <2>5. CallPlaced(f) /\ ~IsSaving(f) /\ \A c : CallHolds(wdir, c, f)
    BY <2>2 DEF CallPlaced, IsSaving, CallHolds
  <2>6. \A c \in wcompleted : wcall'[c].stage \in {"saved", "downloaded"}
    BY <2>3 DEF SaveInv
  <2>7. \A c \in Receives : CallPlaced(wcall'[c]) /\ (IsSaving(wcall'[c]) => IsSaving(wcall[c]))
    BY <2>3, <2>5 DEF SaveInv
  <2>8. ~wshared => \A c \in Receives : CallHolds(wdir, c, wcall'[c])
    BY <2>3, <2>5 DEF SaveInv
  <2>9. ~wshared => \A c, d \in Receives : IsSaving(wcall'[c]) /\ IsSaving(wcall'[d]) => c = d
    BY <2>7 DEF SaveInv
  <2>. QED
    BY <1>1, <2>4, <2>6, <2>7, <2>8, <2>9 DEF SaveInv
<1>. QED
  BY <1>2, <1>3 DEF LoadWasmBridge

\* The invariant of the browser's receives is inductive.
LEMMA SaveStep ==
  ASSUME SaveInv, [WebReceiveNext]_webVars
  PROVE  SaveInv'
<1>1. CASE PickDownloadDirectory \/ UNCHANGED webVars
  <2>1. UNCHANGED <<wcall, wdir, wcompleted, wshared>>
    BY <1>1 DEF PickDownloadDirectory, webVars
  <2>. QED
    BY <2>1 DEF SaveInv
<1>2. ASSUME NEW c \in Receives, DispatchCompleted(c)
      PROVE  SaveInv'
  <2>1. /\ wcall[c].stage \in {"saved", "downloaded"} /\ wcompleted' = wcompleted \cup {c}
        /\ UNCHANGED <<wcall, wdir, wshared>>
    BY <1>2 DEF DispatchCompleted
  <2>. QED
    BY <2>1 DEF SaveInv
<1>. QED
  BY <1>1, <1>2, SaveInvoke, SaveReceives, SaveFails, SaveBegins, SaveResolves, SaveWrites, SaveLoads
     DEF WebReceiveNext

\* It holds at launch, and that of the load.
LEMMA SaveStart == WInit => SaveInv /\ BridgeInv
<1>. SUFFICES ASSUME WInit PROVE SaveInv /\ BridgeInv
  OBVIOUS
<1>1. /\ wcall = [c \in Receives |-> Idle] /\ wcompleted = {}
      /\ winit = "none" /\ wloads = 0 /\ wcallbacks = 0
  BY DEF WInit
<1>2. DOMAIN wdir = Slots
  BY DEF WInit
<1>3. wshared \in BOOLEAN
  BY Zenon DEF WInit
<1>4. \A c \in Receives : wcall[c] = Idle
  BY <1>1
<1>5. CallPlaced(Idle) /\ ~IsSaving(Idle) /\ \A c : CallHolds(wdir, c, Idle)
  BY IdleIsCall DEF CallPlaced, IsSaving, CallHolds
<1>6. wcall \in [Receives -> WebCalls]
  BY <1>1, IdleIsCall
<1>7. SaveInv
  BY <1>1, <1>2, <1>3, <1>4, <1>5, <1>6 DEF SaveInv
<1>. QED
  BY <1>1, <1>7 DEF BridgeInv

\* A receive past its last file has written all of them.
LEMMA WrittenAll ==
  ASSUME NEW dir, NEW c, NEW n \in Nat, NEW i \in 1..n, WrittenUpTo(dir, c, n + 1)
  PROVE  InDirectory(dir, c, i)
<1>1. i \in 1..((n + 1) - 1)
  OBVIOUS
<1>. QED
  BY <1>1 DEF WrittenUpTo

\* It implies the property.
LEMMA SaveGoal == SaveInv => CompletedMeansSaved
<1>. SUFFICES ASSUME SaveInv, ~wshared, NEW c \in wcompleted, wcall[c].stage # "downloaded",
                     NEW i \in DOMAIN wcall[c].files
              PROVE  \E s \in Slots : wdir[s] = <<c, i>>
  BY DEF CompletedMeansSaved
<1>1. c \in Receives /\ wcall[c].stage = "saved"
  BY DEF SaveInv
<1>2. wcall[c].files \in Seq(Names)
  BY <1>1 DEF SaveInv, WebCalls
<1>3. WrittenUpTo(wdir, c, Len(wcall[c].files) + 1)
  BY <1>1 DEF SaveInv, CallHolds
<1>4. Len(wcall[c].files) \in Nat /\ i \in 1..Len(wcall[c].files)
  BY <1>2
<1>5. InDirectory(wdir, c, i)
  BY <1>3, <1>4, WrittenAll
<1>. QED
  BY <1>5 DEF InDirectory

\* A step of a receive replaces no file, unless two receives saved at once.
LEMMA StepReplacesNone ==
  ASSUME SaveInv, [WebReceiveNext]_webVars, ~wshared, NEW s \in Slots, wdir[s] # free
  PROVE  wdir'[s] = wdir[s]
<1>1. ASSUME NEW c \in Receives, CallFails(c)
      PROVE  wdir'[s] = wdir[s]
  BY <1>1 DEF CallFails, SaveInv
<1>2. ASSUME NEW c \in Receives, WriteBytes(c)
      PROVE  wdir'[s] = wdir[s]
  BY <1>2, WritesFreeName
<1>3. ASSUME NEW c \in Receives,
             \/ InvokeReceive(c) \/ EngineReceives(c) \/ WriteReceivedCollection(c)
             \/ DispatchCompleted(c)
             \/ \E k \in 0..MaxConflict : ResolveWritableFileName(c, k)
      PROVE  UNCHANGED wdir
  BY <1>3, Zenon DEF InvokeReceive, EngineReceives, WriteReceivedCollection, DispatchCompleted,
     ResolveWritableFileName
<1>4. LoadWasmBridge \/ PickDownloadDirectory \/ UNCHANGED webVars => UNCHANGED wdir
  BY Zenon DEF LoadWasmBridge, PickDownloadDirectory, webVars
<1>. QED
  BY <1>1, <1>2, <1>3, <1>4 DEF WebReceiveNext

-----------------------------------------------------------------------------
\* WebPlatform: the event bus.

\* A live subscription is in the set that is registered.
BusInv ==
  /\ bsets \in Seq(SUBSET Handlers) /\ bmap \in 0..Len(bsets)
  /\ bsubs \in [Handlers -> Nat]
  /\ \A h \in Handlers : bsubs[h] # 0 => bsubs[h] = bmap /\ h \in bsets[bmap]

\* A handler that subscribes is in the registered set.
LEMMA BusSubscribes ==
  ASSUME BusInv, NEW h \in Handlers, SubscribeWebEvent(h)
  PROVE  BusInv'
<1>1. /\ bsets \in Seq(SUBSET Handlers) /\ bmap \in 0..Len(bsets) /\ Len(bsets) \in Nat
      /\ bsubs \in [Handlers -> Nat]
  BY DEF BusInv
<1>2. CASE bmap = 0
  <2>. DEFINE n == Len(bsets) + 1
              one == {h}
  <2>1. bsets' = Append(bsets, one) /\ bmap' = n /\ bsubs' = [bsubs EXCEPT ![h] = n]
    BY <1>2 DEF SubscribeWebEvent
  <2>2. one \in SUBSET Handlers
    OBVIOUS
  <2>. HIDE DEF one
  <2>3. bsets' \in Seq(SUBSET Handlers) /\ Len(bsets') = n /\ bsets'[n] = one
    BY <1>1, <2>1, <2>2
  <2>4. \A g \in Handlers : bsubs[g] = 0
    BY <1>1, <1>2 DEF BusInv
  <2>5. bsubs' \in [Handlers -> Nat] /\ \A g \in Handlers : bsubs'[g] = IF g = h THEN n ELSE 0
    BY <1>1, <2>1, <2>4
  <2>6. h \in bsets'[n]
    BY <2>3 DEF one
  <2>. QED
    BY <1>1, <2>1, <2>3, <2>5, <2>6 DEF BusInv
<1>3. CASE bmap # 0
  <2>1. /\ bsets' = [bsets EXCEPT ![bmap] = @ \cup {h}] /\ bsubs' = [bsubs EXCEPT ![h] = bmap]
        /\ bmap' = bmap
    BY <1>3 DEF SubscribeWebEvent
  <2>2. bmap \in DOMAIN bsets /\ bsets[bmap] \cup {h} \in SUBSET Handlers
    BY <1>1, <1>3
  <2>3. bsets' \in Seq(SUBSET Handlers) /\ Len(bsets') = Len(bsets) /\ bsets'[bmap] = bsets[bmap] \cup {h}
    BY <1>1, <2>1, <2>2
  <2>4. bsubs' \in [Handlers -> Nat] /\ \A g \in Handlers : bsubs'[g] = IF g = h THEN bmap ELSE bsubs[g]
    BY <1>1, <2>1
  <2>. QED
    BY <1>1, <2>1, <2>3, <2>4 DEF BusInv
<1>. QED
  BY <1>2, <1>3

\* A handler that leaves takes the set with it only if it was alone there.
LEMMA BusLeaves ==
  ASSUME BusInv, NEW h \in Handlers, Unsubscribe(h)
  PROVE  BusInv'
<1>1. /\ bsets \in Seq(SUBSET Handlers) /\ bmap \in 0..Len(bsets) /\ Len(bsets) \in Nat
      /\ bsubs \in [Handlers -> Nat] /\ bsubs[h] # 0 /\ bsubs[h] = bmap
  BY DEF BusInv, Unsubscribe
<1>2. /\ bsets' = [bsets EXCEPT ![bmap] = @ \ {h}]
      /\ bmap' = (IF bsets[bmap] \ {h} = {} THEN 0 ELSE bmap)
      /\ bsubs' = [bsubs EXCEPT ![h] = 0]
  BY <1>1 DEF Unsubscribe
<1>3. bmap \in DOMAIN bsets /\ bsets[bmap] \ {h} \in SUBSET Handlers
  BY <1>1
<1>4. bsets' \in Seq(SUBSET Handlers) /\ Len(bsets') = Len(bsets) /\ bsets'[bmap] = bsets[bmap] \ {h}
  BY <1>1, <1>2, <1>3
<1>5. bsubs' \in [Handlers -> Nat] /\ \A g \in Handlers : bsubs'[g] = IF g = h THEN 0 ELSE bsubs[g]
  BY <1>1, <1>2
<1>6. bmap' \in 0..Len(bsets')
  BY <1>1, <1>2, <1>4
<1>7. ASSUME NEW g \in Handlers, bsubs'[g] # 0
      PROVE  bsubs'[g] = bmap' /\ g \in bsets'[bmap']
  <2>1. g # h /\ bsubs'[g] = bmap /\ g \in bsets[bmap]
    BY <1>5, <1>7 DEF BusInv
  <2>. QED
    BY <1>2, <1>4, <2>1
<1>. QED
  BY <1>4, <1>5, <1>6, <1>7 DEF BusInv

\* The invariant of the event bus is inductive.
LEMMA BusStep ==
  ASSUME BusInv, [BusNext]_busVars
  PROVE  BusInv'
<1>1. CASE UNCHANGED busVars
  BY <1>1 DEF busVars, BusInv
<1>. QED
  BY <1>1, BusSubscribes, BusLeaves DEF BusNext

\* It holds at launch.
LEMMA BusStart == WInit => BusInv
BY DEF WInit, BusInv

\* It implies the property.
LEMMA BusGoal == BusInv => LiveHandlersReached
BY DEF BusInv, LiveHandlersReached, DispatchReaches

-----------------------------------------------------------------------------
\* Induction over the naturals, for the sums below.

\* A set of numbers has a least one: the intervals up to its members are well-founded.
LEMMA LeastNumber ==
  ASSUME NEW T \in SUBSET Nat, T # {}
  PROVE  \E n \in T : \A m \in T : n =< m
<1>. DEFINE R == StrictSubsetOrdering(Nat)
            U == {0..n : n \in T}
<1>1. IsWellFoundedOn(R, FiniteSubsetsOf(Nat))
  BY FS_StrictSubsetOrderingWellFounded
<1>2. U \subseteq FiniteSubsetsOf(Nat) /\ U # {}
  <2>1. \A n \in T : 0..n \in SUBSET Nat /\ IsFiniteSet(0..n)
    BY FS_Interval
  <2>. QED
    BY <2>1, Zenon DEF FiniteSubsetsOf
<1>3. \E x \in U : \A y \in U : <<y, x>> \notin R
  <2>. HIDE DEF R, U
  <2>. QED
    BY <1>1, <1>2, WFMin
<1>4. PICK n \in T : \A m \in T : <<0..m, 0..n>> \notin R
  BY <1>3
<1>5. ASSUME NEW m \in T, m < n
      PROVE  FALSE
  <2>1. 0..m \in SUBSET Nat /\ 0..n \in SUBSET Nat /\ 0..m \subseteq 0..n
    BY <1>5
  <2>2. n \in 0..n /\ n \notin 0..m
    BY <1>5
  <2>3. 0..m # 0..n
    BY <2>2
  <2>4. <<0..m, 0..n>> \in R
    BY <2>1, <2>3, Zenon DEF StrictSubsetOrdering
  <2>. QED
    BY <1>4, <2>4
<1>. QED
  BY <1>5

\* Induction over the naturals, stated for a set.
LEMMA SetInduction ==
  ASSUME NEW S, 0 \in S, \A n \in Nat : n \in S => n + 1 \in S
  PROVE  \A n \in Nat : n \in S
<1>. DEFINE T == {n \in Nat : n \notin S}
<1>. SUFFICES ASSUME T # {} PROVE FALSE
  OBVIOUS
<1>1. PICK n \in T : \A m \in T : n =< m
  BY LeastNumber
<1>2. n # 0
  OBVIOUS
<1>3. n - 1 \in Nat /\ n - 1 \notin T
  BY <1>1, <1>2
<1>. QED
  BY <1>3

-----------------------------------------------------------------------------
\* WebPlatform: the archive.

\* The files of an archive.
Entries == [name : 1..2, size : {0, 1, 100}]

\* The size of an entry is a number.
LEMMA LocalSizeNat == \A e \in Entries : LocalSize(e) \in Nat
BY DEF Entries, LocalSize

\* f adds up the sizes of the entries of s, one after the other, up to n.
SumsTo(f, s, n) ==
  f = [i \in 0..n |-> IF i = 0 THEN 0 ELSE f[i - 1] + LocalSize(s[i])]

\* There is such a function for every n, by induction.
LEMMA SumsExist ==
  ASSUME NEW s
  PROVE  \A n \in Nat : \E f : SumsTo(f, s, n)
<1>. DEFINE S == {n \in Nat : \E f : SumsTo(f, s, n)}
<1>1. 0 \in S
  <2>. DEFINE f == [i \in 0..0 |-> 0]
  <2>1. SumsTo(f, s, 0)
    BY DEF SumsTo
  <2>. QED
    BY <2>1
<1>2. ASSUME NEW n \in Nat, n \in S PROVE n + 1 \in S
  <2>1. PICK f : SumsTo(f, s, n)
    BY <1>2
  <2>. DEFINE g == [i \in 0..(n + 1) |-> IF i = n + 1 THEN f[n] + LocalSize(s[n + 1]) ELSE f[i]]
  <2>2. \A i \in 0..n : f[i] = IF i = 0 THEN 0 ELSE f[i - 1] + LocalSize(s[i])
    BY <2>1 DEF SumsTo
  <2>3. \A i \in 0..n : g[i] = f[i]
    OBVIOUS
  <2>4. g[n + 1] = g[n] + LocalSize(s[n + 1])
    OBVIOUS
  <2>5. \A i \in 0..(n + 1) : g[i] = IF i = 0 THEN 0 ELSE g[i - 1] + LocalSize(s[i])
    <3>. HIDE DEF g
    <3>. SUFFICES ASSUME NEW i \in 0..(n + 1), i # 0
                  PROVE  g[i] = g[i - 1] + LocalSize(s[i])
      BY <2>2, <2>3
    <3>1. CASE i = n + 1
      BY <2>4, <3>1
    <3>2. CASE i # n + 1
      <4>1. i \in 0..n /\ i - 1 \in 0..n
        BY <3>2
      <4>. QED
        BY <2>2, <2>3, <4>1
    <3>. QED
      BY <3>1, <3>2
  <2>6. SumsTo(g, s, n + 1)
    BY <2>5 DEF SumsTo
  <2>. QED
    BY <2>6
<1>. HIDE DEF S
<1>3. \A n \in Nat : n \in S
  BY <1>1, <1>2, SetInduction
<1>. QED
  BY <1>3 DEF S

\* Two such functions agree as far as their sequences do.
LEMMA SumsAgree ==
  ASSUME NEW s, NEW t, NEW f, NEW g, NEW n \in Nat, NEW m \in Nat,
         SumsTo(f, s, n), SumsTo(g, t, m),
         NEW k \in Nat, k =< n, k =< m, \A i \in 1..k : s[i] = t[i]
  PROVE  f[k] = g[k]
<1>. DEFINE S == {i \in Nat : i =< k => f[i] = g[i]}
<1>1. \A i \in 0..n : f[i] = IF i = 0 THEN 0 ELSE f[i - 1] + LocalSize(s[i])
  BY DEF SumsTo
<1>2. \A i \in 0..m : g[i] = IF i = 0 THEN 0 ELSE g[i - 1] + LocalSize(t[i])
  BY DEF SumsTo
<1>3. 0 \in S
  BY <1>1, <1>2
<1>4. ASSUME NEW i \in Nat, i \in S PROVE i + 1 \in S
  <2>. SUFFICES ASSUME i + 1 =< k PROVE f[i + 1] = g[i + 1]
    OBVIOUS
  <2>1. f[i] = g[i] /\ s[i + 1] = t[i + 1]
    BY <1>4
  <2>2. f[i + 1] = f[i] + LocalSize(s[i + 1])
    BY <1>1
  <2>3. g[i + 1] = g[i] + LocalSize(t[i + 1])
    BY <1>2
  <2>. QED
    BY <2>1, <2>2, <2>3
<1>. HIDE DEF S
<1>5. k \in S
  BY <1>3, <1>4, SetInduction
<1>. QED
  BY <1>5 DEF S

\* SumOver is the last of the sums.
LEMMA SumIsLast ==
  ASSUME NEW s \in Seq(Entries), NEW f, SumsTo(f, s, Len(s))
  PROVE  SumOver(s, LocalSize) = f[Len(s)]
<1>. DEFINE g == CHOOSE h : SumsTo(h, s, Len(s))
<1>1. SumsTo(g, s, Len(s))
  OBVIOUS
<1>2. SumOver(s, LocalSize) = g[Len(s)]
  BY DEF SumOver, SumsTo
<1>. HIDE DEF g
<1>3. Len(s) \in Nat
  OBVIOUS
<1>. QED
  BY <1>1, <1>2, <1>3, SumsAgree

\* An entry more adds its size.
LEMMA SumAppend ==
  ASSUME NEW s \in Seq(Entries), NEW e \in Entries
  PROVE  SumOver(Append(s, e), LocalSize) = SumOver(s, LocalSize) + LocalSize(e)
<1>. DEFINE t == Append(s, e)
            n == Len(s)
<1>1. n \in Nat /\ t \in Seq(Entries) /\ Len(t) = n + 1 /\ t[n + 1] = e
  OBVIOUS
<1>2. \A i \in 1..n : s[i] = t[i]
  OBVIOUS
<1>. HIDE DEF t
<1>3. PICK f : SumsTo(f, s, n)
  BY <1>1, SumsExist
<1>4. PICK g : SumsTo(g, t, n + 1)
  BY <1>1, SumsExist
<1>5. SumOver(s, LocalSize) = f[n]
  BY <1>3, SumIsLast
<1>6. SumOver(t, LocalSize) = g[n + 1]
  BY <1>1, <1>4, SumIsLast
<1>7. f[n] = g[n]
  <2>. HIDE DEF n
  <2>1. n + 1 \in Nat /\ n =< n /\ n =< n + 1
    BY <1>1
  <2>. QED
    BY <1>1, <1>2, <1>3, <1>4, <2>1, SumsAgree
<1>8. g[n + 1] = g[n] + LocalSize(t[n + 1])
  <2>. HIDE DEF n
  <2>1. n + 1 \in 0..(n + 1) /\ n + 1 # 0 /\ (n + 1) - 1 = n
    BY <1>1
  <2>2. \A i \in 0..(n + 1) : g[i] = IF i = 0 THEN 0 ELSE g[i - 1] + LocalSize(t[i])
    BY <1>4 DEF SumsTo
  <2>. QED
    BY <2>1, <2>2
<1>. QED
  BY <1>1, <1>5, <1>6, <1>7, <1>8 DEF t

\* The sum over no entries.
LEMMA SumEmpty == SumOver(<<>>, LocalSize) = 0
<1>. DEFINE s == <<>>
<1>1. s \in Seq(Entries) /\ Len(s) = 0
  OBVIOUS
<1>2. PICK f : SumsTo(f, s, 0)
  BY SumsExist
<1>3. f[0] = 0
  BY <1>2 DEF SumsTo
<1>. HIDE DEF s
<1>4. SumOver(s, LocalSize) = f[0]
  BY <1>1, <1>2, SumIsLast
<1>. QED
  BY <1>3, <1>4 DEF s

\* Where the local header of entry i begins.
HeaderAt(z, i) == SumOver(SubSeq(z, 1, i - 1), LocalSize)

\* An entry that is added leaves the headers of the others where they are.
LEMMA HeadersStay ==
  ASSUME NEW z \in Seq(Entries), NEW e \in Entries
  PROVE  /\ \A i \in DOMAIN z : HeaderAt(Append(z, e), i) = HeaderAt(z, i)
         /\ HeaderAt(Append(z, e), Len(z) + 1) = SumOver(z, LocalSize)
<1>1. ASSUME NEW i \in 1..(Len(z) + 1)
      PROVE  SubSeq(Append(z, e), 1, i - 1) = SubSeq(z, 1, i - 1)
  OBVIOUS
<1>2. SubSeq(z, 1, Len(z)) = z
  OBVIOUS
<1>3. \A i \in DOMAIN z : SubSeq(Append(z, e), 1, i - 1) = SubSeq(z, 1, i - 1)
  BY <1>1
<1>4. SubSeq(Append(z, e), 1, (Len(z) + 1) - 1) = z
  <2>1. Len(z) + 1 \in 1..(Len(z) + 1) /\ (Len(z) + 1) - 1 = Len(z)
    OBVIOUS
  <2>. QED
    BY <1>1, <1>2, <2>1
<1>. QED
  BY <1>3, <1>4 DEF HeaderAt

\* Up to the wrap of the 32-bit fields, the directory points at the headers
\* and the offset is the size so far.
ZipInv ==
  /\ zentries \in Seq(Entries) /\ zcentral \in Seq(Nat) /\ Len(zcentral) = Len(zentries)
  /\ zoffset \in Nat /\ zoffset = SumOver(zentries, LocalSize)
  /\ \A i \in DOMAIN zentries :
       /\ HeaderAt(zentries, i) \in 0..zoffset
       /\ zcentral[i] = HeaderAt(zentries, i) % W32
  /\ zend # <<>> => zend[1] = Len(zentries) % W16 /\ zend[3] = zoffset % W32

\* An entry that is added is recorded at its own header.
LEMMA ZipAdds ==
  ASSUME ZipInv, NEW e \in Entries, AddEntry(e)
  PROVE  ZipInv'
<1>. DEFINE n == Len(zentries) + 1
            o == zoffset % W32
<1>1. /\ zend = <<>> /\ zentries' = Append(zentries, e) /\ zcentral' = Append(zcentral, o)
      /\ zoffset' = zoffset + LocalSize(e) /\ zend' = zend
  BY DEF AddEntry
<1>2. /\ zentries \in Seq(Entries) /\ zcentral \in Seq(Nat) /\ Len(zcentral) = Len(zentries)
      /\ zoffset \in Nat /\ zoffset = SumOver(zentries, LocalSize)
  BY DEF ZipInv
<1>3. o \in Nat
  BY <1>2, WebAssumption
<1>. HIDE DEF o
<1>4. LocalSize(e) \in Nat
  BY LocalSizeNat
<1>5. zoffset' \in Nat /\ zoffset =< zoffset'
  <2>1. zoffset \in Nat /\ zoffset' = zoffset + LocalSize(e)
    BY <1>1, <1>2
  <2>. QED
    BY <1>4, <2>1
<1>6. zoffset' = SumOver(zentries', LocalSize)
  <2>1. SumOver(zentries', LocalSize) = SumOver(zentries, LocalSize) + LocalSize(e)
    BY <1>1, <1>2, SumAppend
  <2>. QED
    BY <1>1, <1>2, <2>1
<1>7. zentries' \in Seq(Entries) /\ zcentral' \in Seq(Nat) /\ Len(zcentral') = Len(zentries')
  BY <1>1, <1>2, <1>3
<1>8. DOMAIN zentries' = DOMAIN zentries \cup {n} /\ zcentral'[n] = o
  BY <1>1, <1>2, <1>3
<1>9. \A i \in DOMAIN zentries : zcentral'[i] = zcentral[i]
  BY <1>1, <1>2, <1>3
<1>10. /\ \A i \in DOMAIN zentries : HeaderAt(zentries', i) = HeaderAt(zentries, i)
       /\ HeaderAt(zentries', n) = zoffset
  BY <1>1, <1>2, HeadersStay
<1>11. ASSUME NEW i \in DOMAIN zentries'
       PROVE  /\ HeaderAt(zentries', i) \in 0..zoffset'
              /\ zcentral'[i] = HeaderAt(zentries', i) % W32
  <2>1. CASE i = n
    BY <1>2, <1>5, <1>8, <1>10, <2>1 DEF o
  <2>2. CASE i # n
    <3>1. i \in DOMAIN zentries
      BY <1>8, <2>2
    <3>2. HeaderAt(zentries, i) \in 0..zoffset /\ zcentral[i] = HeaderAt(zentries, i) % W32
      BY <3>1 DEF ZipInv
    <3>. QED
      BY <1>2, <1>5, <1>9, <1>10, <3>1, <3>2
  <2>. QED
    BY <2>1, <2>2
<1>12. zend' = <<>>
  BY <1>1
<1>. QED
  BY <1>5, <1>6, <1>7, <1>11, <1>12 DEF ZipInv

\* The end record counts the entries and points behind them.
LEMMA ZipEnds ==
  ASSUME ZipInv, BuildEndOfCentralDirectory
  PROVE  ZipInv'
<1>. DEFINE m == SumOver(zentries, CentralSize) % W32
<1>1. /\ zend' = <<Len(zentries) % W16, m, zoffset % W32>>
      /\ UNCHANGED <<zentries, zoffset, zcentral>>
  BY DEF BuildEndOfCentralDirectory
<1>. HIDE DEF m
<1>2. zend'[1] = Len(zentries') % W16 /\ zend'[3] = zoffset' % W32
  BY <1>1
<1>. QED
  BY <1>1, <1>2 DEF ZipInv

\* The invariant of the archive is inductive.
LEMMA ZipStep ==
  ASSUME ZipInv, [ZipNext]_zipVars
  PROVE  ZipInv'
<1>1. CASE UNCHANGED zipVars
  BY <1>1 DEF zipVars, ZipInv
<1>. QED
  BY <1>1, ZipAdds, ZipEnds DEF ZipNext, Entries

\* It holds for the empty archive.
LEMMA ZipStart == WInit => ZipInv
<1>. SUFFICES ASSUME WInit PROVE ZipInv
  OBVIOUS
<1>1. zentries = <<>> /\ zoffset = 0 /\ zcentral = <<>> /\ zend = <<>>
  BY DEF WInit
<1>. QED
  BY <1>1, SumEmpty DEF ZipInv

\* A number below the width is kept by it.
LEMMA NoWrap ==
  ASSUME NEW x \in Nat, NEW m \in Nat \ {0}, x < m
  PROVE  x % m = x
OBVIOUS

\* It implies the property: while size and count fit their fields, nothing wraps.
LEMMA ZipGoal == ZipInv => ZipReadable
<1>. SUFFICES ASSUME ZipInv, zend # <<>>, SumOver(zentries, LocalSize) < W32, Len(zentries) < W16
              PROVE  /\ \A i \in DOMAIN zentries :
                          zcentral[i] = SumOver(SubSeq(zentries, 1, i - 1), LocalSize)
                     /\ zend[1] = Len(zentries)
                     /\ zend[3] = SumOver(zentries, LocalSize)
  BY DEF ZipReadable
<1>1. zoffset \in Nat /\ zoffset = SumOver(zentries, LocalSize) /\ zoffset < W32
  BY DEF ZipInv
<1>2. Len(zentries) \in Nat
  BY DEF ZipInv
<1>3. ASSUME NEW i \in DOMAIN zentries
      PROVE  zcentral[i] = HeaderAt(zentries, i)
  <2>1. HeaderAt(zentries, i) \in 0..zoffset /\ zcentral[i] = HeaderAt(zentries, i) % W32
    BY DEF ZipInv
  <2>2. HeaderAt(zentries, i) \in Nat /\ HeaderAt(zentries, i) < W32
    BY <1>1, <2>1, WebAssumption
  <2>. QED
    BY <2>1, <2>2, NoWrap, WebAssumption
<1>4. zend[1] = Len(zentries) % W16 /\ zend[3] = zoffset % W32
  BY DEF ZipInv
<1>5. zend[1] = Len(zentries) /\ zend[3] = zoffset
  BY <1>1, <1>2, <1>4, NoWrap, WebAssumption
<1>. QED
  BY <1>1, <1>3, <1>5 DEF HeaderAt

-----------------------------------------------------------------------------
\* WebSend: sums over sets (MapThenSumSet).

\* The element that a fold takes first.
Pick(s) == CHOOSE x \in s : TRUE

\* It is one of the set.
LEMMA PickIn == ASSUME NEW s, s # {} PROVE Pick(s) \in s
BY DEF Pick

\* f adds up v over each set of the family F.
SumsFor(f, F, v) ==
  f = [s \in F |-> IF s = {} THEN 0 ELSE v[Pick(s)] + f[s \ {Pick(s)}]]

\* f adds up v over each subset of S.
SumsOver(f, S, v) == SumsFor(f, SUBSET S, v)

\* The subsets of S of at most k elements.
Small(S, k) == {t \in SUBSET S : Cardinality(t) =< k}

\* The smallest and the largest of these families.
LEMMA SmallFacts ==
  ASSUME NEW S, IsFiniteSet(S)
  PROVE  /\ Small(S, 0) = {{}}
         /\ Small(S, Cardinality(S)) = SUBSET S /\ Cardinality(S) \in Nat
         /\ \A t \in SUBSET S : IsFiniteSet(t) /\ Cardinality(t) \in Nat
<1>1. \A t \in SUBSET S : IsFiniteSet(t) /\ Cardinality(t) \in Nat /\ Cardinality(t) =< Cardinality(S)
  BY FS_Subset, FS_CardinalityType
<1>2. Cardinality(S) \in Nat
  BY FS_CardinalityType
<1>3. Small(S, Cardinality(S)) = SUBSET S
  BY <1>1 DEF Small
<1>4. {} \in Small(S, 0)
  BY FS_EmptySet DEF Small
<1>5. \A t \in Small(S, 0) : t = {}
  <2>. SUFFICES ASSUME NEW t \in SUBSET S, Cardinality(t) =< 0 PROVE t = {}
    BY DEF Small
  <2>1. IsFiniteSet(t) /\ Cardinality(t) = 0
    BY <1>1
  <2>. QED
    BY <2>1, FS_EmptySet
<1>. QED
  BY <1>1, <1>2, <1>3, <1>4, <1>5

\* A set without its first element is in the family before.
LEMMA SmallRest ==
  ASSUME NEW S, IsFiniteSet(S), NEW k \in Nat, NEW s \in Small(S, k + 1), s # {}
  PROVE  s \ {Pick(s)} \in Small(S, k)
<1>1. s \in SUBSET S /\ IsFiniteSet(s) /\ Cardinality(s) \in Nat /\ Cardinality(s) =< k + 1
  BY SmallFacts DEF Small
<1>2. Pick(s) \in s
  BY PickIn
<1>3. Cardinality(s \ {Pick(s)}) = Cardinality(s) - 1
  BY <1>1, <1>2, FS_RemoveElement
<1>4. Cardinality(s \ {Pick(s)}) =< k
  BY <1>1, <1>3
<1>. QED
  BY <1>1, <1>4 DEF Small

\* There is such a function over a finite set, by induction on its size.
LEMMA SetSumsExist ==
  ASSUME NEW S, IsFiniteSet(S), NEW v
  PROVE  \E f : SumsOver(f, S, v)
<1>. DEFINE K == {k \in Nat : \E f : SumsFor(f, Small(S, k), v)}
<1>1. 0 \in K
  <2>. DEFINE f == [s \in {{}} |-> 0]
  <2>1. SumsFor(f, {{}}, v)
    BY DEF SumsFor
  <2>. QED
    BY <2>1, SmallFacts
<1>2. ASSUME NEW k \in Nat, k \in K PROVE k + 1 \in K
  <2>1. PICK f : SumsFor(f, Small(S, k), v)
    BY <1>2
  <2>. DEFINE g == [s \in Small(S, k + 1) |-> IF s = {} THEN 0 ELSE v[Pick(s)] + f[s \ {Pick(s)}]]
  <2>2. \A s \in Small(S, k) : f[s] = IF s = {} THEN 0 ELSE v[Pick(s)] + f[s \ {Pick(s)}]
    BY <2>1 DEF SumsFor
  <2>3. Small(S, k) \subseteq Small(S, k + 1)
    BY SmallFacts DEF Small
  <2>4. \A s \in Small(S, k) : g[s] = f[s]
    BY <2>2, <2>3
  <2>5. ASSUME NEW s \in Small(S, k + 1), s # {}
        PROVE  f[s \ {Pick(s)}] = g[s \ {Pick(s)}]
    BY <2>4, <2>5, SmallRest
  <2>6. \A s \in Small(S, k + 1) : g[s] = IF s = {} THEN 0 ELSE v[Pick(s)] + g[s \ {Pick(s)}]
    BY <2>5
  <2>7. DOMAIN g = Small(S, k + 1) /\ g = [s \in Small(S, k + 1) |-> g[s]]
    OBVIOUS
  <2>. HIDE DEF g
  <2>8. SumsFor(g, Small(S, k + 1), v)
    BY <2>6, <2>7 DEF SumsFor
  <2>. QED
    BY <2>8
<1>. HIDE DEF K
<1>3. \A k \in Nat : k \in K
  BY <1>1, <1>2, SetInduction
<1>4. Cardinality(S) \in K
  BY <1>3, SmallFacts
<1>. QED
  BY <1>4, SmallFacts DEF K, SumsOver

\* The sums of numbers are numbers.
LEMMA SetSumsNat ==
  ASSUME NEW S, IsFiniteSet(S), NEW v, \A x \in S : v[x] \in Nat,
         NEW f, SumsOver(f, S, v)
  PROVE  \A s \in SUBSET S : f[s] \in Nat
<1>. DEFINE K == {k \in Nat : \A s \in Small(S, k) : f[s] \in Nat}
<1>1. \A s \in SUBSET S : f[s] = IF s = {} THEN 0 ELSE v[Pick(s)] + f[s \ {Pick(s)}]
  BY DEF SumsOver, SumsFor
<1>2. 0 \in K
  BY <1>1, SmallFacts
<1>3. ASSUME NEW k \in Nat, k \in K PROVE k + 1 \in K
  <2>. SUFFICES ASSUME NEW s \in Small(S, k + 1) PROVE f[s] \in Nat
    OBVIOUS
  <2>1. CASE s = {}
    BY <1>1, <2>1
  <2>2. CASE s # {}
    <3>1. f[s \ {Pick(s)}] \in Nat
      BY <1>3, <2>2, SmallRest
    <3>2. s \in SUBSET S /\ v[Pick(s)] \in Nat
      BY <2>2, PickIn DEF Small
    <3>. QED
      BY <1>1, <2>2, <3>1, <3>2
  <2>. QED
    BY <2>1, <2>2
<1>. HIDE DEF K
<1>4. \A k \in Nat : k \in K
  BY <1>2, <1>3, SetInduction
<1>5. Cardinality(S) \in K
  BY <1>4, SmallFacts
<1>. QED
  BY <1>5, SmallFacts DEF K

\* The sum over one element.
LEMMA SumOfOne ==
  ASSUME NEW S, NEW v, NEW f, SumsOver(f, S, v), NEW x \in S, v[x] \in Nat
  PROVE  f[{x}] = v[x]
<1>1. \A s \in SUBSET S : f[s] = IF s = {} THEN 0 ELSE v[Pick(s)] + f[s \ {Pick(s)}]
  BY DEF SumsOver, SumsFor
<1>2. Pick({x}) = x /\ {x} \ {x} = {}
  BY PickIn
<1>3. f[{}] = 0
  BY <1>1
<1>4. f[{x}] = v[x] + f[{}]
  BY <1>1, <1>2
<1>. QED
  BY <1>3, <1>4

\* The sum over two elements, whichever is taken first.
LEMMA SumOfTwo ==
  ASSUME NEW S, NEW v, NEW f, SumsOver(f, S, v), NEW x \in S, NEW y \in S, x # y,
         v[x] \in Nat, v[y] \in Nat, NEW t, t = {x, y}
  PROVE  f[t] = v[x] + v[y]
<1>1. \A s \in SUBSET S : f[s] = IF s = {} THEN 0 ELSE v[Pick(s)] + f[s \ {Pick(s)}]
  BY DEF SumsOver, SumsFor
<1>2. f[{x}] = v[x] /\ f[{y}] = v[y]
  BY SumOfOne
<1>3. Pick({x, y}) \in {x, y} /\ {x, y} \ {x} = {y} /\ {x, y} \ {y} = {x}
  BY PickIn
<1>4. f[{x, y}] = v[Pick({x, y})] + f[{x, y} \ {Pick({x, y})}]
  BY <1>1
<1>5. CASE Pick({x, y}) = x
  <2>1. f[{x, y}] = v[x] + f[{y}]
    BY <1>3, <1>4, <1>5
  <2>. QED
    BY <1>2, <2>1
<1>6. CASE Pick({x, y}) = y
  <2>1. f[{x, y}] = v[y] + f[{x}]
    BY <1>3, <1>4, <1>6
  <2>. QED
    BY <1>2, <2>1
<1>. QED
  BY <1>3, <1>5, <1>6

-----------------------------------------------------------------------------
\* WebSend: the store and the send.

\* The files under a top path, in a store.
Under(files, p) == {q \in FilePaths : files[q] > 0 /\ (q = p \/ q \in InnerOf(p))}

\* The files a path stands for, in a store.
EntriesIn(files, dirs, p) ==
  IF p \in dirs THEN Under(files, p) ELSE IF files[p] > 0 THEN {p} ELSE {}

\* A choice is the file itself or files of the folder, which are still there.
ChoiceKept(files, p, chosen) ==
  \/ chosen = {p}
  \/ chosen \subseteq InnerOf(p) /\ \A q \in chosen : files[q] > 0

\* Unless a path has leftovers, it stands for what was chosen, or for nothing.
ChoiceHolds(files, dirs, p, chosen) == EntriesIn(files, dirs, p) \in {chosen, {}}

\* The types of the store, the selection and the drop.
HandleTypes ==
  /\ filesByPath \in [FilePaths -> 0..MaxSize] /\ directoryPaths \subseteq TopPaths
  /\ picks \in [TopPaths -> SUBSET FilePaths] /\ leftover \subseteq TopPaths
  /\ selected \in Seq(TopPaths) /\ Len(selected) =< 2
  /\ drop \in TopPaths \cup {NoDrop}

\* The invariant of the store.
StoreInv ==
  /\ HandleTypes
  /\ \A p \in directoryPaths : filesByPath[p] = 0
  /\ \A p \in TopPaths : ChoiceKept(filesByPath, p, picks[p])
  /\ \A p \in TopPaths \ leftover : ChoiceHolds(filesByPath, directoryPaths, p, picks[p])

\* The calls to send.
Sends == [stage : {"idle", "collect", "engine", "shared"}, paths : Seq(TopPaths), at : Nat,
          names : SUBSET FilePaths, bytes : Nat,
          type : {"none", "file", "directory", "collection"}, count : Nat, size : Nat]

\* The bytes of a set of files, and of the first n paths.
Bytes(files, fs) == (CHOOSE h : SumsOver(h, fs, files))[fs]

BytesUpTo(files, dirs, ps, n) ==
  IF n = 0 THEN 0
  ELSE IF n = 1 THEN Bytes(files, EntriesIn(files, dirs, ps[1]))
  ELSE Bytes(files, EntriesIn(files, dirs, ps[1])) + Bytes(files, EntriesIn(files, dirs, ps[2]))

\* What was gathered is what the paths done so far stand for.
Gathered(files, dirs, s) ==
  /\ \A k \in 1..(s.at - 1) : EntriesIn(files, dirs, s.paths[k]) # {}
  /\ s.names = UNION {EntriesIn(files, dirs, s.paths[k]) : k \in 1..(s.at - 1)}
  /\ s.bytes = BytesUpTo(files, dirs, s.paths, s.at - 1)

\* Where a call is, and with what.
AtPath(s) ==
  /\ s.stage # "idle" => Len(s.paths) \in 1..2 /\ s.at \in 1..(Len(s.paths) + 1)
  /\ s.stage \in {"engine", "shared"} => s.at = Len(s.paths) + 1

\* The description is that of what was gathered.
Described(s) ==
  /\ s.size = s.bytes /\ s.count = Len(s.paths)
  /\ s.type = "directory" => s.names # {}
  /\ s.type = "file" => s.names = {s.paths[1]}

\* The invariant of a send: the store did not change under it, or it is marked.
SendInv ==
  /\ send \in Sends /\ touched \in BOOLEAN /\ currentTicket \in BOOLEAN
  /\ AtPath(send)
  /\ send.stage # "idle" /\ ~touched => Gathered(filesByPath, directoryPaths, send)
  /\ send.stage \in {"engine", "shared"} /\ ~touched => Described(send)

\* A path is a top path or an inner one, and folders share no files.
LEMMA PathFacts ==
  /\ \A p \in TopPaths : p \in FilePaths /\ p \notin InnerPaths /\ p # NoDrop
  /\ \A p, r \in TopPaths : p[1] = r[1] => p = r
  /\ \A p \in TopPaths : InnerOf(p) \subseteq FilePaths /\ p \notin InnerOf(p)
  /\ \A p, r \in TopPaths : p # r => InnerOf(p) \cap InnerOf(r) = {}
<1>1. \A p \in TopPaths : p = <<p[1]>>
  BY DEF TopPaths
<1>2. \A q \in InnerPaths : q = <<q[1], q[2]>>
  BY WebSendAssumption
<1>3. \A t, a, b : <<t>> # <<a, b>> /\ <<t>> # <<>>
  OBVIOUS
<1>4. \A p \in TopPaths : p \notin InnerPaths /\ p # NoDrop
  BY <1>1, <1>2, <1>3, Zenon DEF NoDrop
<1>5. \A p, r \in TopPaths : p[1] = r[1] => p = r
  BY <1>1
<1>. QED
  BY <1>4, <1>5 DEF FilePaths, InnerOf

\* A path is under a top path if it is that path or in its folder.
LEMMA PrefixIsUnder ==
  ASSUME NEW p \in TopPaths, NEW q \in FilePaths
  PROVE  IsPrefix(p, q) <=> (q = p \/ q \in InnerOf(p))
<1>1. PICK t \in Tops : p = <<t>>
  BY DEF TopPaths
<1>2. CASE q \in TopPaths
  <2>1. PICK u \in Tops : q = <<u>>
    BY <1>2 DEF TopPaths
  <2>2. IsPrefix(p, q) <=> t = u
    BY <1>1, <2>1 DEF IsPrefix
  <2>. QED
    BY <1>1, <1>2, <2>1, <2>2, PathFacts DEF InnerOf
<1>3. CASE q \in InnerPaths
  <2>1. q = <<q[1], q[2]>>
    BY <1>3, WebSendAssumption
  <2>2. PICK a, b : q = <<a, b>>
    BY <2>1
  <2>3. IsPrefix(p, q) <=> t = a
    BY <1>1, <2>2 DEF IsPrefix
  <2>4. q # p
    BY <1>1, <2>2
  <2>5. q \in InnerOf(p) <=> t = a
    BY <1>1, <1>3, <2>2 DEF InnerOf
  <2>. QED
    BY <2>3, <2>4, <2>5
<1>. QED
  BY <1>2, <1>3 DEF FilePaths

\* The listing by prefix is the files under the path,
LEMMA ListIsUnder ==
  ASSUME NEW p \in TopPaths
  PROVE  ListWebFilesUnderPath(p) = Under(filesByPath, p)
BY PrefixIsUnder DEF ListWebFilesUnderPath, Under

\* also after a step.
LEMMA ListIsUnderNext ==
  ASSUME NEW p \in TopPaths
  PROVE  ListWebFilesUnderPath(p)' = Under(filesByPath', p)
BY PrefixIsUnder DEF ListWebFilesUnderPath, Under

\* What the loop collects for a path.
LEMMA EntriesAre ==
  ASSUME NEW p \in TopPaths
  PROVE  WebEntries(p) = EntriesIn(filesByPath, directoryPaths, p)
BY ListIsUnder DEF WebEntries, EntriesIn, IsWebDirectory, GetWebFile

\* There are finitely many files.
LEMMA FilesFinite == IsFiniteSet(FilePaths) /\ \A s \in SUBSET FilePaths : IsFiniteSet(s)
<1>1. IsFiniteSet(TopPaths)
  <2>. DEFINE f == [t \in Tops |-> <<t>>]
  <2>1. f \in Surjection(Tops, TopPaths)
    BY DEF Surjection, TopPaths
  <2>. QED
    BY <2>1, FS_Surjection, WebSendAssumption
<1>2. IsFiniteSet(FilePaths)
  BY <1>1, FS_Union, WebSendAssumption DEF FilePaths
<1>. QED
  BY <1>2, FS_Subset

\* A sum of sizes is a number, and that of one file its size.
LEMMA TotalFacts ==
  ASSUME NEW S \in SUBSET FilePaths, \A q \in FilePaths : filesByPath[q] \in Nat
  PROVE  /\ TotalSize(S) \in Nat /\ TotalSize(S) = Bytes(filesByPath, S)
         /\ \A p \in FilePaths : S = {p} => TotalSize(S) = filesByPath[p]
<1>. DEFINE g == CHOOSE h : SumsOver(h, S, filesByPath)
<1>1. IsFiniteSet(S)
  BY FilesFinite
<1>2. \E h : SumsOver(h, S, filesByPath)
  BY <1>1, SetSumsExist
<1>3. SumsOver(g, S, filesByPath)
  BY <1>2
<1>4. TotalSize(S) = g[S]
  BY DEF TotalSize, MapThenSumSet, MapThenFoldSet, SumsOver, SumsFor, Pick
<1>7. TotalSize(S) = Bytes(filesByPath, S)
  BY <1>4 DEF Bytes
<1>. HIDE DEF g
<1>5. TotalSize(S) \in Nat
  <2>1. \A s \in SUBSET S : g[s] \in Nat
    BY <1>1, <1>3, SetSumsNat
  <2>. QED
    BY <1>4, <2>1
<1>6. ASSUME NEW p \in FilePaths, S = {p}
      PROVE  TotalSize(S) = filesByPath[p]
  BY <1>3, <1>4, <1>6, SumOfOne
<1>. QED
  BY <1>5, <1>6, <1>7

\* The sum over the paths of a selection of one or two.
LEMMA PathsTotal ==
  ASSUME NEW ps, NEW n \in 1..2, DOMAIN ps = 1..n, \A k \in 1..n : PathSize(ps[k]) \in Nat
  PROVE  /\ n = 1 => TotalSizeForPaths(ps) = PathSize(ps[1])
         /\ n = 2 => TotalSizeForPaths(ps) = PathSize(ps[1]) + PathSize(ps[2])
<1>. DEFINE S == 1..n
            v == [k \in S |-> PathSize(ps[k])]
            Is(f) == f = [s \in SUBSET S |-> IF s = {} THEN 0
                                             ELSE PathSize(ps[Pick(s)]) + f[s \ {Pick(s)}]]
            g == CHOOSE f : Is(f)
<1>1. IsFiniteSet(S)
  BY FS_Interval
<1>2. \A s \in SUBSET S : s # {} => v[Pick(s)] = PathSize(ps[Pick(s)])
  BY PickIn
<1>3. \A k \in S : v[k] = PathSize(ps[k]) /\ v[k] \in Nat
  OBVIOUS
<1>. HIDE DEF v
<1>4. \A f : SumsOver(f, S, v) <=> Is(f)
  BY <1>2 DEF SumsOver, SumsFor
<1>5. Is(g)
  <2>1. PICK f : SumsOver(f, S, v)
    BY <1>1, SetSumsExist
  <2>2. Is(f)
    BY <1>4, <2>1
  <2>. HIDE DEF Is
  <2>. QED
    BY <2>2
<1>6. TotalSizeForPaths(ps) = g[S]
  BY DEF TotalSizeForPaths, MapThenSumSet, MapThenFoldSet, Pick
<1>. HIDE DEF g, Is
<1>7. SumsOver(g, S, v)
  BY <1>4, <1>5
<1>8. CASE n = 1
  <2>1. S = {1} /\ 1 \in S
    BY <1>8
  <2>. HIDE DEF S
  <2>. QED
    BY <1>3, <1>6, <1>7, <1>8, <2>1, SumOfOne
<1>9. CASE n = 2
  <2>1. S = {1, 2} /\ 1 \in S /\ 2 \in S
    BY <1>9
  <2>. HIDE DEF S
  <2>2. v[1] \in Nat /\ v[2] \in Nat /\ v[1] = PathSize(ps[1]) /\ v[2] = PathSize(ps[2]) /\ 1 # 2
    BY <1>3, <2>1
  <2>3. g[S] = v[1] + v[2]
    BY <1>7, <2>1, <2>2, SumOfTwo
  <2>4. TotalSizeForPaths(ps) = PathSize(ps[1]) + PathSize(ps[2])
    BY <1>6, <2>2, <2>3
  <2>. QED
    BY <1>9, <2>4
<1>. QED
  BY <1>8, <1>9

\* What happens at one path leaves what the others stand for.
LEMMA OtherPath ==
  ASSUME NEW p \in TopPaths, NEW r \in TopPaths, p # r, NEW files, NEW newFiles, NEW dirs, NEW newDirs,
         \A q \in FilePaths : q # p /\ q \notin InnerOf(p) => newFiles[q] = files[q],
         r \in newDirs <=> r \in dirs
  PROVE  /\ EntriesIn(newFiles, newDirs, r) = EntriesIn(files, dirs, r)
         /\ \A c : ChoiceKept(files, r, c) => ChoiceKept(newFiles, r, c)
<1>1. r \in FilePaths /\ InnerOf(r) \subseteq FilePaths /\ r \notin InnerOf(p) /\ p \notin InnerOf(r)
  BY PathFacts DEF InnerOf
<1>2. InnerOf(p) \cap InnerOf(r) = {}
  BY PathFacts
<1>3. \A q \in FilePaths : q = r \/ q \in InnerOf(r) => newFiles[q] = files[q]
  BY <1>1, <1>2
<1>4. Under(newFiles, r) = Under(files, r)
  BY <1>3 DEF Under
<1>. QED
  BY <1>1, <1>3, <1>4 DEF EntriesIn, ChoiceKept

\* A step at one path keeps the invariant if it holds at that path.
LEMMA StoreMoves ==
  ASSUME StoreInv, HandleTypes', NEW p \in TopPaths,
         \A q \in FilePaths : q # p /\ q \notin InnerOf(p) => filesByPath'[q] = filesByPath[q],
         \A r \in TopPaths : r # p => /\ r \in directoryPaths' <=> r \in directoryPaths
                                      /\ r \in leftover' <=> r \in leftover
                                      /\ picks'[r] = picks[r],
         p \in directoryPaths' => filesByPath'[p] = 0,
         ChoiceKept(filesByPath', p, picks'[p]),
         p \notin leftover' => ChoiceHolds(filesByPath', directoryPaths', p, picks'[p])
  PROVE  StoreInv'
<1>1. directoryPaths \subseteq TopPaths /\ directoryPaths' \subseteq TopPaths
  BY DEF StoreInv, HandleTypes
<1>2. ASSUME NEW r \in TopPaths, r # p
      PROVE  /\ r \in directoryPaths' => filesByPath'[r] = 0
             /\ ChoiceKept(filesByPath', r, picks'[r])
             /\ r \notin leftover' => ChoiceHolds(filesByPath', directoryPaths', r, picks'[r])
  <2>1. /\ EntriesIn(filesByPath', directoryPaths', r) = EntriesIn(filesByPath, directoryPaths, r)
        /\ \A c : ChoiceKept(filesByPath, r, c) => ChoiceKept(filesByPath', r, c)
    BY <1>2, OtherPath
  <2>2. r \in FilePaths /\ r # p /\ r \notin InnerOf(p)
    BY <1>2, PathFacts DEF InnerOf
  <2>3. filesByPath'[r] = filesByPath[r]
    BY <2>2
  <2>4. r \in directoryPaths' => filesByPath'[r] = 0
    BY <1>2, <2>3 DEF StoreInv
  <2>5. ChoiceKept(filesByPath', r, picks'[r])
    BY <1>2, <2>1 DEF StoreInv
  <2>6. r \notin leftover' => ChoiceHolds(filesByPath', directoryPaths', r, picks'[r])
    BY <1>2, <2>1 DEF StoreInv, ChoiceHolds
  <2>. QED
    BY <2>4, <2>5, <2>6
<1>3. \A r \in TopPaths : /\ r \in directoryPaths' => filesByPath'[r] = 0
                          /\ ChoiceKept(filesByPath', r, picks'[r])
                          /\ r \notin leftover' => ChoiceHolds(filesByPath', directoryPaths', r, picks'[r])
  BY <1>2
<1>. QED
  BY <1>1, <1>3 DEF StoreInv

\* The selection holds at most two paths.
LEMMA SelectTypes ==
  ASSUME NEW p \in TopPaths, selected \in Seq(TopPaths), Len(selected) =< 2, Select(p)
  PROVE  selected' \in Seq(TopPaths) /\ Len(selected') =< 2
<1>1. CASE selected' = <<p>>
  BY <1>1
<1>2. CASE Len(selected) = 1 /\ selected' = Append(selected, p)
  <2>1. Append(selected, p) \in Seq(TopPaths) /\ Len(Append(selected, p)) = Len(selected) + 1
    OBVIOUS
  <2>. QED
    BY <1>2, <2>1
<1>. QED
  BY <1>1, <1>2 DEF Select

\* A file that is picked stands for itself.
LEMMA PickFileStore ==
  ASSUME StoreInv, NEW p \in TopPaths, NEW s \in 1..MaxSize, PickFile(p, s)
  PROVE  StoreInv'
<1>0. MaxSize \in Nat /\ s \in 0..MaxSize /\ s > 0 /\ p \in FilePaths /\ {p} \in SUBSET FilePaths
  BY WebSendAssumption, PathFacts
<1>1. HandleTypes'
  <2>1. filesByPath' \in [FilePaths -> 0..MaxSize]
    BY <1>0 DEF PickFile, StoreInv, HandleTypes
  <2>2. picks' \in [TopPaths -> SUBSET FilePaths]
    BY <1>0 DEF PickFile, StoreInv, HandleTypes
  <2>3. selected' \in Seq(TopPaths) /\ Len(selected') =< 2
    BY SelectTypes DEF PickFile, StoreInv, HandleTypes
  <2>. QED
    BY <2>1, <2>2, <2>3 DEF PickFile, StoreInv, HandleTypes
<1>2. filesByPath'[p] = s /\ picks'[p] = {p} /\ p \notin directoryPaths'
  BY <1>0 DEF PickFile, StoreInv, HandleTypes
<1>3. ChoiceKept(filesByPath', p, picks'[p])
  BY <1>2 DEF ChoiceKept
<1>4. ChoiceHolds(filesByPath', directoryPaths', p, picks'[p])
  BY <1>0, <1>2 DEF ChoiceHolds, EntriesIn
<1>5. \A q \in FilePaths : q # p /\ q \notin InnerOf(p) => filesByPath'[q] = filesByPath[q]
  BY DEF PickFile, StoreInv, HandleTypes
<1>6. \A r \in TopPaths : r # p => /\ r \in directoryPaths' <=> r \in directoryPaths
                                   /\ r \in leftover' <=> r \in leftover
                                   /\ picks'[r] = picks[r]
  BY DEF PickFile, StoreInv, HandleTypes
<1>. QED
  BY <1>1, <1>2, <1>3, <1>4, <1>5, <1>6, StoreMoves

\* A folder's files are those chosen, when nothing else is left there.
LEMMA FolderHolds ==
  ASSUME NEW p \in TopPaths, NEW files, NEW dirs, NEW within \in SUBSET InnerOf(p),
         \A q \in within : files[q] > 0, Under(files, p) \subseteq within
  PROVE  EntriesIn(files, dirs, p) \in {within, {}}
<1>1. within \subseteq Under(files, p)
  BY PathFacts DEF Under
<1>2. p \notin within /\ p \in FilePaths
  BY PathFacts
<1>3. files[p] > 0 => p \in Under(files, p)
  BY <1>2 DEF Under
<1>. QED
  BY <1>1, <1>2, <1>3 DEF EntriesIn

\* A folder that is picked stands for its files, unless there are leftovers.
LEMMA PickFolderStore ==
  ASSUME StoreInv, NEW p \in TopPaths, NEW s \in 1..MaxSize, NEW within \in SUBSET InnerOf(p),
         PickFolder(p, within, s)
  PROVE  StoreInv'
<1>0. MaxSize \in Nat /\ s \in 0..MaxSize /\ s > 0 /\ 0 \in 0..MaxSize
      /\ p \in FilePaths /\ within \in SUBSET FilePaths /\ p \notin within
  BY WebSendAssumption, PathFacts
<1>1. HandleTypes'
  <2>1. filesByPath' \in [FilePaths -> 0..MaxSize]
    BY <1>0 DEF PickFolder, StoreInv, HandleTypes
  <2>2. picks' \in [TopPaths -> SUBSET FilePaths]
    BY <1>0 DEF PickFolder, Chosen, StoreInv, HandleTypes
  <2>3. selected' \in Seq(TopPaths) /\ Len(selected') =< 2
    BY SelectTypes DEF PickFolder, StoreInv, HandleTypes
  <2>. QED
    BY <2>1, <2>2, <2>3 DEF PickFolder, Chosen, StoreInv, HandleTypes
<1>2. filesByPath'[p] = 0 /\ picks'[p] = within /\ \A q \in within : filesByPath'[q] > 0
  BY <1>0 DEF PickFolder, Chosen, StoreInv, HandleTypes
<1>3. ChoiceKept(filesByPath', p, picks'[p])
  BY <1>2 DEF ChoiceKept
<1>4. p \notin leftover' => ChoiceHolds(filesByPath', directoryPaths', p, picks'[p])
  <2>1. p \notin leftover' => Under(filesByPath', p) \subseteq within
    BY ListIsUnderNext DEF PickFolder, Chosen
  <2>. QED
    BY <1>2, <2>1, FolderHolds DEF ChoiceHolds
<1>5. \A q \in FilePaths : q # p /\ q \notin InnerOf(p) => filesByPath'[q] = filesByPath[q]
  BY DEF PickFolder, StoreInv, HandleTypes
<1>6. \A r \in TopPaths : r # p => /\ r \in directoryPaths' <=> r \in directoryPaths
                                   /\ r \in leftover' <=> r \in leftover
                                   /\ picks'[r] = picks[r]
  BY DEF PickFolder, Chosen, StoreInv, HandleTypes
<1>. QED
  BY <1>1, <1>2, <1>3, <1>4, <1>5, <1>6, StoreMoves

\* A folder that is dropped stands for what was chosen there, or for nothing yet.
LEMMA DropFolderStore ==
  ASSUME StoreInv, NEW p \in TopPaths, DropFolder(p)
  PROVE  StoreInv'
<1>0. MaxSize \in Nat /\ 0 \in 0..MaxSize /\ p \in FilePaths /\ p \notin InnerOf(p)
      /\ InnerOf(p) \subseteq FilePaths
  BY WebSendAssumption, PathFacts
<1>1. HandleTypes'
  <2>1. filesByPath' \in [FilePaths -> 0..MaxSize]
    BY <1>0 DEF DropFolder, StoreInv, HandleTypes
  <2>. QED
    BY <2>1 DEF DropFolder, StoreInv, HandleTypes
<1>2. /\ filesByPath'[p] = 0 /\ picks' = picks
      /\ \A q \in FilePaths : q # p => filesByPath'[q] = filesByPath[q]
  BY <1>0 DEF DropFolder, StoreInv, HandleTypes
<1>3. ChoiceKept(filesByPath', p, picks'[p])
  <2>1. ChoiceKept(filesByPath, p, picks[p])
    BY DEF StoreInv
  <2>. QED
    BY <1>0, <1>2, <2>1 DEF ChoiceKept
<1>4. p \notin leftover' => ChoiceHolds(filesByPath', directoryPaths', p, picks'[p])
  <2>1. p \notin leftover' => Under(filesByPath', p) \subseteq picks'[p]
    BY <1>2, ListIsUnderNext DEF DropFolder
  <2>2. CASE picks'[p] = {p}
    <3>1. p \notin Under(filesByPath', p)
      BY <1>2 DEF Under
    <3>2. Under(filesByPath', p) \subseteq {p} => Under(filesByPath', p) = {}
      BY <3>1
    <3>. QED
      BY <1>2, <2>1, <2>2, <3>2 DEF ChoiceHolds, EntriesIn
  <2>3. CASE picks'[p] \subseteq InnerOf(p) /\ \A q \in picks'[p] : filesByPath'[q] > 0
    BY <2>1, <2>3, FolderHolds DEF ChoiceHolds
  <2>. QED
    BY <1>3, <2>2, <2>3 DEF ChoiceKept
<1>5. \A q \in FilePaths : q # p /\ q \notin InnerOf(p) => filesByPath'[q] = filesByPath[q]
  BY <1>2
<1>6. \A r \in TopPaths : r # p => /\ r \in directoryPaths' <=> r \in directoryPaths
                                   /\ r \in leftover' <=> r \in leftover
                                   /\ picks'[r] = picks[r]
  BY DEF DropFolder, StoreInv, HandleTypes
<1>. QED
  BY <1>1, <1>2, <1>3, <1>4, <1>5, <1>6, StoreMoves

\* The entries of a dropped folder are what it stands for, unless there are leftovers.
LEMMA EntriesReadStore ==
  ASSUME StoreInv, NEW p \in TopPaths, NEW s \in 1..MaxSize,
         NEW within \in SUBSET InnerOf(p), EntriesRead(p, within, s)
  PROVE  StoreInv'
<1>0. MaxSize \in Nat /\ s \in 0..MaxSize /\ s > 0
      /\ p \in FilePaths /\ within \in SUBSET FilePaths /\ p \notin within
  BY WebSendAssumption, PathFacts
<1>1. HandleTypes'
  <2>1. filesByPath' \in [FilePaths -> 0..MaxSize]
    BY <1>0 DEF EntriesRead, StoreInv, HandleTypes
  <2>2. picks' \in [TopPaths -> SUBSET FilePaths]
    BY <1>0 DEF EntriesRead, Chosen, StoreInv, HandleTypes
  <2>3. selected' \in Seq(TopPaths) /\ Len(selected') =< 2
    BY SelectTypes DEF EntriesRead, StoreInv, HandleTypes
  <2>4. leftover' \subseteq TopPaths
    BY DEF EntriesRead, Chosen, StoreInv, HandleTypes
  <2>5. directoryPaths' \subseteq TopPaths /\ drop' \in TopPaths \cup {NoDrop}
    BY DEF EntriesRead, StoreInv, HandleTypes
  <2>. QED
    BY <2>1, <2>2, <2>3, <2>4, <2>5 DEF HandleTypes
<1>2. /\ filesByPath'[p] = filesByPath[p] /\ picks'[p] = within /\ directoryPaths' = directoryPaths
      /\ \A q \in within : filesByPath'[q] > 0
  BY <1>0 DEF EntriesRead, Chosen, StoreInv, HandleTypes
<1>3. ChoiceKept(filesByPath', p, picks'[p])
  BY <1>2 DEF ChoiceKept
<1>4. p \notin leftover' => ChoiceHolds(filesByPath', directoryPaths', p, picks'[p])
  <2>1. p \notin leftover' => Under(filesByPath', p) \subseteq within
    BY ListIsUnderNext DEF EntriesRead, Chosen
  <2>. QED
    BY <1>2, <2>1, FolderHolds DEF ChoiceHolds
<1>5. \A q \in FilePaths : q # p /\ q \notin InnerOf(p) => filesByPath'[q] = filesByPath[q]
  BY DEF EntriesRead, StoreInv, HandleTypes
<1>6. \A r \in TopPaths : r # p => /\ r \in directoryPaths' <=> r \in directoryPaths
                                   /\ r \in leftover' <=> r \in leftover
                                   /\ picks'[r] = picks[r]
  BY DEF EntriesRead, Chosen, StoreInv, HandleTypes
<1>7. p \in directoryPaths' => filesByPath'[p] = 0
  BY <1>2 DEF StoreInv
<1>. QED
  BY <1>1, <1>3, <1>4, <1>5, <1>6, <1>7, StoreMoves

\* The store steps change the store and, during a call, mark it.
StoreMove ==
  \/ \E p \in TopPaths, s \in 1..MaxSize :
        \/ PickFile(p, s)
        \/ \E within \in SUBSET InnerOf(p) : PickFolder(p, within, s)
        \/ \E within \in SUBSET InnerOf(p) : EntriesRead(p, within, s)
  \/ \E p \in TopPaths : DropFolder(p)

\* The store steps keep the invariant of the store.
LEMMA StoreMoveStore ==
  ASSUME StoreInv, StoreMove
  PROVE  StoreInv'
BY PickFileStore, PickFolderStore, EntriesReadStore, DropFolderStore DEF StoreMove

\* They leave the call and mark it.
LEMMA StoreMoveSend ==
  ASSUME StoreMove
  PROVE  send' = send /\ currentTicket' = currentTicket /\ touched' = (send.stage # "idle")
BY DEF StoreMove, PickFile, PickFolder, EntriesRead, DropFolder, Touch

\* The other steps leave the store alone.
LEMMA OtherStore ==
  ASSUME StoreInv, UNCHANGED <<filesByPath, directoryPaths, picks, leftover, selected>>,
         drop' \in {drop, NoDrop}
  PROVE  StoreInv'
<1>1. HandleTypes'
  BY DEF StoreInv, HandleTypes
<1>. QED
  BY <1>1 DEF StoreInv

\* A step of the call keeps its invariant if the new call satisfies it.
LEMMA SendMoves ==
  ASSUME SendInv, UNCHANGED <<filesByPath, directoryPaths, touched>>, send' \in Sends,
         currentTicket' \in BOOLEAN, AtPath(send'),
         send'.stage # "idle" /\ ~touched => Gathered(filesByPath, directoryPaths, send'),
         send'.stage \in {"engine", "shared"} /\ ~touched => Described(send')
  PROVE  SendInv'
<1>1. touched' \in BOOLEAN
  BY Zenon DEF SendInv
<1>2. send'.stage # "idle" /\ ~touched' => Gathered(filesByPath', directoryPaths', send')
  OBVIOUS
<1>3. send'.stage \in {"engine", "shared"} /\ ~touched' => Described(send')
  OBVIOUS
<1>. QED
  BY <1>1, <1>2, <1>3, Zenon DEF SendInv

\* No call.
LEMMA NoSendIs ==
  NoSend \in Sends /\ NoSend.stage = "idle" /\ AtPath(NoSend)
<1>1. NoSend.stage = "idle"
  BY DEF NoSend
<1>2. <<>> \in Seq(TopPaths)
  OBVIOUS
<1>3. NoSend \in Sends
  BY <1>2 DEF NoSend, Sends
<1>. QED
  BY <1>1, <1>3 DEF AtPath

\* A call that ends keeps the invariant.
LEMMA StopsSend ==
  ASSUME SendInv, UNCHANGED <<filesByPath, directoryPaths, touched>>, send' = NoSend,
         currentTicket' \in BOOLEAN
  PROVE  SendInv'
<1>1. send' \in Sends /\ send'.stage = "idle" /\ AtPath(send')
  BY NoSendIs
<1>. QED
  BY <1>1, SendMoves

\* During a call, a change of the store marks the call.
LEMMA StoreMoveKeeps ==
  ASSUME SendInv, StoreMove
  PROVE  SendInv'
<1>. DEFINE t == send.stage # "idle"
<1>1. send' = send /\ currentTicket' = currentTicket /\ touched' = t
  BY StoreMoveSend
<1>2. touched' \in BOOLEAN
  <2>1. t \in BOOLEAN
    BY Zenon
  <2>. HIDE DEF t
  <2>. QED
    BY <1>1, <2>1
<1>3. send'.stage # "idle" => touched'
  BY <1>1, Zenon
<1>4. send'.stage \in {"engine", "shared"} => send'.stage # "idle"
  OBVIOUS
<1>. HIDE DEF t
<1>5. send' \in Sends /\ AtPath(send')
  BY <1>1 DEF SendInv
<1>6. currentTicket' \in BOOLEAN
  BY <1>1, Zenon DEF SendInv
<1>. QED
  BY <1>2, <1>3, <1>4, <1>5, <1>6, Zenon DEF SendInv

\* A call that begins has gathered nothing.
LEMMA InvokeKeeps ==
  ASSUME StoreInv, SendInv, InvokeSendItems
  PROVE  SendInv'
<1>1. /\ send'.stage = "collect" /\ send'.paths = selected /\ send'.at = 1 /\ send'.names = {}
      /\ send'.bytes = 0 /\ send' \in Sends
  <2>1. selected \in Seq(TopPaths)
    BY DEF StoreInv, HandleTypes
  <2>. QED
    BY <2>1 DEF InvokeSendItems, NoSend, Sends
<1>2. Len(selected) \in 1..2
  <2>1. selected \in Seq(TopPaths) /\ Len(selected) =< 2 /\ selected # <<>>
    BY DEF StoreInv, HandleTypes, InvokeSendItems
  <2>2. Len(selected) \in Nat /\ Len(selected) # 0
    BY <2>1
  <2>3. \A l \in Nat : l # 0 /\ l =< 2 => l \in 1..2
    OBVIOUS
  <2>. QED
    BY <2>1, <2>2, <2>3
<1>3. AtPath(send')
  BY <1>1, <1>2 DEF AtPath
<1>4. Gathered(filesByPath', directoryPaths', send')
  <2>1. 1..(send'.at - 1) = {} /\ send'.at - 1 = 0
    BY <1>1
  <2>. QED
    BY <1>1, <2>1 DEF Gathered, BytesUpTo
<1>5. touched' \in BOOLEAN /\ currentTicket' \in BOOLEAN
  BY Zenon DEF InvokeSendItems, SendInv
<1>6. send'.stage \notin {"engine", "shared"}
  BY <1>1
<1>. QED
  BY <1>1, <1>3, <1>4, <1>5, <1>6, Zenon DEF SendInv

\* One more path of the selection.
LEMMA CollectKeeps ==
  ASSUME StoreInv, SendInv, NEW readable, CollectPath(readable)
  PROVE  SendInv'
<1>. DEFINE entries == WebEntries(send.paths[send.at])
            F == filesByPath
            D == directoryPaths
            ps == send.paths
            n == send.at
<1>1. UNCHANGED <<filesByPath, directoryPaths, touched>> /\ currentTicket' = currentTicket
  BY DEF CollectPath
<1>2. currentTicket' \in BOOLEAN
  BY <1>1, Zenon DEF SendInv
<1>3. send \in Sends /\ AtPath(send) /\ send.stage = "collect" /\ n =< Len(ps)
  BY DEF CollectPath, SendInv
<1>4. ps \in Seq(TopPaths) /\ Len(ps) \in 1..2 /\ n \in 1..Len(ps) /\ n \in Nat /\ send.names \in SUBSET FilePaths
      /\ send.bytes \in Nat
  BY <1>3 DEF Sends, AtPath
<1>5. ps[n] \in TopPaths
  BY <1>4
<1>6. entries = EntriesIn(F, D, ps[n]) /\ entries \in SUBSET FilePaths
  <2>1. ps[n] \in FilePaths
    BY <1>5, PathFacts
  <2>2. EntriesIn(F, D, ps[n]) \in SUBSET FilePaths
    BY <2>1 DEF EntriesIn, Under
  <2>. QED
    BY <1>5, <2>2, EntriesAre
<1>7. TotalSize(entries) \in Nat /\ TotalSize(entries) = Bytes(F, entries)
  <2>1. \A q \in FilePaths : filesByPath[q] \in Nat
    BY WebSendAssumption DEF StoreInv, HandleTypes
  <2>. QED
    BY <1>6, <2>1, TotalFacts
<1>8. CASE send' = NoSend
  BY <1>1, <1>2, <1>8, StopsSend
<1>9. CASE /\ entries # {}
           /\ send' = [send EXCEPT !.at = @ + 1, !.names = @ \cup entries,
                                   !.bytes = @ + TotalSize(entries)]
  <2>. HIDE DEF entries
  <2>1. /\ send'.stage = "collect" /\ send'.paths = ps /\ send'.at = n + 1
        /\ send'.names = send.names \cup entries /\ send'.bytes = send.bytes + TotalSize(entries)
        /\ send' \in Sends
    <3>1. n + 1 \in Nat /\ send.names \cup entries \in SUBSET FilePaths
          /\ send.bytes + TotalSize(entries) \in Nat
      BY <1>4, <1>6, <1>7
    <3>. QED
      BY <1>3, <1>9, <3>1 DEF Sends
  <2>2. AtPath(send')
    BY <1>4, <2>1 DEF AtPath
  <2>3. ASSUME ~touched PROVE Gathered(F, D, send')
    <3>1. Gathered(F, D, send)
      BY <1>3, <2>3 DEF SendInv
    <3>2. send'.at - 1 = n /\ 1..n = 1..(n - 1) \cup {n}
      BY <1>4, <2>1
    <3>3. \A k \in 1..n : EntriesIn(F, D, ps[k]) # {}
      BY <1>4, <1>6, <1>9, <3>1, <3>2 DEF Gathered
    <3>4. send'.names = UNION {EntriesIn(F, D, ps[k]) : k \in 1..n}
      <4>1. send.names = UNION {EntriesIn(F, D, ps[k]) : k \in 1..(n - 1)}
        BY <3>1 DEF Gathered
      <4>2. UNION {EntriesIn(F, D, ps[k]) : k \in 1..(n - 1) \cup {n}}
              = (UNION {EntriesIn(F, D, ps[k]) : k \in 1..(n - 1)}) \cup EntriesIn(F, D, ps[n])
        OBVIOUS
      <4>. QED
        BY <1>6, <2>1, <3>2, <4>1, <4>2
    <3>5. send'.bytes = BytesUpTo(F, D, ps, n)
      <4>1. send.bytes = BytesUpTo(F, D, ps, n - 1)
        BY <3>1 DEF Gathered
      <4>2. n = 1 \/ n = 2
        <5>1. \A l \in 1..2, m \in Nat : m \in 1..l => m = 1 \/ m = 2
          OBVIOUS
        <5>. HIDE DEF n, ps
        <5>. QED
          BY <1>4, <5>1
      <4>3. CASE n = 1
        <5>1. send.bytes = 0
          BY <4>1, <4>3 DEF BytesUpTo
        <5>. QED
          BY <1>6, <1>7, <2>1, <4>3, <5>1 DEF BytesUpTo
      <4>4. CASE n = 2
        <5>1. send.bytes = Bytes(F, EntriesIn(F, D, ps[1]))
          BY <4>1, <4>4 DEF BytesUpTo
        <5>. QED
          BY <1>6, <1>7, <2>1, <4>4, <5>1 DEF BytesUpTo
      <4>. QED
        BY <4>2, <4>3, <4>4
    <3>. QED
      BY <2>1, <3>2, <3>3, <3>4, <3>5 DEF Gathered
  <2>4. send'.stage \notin {"engine", "shared"}
    BY <2>1
  <2>. QED
    BY <1>1, <1>2, <2>1, <2>2, <2>3, <2>4, SendMoves
<1>. QED
  BY <1>8, <1>9 DEF CollectPath

\* The size of a path that stands for something is that of its files.
LEMMA PathSizeIs ==
  ASSUME StoreInv, NEW p \in TopPaths
  PROVE  /\ PathSize(p) \in Nat
         /\ EntriesIn(filesByPath, directoryPaths, p) # {}
               => PathSize(p) = Bytes(filesByPath, EntriesIn(filesByPath, directoryPaths, p))
<1>1. \A q \in FilePaths : filesByPath[q] \in Nat
  BY WebSendAssumption DEF StoreInv, HandleTypes
<1>2. p \in FilePaths
  BY PathFacts
<1>3. CASE p \in directoryPaths
  <2>1. PathSize(p) = TotalSize(Under(filesByPath, p))
    BY <1>3, ListIsUnder DEF PathSize, IsWebDirectory
  <2>2. Under(filesByPath, p) \in SUBSET FilePaths
    BY DEF Under
  <2>3. TotalSize(Under(filesByPath, p)) \in Nat
        /\ TotalSize(Under(filesByPath, p)) = Bytes(filesByPath, Under(filesByPath, p))
    BY <1>1, <2>2, TotalFacts
  <2>. QED
    BY <1>3, <2>1, <2>3 DEF EntriesIn
<1>4. CASE p \notin directoryPaths
  <2>1. PathSize(p) = filesByPath[p]
    BY <1>4 DEF PathSize, IsWebDirectory, GetWebFile
  <2>2. EntriesIn(filesByPath, directoryPaths, p) # {} => EntriesIn(filesByPath, directoryPaths, p) = {p}
    BY <1>4 DEF EntriesIn
  <2>3. {p} \in SUBSET FilePaths
    BY <1>2
  <2>4. TotalSize({p}) = Bytes(filesByPath, {p}) /\ TotalSize({p}) = filesByPath[p]
    BY <1>1, <1>2, <2>3, TotalFacts
  <2>. QED
    BY <1>1, <1>2, <2>1, <2>2, <2>4
<1>. QED
  BY <1>3, <1>4

\* The description, computed after the last await from the same store.
LEMMA DescribeKeeps ==
  ASSUME StoreInv, SendInv, DescribePayload
  PROVE  SendInv'
<1>. DEFINE F == filesByPath
            D == directoryPaths
            ps == send.paths
            items == PreviewItems(ps)
            c == IF Len(ps) = 1 THEN 1 ELSE Cardinality(items)
            z == TotalSizeForPaths(ps)
            ty == WebSendEntryType(ps)
<1>1. UNCHANGED <<filesByPath, directoryPaths, touched>> /\ currentTicket' = currentTicket
  BY DEF DescribePayload
<1>2. currentTicket' \in BOOLEAN
  BY <1>1, Zenon DEF SendInv
<1>3. send \in Sends /\ AtPath(send) /\ send.stage = "collect" /\ send.at > Len(ps)
  BY DEF DescribePayload, SendInv
<1>4. ps \in Seq(TopPaths) /\ Len(ps) \in 1..2 /\ send.at = Len(ps) + 1 /\ Len(ps) \in Nat
  <2>1. ps \in Seq(TopPaths) /\ Len(ps) \in 1..2 /\ send.at \in 1..(Len(ps) + 1)
    BY <1>3 DEF Sends, AtPath
  <2>2. \A l \in 1..2 : \A m \in 1..(l + 1) : m > l => m = l + 1
    OBVIOUS
  <2>. HIDE DEF ps
  <2>. QED
    BY <1>3, <2>1, <2>2
<1>5. Len(ps) = 1 \/ Len(ps) = 2
  <2>1. \A l \in 1..2 : l = 1 \/ l = 2
    OBVIOUS
  <2>. QED
    BY <1>4, <2>1
<1>6. DOMAIN ps = 1..Len(ps) /\ \A k \in 1..Len(ps) : ps[k] \in TopPaths
  BY <1>4
<1>7. 1 \in 1..Len(ps) /\ (Len(ps) = 2 => 2 \in 1..Len(ps))
  BY <1>5
<1>8. \A k \in 1..Len(ps) : PathSize(ps[k]) \in Nat
  BY <1>6, PathSizeIs
<1>9. /\ Len(ps) = 1 => z = PathSize(ps[1])
      /\ Len(ps) = 2 => z = PathSize(ps[1]) + PathSize(ps[2])
  BY <1>4, <1>6, <1>8, PathsTotal
<1>10. z \in Nat
  <2>1. CASE Len(ps) = 1
    BY <1>7, <1>8, <1>9, <2>1
  <2>2. CASE Len(ps) = 2
    <3>1. PathSize(ps[1]) \in Nat /\ PathSize(ps[2]) \in Nat
      BY <1>7, <1>8, <2>2
    <3>2. \A a, b \in Nat : a + b \in Nat
      OBVIOUS
    <3>. QED
      BY <1>9, <2>2, <3>1, <3>2
  <2>. QED
    BY <1>5, <2>1, <2>2
<1>11. c \in Nat
  <2>1. items \subseteq 1..Len(ps)
    BY <1>6 DEF PreviewItems
  <2>2. IsFiniteSet(1..Len(ps))
    BY <1>4, FS_Interval
  <2>3. IsFiniteSet(items)
    BY <2>1, <2>2, FS_Subset
  <2>4. Cardinality(items) \in Nat
    BY <2>3, FS_CardinalityType
  <2>. QED
    BY <2>4
<1>12. ty \in {"none", "file", "directory", "collection"}
  BY DEF WebSendEntryType
<1>13. CASE send' = NoSend
  BY <1>1, <1>2, <1>13, StopsSend
<1>14. CASE send' = [send EXCEPT !.stage = "engine", !.type = ty, !.count = c, !.size = z]
  <2>1. /\ send'.stage = "engine" /\ send'.paths = ps /\ send'.at = send.at /\ send'.names = send.names
        /\ send'.bytes = send.bytes /\ send'.type = ty /\ send'.count = c /\ send'.size = z
        /\ send' \in Sends
    <3>. HIDE DEF c, z, ty, items
    <3>. QED
      BY <1>3, <1>10, <1>11, <1>12, <1>14 DEF Sends
  <2>. HIDE DEF c, z, ty
  <2>2. AtPath(send')
    BY <1>3, <1>4, <2>1 DEF AtPath
  <2>3. ASSUME ~touched PROVE Gathered(F, D, send) /\ Gathered(F, D, send')
    <3>1. Gathered(F, D, send)
      BY <1>3, <2>3 DEF SendInv
    <3>. QED
      BY <2>1, <3>1 DEF Gathered
  <2>4. ASSUME ~touched PROVE Described(send')
    <3>1. send.at - 1 = Len(ps)
      BY <1>4
    <3>2. /\ \A k \in 1..Len(ps) : EntriesIn(F, D, ps[k]) # {}
          /\ send.names = UNION {EntriesIn(F, D, ps[k]) : k \in 1..Len(ps)}
          /\ send.bytes = BytesUpTo(F, D, ps, Len(ps))
      BY <2>3, <2>4, <3>1 DEF Gathered
    <3>3. \A k \in 1..Len(ps) : PathSize(ps[k]) = Bytes(F, EntriesIn(F, D, ps[k]))
      BY <1>6, <3>2, PathSizeIs
    <3>4. z = send.bytes
      BY <1>5, <1>7, <1>9, <3>2, <3>3 DEF BytesUpTo
    <3>5. c = Len(ps)
      <4>1. CASE Len(ps) = 1
        BY <4>1 DEF c
      <4>2. CASE Len(ps) = 2
        <5>1. items = DOMAIN ps
          <6>1. \A k \in DOMAIN ps : IsWebDirectory(ps[k]) \/ GetWebFile(ps[k]) > 0
            BY <1>6, <3>2 DEF EntriesIn, IsWebDirectory, GetWebFile
          <6>. QED
            BY <6>1 DEF PreviewItems
        <5>2. items = 1..2
          BY <1>6, <4>2, <5>1
        <5>3. Cardinality(1..2) = 2
          <6>1. 1 \in Int /\ 2 \in Int /\ ~(1 > 2) /\ 2 - 1 + 1 = 2
            OBVIOUS
          <6>2. Cardinality(1..2) = IF 1 > 2 THEN 0 ELSE 2 - 1 + 1
            BY <6>1, FS_Interval, Zenon
          <6>. QED
            BY <6>2
        <5>. QED
          BY <4>2, <5>2, <5>3 DEF c
      <4>. QED
        BY <1>5, <4>1, <4>2
    <3>6. Len(ps) = 1 => send.names = EntriesIn(F, D, ps[1])
      <4>1. CASE Len(ps) = 1
        <5>1. 1..Len(ps) = {1}
          BY <4>1
        <5>. QED
          BY <3>2, <5>1
      <4>. QED
        BY <4>1
    <3>7. ty = "directory" => send.names # {}
      <4>1. ty = "directory" => Len(ps) = 1
        BY <1>5 DEF ty, WebSendEntryType
      <4>. QED
        BY <1>7, <3>2, <3>6, <4>1
    <3>8. ty = "file" => send.names = {ps[1]}
      <4>1. ty = "file" => Len(ps) = 1 /\ ps[1] \notin D
        BY <1>5 DEF ty, WebSendEntryType, IsWebDirectory
      <4>2. ps[1] \notin D => EntriesIn(F, D, ps[1]) \in {{ps[1]}, {}}
        BY DEF EntriesIn
      <4>. QED
        BY <1>7, <3>2, <3>6, <4>1, <4>2
    <3>. QED
      BY <2>1, <3>4, <3>5, <3>7, <3>8 DEF Described
  <2>. QED
    BY <1>1, <1>2, <2>1, <2>2, <2>3, <2>4, SendMoves
<1>. QED
  BY <1>13, <1>14 DEF DescribePayload

\* The engine's answer leaves payload and description as they are.
LEMMA EngineKeeps ==
  ASSUME SendInv, NEW ok \in BOOLEAN, WasmSendItems(ok)
  PROVE  SendInv'
<1>1. UNCHANGED <<filesByPath, directoryPaths, touched>>
  BY DEF WasmSendItems
<1>2. currentTicket' \in BOOLEAN
  BY Zenon DEF WasmSendItems, SendInv
<1>3. send \in Sends /\ AtPath(send) /\ send.stage = "engine"
  BY DEF WasmSendItems, SendInv
<1>4. CASE send' = NoSend
  BY <1>1, <1>2, <1>4, StopsSend
<1>5. CASE send' = [send EXCEPT !.stage = "shared"]
  <2>1. /\ send'.stage = "shared" /\ send'.paths = send.paths /\ send'.at = send.at
        /\ send'.names = send.names /\ send'.bytes = send.bytes /\ send'.type = send.type
        /\ send'.count = send.count /\ send'.size = send.size /\ send' \in Sends
    BY <1>3, <1>5 DEF Sends
  <2>2. AtPath(send')
    BY <1>3, <2>1 DEF AtPath
  <2>3. ASSUME ~touched PROVE Gathered(filesByPath, directoryPaths, send') /\ Described(send')
    <3>1. Gathered(filesByPath, directoryPaths, send) /\ Described(send)
      BY <1>3, <2>3 DEF SendInv
    <3>2. Gathered(filesByPath, directoryPaths, send')
      BY <2>1, <3>1 DEF Gathered
    <3>3. Described(send')
      BY <2>1, <3>1 DEF Described
    <3>. QED
      BY <3>2, <3>3
  <2>. QED
    BY <1>1, <1>2, <2>1, <2>2, <2>3, SendMoves
<1>. QED
  BY <1>4, <1>5 DEF WasmSendItems

\* The invariants of store and send are inductive.
LEMMA SendStep ==
  ASSUME StoreInv, SendInv, [WebSendNext]_webSendVars
  PROVE  StoreInv' /\ SendInv'
<1>1. CASE StoreMove
  BY <1>1, StoreMoveStore, StoreMoveKeeps
<1>2. CASE EntriesUnreadable
  <2>1. StoreInv'
    BY <1>2, OtherStore DEF EntriesUnreadable
  <2>2. send' = send /\ touched' = touched /\ currentTicket' = currentTicket
        /\ filesByPath' = filesByPath /\ directoryPaths' = directoryPaths
    BY <1>2 DEF EntriesUnreadable
  <2>. QED
    BY <2>1, <2>2, Zenon DEF SendInv
<1>3. CASE InvokeSendItems
  BY <1>3, InvokeKeeps, OtherStore DEF InvokeSendItems
<1>4. CASE CollectPath(TRUE) \/ CollectPath(FALSE)
  <2>1. SendInv'
    BY <1>4, CollectKeeps
  <2>2. StoreInv'
    BY <1>4, OtherStore DEF CollectPath
  <2>. QED
    BY <2>1, <2>2
<1>5. CASE DescribePayload
  BY <1>5, DescribeKeeps, OtherStore DEF DescribePayload
<1>6. CASE WasmSendItems(TRUE) \/ WasmSendItems(FALSE)
  <2>1. TRUE \in BOOLEAN /\ FALSE \in BOOLEAN
    BY Zenon
  <2>2. SendInv'
    BY <1>6, <2>1, EngineKeeps
  <2>3. StoreInv'
    BY <1>6, OtherStore DEF WasmSendItems
  <2>. QED
    BY <2>2, <2>3
<1>7. CASE WasmStopSharing
  <2>1. send' = NoSend /\ UNCHANGED <<filesByPath, directoryPaths, touched>>
    BY <1>7 DEF WasmStopSharing
  <2>2. currentTicket' \in BOOLEAN
    BY <1>7, Zenon DEF WasmStopSharing
  <2>3. SendInv'
    BY <2>1, <2>2, StopsSend
  <2>4. StoreInv'
    BY <1>7, OtherStore DEF WasmStopSharing
  <2>. QED
    BY <2>3, <2>4
<1>8. CASE UNCHANGED webSendVars
  <2>1. send' = send /\ touched' = touched /\ currentTicket' = currentTicket
        /\ filesByPath' = filesByPath /\ directoryPaths' = directoryPaths
    BY <1>8 DEF webSendVars
  <2>2. SendInv'
    BY <2>1, Zenon DEF SendInv
  <2>3. StoreInv'
    BY <1>8, OtherStore DEF webSendVars
  <2>. QED
    BY <2>2, <2>3
<1>. QED
  BY <1>1, <1>2, <1>3, <1>4, <1>5, <1>6, <1>7, <1>8 DEF WebSendNext, StoreMove

\* They hold at launch.
LEMMA SendStart == WebSendInit => StoreInv /\ SendInv
<1>. SUFFICES ASSUME WebSendInit PROVE StoreInv /\ SendInv
  OBVIOUS
<1>1. send \in Sends /\ send.stage = "idle" /\ AtPath(send)
  BY NoSendIs DEF WebSendInit
<1>2. touched \in BOOLEAN /\ currentTicket \in BOOLEAN
  BY Zenon DEF WebSendInit
<1>3. SendInv
  BY <1>1, <1>2 DEF SendInv
<1>4. HandleTypes
  <2>1. 0 \in 0..MaxSize
    BY WebSendAssumption
  <2>2. selected \in Seq(TopPaths) /\ Len(selected) =< 2
    BY DEF WebSendInit
  <2>. QED
    BY <2>1, <2>2 DEF WebSendInit, HandleTypes
<1>5. \A p \in TopPaths : /\ ChoiceKept(filesByPath, p, picks[p])
                          /\ ChoiceHolds(filesByPath, directoryPaths, p, picks[p])
  <2>. SUFFICES ASSUME NEW p \in TopPaths
                PROVE  /\ ChoiceKept(filesByPath, p, picks[p])
                       /\ ChoiceHolds(filesByPath, directoryPaths, p, picks[p])
    OBVIOUS
  <2>1. picks[p] = {} /\ directoryPaths = {} /\ filesByPath[p] = 0
    BY PathFacts DEF WebSendInit
  <2>. QED
    BY <2>1 DEF ChoiceKept, ChoiceHolds, EntriesIn
<1>. QED
  BY <1>3, <1>4, <1>5 DEF StoreInv, WebSendInit

\* They imply the properties.
LEMMA SendGoal == StoreInv /\ SendInv => OfferMatchesPayload /\ SharesWhatWasPicked
<1>. SUFFICES ASSUME StoreInv, SendInv PROVE OfferMatchesPayload /\ SharesWhatWasPicked
  OBVIOUS
<1>1. OfferMatchesPayload
  <2>. SUFFICES ASSUME Settled
                PROVE  /\ send.size = send.bytes /\ send.count = Len(send.paths)
                       /\ send.type = "directory" => Cardinality(send.names) > 0
                       /\ send.type = "file" => send.names = {send.paths[1]}
    BY DEF OfferMatchesPayload
  <2>1. Described(send)
    BY DEF Settled, SendInv
  <2>2. send.names \in SUBSET FilePaths
    BY DEF SendInv, Sends
  <2>3. send.names # {} => Cardinality(send.names) > 0
    <3>1. IsFiniteSet(send.names)
      BY <2>2, FilesFinite
    <3>2. Cardinality(send.names) \in Nat /\ (Cardinality(send.names) = 0 <=> send.names = {})
      BY <3>1, FS_CardinalityType, FS_EmptySet
    <3>. QED
      BY <3>2
  <2>. QED
    BY <2>1, <2>3 DEF Described
<1>2. SharesWhatWasPicked
  <2>. SUFFICES ASSUME Settled, \A k \in DOMAIN send.paths : send.paths[k] \notin leftover
                PROVE  send.names = UNION {picks[send.paths[k]] : k \in DOMAIN send.paths}
    BY DEF SharesWhatWasPicked
  <2>1. Gathered(filesByPath, directoryPaths, send) /\ send \in Sends /\ AtPath(send)
        /\ send.stage \in {"engine", "shared"}
    BY DEF Settled, SendInv
  <2>2. send.paths \in Seq(TopPaths) /\ send.at = Len(send.paths) + 1
    BY <2>1 DEF Sends, AtPath
  <2>3. DOMAIN send.paths = 1..(send.at - 1) /\ \A k \in DOMAIN send.paths : send.paths[k] \in TopPaths
    BY <2>2
  <2>4. ASSUME NEW k \in DOMAIN send.paths
        PROVE  EntriesIn(filesByPath, directoryPaths, send.paths[k]) = picks[send.paths[k]]
    <3>1. EntriesIn(filesByPath, directoryPaths, send.paths[k]) # {}
      BY <2>1, <2>3 DEF Gathered
    <3>2. send.paths[k] \in TopPaths \ leftover
      BY <2>3
    <3>. QED
      BY <3>1, <3>2 DEF StoreInv, ChoiceHolds
  <2>5. send.names = UNION {EntriesIn(filesByPath, directoryPaths, send.paths[k]) : k \in DOMAIN send.paths}
    BY <2>1, <2>3 DEF Gathered
  <2>. QED
    BY <2>4, <2>5
<1>. QED
  BY <1>1, <1>2

-----------------------------------------------------------------------------
\* ReleaseScripts: the version.

\* A release that runs has not ended well.
VersionInv == (vstep # "idle" => vexit # "ok") /\ ReleaseAgrees

\* It is inductive: the files change only while a release runs, or before its exit.
LEMMA VersionStep ==
  ASSUME VersionInv, [VersionNext]_versionVars
  PROVE  VersionInv'
<1>1. CASE UNCHANGED versionVars
  BY <1>1 DEF VersionInv, ReleaseAgrees, versionVars
<1>2. CASE \E v : StartRelease(v)
  BY <1>2 DEF StartRelease, VersionInv, ReleaseAgrees
<1>3. CASE \E f \in VersionFiles : SyncVersion(f)
  <2>1. vstep # "idle" /\ vexit' = vexit
    BY <1>3 DEF SyncVersion
  <2>. QED
    BY <2>1 DEF VersionInv, ReleaseAgrees
<1>4. CASE \E f \in VersionFiles : \E b \in BOOLEAN : EditVersion(f, b)
  BY <1>4 DEF EditVersion, VersionInv, ReleaseAgrees
<1>5. CASE SyncFails
  BY <1>5 DEF SyncFails, VersionInv, ReleaseAgrees
<1>6. CASE ValidateVersion
  <2>1. vfile' = vfile /\ vstep' = "idle"
    BY <1>6 DEF ValidateVersion
  <2>2. vexit' = "ok" => /\ \A f \in VersionFiles : vfile[f] = vfile["package"]
                         /\ vfile["cargo"].plain
    BY <1>6 DEF ValidateVersion, VersionFiles
  <2>3. vexit' = "ok" => \A f \in VersionFiles : vfile[f].plain /\ vfile[f] = vfile["package"]
    <3>1. "cargo" \in VersionFiles
      BY DEF VersionFiles
    <3>. QED
      BY <2>2, <3>1
  <2>. QED
    BY <2>1, <2>3 DEF VersionInv, ReleaseAgrees
<1>. QED
  BY <1>1, <1>2, <1>3, <1>4, <1>5, <1>6 DEF VersionNext

\* It holds before the first release.
LEMMA VersionStart == ScriptsInit => VersionInv
BY DEF ScriptsInit, VersionInv, ReleaseAgrees

-----------------------------------------------------------------------------
\* ReleaseScripts: the assets.

\* The steps of uploadReleaseAsset.
Uploads == {"list", "delete", "post"}
StepsOf(s) == IF s = "deb" THEN {"patch"} \cup Uploads
              ELSE IF s = "zip" THEN {"stage", "pack", "check"} \cup Uploads ELSE {"idle"}

\* What is uploaded is the patched package or a ZIP that passed its check.
UploadIsGood ==
  astep \in Uploads => /\ aci
                       /\ ascript = "deb" => adeb = "patched"
                       /\ ascript = "zip" => azip = "current"

\* A script that runs is the last one, knows whether it has work, and has not ended.
ScriptRuns ==
  /\ ascript \in {"none", "deb", "zip"} /\ astep \in StepsOf(ascript)
  /\ ascript # "none" => aexit = "none" /\ alast.script = ascript
  /\ astep = "patch" => (alast.work => adeb = "stock")
  /\ astep = "check" => azip \in {"current", "bad"}
  /\ UploadIsGood

\* The types of what the asset scripts keep.
AssetTypes ==
  /\ apub \in [{"deb", "zip"} -> {"none", "stock", "patched", "stale", "current"}]
  /\ aci \in BOOLEAN /\ alast \in [script : {"none", "deb", "zip"}, work : BOOLEAN]

\* A script that ended well left its asset of the current build published.
AssetDone ==
  aexit = "ok" /\ aci /\ alast.work =>
    /\ alast.script \in {"deb", "zip"}
    /\ alast.script = "deb" => apub["deb"] = "patched"
    /\ alast.script = "zip" => apub["zip"] = "current"

\* The inductive invariant of the asset scripts.
AssetInv == AssetTypes /\ ScriptRuns /\ AssetDone /\ NoTempLeft

\* A script that ends, one way or the other.
LEMMA AssetEnds ==
  ASSUME AssetInv, NEW how \in {"ok", "failed"}, EndScript(how), apub' = apub, aci' = aci,
         alast' = alast, how = "ok" => ~aci \/ ~alast.work
  PROVE  AssetInv'
<1>1. ascript' = "none" /\ astep' = "idle" /\ ~atemp' /\ aexit' = how
  BY DEF EndScript
<1>2. AssetTypes'
  BY DEF AssetInv, AssetTypes
<1>3. ScriptRuns'
  BY <1>1 DEF ScriptRuns, StepsOf, UploadIsGood, Uploads
<1>4. AssetDone'
  BY <1>1 DEF AssetDone
<1>. QED
  BY <1>1, <1>2, <1>3, <1>4 DEF AssetInv, NoTempLeft

\* A script that goes on to its next step.
LEMMA AssetGoesOn ==
  ASSUME AssetInv, ascript' = ascript, ascript # "none", aexit' = aexit, apub' = apub, aci' = aci,
         alast' = alast, astep' \in StepsOf(ascript), astep' # "patch",
         astep' = "check" => azip' \in {"current", "bad"}, UploadIsGood'
  PROVE  AssetInv'
<1>1. AssetTypes'
  BY DEF AssetInv, AssetTypes
<1>2. ScriptRuns'
  BY DEF AssetInv, ScriptRuns
<1>3. AssetDone'
  BY DEF AssetInv, AssetDone, ScriptRuns
<1>4. NoTempLeft'
  BY DEF NoTempLeft
<1>. QED
  BY <1>1, <1>2, <1>3, <1>4 DEF AssetInv

\* A build between two scripts.
LEMMA AssetBuilds ==
  ASSUME AssetInv, TauriBuild
  PROVE  AssetInv'
<1>1. /\ ascript' = ascript /\ ascript = "none" /\ astep' = astep /\ atemp' = atemp /\ aci' = aci
      /\ alast' = alast /\ aexit' = "none"
      /\ apub' = [deb |-> "stock", zip |-> IF apub["zip"] = "none" THEN "none" ELSE "stale"]
  BY DEF TauriBuild
<1>2. AssetTypes'
  <2>1. apub' \in [{"deb", "zip"} -> {"none", "stock", "patched", "stale", "current"}]
    BY <1>1
  <2>2. aci' \in BOOLEAN /\ alast' \in [script : {"none", "deb", "zip"}, work : BOOLEAN]
    BY <1>1 DEF AssetInv, AssetTypes
  <2>. QED
    BY <2>1, <2>2 DEF AssetTypes
<1>3. ScriptRuns'
  BY <1>1 DEF AssetInv, ScriptRuns, StepsOf, UploadIsGood, Uploads
<1>4. AssetDone' /\ NoTempLeft'
  BY <1>1 DEF AssetInv, AssetDone, NoTempLeft
<1>. QED
  BY <1>2, <1>3, <1>4 DEF AssetInv

\* A script starts: patch-linux-deb.js only works on a stock package.
LEMMA AssetStarts ==
  ASSUME AssetInv, NEW s \in {"deb", "zip"}, NEW step, NEW work \in BOOLEAN, StartScript(s, step, work),
         s = "deb" => step = "patch" /\ (work => adeb = "stock"), s = "zip" => step = "stage"
  PROVE  AssetInv'
<1>1. /\ ascript' = s /\ astep' = step /\ aexit' = "none" /\ alast' = [script |-> s, work |-> work]
      /\ apub' = apub /\ aci' = aci /\ adeb' = adeb
  BY DEF StartScript
<1>2. alast'.script = s /\ alast'.work = work /\ alast' \in [script : {"none", "deb", "zip"}, work : BOOLEAN]
  BY <1>1
<1>3. AssetTypes'
  BY <1>1, <1>2 DEF AssetInv, AssetTypes
<1>4. ScriptRuns'
  <2>1. astep' \in StepsOf(s) /\ astep' \notin Uploads /\ astep' # "check"
    BY <1>1 DEF StepsOf, Uploads
  <2>2. astep' = "patch" => (alast'.work => adeb' = "stock")
    BY <1>1, <1>2
  <2>. QED
    BY <1>1, <1>2, <2>1, <2>2 DEF ScriptRuns, UploadIsGood
<1>5. AssetDone' /\ NoTempLeft'
  BY <1>1 DEF AssetDone, NoTempLeft
<1>. QED
  BY <1>3, <1>4, <1>5 DEF AssetInv

\* patch-linux-deb.js: unpack, patch and repack.
LEMMA AssetPatches ==
  ASSUME AssetInv, PatchDeb
  PROVE  AssetInv'
<1>1. /\ ascript = "deb" /\ astep = "patch" /\ apub' = apub /\ aci' = aci /\ alast' = alast
      /\ (alast.work => adeb = "stock")
  BY DEF PatchDeb, AssetInv, ScriptRuns
<1>2. CASE EndScript("failed")
  BY <1>1, <1>2, AssetEnds
<1>3. CASE adeb = "patched" /\ EndScript("ok")
  BY <1>1, <1>3, AssetEnds
<1>4. CASE adeb' = "patched" /\ ~aci /\ ascript' = "none" /\ astep' = "idle" /\ aexit' = "ok" /\ ~atemp'
  <2>1. AssetTypes'
    BY <1>1 DEF AssetInv, AssetTypes
  <2>2. ScriptRuns'
    BY <1>4 DEF ScriptRuns, StepsOf, UploadIsGood, Uploads
  <2>3. AssetDone' /\ NoTempLeft'
    BY <1>1, <1>4 DEF AssetDone, NoTempLeft
  <2>. QED
    BY <2>1, <2>2, <2>3 DEF AssetInv
<1>5. CASE adeb' = "patched" /\ aci /\ astep' = "list" /\ UNCHANGED <<ascript, aexit>>
  <2>1. UploadIsGood' /\ astep' \in StepsOf(ascript)
    BY <1>1, <1>5 DEF UploadIsGood, StepsOf, Uploads
  <2>. QED
    BY <1>1, <1>5, <2>1, AssetGoesOn
<1>. QED
  BY <1>2, <1>3, <1>4, <1>5 DEF PatchDeb, ToUpload

\* package-windows-portable.js: the folder that is packed.
LEMMA AssetStages ==
  ASSUME AssetInv, StagePortablePayload \/ CreateZipArchive
  PROVE  AssetInv'
<1>1. ascript = "zip" /\ apub' = apub /\ aci' = aci /\ alast' = alast
  BY DEF StagePortablePayload, CreateZipArchive
<1>2. CASE EndScript("failed")
  BY <1>1, <1>2, AssetEnds
<1>3. CASE /\ astep' \in {"pack", "check"} /\ UNCHANGED <<ascript, aexit>>
           /\ astep' = "check" => azip' \in {"current", "bad"}
  <2>1. UploadIsGood' /\ astep' \in StepsOf(ascript)
    BY <1>1, <1>3 DEF UploadIsGood, StepsOf, Uploads
  <2>. QED
    BY <1>1, <1>3, <2>1, AssetGoesOn
<1>. QED
  BY <1>2, <1>3 DEF StagePortablePayload, CreateZipArchive

\* package-windows-portable.js: the archive that is checked.
LEMMA AssetChecks ==
  ASSUME AssetInv, AssertZipLooksValid
  PROVE  AssetInv'
<1>1. ascript = "zip" /\ apub' = apub /\ aci' = aci /\ alast' = alast /\ azip' = azip
      /\ azip \in {"current", "bad"}
  BY DEF AssertZipLooksValid, AssetInv, ScriptRuns
<1>2. CASE EndScript("failed")
  BY <1>1, <1>2, AssetEnds
<1>3. CASE ~aci /\ EndScript("ok")
  BY <1>1, <1>3, AssetEnds
<1>4. CASE azip # "bad" /\ aci /\ astep' = "list" /\ UNCHANGED <<ascript, aexit>>
  <2>1. UploadIsGood' /\ astep' \in StepsOf(ascript)
    BY <1>1, <1>4 DEF UploadIsGood, StepsOf, Uploads
  <2>. QED
    BY <1>1, <1>4, <2>1, AssetGoesOn
<1>. QED
  BY <1>2, <1>3, <1>4 DEF AssertZipLooksValid

\* uploadReleaseAsset: the assets listed, the old one deleted, the new one posted.
LEMMA AssetUploads ==
  ASSUME AssetInv, ListAssets \/ DeleteAsset \/ PostAsset
  PROVE  AssetInv'
<1>1. /\ astep \in Uploads /\ aci' = aci /\ alast' = alast /\ adeb' = adeb /\ azip' = azip
      /\ ascript \in {"deb", "zip"} /\ aexit = "none" /\ alast.script = ascript
      /\ ascript = "deb" => adeb = "patched"
      /\ ascript = "zip" => azip = "current"
  BY DEF ListAssets, DeleteAsset, PostAsset, AssetInv, ScriptRuns, StepsOf, Uploads, UploadIsGood
<1>2. CASE EndScript("failed") /\ apub' = apub
  BY <1>1, <1>2, AssetEnds
<1>3. CASE /\ astep' \in {"delete", "post"} /\ UNCHANGED <<ascript, atemp, aexit>>
           /\ apub' \in {apub, [apub EXCEPT ![ascript] = "none"]}
  <2>1. AssetTypes'
    BY <1>1, <1>3 DEF AssetInv, AssetTypes
  <2>2. ScriptRuns'
    <3>1. UploadIsGood' /\ astep' \in StepsOf(ascript) /\ astep' # "patch" /\ astep' # "check"
      BY <1>1, <1>3 DEF UploadIsGood, StepsOf, Uploads, AssetInv, ScriptRuns
    <3>. QED
      BY <1>1, <1>3, <3>1 DEF ScriptRuns
  <2>3. AssetDone' /\ NoTempLeft'
    BY <1>1, <1>3 DEF AssetDone, NoTempLeft
  <2>. QED
    BY <2>1, <2>2, <2>3 DEF AssetInv
<1>4. CASE /\ apub' = [apub EXCEPT ![ascript] = IF ascript = "deb" THEN adeb ELSE azip]
           /\ EndScript("ok")
  <2>1. AssetTypes'
    BY <1>1, <1>4 DEF AssetInv, AssetTypes
  <2>2. ascript' = "none" /\ astep' = "idle" /\ ~atemp' /\ aexit' = "ok"
    BY <1>4 DEF EndScript
  <2>3. ScriptRuns' /\ NoTempLeft'
    BY <2>2 DEF ScriptRuns, StepsOf, UploadIsGood, Uploads, NoTempLeft
  <2>4. AssetDone'
    BY <1>1, <1>4 DEF AssetDone, AssetInv, AssetTypes
  <2>. QED
    BY <2>1, <2>3, <2>4 DEF AssetInv
<1>. QED
  BY <1>2, <1>3, <1>4 DEF ListAssets, DeleteAsset, PostAsset

\* Every step of the asset scripts keeps the invariant.
LEMMA AssetStep ==
  ASSUME AssetInv, [AssetNext]_assetVars
  PROVE  AssetInv'
<1>1. CASE UNCHANGED assetVars
  <2>1. AssetTypes' /\ ScriptRuns'
    BY <1>1 DEF AssetInv, assetVars, AssetTypes, ScriptRuns, UploadIsGood
  <2>2. AssetDone' /\ NoTempLeft'
    BY <1>1 DEF AssetInv, assetVars, AssetDone, NoTempLeft
  <2>. QED
    BY <2>1, <2>2 DEF AssetInv
<1>2. CASE PatchLinuxDeb
  <2>. DEFINE w == adeb = "stock"
  <2>1. w \in BOOLEAN
    BY Zenon
  <2>2. StartScript("deb", "patch", w) /\ (w => adeb = "stock")
    BY <1>2 DEF PatchLinuxDeb
  <2>. HIDE DEF w
  <2>. QED
    BY <2>1, <2>2, AssetStarts
<1>3. CASE PackageWindowsPortable
  <2>1. TRUE \in BOOLEAN
    BY Zenon
  <2>2. StartScript("zip", "stage", TRUE)
    BY <1>3 DEF PackageWindowsPortable
  <2>. QED
    BY <2>1, <2>2, AssetStarts
<1>. QED
  BY <1>1, <1>2, <1>3, AssetBuilds, AssetPatches, AssetStages, AssetChecks, AssetUploads DEF AssetNext

\* It holds before the first script.
LEMMA AssetStart == ScriptsInit => AssetInv
<1>. SUFFICES ASSUME ScriptsInit PROVE AssetInv
  OBVIOUS
<1>. DEFINE d == FALSE
<1>1. d \in BOOLEAN /\ aci \in BOOLEAN /\ ~atemp
  BY Zenon DEF ScriptsInit
<1>2. alast = [script |-> "none", work |-> d]
  BY DEF ScriptsInit
<1>. HIDE DEF d
<1>3. alast \in [script : {"none", "deb", "zip"}, work : BOOLEAN]
  BY <1>1, <1>2
<1>4. AssetTypes
  BY <1>1, <1>3 DEF ScriptsInit, AssetTypes
<1>5. ScriptRuns /\ AssetDone
  BY DEF ScriptsInit, ScriptRuns, AssetDone, StepsOf, UploadIsGood, Uploads
<1>. QED
  BY <1>1, <1>4, <1>5 DEF AssetInv, NoTempLeft

\* The invariant gives the parts of ReleaseIsWhole about assets.
LEMMA AssetGoal == AssetInv => PublishedIsCurrent /\ NoTempLeft
BY DEF AssetInv, AssetTypes, AssetDone, PublishedIsCurrent

-----------------------------------------------------------------------------
\* ReleaseScripts: the Android packages.

\* The types of what the Android build keeps.
AndroidTypes ==
  /\ dgen \in [Profiles -> SUBSET Package]
  /\ dout \in [Profiles -> [{"signed", "unsigned"} -> Package]]
  /\ dkey \in BOOLEAN /\ drun \in 0..MaxScriptRuns
  /\ dsel \in Seq(Profiles) /\ dtodo \in Seq(Profiles)

\* The package of a profile that a run leaves: the signed one with a key.
PackageOf(out, key, p) == out[p][IF key THEN "signed" ELSE "unsigned"]

\* What verification asks of the package of a profile.
GoodPackage(f, key, run, p) ==
  /\ f.run = run /\ (key => f.signed)
  /\ (p = "aab" \/ (p = "universal" /\ key)) => f.abis

\* The profiles to do are the last ones of those selected, which are different.
TodoIsRest ==
  /\ Len(dtodo) =< Len(dsel)
  /\ \A i \in 1..Len(dtodo) : dtodo[i] = dsel[Len(dsel) - Len(dtodo) + i]
  /\ \A i, j \in 1..Len(dsel) : dsel[i] = dsel[j] => i = j

\* The packages of the profiles that are done are good.
DoneIsGood ==
  \A k \in 1..(Len(dsel) - Len(dtodo)) :
    GoodPackage(PackageOf(dout, dkey, dsel[k]), dkey, drun, dsel[k])

\* Gradle's directories hold packages of this run, signed only with a key.
GenOfRun == \A p \in Profiles : \A f \in dgen[p] : f.run = drun /\ (f.signed => dkey)

\* What was collected last is of this run; a bundle's signature is not looked at yet.
CollectedIsOfRun ==
  LET p == dtodo[1]
      f == PackageOf(dout, dkey, p)
  IN  f.run = drun /\ (dkey /\ p # "aab" => f.signed)

\* The inductive invariant of the Android build.
AndroidInv ==
  /\ AndroidTypes
  /\ dstep \in {"idle", "init", "patch", "build", "collect", "verify"}
  /\ dstep # "idle" => dexit # "ok" /\ TodoIsRest /\ DoneIsGood /\ GenOfRun
  /\ dstep \in {"collect", "verify"} => dtodo # <<>>
  /\ dstep = "verify" => CollectedIsOfRun
  /\ PackagesAreOfThisRun

\* A build that ends with an error.
LEMMA AndroidFails ==
  ASSUME AndroidInv, EndBuild("failed"), AndroidTypes'
  PROVE  AndroidInv'
BY DEF AndroidInv, EndBuild, PackagesAreOfThisRun

\* A run removes what Gradle left and numbers itself.
LEMMA AndroidStarts ==
  ASSUME AndroidInv, NEW key \in BOOLEAN,
         NEW sel \in {<<"universal", "arm64">>, <<"arm64", "aab">>, <<"universal">>},
         StartAndroidBuild(key, sel)
  PROVE  AndroidInv'
<1>1. /\ drun' = drun + 1 /\ drun < MaxScriptRuns /\ dkey' = key /\ dsel' = sel /\ dtodo' = sel
      /\ dgen' = [p \in Profiles |-> {}] /\ dstep' = "init" /\ dexit' = "none" /\ dout' = dout
  BY DEF StartAndroidBuild, GenRemoved
<1>2. {"universal", "arm64", "aab"} \subseteq Profiles /\ MaxScriptRuns \in Nat
  BY ScriptsAssumption DEF Profiles
<1>3. sel \in Seq(Profiles) /\ Len(sel) \in Nat /\ \A i, j \in 1..Len(sel) : sel[i] = sel[j] => i = j
  <2>1. CASE sel = <<"universal", "arm64">>
    <3>1. sel \in Seq(Profiles) /\ Len(sel) = 2 /\ sel[1] = "universal" /\ sel[2] = "arm64"
      BY <1>2, <2>1
    <3>2. \A i \in 1..2 : i = 1 \/ i = 2
      OBVIOUS
    <3>. QED
      BY <3>1, <3>2
  <2>2. CASE sel = <<"arm64", "aab">>
    <3>1. sel \in Seq(Profiles) /\ Len(sel) = 2 /\ sel[1] = "arm64" /\ sel[2] = "aab"
      BY <1>2, <2>2
    <3>2. \A i \in 1..2 : i = 1 \/ i = 2
      OBVIOUS
    <3>. QED
      BY <3>1, <3>2
  <2>3. CASE sel = <<"universal">>
    <3>1. sel \in Seq(Profiles) /\ Len(sel) = 1
      BY <1>2, <2>3
    <3>2. \A i \in 1..1 : i = 1
      OBVIOUS
    <3>. QED
      BY <3>1, <3>2
  <2>. QED
    BY <2>1, <2>2, <2>3
<1>4. drun' \in 0..MaxScriptRuns
  BY <1>1, <1>2 DEF AndroidInv, AndroidTypes
<1>5. AndroidTypes'
  BY <1>1, <1>3, <1>4 DEF AndroidInv, AndroidTypes
<1>6. TodoIsRest'
  <2>1. \A n \in Nat : n =< n /\ \A i \in 1..n : n - n + i = i
    OBVIOUS
  <2>. QED
    BY <1>1, <1>3, <2>1 DEF TodoIsRest
<1>7. DoneIsGood'
  <2>1. \A n \in Nat : 1..(n - n) = {}
    OBVIOUS
  <2>. QED
    BY <1>1, <1>3, <2>1 DEF DoneIsGood
<1>8. GenOfRun'
  BY <1>1 DEF GenOfRun
<1>. QED
  BY <1>1, <1>5, <1>6, <1>7, <1>8 DEF AndroidInv, PackagesAreOfThisRun

\* A step that leaves the packages alone and goes on.
LEMMA AndroidGoesOn ==
  ASSUME AndroidInv, dstep # "idle", UNCHANGED <<dgen, dout, dkey, dsel, dtodo, drun, dexit>>,
         dstep' \in {"patch", "build", "collect"}, dstep' = "collect" => dtodo # <<>>
  PROVE  AndroidInv'
<1>1. AndroidTypes'
  BY DEF AndroidInv, AndroidTypes
<1>2. TodoIsRest' /\ DoneIsGood' /\ GenOfRun'
  BY DEF AndroidInv, TodoIsRest, DoneIsGood, GenOfRun
<1>. QED
  BY <1>1, <1>2 DEF AndroidInv, PackagesAreOfThisRun

\* The Android project is made and patched.
LEMMA AndroidPrepares ==
  ASSUME AndroidInv, InitAndroid \/ ApplyGradlePatches
  PROVE  AndroidInv'
<1>1. dstep # "idle" /\ UNCHANGED <<dgen, dout, dkey, dsel, dtodo, drun>>
  BY DEF InitAndroid, ApplyGradlePatches
<1>2. CASE EndBuild("failed")
  <2>1. AndroidTypes'
    BY <1>1 DEF AndroidInv, AndroidTypes
  <2>. QED
    BY <1>2, <2>1, AndroidFails
<1>3. CASE dstep' \in {"patch", "build"} /\ UNCHANGED dexit
  BY <1>1, <1>3, AndroidGoesOn
<1>. QED
  BY <1>2, <1>3 DEF InitAndroid, ApplyGradlePatches

\* The profile at work is one of the profiles.
LEMMA HeadIsProfile ==
  ASSUME AndroidTypes, dtodo # <<>>
  PROVE  /\ Head(dtodo) = dtodo[1] /\ dtodo[1] \in Profiles /\ Len(dtodo) \in Nat \ {0}
         /\ Tail(dtodo) \in Seq(Profiles) /\ Len(Tail(dtodo)) = Len(dtodo) - 1
         /\ \A i \in 1..(Len(dtodo) - 1) : Tail(dtodo)[i] = dtodo[i + 1]
<1>1. dtodo \in Seq(Profiles) /\ dtodo # <<>>
  BY DEF AndroidTypes
<1>2. Len(dtodo) \in Nat \ {0}
  BY <1>1
<1>3. dtodo[1] \in Profiles
  BY <1>1, <1>2
<1>. QED
  BY <1>1, <1>2, <1>3

\* Gradle builds the profile at work, or the build ends.
LEMMA AndroidBuilds ==
  ASSUME AndroidInv, BuildProfile
  PROVE  AndroidInv'
<1>. DEFINE p == Head(dtodo)
<1>1. dstep = "build" /\ dtodo # <<>> /\ UNCHANGED <<dout, dkey, dsel, dtodo, drun>> /\ AndroidTypes
  BY DEF BuildProfile, AndroidInv
<1>2. p \in Profiles
  BY <1>1, HeadIsProfile
<1>3. CASE EndBuild("failed") /\ UNCHANGED dgen
  <2>1. AndroidTypes'
    BY <1>1, <1>3 DEF AndroidTypes
  <2>. QED
    BY <1>3, <2>1, AndroidFails
<1>4. CASE dstep' = "collect" /\ UNCHANGED <<dgen, dexit>>
  BY <1>1, <1>4, AndroidGoesOn
<1>5. ASSUME NEW s \in BOOLEAN, NEW a \in BOOLEAN, s => dkey, NEW R, R \subseteq dgen[p],
             dgen' = [dgen EXCEPT ![p] = (@ \ R) \cup {[run |-> drun, signed |-> s, abis |-> a]}],
             dstep' = "collect", dexit' = dexit
      PROVE  AndroidInv'
  <2>. DEFINE f == [run |-> drun, signed |-> s, abis |-> a]
  <2>1. f \in Package /\ f.run = drun /\ (f.signed => dkey)
    BY <1>1, <1>5 DEF Package, AndroidTypes
  <2>. HIDE DEF f
  <2>2. dgen' = [dgen EXCEPT ![p] = (dgen[p] \ R) \cup {f}]
    BY <1>5 DEF f
  <2>3. /\ dgen' \in [Profiles -> SUBSET Package] /\ dgen'[p] = (dgen[p] \ R) \cup {f}
        /\ \A q \in Profiles : q # p => dgen'[q] = dgen[q]
    BY <1>1, <1>2, <2>1, <2>2 DEF AndroidTypes
  <2>4. AndroidTypes'
    BY <1>1, <2>3 DEF AndroidTypes
  <2>5. GenOfRun'
    <3>1. GenOfRun
      BY <1>1 DEF AndroidInv
    <3>. QED
      BY <1>1, <1>2, <2>1, <2>3, <3>1 DEF GenOfRun
  <2>6. TodoIsRest' /\ DoneIsGood'
    BY <1>1 DEF AndroidInv, TodoIsRest, DoneIsGood
  <2>. QED
    BY <1>1, <1>5, <2>4, <2>5, <2>6 DEF AndroidInv, PackagesAreOfThisRun
<1>6. CASE \E s, a \in BOOLEAN :
             LET Replaced == {f \in dgen[p] : p = "aab" \/ f.signed = s}
             IN  /\ s => dkey
                 /\ dgen' = [dgen EXCEPT ![p] =
                      (@ \ Replaced) \cup {[run |-> drun, signed |-> s, abis |-> a]}]
                 /\ dstep' = "collect" /\ UNCHANGED dexit
  <2>1. PICK s \in BOOLEAN, a \in BOOLEAN :
             /\ s => dkey
             /\ dgen' = [dgen EXCEPT ![p] = (@ \ {f \in dgen[p] : p = "aab" \/ f.signed = s})
                                               \cup {[run |-> drun, signed |-> s, abis |-> a]}]
             /\ dstep' = "collect" /\ dexit' = dexit
    BY <1>6
  <2>2. {f \in dgen[p] : p = "aab" \/ f.signed = s} \subseteq dgen[p]
    OBVIOUS
  <2>. QED
    BY <1>5, <2>1, <2>2
<1>. QED
  BY <1>3, <1>4, <1>6 DEF BuildProfile

\* A package that was found is one that Gradle left.
LEMMA FoundIsThere ==
  ASSUME NEW p, dgen[p] # {}
  PROVE  FoundPackage(p) \in dgen[p]
<1>1. \E f \in dgen[p] : {g \in dgen[p] : ~g.signed} # {} => f \in {g \in dgen[p] : ~g.signed}
  OBVIOUS
<1>. QED
  BY <1>1 DEF FoundPackage

\* The newest package is copied and signed where it has to be.
LEMMA AndroidCollects ==
  ASSUME AndroidInv, CollectPackage
  PROVE  AndroidInv'
<1>. DEFINE p == Head(dtodo)
            f == FoundPackage(p)
            name == IF f.signed \/ HasKeystore THEN "signed" ELSE "unsigned"
            key == IF dkey THEN "signed" ELSE "unsigned"
            sg == f.signed \/ ApksignerSigns(p)
            g == [f EXCEPT !.signed = sg]
<1>1. /\ dstep = "collect" /\ dtodo # <<>> /\ UNCHANGED <<dgen, dkey, dsel, dtodo, drun>>
      /\ AndroidTypes /\ TodoIsRest /\ DoneIsGood /\ GenOfRun
  BY DEF CollectPackage, AndroidInv
<1>2. p \in Profiles /\ p = dtodo[1] /\ Len(dtodo) \in Nat \ {0}
  BY <1>1, HeadIsProfile
<1>3. CASE EndBuild("failed") /\ UNCHANGED dout
  <2>1. AndroidTypes'
    BY <1>1, <1>3 DEF AndroidTypes
  <2>. QED
    BY <1>3, <2>1, AndroidFails
<1>4. CASE /\ dgen[p] # {} /\ dout' = [dout EXCEPT ![p][name] = g]
           /\ dstep' = "verify" /\ UNCHANGED dexit
  <2>1. f \in dgen[p] /\ f \in Package /\ f.run = drun /\ (f.signed => dkey)
    BY <1>1, <1>2, <1>4, FoundIsThere DEF AndroidTypes, GenOfRun
  <2>2. name = key
    BY <2>1 DEF HasKeystore
  <2>3. dkey /\ p # "aab" => sg
    BY DEF ApksignerSigns, HasKeystore
  <2>4. sg \in BOOLEAN
    <3>1. f.signed \in BOOLEAN
      BY <2>1 DEF Package
    <3>. QED
      BY <3>1, Zenon
  <2>. HIDE DEF sg, f
  <2>5. g \in Package /\ g.run = drun /\ g.signed = sg
    BY <2>1, <2>4 DEF Package
  <2>. HIDE DEF g, name
  <2>6. dout' = [dout EXCEPT ![p] = [dout[p] EXCEPT ![key] = g]]
    BY <1>4, <2>2
  <2>7. key \in {"signed", "unsigned"}
    OBVIOUS
  <2>. HIDE DEF key
  <2>8. dout[p] \in [{"signed", "unsigned"} -> Package]
    BY <1>1, <1>2 DEF AndroidTypes
  <2>9. [dout[p] EXCEPT ![key] = g] \in [{"signed", "unsigned"} -> Package]
        /\ [dout[p] EXCEPT ![key] = g][key] = g
    BY <2>5, <2>7, <2>8
  <2>10. /\ dout' \in [Profiles -> [{"signed", "unsigned"} -> Package]] /\ dout'[p][key] = g
         /\ \A q \in Profiles : q # p => dout'[q] = dout[q]
    BY <1>1, <1>2, <2>6, <2>9 DEF AndroidTypes
  <2>11. AndroidTypes'
    BY <1>1, <2>10 DEF AndroidTypes
  <2>12. CollectedIsOfRun'
    BY <1>1, <1>2, <2>3, <2>5, <2>10 DEF CollectedIsOfRun, PackageOf, key
  <2>13. DoneIsGood'
    <3>. SUFFICES ASSUME NEW k \in 1..(Len(dsel) - Len(dtodo))
                  PROVE  GoodPackage(PackageOf(dout', dkey, dsel[k]), dkey, drun, dsel[k])
      BY <1>1 DEF DoneIsGood
    <3>1. GoodPackage(PackageOf(dout, dkey, dsel[k]), dkey, drun, dsel[k])
      BY <1>1 DEF DoneIsGood
    <3>2. Len(dsel) \in Nat /\ Len(dtodo) =< Len(dsel) /\ dsel \in Seq(Profiles)
      BY <1>1 DEF AndroidTypes, TodoIsRest
    <3>3. k \in 1..Len(dsel) /\ Len(dsel) - Len(dtodo) + 1 \in 1..Len(dsel)
          /\ k # Len(dsel) - Len(dtodo) + 1 /\ 1 \in 1..Len(dtodo)
      BY <1>2, <3>2
    <3>4. p = dsel[Len(dsel) - Len(dtodo) + 1]
      BY <1>1, <1>2, <3>3 DEF TodoIsRest
    <3>5. dsel[k] # p /\ dsel[k] \in Profiles
      BY <1>1, <3>2, <3>3, <3>4 DEF TodoIsRest
    <3>6. PackageOf(dout', dkey, dsel[k]) = PackageOf(dout, dkey, dsel[k])
      BY <2>10, <3>5 DEF PackageOf
    <3>. QED
      BY <3>1, <3>6
  <2>14. TodoIsRest' /\ GenOfRun'
    BY <1>1 DEF TodoIsRest, GenOfRun
  <2>. QED
    BY <1>1, <1>4, <2>11, <2>12, <2>13, <2>14 DEF AndroidInv, PackagesAreOfThisRun
<1>. QED
  BY <1>3, <1>4 DEF CollectPackage

\* A package that passes is done; the last one ends the run.
LEMMA AndroidVerifies ==
  ASSUME AndroidInv, VerifyPackage
  PROVE  AndroidInv'
<1>. DEFINE p == Head(dtodo)
            n == Len(dsel) - Len(dtodo)
            good == (p = "universal" => UniversalApkVerified) /\ (p = "aab" => BundleVerified)
<1>1. /\ dstep = "verify" /\ dtodo # <<>> /\ UNCHANGED <<dgen, dout, dkey, dsel, drun>>
      /\ AndroidTypes /\ TodoIsRest /\ DoneIsGood /\ GenOfRun /\ CollectedIsOfRun
  BY DEF VerifyPackage, AndroidInv
<1>2. /\ p \in Profiles /\ p = dtodo[1] /\ Len(dtodo) \in Nat \ {0}
      /\ Tail(dtodo) \in Seq(Profiles) /\ Len(Tail(dtodo)) = Len(dtodo) - 1
      /\ \A i \in 1..(Len(dtodo) - 1) : Tail(dtodo)[i] = dtodo[i + 1]
  BY <1>1, HeadIsProfile
<1>3. CASE EndBuild("failed") /\ UNCHANGED dtodo
  <2>1. AndroidTypes'
    BY <1>1, <1>3 DEF AndroidTypes
  <2>. QED
    BY <1>3, <2>1, AndroidFails
<1>4. CASE good /\ dtodo' = Tail(dtodo) /\ IF Len(dtodo) = 1 THEN EndBuild("ok")
                                           ELSE dstep' = "build" /\ UNCHANGED dexit
  <2>1. AndroidTypes'
    BY <1>1, <1>2, <1>4 DEF AndroidTypes
  <2>2. GoodPackage(PackageOf(dout, dkey, p), dkey, drun, p)
    BY <1>1, <1>2, <1>4 DEF CollectedIsOfRun, GoodPackage, PackageOf, UniversalApkVerified,
                            BundleVerified, HasKeystore
  <2>. HIDE DEF good
  <2>3. Len(dsel) \in Nat /\ Len(dtodo) =< Len(dsel) /\ dsel \in Seq(Profiles)
    BY <1>1 DEF AndroidTypes, TodoIsRest
  <2>4. n \in Nat /\ n + 1 \in 1..Len(dsel) /\ Len(dsel) - Len(dtodo') = n + 1 /\ 1 \in 1..Len(dtodo)
        /\ Len(dtodo') = Len(dtodo) - 1
    BY <1>2, <1>4, <2>3
  <2>5. p = dsel[n + 1]
    BY <1>1, <1>2, <2>4 DEF TodoIsRest
  <2>6. TodoIsRest'
    <3>1. Len(dtodo') =< Len(dsel')
      BY <1>1, <1>2, <2>3, <2>4
    <3>2. ASSUME NEW i \in 1..Len(dtodo')
          PROVE  dtodo'[i] = dsel'[Len(dsel') - Len(dtodo') + i]
      <4>1. i \in 1..(Len(dtodo) - 1) /\ i + 1 \in 1..Len(dtodo)
            /\ n + (i + 1) = Len(dsel) - Len(dtodo') + i
        BY <1>2, <2>3, <2>4, <3>2
      <4>2. dtodo'[i] = dtodo[i + 1]
        BY <1>2, <1>4, <4>1
      <4>3. dtodo[i + 1] = dsel[n + (i + 1)]
        BY <1>1, <4>1 DEF TodoIsRest
      <4>. QED
        BY <1>1, <4>1, <4>2, <4>3
    <3>. QED
      BY <1>1, <3>1, <3>2 DEF TodoIsRest
  <2>7. \A k \in 1..(n + 1) : GoodPackage(PackageOf(dout, dkey, dsel[k]), dkey, drun, dsel[k])
    <3>1. 1..(n + 1) = 1..n \cup {n + 1}
      BY <2>4
    <3>. QED
      BY <1>1, <2>2, <2>5, <3>1 DEF DoneIsGood
  <2>8. DoneIsGood'
    BY <1>1, <2>4, <2>7 DEF DoneIsGood
  <2>9. GenOfRun'
    BY <1>1 DEF GenOfRun
  <2>10. CASE Len(dtodo) = 1
    <3>1. DOMAIN dsel = 1..(n + 1)
      BY <2>3, <2>4, <2>10
    <3>2. PackagesAreOfThisRun'
      BY <1>1, <2>7, <3>1 DEF PackagesAreOfThisRun, GoodPackage, PackageOf
    <3>. QED
      BY <1>4, <2>1, <2>10, <3>2 DEF AndroidInv, EndBuild
  <2>11. CASE Len(dtodo) # 1
    <3>1. dstep' = "build" /\ dexit' = dexit /\ dexit # "ok"
      BY <1>1, <1>4, <2>11 DEF AndroidInv
    <3>. QED
      BY <2>1, <2>6, <2>8, <2>9, <3>1 DEF AndroidInv, PackagesAreOfThisRun
  <2>. QED
    BY <2>10, <2>11
<1>. QED
  BY <1>3, <1>4 DEF VerifyPackage

\* Every step of the Android build keeps the invariant.
LEMMA AndroidStep ==
  ASSUME AndroidInv, [AndroidNext]_androidVars
  PROVE  AndroidInv'
<1>1. CASE UNCHANGED androidVars
  <2>1. AndroidTypes' /\ PackagesAreOfThisRun'
    BY <1>1 DEF androidVars, AndroidInv, AndroidTypes, PackagesAreOfThisRun
  <2>2. (TodoIsRest => TodoIsRest') /\ (DoneIsGood => DoneIsGood') /\ (GenOfRun => GenOfRun')
        /\ (CollectedIsOfRun => CollectedIsOfRun')
    BY <1>1 DEF androidVars, TodoIsRest, DoneIsGood, GenOfRun, CollectedIsOfRun
  <2>. QED
    BY <1>1, <2>1, <2>2 DEF androidVars, AndroidInv
<1>. QED
  BY <1>1, AndroidStarts, AndroidPrepares, AndroidBuilds, AndroidCollects, AndroidVerifies
     DEF AndroidNext

\* It holds before the first run.
LEMMA AndroidStart == ScriptsInit => AndroidInv
<1>. SUFFICES ASSUME ScriptsInit PROVE AndroidInv
  OBVIOUS
<1>1. NoPackage \in Package
  <2>. DEFINE d == FALSE
  <2>1. d \in BOOLEAN /\ NoPackage = [run |-> 0, signed |-> d, abis |-> d]
    BY Zenon DEF NoPackage
  <2>2. 0 \in 0..MaxScriptRuns
    BY ScriptsAssumption
  <2>. HIDE DEF d
  <2>. QED
    BY <2>1, <2>2 DEF Package
<1>2. dout \in [Profiles -> [{"signed", "unsigned"} -> Package]]
  <2>1. [signed |-> NoPackage, unsigned |-> NoPackage] \in [{"signed", "unsigned"} -> Package]
    BY <1>1
  <2>. QED
    BY <2>1 DEF ScriptsInit
<1>3. dkey \in BOOLEAN
  BY Zenon DEF ScriptsInit
<1>4. AndroidTypes
  <2>1. drun \in 0..MaxScriptRuns
    BY ScriptsAssumption DEF ScriptsInit
  <2>. QED
    BY <1>2, <1>3, <2>1 DEF ScriptsInit, AndroidTypes
<1>. QED
  BY <1>4 DEF ScriptsInit, AndroidInv, PackagesAreOfThisRun

-----------------------------------------------------------------------------
\* ReleaseNotes.

\* R sorts S: no element before itself, two are comparable, before is transitive.
StrictOrder(R, S) ==
  /\ \A x \in S : <<x, x>> \notin R
  /\ \A x, y \in S : x # y => <<x, y>> \in R \/ <<y, x>> \in R
  /\ \A x, y, z \in S : <<x, y>> \in R /\ <<y, z>> \in R => <<x, z>> \in R

\* How many of S come before x (the position in the sorted list).
Rank(R, S, x) == Cardinality({y \in S : <<y, x>> \in R})

\* Sets in one-to-one correspondence have the same number of elements.
LEMMA SameSize ==
  ASSUME NEW S, NEW T, IsFiniteSet(S), NEW f, f \in [S -> T],
         \A x, y \in S : f[x] = f[y] => x = y,
         \A t \in T : \E x \in S : f[x] = t
  PROVE  IsFiniteSet(T) /\ Cardinality(T) = Cardinality(S)
<1>1. f \in Injection(S, T) /\ f \in Surjection(S, T)
  BY DEF Injection, Surjection, IsInjective
<1>2. ExistsBijection(S, T)
  BY <1>1 DEF ExistsBijection, Bijection
<1>. QED
  BY <1>2, FS_Bijection

\* What comes later in the order has more before it.
LEMMA RankGrows ==
  ASSUME NEW R, NEW S, IsFiniteSet(S), StrictOrder(R, S),
         NEW x \in S, NEW y \in S, <<x, y>> \in R
  PROVE  Rank(R, S, x) < Rank(R, S, y)
<1>. DEFINE A == {z \in S : <<z, x>> \in R}
            B == {z \in S : <<z, y>> \in R}
<1>1. A \in SUBSET B /\ x \in B /\ x \notin A
  BY DEF StrictOrder
<1>2. IsFiniteSet(B)
  BY FS_Subset
<1>3. Cardinality(A) =< Cardinality(B) /\ IsFiniteSet(A) /\ Cardinality(A) # Cardinality(B)
  <2>. HIDE DEF A, B
  <2>. QED
    BY <1>1, <1>2, FS_Subset
<1>4. Cardinality(A) \in Nat /\ Cardinality(B) \in Nat
  <2>. HIDE DEF A, B
  <2>. QED
    BY <1>2, <1>3, FS_CardinalityType
<1>5. Cardinality(A) < Cardinality(B)
  <2>. HIDE DEF A, B
  <2>. QED
    BY <1>3, <1>4
<1>. QED
  BY <1>5 DEF Rank

\* A position in the sorted list is less than its length.
LEMMA RankBound ==
  ASSUME NEW R, NEW S, IsFiniteSet(S), StrictOrder(R, S), NEW x \in S
  PROVE  Rank(R, S, x) \in Nat /\ Rank(R, S, x) < Cardinality(S)
<1>. DEFINE A == {z \in S : <<z, x>> \in R}
<1>1. A \in SUBSET S /\ x \notin A
  BY DEF StrictOrder
<1>2. Cardinality(A) =< Cardinality(S) /\ IsFiniteSet(A) /\ Cardinality(A) # Cardinality(S)
  <2>. HIDE DEF A
  <2>. QED
    BY <1>1, FS_Subset
<1>3. Cardinality(A) \in Nat /\ Cardinality(S) \in Nat
  <2>. HIDE DEF A
  <2>. QED
    BY <1>2, FS_CardinalityType
<1>4. Cardinality(A) < Cardinality(S)
  <2>. HIDE DEF A
  <2>. QED
    BY <1>2, <1>3
<1>. QED
  BY <1>3, <1>4 DEF Rank

\* Every position of the sorted list is taken (sort, any comparator that is a strict order).
LEMMA RankOnto ==
  ASSUME NEW R, NEW S, IsFiniteSet(S), StrictOrder(R, S),
         NEW n \in Nat, n < Cardinality(S)
  PROVE  \E x \in S : Rank(R, S, x) = n
<1>. DEFINE N == Cardinality(S)
            T == 0..(N - 1)
            f == [x \in S |-> Rank(R, S, x)]
<1>1. N \in Nat /\ N > 0
  BY FS_CardinalityType
<1>2. IsFiniteSet(T) /\ Cardinality(T) = N
  <2>1. N - 1 \in Int /\ ~(0 > N - 1) /\ (N - 1) - 0 + 1 = N
    BY <1>1
  <2>2. 0 \in Int
    OBVIOUS
  <2>. HIDE DEF N
  <2>. QED
    BY <2>1, <2>2, FS_Interval
<1>3. \A x \in S : Rank(R, S, x) \in T
  <2>1. \A x \in S : Rank(R, S, x) \in Nat /\ Rank(R, S, x) < N
    BY RankBound
  <2>. HIDE DEF N
  <2>. QED
    BY <2>1, <1>1
<1>4. ASSUME NEW x \in S, NEW y \in S, x # y
      PROVE  Rank(R, S, x) # Rank(R, S, y)
  <2>1. Rank(R, S, x) \in Nat /\ Rank(R, S, y) \in Nat
    BY RankBound
  <2>2. CASE <<x, y>> \in R
    BY <2>1, <2>2, RankGrows
  <2>3. CASE <<y, x>> \in R
    BY <2>1, <2>3, RankGrows
  <2>. QED
    BY <2>2, <2>3, <1>4 DEF StrictOrder
<1>5. f \in Injection(S, T)
  BY <1>3, <1>4 DEF Injection, IsInjective
<1>6. f \in Surjection(S, T)
  <2>. HIDE DEF f, T
  <2>. QED
    BY <1>2, <1>5, FS_Injection
<1>7. n \in T
  BY <1>1
<1>8. \E x \in S : f[x] = n
  <2>. HIDE DEF f, T
  <2>. QED
    BY <1>6, <1>7 DEF Surjection
<1>. QED
  BY <1>8

\* slice(0, n) of a sorted list that is not empty is not empty.
LEMMA FirstBySome ==
  ASSUME NEW R, NEW S, IsFiniteSet(S), StrictOrder(R, S), S # {},
         NEW n \in Nat, n > 0
  PROVE  FirstBy(R, S, n) # {}
<1>1. Cardinality(S) \in Nat /\ Cardinality(S) # 0
  BY FS_CardinalityType, FS_EmptySet
<1>2. PICK x \in S : Rank(R, S, x) = 0
  BY <1>1, RankOnto
<1>. QED
  BY <1>2 DEF FirstBy, Rank

\* Whatever slice(0, n) leaves out comes after n others, all that were kept.
LEMMA FirstByFull ==
  ASSUME NEW R, NEW S, IsFiniteSet(S), StrictOrder(R, S),
         NEW n \in Nat, NEW x \in S, x \notin FirstBy(R, S, n)
  PROVE  /\ Cardinality(FirstBy(R, S, n)) = n
         /\ \A y \in FirstBy(R, S, n) : <<y, x>> \in R
<1>. DEFINE F == FirstBy(R, S, n)
            T == 0..(n - 1)
            f == [y \in F |-> Rank(R, S, y)]
<1>1. F = {y \in S : Rank(R, S, y) < n}
  BY DEF FirstBy, Rank
<1>2. \A y \in S : Rank(R, S, y) \in Nat
  BY RankBound
<1>3. Rank(R, S, x) >= n /\ n < Cardinality(S)
  <2>1. Rank(R, S, x) \in Nat /\ Rank(R, S, x) < Cardinality(S) /\ Cardinality(S) \in Nat
    BY RankBound, FS_CardinalityType
  <2>2. ~(Rank(R, S, x) < n)
    BY <1>1
  <2>. QED
    BY <2>1, <2>2
<1>4. \A y \in F : <<y, x>> \in R
  <2>. SUFFICES ASSUME NEW y \in F PROVE <<y, x>> \in R
    OBVIOUS
  <2>1. y \in S /\ y # x /\ Rank(R, S, y) < n
    BY <1>1
  <2>2. CASE <<x, y>> \in R
    <3>1. Rank(R, S, x) < Rank(R, S, y)
      BY <2>1, <2>2, RankGrows
    <3>. QED
      BY <3>1, <2>1, <1>2, <1>3
  <2>. QED
    BY <2>1, <2>2 DEF StrictOrder
<1>5. f \in [F -> T]
  BY <1>1, <1>2
<1>6. \A y, z \in F : f[y] = f[z] => y = z
  <2>. SUFFICES ASSUME NEW y \in F, NEW z \in F, y # z PROVE f[y] # f[z]
    OBVIOUS
  <2>1. y \in S /\ z \in S
    BY <1>1
  <2>2. Rank(R, S, y) \in Nat /\ Rank(R, S, z) \in Nat
    BY <1>2, <2>1
  <2>3. <<y, z>> \in R \/ <<z, y>> \in R
    BY <2>1 DEF StrictOrder
  <2>4. Rank(R, S, y) < Rank(R, S, z) \/ Rank(R, S, z) < Rank(R, S, y)
    BY <2>1, <2>3, RankGrows
  <2>. QED
    BY <2>2, <2>4
<1>7. \A t \in T : \E y \in F : f[y] = t
  <2>. SUFFICES ASSUME NEW t \in T PROVE \E y \in F : f[y] = t
    OBVIOUS
  <2>1. t \in Nat /\ t < n /\ t < Cardinality(S)
    BY <1>3, FS_CardinalityType
  <2>2. PICK y \in S : Rank(R, S, y) = t
    BY <2>1, RankOnto
  <2>. QED
    BY <2>1, <2>2, <1>1
<1>8. IsFiniteSet(F)
  BY <1>1, FS_Subset
<1>9. Cardinality(T) = Cardinality(F)
  <2>. HIDE DEF f, F, T
  <2>. QED
    BY <1>5, <1>6, <1>7, <1>8, SameSize
<1>10. Cardinality(T) = n
  <2>1. n - 1 \in Int /\ 0 \in Int /\ (0 > n - 1 => n = 0) /\ (n - 1) - 0 + 1 = n
    OBVIOUS
  <2>. QED
    BY <2>1, FS_Interval
<1>. QED
  BY <1>4, <1>9, <1>10

\* The log holds commits.
NotesOK == nlog \in Seq(Commits)

\* The first position of a list is one of it, and none is before it (FirstOf).
LEMMA Least ==
  ASSUME NEW T \in SUBSET Nat, T # {}
  PROVE  FirstOf(T) \in T /\ \A j \in T : FirstOf(T) =< j
BY LeastNumber DEF FirstOf

\* The positions of the log are finitely many numbers, and each has a commit.
LEMMA LogPositions ==
  ASSUME NotesOK
  PROVE  /\ IsFiniteSet(DOMAIN nlog) /\ DOMAIN nlog \subseteq Nat
         /\ \A k \in DOMAIN nlog : nlog[k] \in Commits
<1>1. Len(nlog) \in Nat /\ DOMAIN nlog = 1..Len(nlog)
  BY DEF NotesOK
<1>2. IsFiniteSet(1..Len(nlog))
  BY <1>1, FS_Interval
<1>. QED
  BY <1>1, <1>2 DEF NotesOK

\* So are the positions of any list of its commits.
LEMMA SomePositions ==
  ASSUME NotesOK, NEW ks \in SUBSET DOMAIN nlog
  PROVE  /\ IsFiniteSet(ks) /\ Cardinality(ks) \in Nat /\ ks \subseteq Nat
         /\ \A k \in ks : nlog[k] \in Commits
<1>1. IsFiniteSet(ks)
  BY LogPositions, FS_Subset
<1>. QED
  BY <1>1, LogPositions, FS_CardinalityType

\* Every type has a priority (TYPE_PRIORITY, 4 for a type it does not name).
LEMMA PriorityType ==
  ASSUME NEW t
  PROVE  TypePriority(t) \in Nat
BY DEF TypePriority, ImprovementTypes, FeatureTypes, FixTypes

\* uniqueSubjects keeps no subject twice.
LEMMA UniqueOnce ==
  ASSUME NotesOK, NEW ks \in SUBSET DOMAIN nlog
  PROVE  \A j, k \in UniqueSubjects(ks) : nlog[j].subject = nlog[k].subject => j = k
<1>. SUFFICES ASSUME NEW j \in UniqueSubjects(ks), NEW k \in UniqueSubjects(ks), j # k
              PROVE  nlog[j].subject # nlog[k].subject
  OBVIOUS
<1>1. j \in Nat /\ k \in Nat /\ j \in ks /\ k \in ks
  BY SomePositions DEF UniqueSubjects
<1>2. j < k \/ k < j
  BY <1>1
<1>. QED
  BY <1>1, <1>2 DEF UniqueSubjects

\* uniqueSubjects keeps every subject once.
LEMMA UniqueAll ==
  ASSUME NotesOK, NEW ks \in SUBSET DOMAIN nlog, NEW k \in ks
  PROVE  \E j \in UniqueSubjects(ks) : nlog[j].subject = nlog[k].subject
<1>. DEFINE T == {j \in ks : nlog[j].subject = nlog[k].subject}
<1>1. T \in SUBSET Nat /\ T # {}
  BY SomePositions
<1>2. PICK j \in T : \A i \in T : j =< i
  BY <1>1, LeastNumber
<1>3. ASSUME NEW i \in ks, i < j
      PROVE  nlog[i].subject # nlog[j].subject
  <2>1. i \in Nat /\ j \in Nat /\ j \in ks
    BY <1>1, SomePositions
  <2>2. i \notin T
    BY <1>2, <1>3, <2>1
  <2>. QED
    BY <2>2
<1>. QED
  BY <1>3 DEF UniqueSubjects

\* uniqueSubjects of its own result changes nothing (summarizeScopeCommits calls it twice).
LEMMA UniqueTwice ==
  ASSUME NotesOK, NEW ks \in SUBSET DOMAIN nlog
  PROVE  UniqueSubjects(UniqueSubjects(ks)) = UniqueSubjects(ks)
<1>. DEFINE u == UniqueSubjects(ks)
<1>1. \A k \in u : \A j \in u : j < k => nlog[j].subject # nlog[k].subject
  BY DEF UniqueSubjects
<1>. HIDE DEF u
<1>2. UniqueSubjects(u) = u
  BY <1>1 DEF UniqueSubjects
<1>. QED
  BY <1>2 DEF u

\* The subjects of a list of commits.
SubjectsOf(ks) == {nlog[k].subject : k \in ks}

\* As many commits as subjects once uniqueSubjects has run.
LEMMA SubjectsCount ==
  ASSUME NotesOK, NEW ks \in SUBSET DOMAIN nlog, NEW u \in SUBSET UniqueSubjects(ks)
  PROVE  Cardinality(SubjectsOf(u)) = Cardinality(u)
<1>. DEFINE f == [k \in u |-> nlog[k].subject]
            T == SubjectsOf(u)
<1>1. u \subseteq DOMAIN nlog
  BY DEF UniqueSubjects
<1>2. IsFiniteSet(u)
  BY <1>1, SomePositions
<1>3. f \in [u -> T]
  BY DEF SubjectsOf
<1>4. \A j, k \in u : f[j] = f[k] => j = k
  BY UniqueOnce
<1>5. \A t \in T : \E k \in u : f[k] = t
  BY DEF SubjectsOf
<1>. HIDE DEF f, T
<1>6. Cardinality(T) = Cardinality(u)
  BY <1>2, <1>3, <1>4, <1>5, SameSize
<1>. QED
  BY <1>6 DEF T

\* uniqueSubjects keeps the subjects, and as many commits as there are subjects.
LEMMA UniqueSame ==
  ASSUME NotesOK, NEW ks \in SUBSET DOMAIN nlog
  PROVE  /\ SubjectsOf(UniqueSubjects(ks)) = SubjectsOf(ks)
         /\ Cardinality(SubjectsOf(ks)) = Cardinality(UniqueSubjects(ks))
<1>1. UniqueSubjects(ks) \subseteq ks
  BY DEF UniqueSubjects
<1>2. SubjectsOf(UniqueSubjects(ks)) = SubjectsOf(ks)
  BY <1>1, UniqueAll DEF SubjectsOf
<1>. QED
  BY <1>2, SubjectsCount

\* The comparator of pickRepresentativeSubjects, with the stable sort, is a strict order.
LEMMA SubjectOrderStrict ==
  ASSUME NotesOK, NEW ks \in SUBSET DOMAIN nlog
  PROVE  StrictOrder(SubjectOrder(ks), ks)
<1>. DEFINE p == [k \in ks |-> TypePriority(nlog[k].type)]
            l == [k \in ks |-> LengthOf(nlog[k].subject)]
            Before(j, k) == \/ p[j] < p[k]
                            \/ p[j] = p[k] /\ (l[j] > l[k] \/ (l[j] = l[k] /\ j < k))
<1>1. \A k \in ks : k \in Nat /\ p[k] \in Nat /\ l[k] \in Nat
  BY SomePositions, PriorityType, NotesAssumption
<1>2. \A j, k \in ks : <<j, k>> \in SubjectOrder(ks) <=> Before(j, k)
  BY DEF SubjectOrder
<1>. HIDE DEF p, l
<1>3. \A k \in ks : ~Before(k, k)
  BY <1>1
<1>4. \A j, k \in ks : j # k => Before(j, k) \/ Before(k, j)
  BY <1>1
<1>5. \A i, j, k \in ks : Before(i, j) /\ Before(j, k) => Before(i, k)
  BY <1>1
<1>. HIDE DEF Before
<1>. QED
  BY <1>2, <1>3, <1>4, <1>5 DEF StrictOrder

\* What a bullet shows and counts.
LEMMA BulletCounts ==
  ASSUME NotesOK, NEW ks \in SUBSET DOMAIN nlog, ks # {}, NEW s
  PROVE  LET b == SummarizeScopeCommits(ks, s)
         IN  /\ b.scope = s
             /\ b.shown \subseteq SubjectsOf(ks) /\ b.shown # {}
             /\ Cardinality(b.shown) + b.extra = Cardinality(SubjectsOf(ks))
<1>. DEFINE u == UniqueSubjects(ks)
            shown == FirstBy(SubjectOrder(u), u, 2)
            b == SummarizeScopeCommits(ks, s)
<1>1. u \in SUBSET DOMAIN nlog /\ u \subseteq ks /\ u # {}
  BY UniqueAll DEF UniqueSubjects
<1>2. StrictOrder(SubjectOrder(u), u) /\ IsFiniteSet(u) /\ Cardinality(u) \in Nat
  <2>. HIDE DEF u
  <2>. QED
    BY <1>1, SubjectOrderStrict, SomePositions
<1>3. shown # {} /\ shown \in SUBSET u
  <2>1. shown \in SUBSET u
    BY DEF FirstBy
  <2>. HIDE DEF u
  <2>2. 2 \in Nat /\ 2 > 0
    OBVIOUS
  <2>. QED
    BY <1>1, <1>2, <2>1, <2>2, FirstBySome
<1>4. b = [scope |-> s, shown |-> SubjectsOf(shown), extra |-> Cardinality(u) - Cardinality(shown)]
  BY UniqueTwice DEF SummarizeScopeCommits, PickRepresentativeSubjects, SubjectsOf
<1>5. Cardinality(SubjectsOf(shown)) = Cardinality(shown)
  <2>. HIDE DEF shown
  <2>. QED
    BY <1>3, SubjectsCount
<1>6. Cardinality(SubjectsOf(ks)) = Cardinality(u)
  BY UniqueSame
<1>7. shown \in SUBSET DOMAIN nlog /\ shown \subseteq ks
  BY <1>1, <1>3
<1>8. Cardinality(shown) \in Nat
  <2>. HIDE DEF shown
  <2>. QED
    BY <1>7, SomePositions
<1>. HIDE DEF u, shown, b
<1>9. SubjectsOf(shown) \subseteq SubjectsOf(ks) /\ SubjectsOf(shown) # {}
  BY <1>3, <1>7 DEF SubjectsOf
<1>10. b.scope = s /\ b.shown = SubjectsOf(shown) /\ b.extra = Cardinality(u) - Cardinality(shown)
  BY <1>4
<1>11. Cardinality(b.shown) + b.extra = Cardinality(SubjectsOf(ks))
  BY <1>2, <1>5, <1>6, <1>8, <1>10
<1>. QED
  BY <1>9, <1>10, <1>11 DEF b

\* The commits of the log of these types and this scope, from the log itself.
ChangesOf(T, s) ==
  {k \in DOMAIN nlog :
     /\ nlog[k].type \in T /\ nlog[k].subject # Prototype
     /\ ScopeOf(k) = s}

\* A group of groupByScope is all the commits of the log with that scope
\* when none of the types is skipped.
LEMMA GroupIsAll ==
  ASSUME NEW T, T \cap SkipTypes = {}, NEW s
  PROVE  /\ GroupByScope(OfTypes(T), s) = ChangesOf(T, s)
         /\ ChangesOf(T, s) # {} <=> s \in ScopesOf(OfTypes(T))
<1>1. GroupByScope(OfTypes(T), s) = ChangesOf(T, s)
  BY DEF GroupByScope, OfTypes, LoadCommits, ChangesOf
<1>2. ChangesOf(T, s) # {} <=> s \in ScopesOf(OfTypes(T))
  BY <1>1 DEF GroupByScope, ScopesOf
<1>. QED
  BY <1>1, <1>2

\* A scope with a fix has one bullet, which accounts for all its fixes (renderSection).
LEMMA FixesAreTold ==
  ASSUME NotesOK, NEW s, ChangesOf(FixTypes, s) # {}
  PROVE  LET told == {b \in RenderSection(OfTypes(FixTypes)) : b.scope = s}
         IN  /\ Cardinality(told) = 1
             /\ \A b \in told :
                  /\ b.shown \subseteq SubjectsOf(ChangesOf(FixTypes, s)) /\ b.shown # {}
                  /\ Cardinality(b.shown) + b.extra
                       = Cardinality(SubjectsOf(ChangesOf(FixTypes, s)))
<1>. DEFINE ks == OfTypes(FixTypes)
            told == {b \in RenderSection(ks) : b.scope = s}
            only == SummarizeScopeCommits(ChangesOf(FixTypes, s), s)
<1>1. FixTypes \cap SkipTypes = {}
  BY DEF FixTypes, SkipTypes
<1>2. /\ \A t : GroupByScope(ks, t) = ChangesOf(FixTypes, t)
      /\ s \in ScopesOf(ks)
  BY <1>1, GroupIsAll
<1>3. RenderSection(ks) = {SummarizeScopeCommits(ChangesOf(FixTypes, t), t) : t \in ScopesOf(ks)}
  <2>. HIDE DEF ks
  <2>. QED
    BY <1>2 DEF RenderSection
<1>4. \A t : SummarizeScopeCommits(ChangesOf(FixTypes, t), t).scope = t
  BY DEF SummarizeScopeCommits
<1>5. told = {only}
  <2>. HIDE DEF ks
  <2>. QED
    BY <1>2, <1>3, <1>4
<1>6. Cardinality(told) = 1
  BY <1>5, FS_Singleton
<1>7. ChangesOf(FixTypes, s) \in SUBSET DOMAIN nlog
  BY DEF ChangesOf
<1>8. /\ only.shown \subseteq SubjectsOf(ChangesOf(FixTypes, s)) /\ only.shown # {}
      /\ Cardinality(only.shown) + only.extra = Cardinality(SubjectsOf(ChangesOf(FixTypes, s)))
  BY <1>7, BulletCounts
<1>. HIDE DEF only
<1>. QED
  BY <1>5, <1>6, <1>8

\* There are finitely many groups.
LEMMA GroupsFinite ==
  ASSUME NotesOK, NEW ks \in SUBSET DOMAIN nlog
  PROVE  IsFiniteSet(ScopesOf(ks))
<1>. DEFINE f == [k \in ks |-> ScopeOf(k)]
<1>1. f \in Surjection(ks, ScopesOf(ks))
  BY DEF Surjection, ScopesOf
<1>. QED
  BY <1>1, SomePositions, FS_Surjection

\* The comparator of pickHighlights, with the stable sort, is a strict order,
\* and what comes first is no lighter.
LEMMA GroupOrderStrict ==
  ASSUME NotesOK, NEW ks \in SUBSET DOMAIN nlog, NEW S \in SUBSET ScopesOf(ks)
  PROVE  /\ StrictOrder(GroupOrder(ks, S), S)
         /\ \A t, s \in S : <<t, s>> \in GroupOrder(ks, S) =>
              Cardinality(GroupByScope(ks, t)) >= Cardinality(GroupByScope(ks, s))
<1>. DEFINE w == [s \in S |-> Cardinality(GroupByScope(ks, s))]
            f == [s \in S |-> FirstOf(GroupByScope(ks, s))]
            Before(t, s) == w[t] > w[s] \/ (w[t] = w[s] /\ f[t] < f[s])
<1>1. \A s \in S : w[s] \in Nat /\ f[s] \in Nat /\ f[s] \in GroupByScope(ks, s)
  <2>. SUFFICES ASSUME NEW s \in S
                PROVE  w[s] \in Nat /\ f[s] \in Nat /\ f[s] \in GroupByScope(ks, s)
    OBVIOUS
  <2>1. GroupByScope(ks, s) \in SUBSET DOMAIN nlog /\ GroupByScope(ks, s) # {}
    BY DEF GroupByScope, ScopesOf
  <2>2. Cardinality(GroupByScope(ks, s)) \in Nat /\ GroupByScope(ks, s) \in SUBSET Nat
    BY <2>1, SomePositions
  <2>3. f[s] \in GroupByScope(ks, s)
    BY <2>1, <2>2, Least
  <2>. QED
    BY <2>2, <2>3
<1>2. \A t, s \in S : <<t, s>> \in GroupOrder(ks, S) <=> Before(t, s)
  BY DEF GroupOrder
<1>. HIDE DEF w, f
<1>3. \A t, s \in S : f[t] = f[s] => t = s
  BY <1>1 DEF GroupByScope
<1>4. \A s \in S : ~Before(s, s)
  BY <1>1
<1>5. \A t, s \in S : t # s => Before(t, s) \/ Before(s, t)
  BY <1>1, <1>3
<1>6. \A r, t, s \in S : Before(r, t) /\ Before(t, s) => Before(r, s)
  BY <1>1
<1>7. \A t, s \in S : Before(t, s) => w[t] >= w[s]
  BY <1>1
<1>. HIDE DEF Before
<1>8. StrictOrder(GroupOrder(ks, S), S)
  BY <1>2, <1>4, <1>5, <1>6 DEF StrictOrder
<1>9. \A s \in S : w[s] = Cardinality(GroupByScope(ks, s))
  BY DEF w
<1>. QED
  BY <1>2, <1>7, <1>8, <1>9

\* A scope with a feature has no highlight only when it is identity next to device,
\* or when the list is full of groups no lighter (pickHighlights).
LEMMA FeaturesAreTold ==
  ASSUME NotesOK, NEW s, ChangesOf(FeatureTypes, s) # {},
         {b \in PickHighlights(OfTypes(FeatureTypes)) : b.scope = s} = {}
  PROVE  \/ s = "identity" /\ ChangesOf(FeatureTypes, "device") # {}
         \/ /\ Cardinality(PickHighlights(OfTypes(FeatureTypes))) = MaxHighlights
            /\ \A b \in PickHighlights(OfTypes(FeatureTypes)) :
                 Cardinality(ChangesOf(FeatureTypes, b.scope))
                   >= Cardinality(ChangesOf(FeatureTypes, s))
<1>. DEFINE ks == OfTypes(FeatureTypes)
            S == ScopesOf(ks) \ (IF "device" \in ScopesOf(ks) THEN {"identity"} ELSE {})
            Sum(t) == SummarizeScopeCommits(GroupByScope(ks, t), t)
            top == FirstBy(GroupOrder(ks, S), S, MaxHighlights)
            H == PickHighlights(ks)
            f == [t \in top |-> Sum(t)]
<1>1. FeatureTypes \cap SkipTypes = {}
  BY DEF FeatureTypes, SkipTypes
<1>2. \A t : /\ GroupByScope(ks, t) = ChangesOf(FeatureTypes, t)
             /\ ChangesOf(FeatureTypes, t) # {} <=> t \in ScopesOf(ks)
  BY <1>1, GroupIsAll
<1>3. H = {Sum(t) : t \in top}
  BY DEF PickHighlights
<1>4. \A t : Sum(t).scope = t
  BY DEF SummarizeScopeCommits
<1>5. s \notin top
  <2>1. {b \in H : b.scope = s} = {}
    OBVIOUS
  <2>. HIDE DEF top, H, Sum
  <2>. QED
    BY <1>3, <1>4, <2>1
<1>6. CASE s \notin S
  <2>1. s \in ScopesOf(ks)
    BY <1>2
  <2>2. s = "identity" /\ "device" \in ScopesOf(ks)
    <3>. HIDE DEF ks
    <3>. QED
      BY <1>6, <2>1
  <2>. QED
    BY <1>2, <2>2
<1>7. CASE s \in S
  <2>1. ks \in SUBSET DOMAIN nlog /\ S \in SUBSET ScopesOf(ks)
    BY DEF OfTypes, LoadCommits
  <2>2. IsFiniteSet(ScopesOf(ks))
    BY <2>1, GroupsFinite
  <2>. HIDE DEF ks, S
  <2>3. IsFiniteSet(S)
    BY <2>1, <2>2, FS_Subset
  <2>4. /\ StrictOrder(GroupOrder(ks, S), S)
        /\ \A t, u \in S : <<t, u>> \in GroupOrder(ks, S) =>
             Cardinality(GroupByScope(ks, t)) >= Cardinality(GroupByScope(ks, u))
    BY <2>1, GroupOrderStrict
  <2>5. /\ Cardinality(top) = MaxHighlights
        /\ \A t \in top : <<t, s>> \in GroupOrder(ks, S)
    BY <1>5, <1>7, <2>3, <2>4, FirstByFull, NotesAssumption
  <2>6. top \subseteq S /\ IsFiniteSet(top)
    <3>1. top \in SUBSET S
      BY DEF FirstBy
    <3>. QED
      BY <3>1, <2>3, FS_Subset
  <2>7. \A t \in top : Cardinality(GroupByScope(ks, t)) >= Cardinality(GroupByScope(ks, s))
    BY <1>7, <2>4, <2>5, <2>6
  <2>8. Cardinality(H) = Cardinality(top)
    <3>. HIDE DEF top, Sum
    <3>1. f \in [top -> H]
      BY <1>3
    <3>2. \A t, u \in top : f[t] = f[u] => t = u
      BY <1>4
    <3>3. \A b \in H : \E t \in top : f[t] = b
      BY <1>3
    <3>. HIDE DEF f, H
    <3>. QED
      BY <2>6, <3>1, <3>2, <3>3, SameSize
  <2>9. ASSUME NEW b \in H
        PROVE  Cardinality(ChangesOf(FeatureTypes, b.scope)) >= Cardinality(ChangesOf(FeatureTypes, s))
    <3>. HIDE DEF top, Sum, H
    <3>1. PICK t \in top : b = Sum(t)
      BY <1>3, <2>9
    <3>2. b.scope = t
      BY <1>4, <3>1
    <3>. QED
      BY <1>2, <2>7, <3>2
  <2>. QED
    BY <2>5, <2>8, <2>9 DEF ks
<1>. QED
  BY <1>6, <1>7

\* Fixes and features are accounted for.
LEMMA ChangesAreTold ==
  ASSUME NotesOK
  PROVE  NotesAccountForChanges
<1>. DEFINE fixes == RenderSection(OfTypes(FixTypes))
            highs == PickHighlights(OfTypes(FeatureTypes))
            Told(bullets, s) == {b \in bullets : b.scope = s}
<1>1. BuildReleaseNotes.fixes = fixes /\ BuildReleaseNotes.highlights = highs
  BY DEF BuildReleaseNotes
<1>2. ASSUME NEW s
      PROVE  /\ ChangesOf(FixTypes, s) # {} =>
                  /\ Cardinality(Told(fixes, s)) = 1
                  /\ \A b \in Told(fixes, s) :
                       /\ b.shown \subseteq SubjectsOf(ChangesOf(FixTypes, s)) /\ b.shown # {}
                       /\ Cardinality(b.shown) + b.extra
                            = Cardinality(SubjectsOf(ChangesOf(FixTypes, s)))
             /\ ChangesOf(FeatureTypes, s) # {} /\ Told(highs, s) = {} =>
                  \/ s = "identity" /\ ChangesOf(FeatureTypes, "device") # {}
                  \/ /\ Cardinality(highs) = MaxHighlights
                     /\ \A b \in highs : Cardinality(ChangesOf(FeatureTypes, b.scope))
                                            >= Cardinality(ChangesOf(FeatureTypes, s))
  BY FixesAreTold, FeaturesAreTold, Zenon
<1>. HIDE DEF fixes, highs
<1>. QED
  BY <1>1, <1>2, Zenon DEF NotesAccountForChanges, ChangesOf, SubjectsOf

\* A set of numbers with a bound has a greatest one.
LEMMA GreatestOf ==
  ASSUME NEW K \in SUBSET Nat, K # {}, NEW n \in Nat, \A k \in K : k =< n
  PROVE  \E m \in K : \A k \in K : k =< m
<1>. DEFINE U == {m \in Nat : \A k \in K : k =< m}
<1>1. PICK m \in U : \A j \in U : m =< j
  BY LeastNumber
<1>2. m \in K
  <2>. SUFFICES ASSUME m \notin K PROVE FALSE
    OBVIOUS
  <2>1. \A k \in K : k \in Nat /\ k < m
    BY <1>1
  <2>2. m - 1 \in Nat /\ \A k \in K : k =< m - 1
    <3>0. PICK k \in K : k \in Nat
      BY <2>1
    <3>1. m \in Nat /\ m > 0
      BY <2>1, <3>0
    <3>. QED
      BY <2>1, <3>1
  <2>3. m - 1 \in U
    BY <2>2
  <2>. QED
    BY <1>1, <2>3
<1>. QED
  BY <1>1, <1>2

\* A contributor is thanked for two areas at most (describeContributorWork).
LEMMA AtMostTwoAreas ==
  ASSUME NotesOK, NEW l
  PROVE  Cardinality(DescribeContributorWork(l)) =< 2
<1>. DEFINE C == CommitsOf(l)
            Areas(ks) == {WorkArea(nlog[k]) : k \in ks} \ {Untold}
            Upto(k) == {j \in C : j =< k}
            K == {k \in C : Cardinality(Areas(Upto(k))) =< 2}
            D == UNION {Areas({k}) : k \in K}
<1>1. DescribeContributorWork(l) = D
  BY DEF DescribeContributorWork
<1>2. C \in SUBSET DOMAIN nlog /\ C \in SUBSET Nat /\ IsFiniteSet(C)
  <2>1. C \in SUBSET DOMAIN nlog
    BY DEF CommitsOf
  <2>. QED
    BY <2>1, SomePositions
<1>3. CASE K = {}
  <2>1. D = {}
    BY <1>3
  <2>. HIDE DEF D
  <2>2. Cardinality(D) = 0
    BY <2>1, FS_EmptySet
  <2>. QED
    BY <1>1, <2>2
<1>4. CASE K # {}
  <2>1. Len(nlog) \in Nat /\ \A k \in C : k =< Len(nlog)
    BY <1>2 DEF NotesOK
  <2>. HIDE DEF C
  <2>2. K \in SUBSET Nat /\ \A k \in K : k =< Len(nlog)
    BY <1>2, <2>1
  <2>3. PICK m \in K : \A k \in K : k =< m
    <3>. HIDE DEF K
    <3>. QED
      BY <1>4, <2>1, <2>2, GreatestOf
  <2>4. D \in SUBSET Areas(Upto(m))
    <3>. SUFFICES ASSUME NEW k \in K, NEW a \in Areas({k}) PROVE a \in Areas(Upto(m))
      OBVIOUS
    <3>1. a = WorkArea(nlog[k]) /\ a # Untold
      OBVIOUS
    <3>2. k \in Upto(m)
      BY <2>3
    <3>. QED
      BY <3>1, <3>2
  <2>5. IsFiniteSet(Areas(Upto(m)))
    <3>1. Upto(m) \in SUBSET C
      OBVIOUS
    <3>. DEFINE P == Upto(m)
                T == {WorkArea(nlog[k]) : k \in P}
                f == [k \in P |-> WorkArea(nlog[k])]
    <3>2. IsFiniteSet(P)
      BY <1>2, <3>1, FS_Subset
    <3>. HIDE DEF P
    <3>3. f \in Surjection(P, T)
      BY DEF Surjection
    <3>4. IsFiniteSet(T)
      <4>. HIDE DEF f, T
      <4>. QED
        BY <3>2, <3>3, FS_Surjection
    <3>5. T \ {Untold} \in SUBSET T
      OBVIOUS
    <3>6. IsFiniteSet(T \ {Untold})
      <4>. HIDE DEF T
      <4>. QED
        BY <3>4, <3>5, FS_Subset
    <3>. QED
      BY <3>6 DEF P
  <2>6. Cardinality(Areas(Upto(m))) =< 2
    OBVIOUS
  <2>. DEFINE A == Areas(Upto(m))
  <2>. HIDE DEF A, D
  <2>7. /\ IsFiniteSet(D) /\ Cardinality(D) =< Cardinality(A)
        /\ Cardinality(D) \in Nat /\ Cardinality(A) \in Nat /\ Cardinality(A) =< 2
    <3>1. D \in SUBSET A /\ IsFiniteSet(A) /\ Cardinality(A) =< 2
      BY <2>4, <2>5, <2>6 DEF A
    <3>2. IsFiniteSet(D) /\ Cardinality(D) =< Cardinality(A)
      BY <3>1, FS_Subset
    <3>. QED
      BY <3>1, <3>2, FS_CardinalityType
  <2>. QED
    BY <1>1, <2>7
<1>. QED
  BY <1>3, <1>4

\* Who is found to be new has no commit under that login before the previous tag
\* (collectContributors, authorHasPriorContributions).
LEMMA NewIsNew ==
  ASSUME NotesOK, NEW l, l # NoName, IsNewContributor(l), NEW p \in nprior
  PROVE  ResolveGithubLogin(p) # l
<1>. DEFINE k == FirstOf(CommitsOf(l))
<1>1. CommitsOf(l) # {} /\ CommitsOf(l) \in SUBSET DOMAIN nlog
  BY DEF IsNewContributor, CommitsOf
<1>2. k \in CommitsOf(l)
  BY <1>1, SomePositions, Least
<1>3. ~AuthorHasPriorContributions(nlog[k].author)
  BY DEF IsNewContributor
<1>. HIDE DEF k
<1>4. ResolveGithubLogin(nlog[k].author) = l
  BY <1>2 DEF CommitsOf
<1>. QED
  BY <1>3, <1>4, Zenon DEF AuthorHasPriorContributions

\* The lists of contributors are right (renderContributorSections).
LEMMA CreditsDue ==
  ASSUME NotesOK
  PROVE  CreditsAreDue
<1>1. /\ BuildReleaseNotes.new = NewContributorLines
      /\ BuildReleaseNotes.thanks = [l \in CollectContributors |-> DescribeContributorWork(l)]
  BY DEF BuildReleaseNotes
<1>2. ExtractGithubSections.new = nbody.new
  BY DEF ExtractGithubSections
<1>3. ASSUME NEW l \in DOMAIN NewContributorLines
      PROVE  /\ NewContributorLines[l] =< 1
             /\ NewContributorLines[l] = 1 /\ l \notin nbody.new =>
                  \A p \in nprior : ResolveGithubLogin(p) # l
  <2>1. l \in CollectContributors \cup nbody.new
    BY <1>2, <1>3 DEF NewContributorLines
  <2>2. NewContributorLines[l] = IF l \in nbody.new THEN 1
                                 ELSE IF IsNewContributor(l) THEN 1 ELSE 0
    BY <1>2, <2>1 DEF NewContributorLines
  <2>3. NewContributorLines[l] =< 1
    BY <2>2
  <2>4. ASSUME NewContributorLines[l] = 1, l \notin nbody.new, NEW p \in nprior
        PROVE  ResolveGithubLogin(p) # l
    <3>1. IsNewContributor(l)
      BY <2>2, <2>4
    <3>2. l # NoName
      BY <2>1, <2>4, Zenon DEF CollectContributors
    <3>. QED
      BY <2>4, <3>1, <3>2, NewIsNew
  <2>. QED
    BY <2>3, <2>4
<1>4. DOMAIN BuildReleaseNotes.thanks = CollectContributors
  BY <1>1
<1>5. Owner \notin CollectContributors
  BY Zenon DEF CollectContributors
<1>6. \A l \in CollectContributors : Cardinality(BuildReleaseNotes.thanks[l]) =< 2
  BY <1>1, AtMostTwoAreas
<1>. QED
  BY <1>1, <1>3, <1>4, <1>5, <1>6, Zenon DEF CreditsAreDue

\* The notes of a log of commits are right.
LEMMA NotesGoal ==
  ASSUME NotesOK
  PROVE  NotesAreRight
BY ChangesAreTold, CreditsDue DEF NotesAreRight

\* The log is empty at first.
LEMMA NotesStart ==
  ASSUME NotesInit
  PROVE  NotesOK
BY DEF NotesInit, NotesOK

\* A commit that lands and a tag keep the log one of commits.
LEMMA NotesStep ==
  ASSUME NotesOK, [NotesNext]_notesVars
  PROVE  NotesOK'
<1>1. CASE TagRelease
  BY <1>1 DEF TagRelease, NotesOK
<1>2. ASSUME NEW c \in Commits, CommitLands(c)
      PROVE  NotesOK'
  BY <1>2 DEF CommitLands, NotesOK
<1>3. CASE UNCHANGED notesVars
  BY <1>3 DEF notesVars, NotesOK
<1>. QED
  BY <1>1, <1>2, <1>3 DEF NotesNext

-----------------------------------------------------------------------------
\* The types of the parts.

\* The flags of the updater.
UFlags ==
  /\ polling \in BOOLEAN /\ asking \in BOOLEAN /\ confirming \in BOOLEAN
  /\ transferBusy \in BOOLEAN /\ autoUpdate \in BOOLEAN /\ offbeat \in BOOLEAN

\* The flags of the updater stay Booleans.
LEMMA UFlagsStep ==
  ASSUME UFlags, [UNext]_upVars
  PROVE  UFlags'
<1>1. CASE PollStarts \/ PollAnswers \/ SyncEffect \/ AskForUpdates \/ AskAnswers
  BY <1>1, Zenon DEF UFlags, PollStarts, PollAnswers, SyncEffect, AskForUpdates, AskAnswers
<1>2. CASE ToggleAutoUpdate \/ Draw \/ Dismiss \/ TransfersChange
  <2>1. autoUpdate' \in BOOLEAN /\ transferBusy' \in BOOLEAN
    BY <1>2, Zenon DEF UFlags, ToggleAutoUpdate, Draw, Dismiss, TransfersChange
  <2>2. UNCHANGED <<polling, asking, confirming, offbeat>>
    BY <1>2, Zenon DEF ToggleAutoUpdate, Draw, Dismiss, TransfersChange
  <2>. QED
    BY <2>1, <2>2, Zenon DEF UFlags
<1>3. CASE Install
  <2>1. offbeat' \in BOOLEAN
    BY <1>3, Zenon DEF Install
  <2>2. UNCHANGED <<polling, asking, confirming, transferBusy, autoUpdate>>
    BY <1>3, Zenon DEF Install
  <2>. QED
    BY <2>1, <2>2, Zenon DEF UFlags
<1>4. ASSUME NEW i \in DOMAIN installs, Recheck(i) \/ AddProgress(i) \/ InstallEnds(i)
      PROVE  UFlags'
  <2>1. offbeat' \in BOOLEAN
    BY <1>4, Zenon DEF UFlags, Recheck, AddProgress, InstallEnds
  <2>2. UNCHANGED <<polling, asking, confirming, transferBusy, autoUpdate>>
    BY <1>4, Zenon DEF Recheck, AddProgress, InstallEnds
  <2>. QED
    BY <2>1, <2>2, Zenon DEF UFlags
<1>5. CASE BannerRestart \/ BannerKeepsRunning \/ PanelRestart \/ RelaunchEnds
  <2>1. confirming' \in BOOLEAN /\ UNCHANGED autoUpdate
    BY <1>5, Zenon DEF UFlags, BannerRestart, BannerKeepsRunning, PanelRestart, RelaunchEnds
  <2>2. /\ polling' \in BOOLEAN /\ asking' \in BOOLEAN
        /\ transferBusy' \in BOOLEAN /\ offbeat' \in BOOLEAN
    BY <1>5, Zenon DEF UFlags, BannerRestart, BannerKeepsRunning, PanelRestart, RelaunchEnds
  <2>. QED
    BY <2>1, <2>2, Zenon DEF UFlags
<1>6. CASE UNCHANGED upVars
  BY <1>6, Zenon DEF UFlags, upVars
<1>. QED
  BY <1>1, <1>2, <1>3, <1>4, <1>5, <1>6 DEF UNext

\* The invariant and the flags are the updater's types.
LEMMA UpdTypes ==
  ASSUME UpdInv, UFlags
  PROVE  UTypeOK
<1>1. Len(installs) =< 2
  <2>1. CASE installs = <<>>
    BY <2>1
  <2>2. CASE \E h, g, d : InstallRuns(h, g, d)
    <3>1. PICK x : installs = <<x>>
      BY <2>2 DEF InstallRuns
    <3>. QED
      BY <3>1
  <2>. QED
    BY <2>1, <2>2 DEF UpdInv, InstallTracked
<1>2. {polling, asking, confirming, transferBusy, autoUpdate, offbeat} \subseteq BOOLEAN
  BY Zenon DEF UFlags
<1>3. {ucache, synced} \subseteq Releases \cup {UNone, Unfetched}
  BY Zenon DEF UpdInv, UTypes
<1>. QED
  BY <1>1, <1>2, <1>3, Zenon DEF UTypeOK, UpdInv, UTypes

\* The bounds and the flags of the history page.
HBounds ==
  /\ hnews =< 2 /\ hchanges \in 0..MaxNews /\ Len(hreads) =< MaxReads
  /\ hexpanded \subseteq Rows
  /\ hdialog \in Rows \cup {"none", "clear"} /\ hmissing \in Rows \cup {"none"}
  /\ hclearing \in {NotAsked, "open", "busy", "hidden"}
HFlags == hpage \in BOOLEAN /\ hhears \in BOOLEAN /\ hloading \in BOOLEAN /\ hbusy \in BOOLEAN /\ htorn \in BOOLEAN

\* The flags of the history page stay Booleans.
LEMMA HFlagsStep ==
  ASSUME HFlags, [HNext]_hVars
  PROVE  HFlags'
<1>1. CASE \E r \in Rows : TransferStarts(r) \/ TransferEnds(r) \/ ToggleRow(r)
                     \/ AskRemove(r) \/ HandleReclaim(r) \/ HandleOpen(r)
  BY <1>1, Zenon DEF HFlags, TransferStarts, TransferEnds, ToggleRow, AskRemove, HandleReclaim,
                     HandleOpen, Begin
<1>2. ASSUME NEW i \in DOMAIN hreads,
             RefreshReads(i) \/ RefreshLists(i) \/ RefreshStats(i) \/ RefreshFails(i)
      PROVE  HFlags'
  <2>1. UNCHANGED <<hpage, hhears>> /\ htorn' \in BOOLEAN
    BY <1>2, Zenon DEF HFlags, RefreshReads, RefreshLists, RefreshStats, RefreshFails
  <2>2. hloading' \in BOOLEAN /\ hbusy' \in BOOLEAN
    BY <1>2, Zenon DEF HFlags, RefreshReads, RefreshLists, RefreshStats, RefreshFails, AfterRefresh
  <2>. QED
    BY <2>1, <2>2, Zenon DEF HFlags
<1>3. CASE \/ \E s \in {"all", "failed"} : SetStatus(s)
           \/ OnHistoryUpdated \/ AskClearAll \/ CloseDialogs \/ HandleRemove \/ HandleClearAll
           \/ OpFails \/ OpRuns \/ ClearQuestion
  BY <1>3, Zenon DEF HFlags, SetStatus, OnHistoryUpdated, AskClearAll, CloseDialogs, HandleRemove,
                     HandleClearAll, Begin, OpFails, OpRuns, ClearQuestion
<1>4. CASE OpenHistory \/ CloseHistory \/ HistoryListens \/ AnnouncementLost
  BY <1>4, Zenon DEF HFlags, OpenHistory, CloseHistory, HistoryListens, AnnouncementLost
<1>5. CASE SettingsClear
  BY <1>5, Zenon DEF HFlags, SettingsClear
<1>6. CASE UNCHANGED hVars
  BY <1>6, Zenon DEF HFlags, hVars
<1>. QED
  BY <1>1, <1>2, <1>3, <1>4, <1>5, <1>6 DEF HNext

\* News, transfers and refreshes stay within their bounds, and a dialog is about a row.
LEMMA HBoundsStep ==
  ASSUME HistTypes, HBounds, [HNext]_hVars
  PROVE  HBounds'
<1>. MaxReads \in Nat \ {0} /\ MaxNews \in Nat
  BY HistoryAssumption
<1>. HIDE HistoryAssumption
<1>0. /\ hreads \in Seq(Reads) /\ hnews \in Nat
      /\ Len(hreads) \in Nat /\ DOMAIN hreads = 1..Len(hreads)
  BY DEF HistTypes
<1>1. ASSUME NEW r \in Rows, TransferStarts(r) \/ TransferEnds(r)
      PROVE  HBounds'
  <2>1. hnews' =< 2 /\ hchanges' \in 0..MaxNews
    BY <1>0, <1>1 DEF HBounds, TransferStarts, TransferEnds
  <2>2. UNCHANGED <<hreads, hexpanded, hdialog, hmissing, hclearing>>
    BY <1>1, Zenon DEF TransferStarts, TransferEnds
  <2>. QED
    BY <2>1, <2>2 DEF HBounds
<1>2. ASSUME NEW r \in Rows, ToggleRow(r) \/ AskRemove(r) \/ HandleReclaim(r) \/ HandleOpen(r)
      PROVE  HBounds'
  <2>1. UNCHANGED <<hnews, hchanges, hreads, hclearing>>
    BY <1>2, Zenon DEF ToggleRow, AskRemove, HandleReclaim, HandleOpen, Begin
  <2>2. hexpanded' \subseteq Rows
    BY <1>2, Zenon DEF HBounds, ToggleRow, AskRemove, HandleReclaim, HandleOpen, Begin
  <2>3. hdialog' \in Rows \cup {"none", "clear"} /\ hmissing' \in Rows \cup {"none"}
    BY <1>2, Zenon DEF HBounds, ToggleRow, AskRemove, HandleReclaim, HandleOpen, Begin
  <2>. QED
    BY <2>1, <2>2, <2>3 DEF HBounds
<1>3. ASSUME NEW i \in DOMAIN hreads,
             RefreshReads(i) \/ RefreshLists(i) \/ RefreshStats(i) \/ RefreshFails(i)
      PROVE  HBounds'
  <2>1. UNCHANGED <<hnews, hchanges, hexpanded, hmissing, hclearing>>
    BY <1>3, Zenon DEF RefreshReads, RefreshLists, RefreshStats, RefreshFails
  <2>2. hdialog' \in Rows \cup {"none", "clear"}
    BY <1>3, Zenon DEF HBounds, RefreshReads, RefreshLists, RefreshStats, RefreshFails, AfterRefresh
  <2>3. Len(hreads') =< MaxReads
    <3>1. CASE RefreshReads(i)
      BY <1>0, <3>1 DEF RefreshReads, HBounds
    <3>2. CASE RefreshLists(i)
      BY <1>0, <3>2 DEF RefreshLists, OvertakenBy, HBounds
    <3>3. CASE RefreshStats(i)
      <4>1. Len(OvertakenBy(i)) = Len(hreads)
        BY <1>0 DEF OvertakenBy
      <4>2. Len(hreads') = Len(hreads) - 1
        BY <1>0, <3>3, <4>1 DEF RefreshStats
      <4>. QED
        BY <1>0, <4>2 DEF HBounds
    <3>4. CASE RefreshFails(i)
      BY <1>0, <3>4 DEF RefreshFails, DropRead, HBounds
    <3>. QED
      BY <1>3, <3>1, <3>2, <3>3, <3>4
  <2>. QED
    BY <2>1, <2>2, <2>3 DEF HBounds
<1>4. CASE OnHistoryUpdated \/ OpRuns
  <2>1. hnews' =< 2
    BY <1>0, <1>4 DEF HBounds, OnHistoryUpdated, OpRuns
  <2>2. Len(hreads') =< MaxReads
    <3>1. Len(hreads) < MaxReads /\ \E x : hreads' = Append(hreads, x)
      BY <1>4 DEF OnHistoryUpdated, OpRuns
    <3>. QED
      BY <1>0, <3>1
  <2>3. UNCHANGED <<hchanges, hexpanded, hdialog, hmissing, hclearing>>
    BY <1>4, Zenon DEF OnHistoryUpdated, OpRuns
  <2>. QED
    BY <2>1, <2>2, <2>3 DEF HBounds
<1>5. CASE OpenHistory \/ CloseHistory
  <2>1. /\ hnews' = 0 /\ hexpanded' = {} /\ hdialog' = "none" /\ hmissing' = "none"
        /\ UNCHANGED <<hchanges, hclearing>>
    BY <1>5, Zenon DEF OpenHistory, CloseHistory
  <2>2. Len(hreads') =< MaxReads
    <3>1. hreads' = <<>> \/ \E x : hreads' = <<x>>
      BY <1>5, Zenon DEF OpenHistory, CloseHistory
    <3>. QED
      BY <3>1
  <2>. QED
    BY <2>1, <2>2 DEF HBounds
<1>6. CASE \/ \E s \in {"all", "failed"} : SetStatus(s)
           \/ AskClearAll \/ CloseDialogs \/ HandleRemove \/ HandleClearAll \/ OpFails
  <2>1. UNCHANGED <<hnews, hchanges, hreads, hexpanded, hclearing>>
    BY <1>6, Zenon DEF SetStatus, AskClearAll, CloseDialogs, HandleRemove, HandleClearAll, Begin, OpFails
  <2>2. hdialog' \in {hdialog, "none", "clear"} /\ hmissing' \in {hmissing, "none"}
    BY <1>6, Zenon DEF SetStatus, AskClearAll, CloseDialogs, HandleRemove, HandleClearAll, Begin, OpFails
  <2>. QED
    BY <2>1, <2>2 DEF HBounds
<1>7. CASE ClearQuestion \/ SettingsClear
  <2>1. UNCHANGED <<hnews, hchanges, hreads, hexpanded, hdialog, hmissing>>
    BY <1>7, Zenon DEF ClearQuestion, SettingsClear
  <2>2. hclearing \in {NotAsked, "open", "busy", "hidden"}
    BY Zenon DEF HBounds
  <2>3. CASE ClearQuestion
    <3>1. hclearing' = CASE hclearing = NotAsked -> "open" [] hclearing = "open" -> NotAsked
                         [] hclearing = "busy" -> "hidden" [] hclearing = "hidden" -> "busy"
      BY <2>3, Zenon DEF ClearQuestion
    <3>2. hclearing' \in {NotAsked, "open", "busy", "hidden"}
      BY <2>2, <3>1, Zenon
    <3>. QED
      BY <2>1, <3>2, Zenon DEF HBounds
  <2>4. CASE SettingsClear
    <3>1. hclearing' \in {NotAsked, "open", "busy"}
      BY <2>4, Zenon DEF SettingsClear
    <3>. QED
      BY <2>1, <3>1, Zenon DEF HBounds
  <2>. QED
    BY <1>7, <2>3, <2>4
<1>9. CASE HistoryListens \/ AnnouncementLost
  <2>1. hnews' =< 2
    BY <1>0, <1>9 DEF HBounds, HistoryListens, AnnouncementLost
  <2>2. UNCHANGED <<hchanges, hreads, hexpanded, hdialog, hmissing, hclearing>>
    BY <1>9, Zenon DEF HistoryListens, AnnouncementLost
  <2>. QED
    BY <2>1, <2>2 DEF HBounds
<1>8. CASE UNCHANGED hVars
  BY <1>8 DEF hVars, HBounds
<1>. QED
  BY <1>1, <1>2, <1>3, <1>4, <1>5, <1>6, <1>7, <1>8, <1>9 DEF HNext

\* The invariant, the bounds and the flags are the page's types.
LEMMA HistTypesOK ==
  ASSUME HistInv, HBounds, HFlags
  PROVE  HTypeOK
<1>1. hnews \in 0..2
  BY DEF HistInv, HistTypes, HBounds
<1>2. {hpage, hhears, hloading, hbusy, htorn} \subseteq BOOLEAN
  BY Zenon DEF HFlags
<1>3. htemp \subseteq Rows
  BY Zenon DEF HistInv, HistTypes
<1>. QED
  BY <1>1, <1>2, <1>3, Zenon DEF HTypeOK, HBounds, HistInv, HistTypes

\* The bounds and the flags of the settings.
ABounds == Len(swrites) =< 2 /\ slaunches \in 1..MaxLaunches
AFlags ==
  /\ nodeReady \in BOOLEAN /\ nodeSynced \in BOOLEAN /\ early \in BOOLEAN
  /\ discOff \in BOOLEAN /\ menuOff \in BOOLEAN /\ discGuessed \in BOOLEAN

\* A changed setting is the second write at most.
LEMMA SetLength ==
  ASSUME SettingsTypes, NEW m, SetSettings(m)
  PROVE  Len(swrites') =< 2
BY DEF SettingsTypes, SetSettings

\* At most two writes are queued, and the launches are counted.
LEMMA ABoundsStep ==
  ASSUME SettingsTypes, SettingsTypes', ABounds, SettingsAssumption, [ANext]_aVars
  PROVE  ABounds'
<1>1. CASE FileSaves \/ MountWaits
  <2>1. UNCHANGED slaunches
    BY <1>1, Zenon DEF FileSaves, MountWaits, StartHydration
  <2>2. Len(swrites') =< 2
    BY <1>1 DEF FileSaves, MountWaits, StartHydration, SettingsTypes, ABounds
  <2>. QED
    BY <2>1, <2>2 DEF ABounds
<1>2. CASE FinishHydration
  <2>1. UNCHANGED slaunches
    BY <1>2, Zenon DEF FinishHydration
  <2>2. Len(swrites) < 2 /\ (UNCHANGED swrites \/ \E x : swrites' = Append(swrites, x))
    BY <1>2, Zenon DEF FinishHydration, FirstRun
  <2>3. Len(swrites') =< 2
    BY <2>2 DEF SettingsTypes
  <2>. QED
    BY <2>1, <2>3 DEF ABounds
<1>3. CASE Relaunch
  BY <1>3 DEF Relaunch, ABounds, SettingsAssumption
<1>4. CASE DiscNext
  <2>1. UNCHANGED slaunches
    BY <1>4, Zenon DEF DiscNext, NodeBecomesReady, SyncNodeOnStartup, LoadDiscoverability,
                       ChangeDiscoverability, DiscoverabilityAnswers, fileVars
  <2>2. UNCHANGED swrites \/ \E m : SetSettings(m)
    BY <1>4, Zenon DEF DiscNext, NodeBecomesReady, SyncNodeOnStartup, LoadDiscoverability,
                       ChangeDiscoverability, DiscoverabilityAnswers
  <2>. QED
    BY <2>1, <2>2, SetLength DEF ABounds
<1>5. CASE BootNext
  <2>1. UNCHANGED slaunches
    BY <1>5, Zenon DEF BootNext, ToggleBoot, BootAnswers, BootLoads, fileVars
  <2>2. UNCHANGED swrites \/ \E m : SetSettings(m)
    BY <1>5, Zenon DEF BootNext, ToggleBoot, BootAnswers, BootLoads
  <2>. QED
    BY <2>1, <2>2, SetLength DEF ABounds
<1>6. CASE MenuNext
  <2>1. UNCHANGED slaunches
    BY <1>6, Zenon DEF MenuNext, ToggleMenu, MenuAnswers, fileVars
  <2>2. UNCHANGED swrites \/ \E m : SetSettings(m)
    BY <1>6, Zenon DEF MenuNext, ToggleMenu, MenuAnswers
  <2>. QED
    BY <2>1, <2>2, SetLength DEF ABounds
<1>7. CASE UNCHANGED aVars
  BY <1>7 DEF aVars, ABounds
<1>. QED
  BY <1>1, <1>2, <1>3, <1>4, <1>5, <1>6, <1>7 DEF ANext, StoreNext

\* The flags of the settings stay Booleans.
LEMMA AFlagsStep ==
  ASSUME AFlags, [ANext]_aVars
  PROVE  AFlags'
<1>1. CASE FileSaves \/ MountWaits
  BY <1>1, Zenon DEF FileSaves, MountWaits, StartHydration, AFlags, nodeVars, discVars
<1>2. CASE FinishHydration
  BY <1>2, Zenon DEF FinishHydration, WindowsContextMenuSync, AFlags, nodeVars, discVars
<1>3. CASE Relaunch
  BY <1>3, Zenon DEF Relaunch, AFlags
<1>4. CASE DiscNext
  <2>1. nodeReady' \in BOOLEAN /\ nodeSynced' \in BOOLEAN /\ menuOff' \in BOOLEAN
    BY <1>4, Zenon DEF DiscNext, NodeBecomesReady, SyncNodeOnStartup, LoadDiscoverability,
                       ChangeDiscoverability, DiscoverabilityAnswers, nodeVars, AFlags
  <2>3. discGuessed' \in BOOLEAN
    BY <1>4, Zenon DEF DiscNext, NodeBecomesReady, SyncNodeOnStartup, LoadDiscoverability,
                       ChangeDiscoverability, DiscoverabilityAnswers, discVars, AFlags
  <2>2. early' \in BOOLEAN /\ discOff' \in BOOLEAN
    BY <1>4, Zenon DEF DiscNext, NodeBecomesReady, SyncNodeOnStartup, LoadDiscoverability,
                       ChangeDiscoverability, DiscoverabilityAnswers, SetSettings, AFlags
  <2>. QED
    BY <2>1, <2>2, <2>3, Zenon DEF AFlags
<1>5. CASE BootNext
  BY <1>5, Zenon DEF BootNext, ToggleBoot, BootAnswers, BootLoads, nodeVars, discVars, SetSettings, AFlags
<1>6. CASE MenuNext
  BY <1>6, Zenon DEF MenuNext, ToggleMenu, MenuAnswers, nodeVars, discVars, SetSettings, AFlags
<1>7. CASE UNCHANGED aVars
  BY <1>7, Zenon DEF aVars, AFlags
<1>. QED
  BY <1>1, <1>2, <1>3, <1>4, <1>5, <1>6, <1>7, Zenon DEF ANext, StoreNext

\* The invariant, the bounds and the flags are the settings' types.
LEMMA SettingsTypesOK ==
  ASSUME SettingsTypes, ABounds, AFlags
  PROVE  ATypeOK
<1>1. {sfile, smem, sread} \subseteq SettingsRecord
  BY Zenon DEF SettingsTypes
<1>2. {nodeReady, nodeSynced, discGuessed, osBoot, osMenu, early, discOff, menuOff} \subseteq BOOLEAN
  BY Zenon DEF SettingsTypes, AFlags
<1>. QED
  BY <1>1, <1>2, Zenon DEF ATypeOK, SettingsTypes, ABounds

\* The types of the guard's state, and its flags.
GTypes ==
  /\ nnode \in Networks /\ ninit \in Networks /\ Len(nsyncs) =< 2
  /\ nleft \in {NotLeft, "warned", "silent"}
GFlags ==
  /\ nready \in BOOLEAN /\ ndid \in BOOLEAN /\ nsharing \in BOOLEAN /\ npage \in BOOLEAN
  /\ nblocked \in BOOLEAN /\ nlost \in BOOLEAN

\* A call that configures the node carries a configuration.
LEMMA SyncsFields ==
  ASSUME GuardInv, NEW i \in DOMAIN nsyncs
  PROVE  nsyncs[i].cfg \in Networks /\ nsyncs[i].late \in BOOLEAN
<1>1. nsyncs[i] \in Syncs
  BY DEF GuardInv
<1>2. \A c \in Syncs : c.cfg \in Networks /\ c.late \in BOOLEAN
  BY DEF Syncs
<1>. QED
  BY <1>1, <1>2, Zenon

\* The node runs with one of the configurations, and at most two calls are under way.
LEMMA GTypesStep ==
  ASSUME GuardInv, GTypes, [GNext]_gVars
  PROVE  GTypes'
<1>0. nsyncs \in Seq(Syncs) /\ ncfg \in Networks
  BY DEF GuardInv
<1>s. ASSUME NEW c, SyncNodeNetworkSettings(c) PROVE Len(nsyncs') =< 2
  BY <1>0, <1>s DEF SyncNodeNetworkSettings
<1>1. CASE EnterSettings \/ BlockLeave \/ CancelLeave \/ LeaveQuietly \/ SharingChanges
           \/ \E c \in Networks : EditNetwork(c)
  <2>1. UNCHANGED <<nnode, nsyncs>>
    BY <1>1, Zenon DEF EnterSettings, BlockLeave, CancelLeave, LeaveQuietly, SharingChanges, EditNetwork
  <2>2. ninit' \in {ninit, ncfg} /\ nleft' \in {nleft, NotLeft, "silent"}
    BY <1>1, Zenon DEF EnterSettings, BlockLeave, CancelLeave, LeaveQuietly, SharingChanges, EditNetwork
  <2>. QED
    BY <1>0, <2>1, <2>2, Zenon DEF GTypes
<1>2. CASE ConfirmLeave \/ NodeReadyChanges
  <2>1. UNCHANGED <<nnode, ninit>> /\ nleft' \in {nleft, "warned"}
    BY <1>2, Zenon DEF ConfirmLeave, NodeReadyChanges
  <2>2. UNCHANGED nsyncs \/ SyncNodeNetworkSettings(ncfg)
    BY <1>2, Zenon DEF ConfirmLeave, NodeReadyChanges
  <2>3. Len(nsyncs') =< 2
    BY <1>s, <2>2, Zenon DEF GTypes
  <2>. QED
    BY <2>1, <2>3, Zenon DEF GTypes
<1>3. ASSUME NEW i \in DOMAIN nsyncs, ReconfigureNodeRelay(i)
      PROVE  GTypes'
  <2>1. nnode' \in {nnode, nsyncs[i].cfg} /\ UNCHANGED <<ninit, nleft>>
    BY <1>3, Zenon DEF ReconfigureNodeRelay
  <2>2. nsyncs[i].cfg \in Networks
    BY SyncsFields
  <2>3. Len(nsyncs') = Len(nsyncs) - 1 /\ Len(nsyncs) \in Nat
    <3>. DEFINE m == [j \in DOMAIN nsyncs |-> [nsyncs[j] EXCEPT !.late = @ \/ j < i]]
    <3>1. nsyncs' = [j \in 1..(Len(nsyncs) - 1) |-> IF j < i THEN m[j] ELSE m[j + 1]]
      BY <1>3, Zenon DEF ReconfigureNodeRelay
    <3>. HIDE DEF m
    <3>2. Len(nsyncs) \in Nat /\ Len(nsyncs) > 0
      BY <1>0
    <3>. QED
      BY <3>1, <3>2
  <2>4. Len(nsyncs') =< 2
    BY <2>3 DEF GTypes
  <2>. QED
    BY <2>1, <2>2, <2>4, Zenon DEF GTypes
<1>4. CASE UNCHANGED gVars
  BY <1>4, Zenon DEF gVars, GTypes
<1>. QED
  BY <1>1, <1>2, <1>3, <1>4 DEF GNext

\* The flags of the guard stay Booleans.
LEMMA GFlagsStep ==
  ASSUME GuardInv, GFlags, [GNext]_gVars
  PROVE  GFlags'
<1>1. CASE EnterSettings \/ BlockLeave \/ CancelLeave \/ LeaveQuietly
           \/ \E c \in Networks : EditNetwork(c)
  BY <1>1, Zenon DEF EnterSettings, BlockLeave, CancelLeave, LeaveQuietly, EditNetwork, GFlags
<1>2. CASE ConfirmLeave
  BY <1>2, Zenon DEF ConfirmLeave, GFlags
<1>3. CASE NodeReadyChanges \/ SharingChanges
  <2>1. nready' \in BOOLEAN /\ nsharing' \in BOOLEAN
    BY <1>3, Zenon DEF NodeReadyChanges, SharingChanges, GFlags
  <2>2. ndid' \in BOOLEAN /\ UNCHANGED <<npage, nblocked, nlost>>
    BY <1>3, Zenon DEF NodeReadyChanges, SharingChanges, GFlags
  <2>. QED
    BY <2>1, <2>2, Zenon DEF GFlags
<1>4. ASSUME NEW i \in DOMAIN nsyncs, ReconfigureNodeRelay(i)
      PROVE  GFlags'
  <2>1. nlost' \in {nsyncs[i].late, TRUE} /\ ndid' \in {ndid, FALSE}
    BY <1>4, Zenon DEF ReconfigureNodeRelay
  <2>2. UNCHANGED <<nready, nsharing, npage, nblocked>>
    BY <1>4, Zenon DEF ReconfigureNodeRelay
  <2>3. nsyncs[i].late \in BOOLEAN
    BY SyncsFields, Zenon
  <2>. QED
    BY <2>1, <2>2, <2>3, Zenon DEF GFlags
<1>5. CASE UNCHANGED gVars
  BY <1>5, Zenon DEF gVars, GFlags
<1>. QED
  BY <1>1, <1>2, <1>3, <1>4, <1>5 DEF GNext

\* The invariant, the types and the flags are the guard's types.
LEMMA GuardTypesOK ==
  ASSUME GuardInv, GTypes, GFlags
  PROVE  GTypeOK
<1>1. {ncfg, nnode, ninit} \subseteq Networks
  BY Zenon DEF GuardInv, GTypes
<1>2. {nready, ndid, nsharing, npage, nblocked, nlost} \subseteq BOOLEAN
  BY Zenon DEF GFlags
<1>. QED
  BY <1>1, <1>2, Zenon DEF GTypeOK, GTypes

\* The types of the relay and discovery pages, and their flags.
PTypes ==
  /\ rmode \in ModesOffered /\ rfallback \in {"strict", "public"}
  /\ rrows \in Seq(Fields) /\ Len(rrows) \in 1..MaxRows
  /\ durl \in Fields /\ dorigin \in Fields /\ dstatus \in {"idle", "ok", "failed"}
PFlags == rtoken \in BOOLEAN /\ dcustom \in BOOLEAN /\ dedited \in BOOLEAN

\* The relay page keeps at least one row and at most MaxRows, all of them fields.
LEMMA RelayTypes ==
  ASSUME PTypes, RelayNext
  PROVE  PTypes'
<1>0. NoUrl \in Fields /\ MaxRows \in Nat \ {0}
  BY PagesAssumption, Zenon DEF Fields
<1>1. UNCHANGED <<durl, dorigin, dstatus>>
  BY Zenon DEF RelayNext, discoveryVars
<1>2. CASE \/ \E m \in ModesOffered : SetRelayMode(m)
           \/ \E f \in {"strict", "public"} : SetRelayFallback(f)
           \/ ToggleToken \/ VerifyCustomRelays \/ VerifyAnswers \/ TestDefaultRelays
  <2>1. UNCHANGED rrows
    BY <1>2, Zenon DEF SetRelayMode, SetRelayFallback, ToggleToken, VerifyCustomRelays, VerifyAnswers,
                       TestDefaultRelays
  <2>2. rmode' \in ModesOffered /\ rfallback' \in {"strict", "public"}
    BY <1>2, Zenon DEF PTypes, SetRelayMode, SetRelayFallback, ToggleToken, VerifyCustomRelays,
                       VerifyAnswers, TestDefaultRelays
  <2>. QED
    BY <1>1, <2>1, <2>2, Zenon DEF PTypes
<1>3. ASSUME UNCHANGED <<rmode, rfallback>>, rrows' \in Seq(Fields), Len(rrows') \in 1..MaxRows
      PROVE  PTypes'
  BY <1>1, <1>3, Zenon DEF PTypes
<1>. DEFINE n == NoUrl
            F == Fields
<1>4. n \in F /\ rrows \in Seq(F) /\ Len(rrows) \in 1..MaxRows
  BY <1>0 DEF PTypes
<1>. HIDE DEF n, F
<1>5. CASE AddUrl
  <2>1. UNCHANGED <<rmode, rfallback>> /\ rrows' = Append(rrows, n) /\ Len(rrows) < MaxRows
    BY <1>5, Zenon DEF AddUrl, n
  <2>2. rrows' \in Seq(F) /\ Len(rrows') \in 1..MaxRows
    BY <1>0, <1>4, <2>1
  <2>. QED
    BY <1>3, <2>1, <2>2 DEF F
<1>6. ASSUME NEW i \in DOMAIN rrows, RemoveUrl(i)
      PROVE  PTypes'
  <2>1. /\ UNCHANGED <<rmode, rfallback>>
        /\ rrows' = IF Len(rrows) =< 1 THEN <<n>>
              ELSE [j \in 1..(Len(rrows) - 1) |->
                      IF j < i THEN rrows[j] ELSE rrows[j + 1]]
    BY <1>6, Zenon DEF RemoveUrl, n
  <2>2. CASE Len(rrows) =< 1
    <3>1. rrows' = <<n>>
      BY <2>1, <2>2
    <3>2. rrows' \in Seq(F) /\ Len(rrows') \in 1..MaxRows
      BY <1>0, <1>4, <3>1
    <3>. QED
      BY <1>3, <2>1, <3>2 DEF F
  <2>3. CASE ~(Len(rrows) =< 1)
    <3>1. rrows' = DropCall(rrows, i)
      BY <2>1, <2>3 DEF DropCall
    <3>2. rrows' \in Seq(F) /\ Len(rrows') = Len(rrows) - 1
      BY <1>4, <3>1, DropSeq
    <3>3. Len(rrows') \in 1..MaxRows
      BY <1>0, <1>4, <2>3, <3>2
    <3>. QED
      BY <1>3, <2>1, <3>2, <3>3 DEF F
  <2>. QED
    BY <2>2, <2>3
<1>7. ASSUME NEW i \in DOMAIN rrows, NEW u \in Fields, UpdateUrl(i, u)
      PROVE  PTypes'
  <2>1. UNCHANGED <<rmode, rfallback>> /\ rrows' = [rrows EXCEPT ![i] = u] /\ u \in F
    BY <1>7, Zenon DEF UpdateUrl, F
  <2>2. rrows' \in Seq(F) /\ Len(rrows') \in 1..MaxRows
    BY <1>4, <2>1
  <2>. QED
    BY <1>3, <2>1, <2>2 DEF F
<1>. QED
  BY <1>2, <1>5, <1>6, <1>7 DEF RelayNext

\* The pages keep their types.
LEMMA PTypesStep ==
  ASSUME PTypes, RelayNext \/ DiscoveryNext \/ StatusNext \/ UNCHANGED pVars
  PROVE  PTypes'
<1>1. CASE DiscoveryNext
  <2>1. UNCHANGED <<rmode, rrows, rfallback>>
    BY <1>1, Zenon DEF DiscoveryNext, relayVars
  <2>2. durl' \in Fields /\ dorigin' \in Fields /\ dstatus' \in {"idle", "ok", "failed"}
    BY <1>1, Zenon DEF DiscoveryNext, PTypes, SetDiscoveryMode, TestDiscovery, DiscoveryAnswers,
                       UpdatePkarrUrl, UpdateDnsOrigin
  <2>. QED
    BY <2>1, <2>2, Zenon DEF PTypes
<1>2. CASE StatusNext
  BY <1>2, Zenon DEF StatusNext, relayVars, discoveryVars, PTypes
<1>3. CASE UNCHANGED pVars
  BY <1>3, Zenon DEF pVars, relayVars, discoveryVars, PTypes
<1>. QED
  BY <1>1, <1>2, <1>3, RelayTypes

\* The flags of the pages stay Booleans.
LEMMA PFlagsStep ==
  ASSUME PFlags, RelayNext \/ DiscoveryNext \/ StatusNext \/ UNCHANGED pVars
  PROVE  PFlags'
<1>1. CASE RelayNext
  <2>1. UNCHANGED <<dcustom, dedited>>
    BY <1>1, Zenon DEF RelayNext, discoveryVars
  <2>2. rtoken' \in BOOLEAN
    BY <1>1, Zenon DEF RelayNext, PFlags, SetRelayMode, SetRelayFallback, RemoveUrl, UpdateUrl, AddUrl,
                       ToggleToken, VerifyCustomRelays, VerifyAnswers, TestDefaultRelays
  <2>. QED
    BY <2>1, <2>2, Zenon DEF PFlags
<1>2. CASE DiscoveryNext
  <2>1. UNCHANGED rtoken
    BY <1>2, Zenon DEF DiscoveryNext, relayVars
  <2>2. dcustom' \in BOOLEAN /\ dedited' \in BOOLEAN
    BY <1>2, Zenon DEF DiscoveryNext, PFlags, SetDiscoveryMode, TestDiscovery, DiscoveryAnswers,
                       UpdatePkarrUrl, UpdateDnsOrigin
  <2>. QED
    BY <2>1, <2>2, Zenon DEF PFlags
<1>3. CASE StatusNext
  BY <1>3, Zenon DEF StatusNext, relayVars, discoveryVars, PFlags
<1>4. CASE UNCHANGED pVars
  BY <1>4, Zenon DEF pVars, relayVars, discoveryVars, PFlags
<1>. QED
  BY <1>1, <1>2, <1>3, <1>4

\* The invariants, the types and the flags are the pages' types.
LEMMA PagesTypesOK ==
  ASSUME MarksEarned, StatusInv, PTypes, PFlags
  PROVE  PTypeOK
<1>1. {durl, dorigin} \subseteq Fields
  BY Zenon DEF PTypes
<1>2. {rtoken, rtesting, dcustom, dedited, sloading} \subseteq BOOLEAN
  BY Zenon DEF MarksEarned, StatusInv, PFlags
<1>. QED
  BY <1>1, <1>2, Zenon DEF PTypeOK, PTypes, MarksEarned

\* The handle of the browser's directory is there or not.
LEMMA HandleStep ==
  ASSUME whandle \in BOOLEAN, [WebReceiveNext]_webVars
  PROVE  whandle' \in BOOLEAN
<1>1. ASSUME NEW c \in Receives,
             \/ InvokeReceive(c) \/ EngineReceives(c) \/ CallFails(c)
             \/ WriteReceivedCollection(c) \/ WriteBytes(c) \/ DispatchCompleted(c)
             \/ \E k \in 0..MaxConflict : ResolveWritableFileName(c, k)
      PROVE  UNCHANGED whandle
  BY <1>1, Zenon DEF InvokeReceive, EngineReceives, CallFails, WriteReceivedCollection, WriteBytes,
                     DispatchCompleted, ResolveWritableFileName
<1>2. CASE LoadWasmBridge
  BY <1>2, Zenon DEF LoadWasmBridge
<1>3. CASE PickDownloadDirectory
  BY <1>3, Zenon DEF PickDownloadDirectory
<1>4. CASE UNCHANGED webVars
  BY <1>4, Zenon DEF webVars
<1>5. CASE WebReceiveNext
  <2>1. CASE \E c \in Receives :
             \/ InvokeReceive(c) \/ EngineReceives(c) \/ CallFails(c)
             \/ WriteReceivedCollection(c) \/ WriteBytes(c) \/ DispatchCompleted(c)
             \/ \E k \in 0..MaxConflict : ResolveWritableFileName(c, k)
    <3>1. UNCHANGED whandle
      BY <1>1, <2>1, Zenon
    <3>. QED
      BY <3>1, Zenon
  <2>. QED
    BY <1>2, <1>3, <1>5, <2>1, Zenon DEF WebReceiveNext
<1>. QED
  BY <1>4, <1>5

\* The invariants of the browser build contain its types.
LEMMA WebTypesOK ==
  ASSUME SaveInv, BridgeInv, BusInv, ZipInv, whandle \in BOOLEAN
  PROVE  WTypeOK
<1>1. winit \in {"none", "pending", "ready"} /\ wloads \in 0..3
  BY DEF BridgeInv
<1>2. DOMAIN wcall = Receives /\ DOMAIN wdir = Slots /\ wcompleted \subseteq Receives
  BY DEF SaveInv
<1>3. bmap \in 0..Len(bsets) /\ Len(zcentral) = Len(zentries)
  BY DEF BusInv, ZipInv
<1>. QED
  BY <1>1, <1>2, <1>3, Zenon DEF WTypeOK

\* The invariants of a send contain its types.
LEMMA SendTypesOK ==
  ASSUME StoreInv, SendInv
  PROVE  WebSendTypeOK
<1>1. send.stage \in {"idle", "collect", "engine", "shared"} /\ send.names \subseteq FilePaths
  BY DEF SendInv, Sends
<1>2. touched \in BOOLEAN /\ currentTicket \in BOOLEAN
  BY Zenon DEF SendInv
<1>3. /\ filesByPath \in [FilePaths -> 0..MaxSize] /\ directoryPaths \subseteq TopPaths
      /\ \A p \in directoryPaths : filesByPath[p] = 0
      /\ picks \in [TopPaths -> SUBSET FilePaths] /\ leftover \subseteq TopPaths
      /\ selected \in Seq(TopPaths) /\ Len(selected) =< 2
      /\ drop \in TopPaths \cup {NoDrop}
  BY Zenon DEF StoreInv, HandleTypes
<1>. QED
  BY <1>1, <1>2, <1>3, Zenon DEF WebSendTypeOK

\* The versions and the artefacts of the release scripts.
ScriptTypes ==
  /\ DOMAIN vfile = VersionFiles /\ vexit \in {"none", "ok", "failed"}
  /\ adeb \in {"none", "stock", "patched", "broken"}
  /\ azip \in {"none", "current", "stale", "bad"}

\* A release keeps the four files, and ends one way or the other.
LEMMA VersionTypes ==
  ASSUME DOMAIN vfile = VersionFiles, vexit \in {"none", "ok", "failed"},
         [VersionNext]_versionVars
  PROVE  DOMAIN vfile' = VersionFiles /\ vexit' \in {"none", "ok", "failed"}
<1>1. CASE \E v : StartRelease(v)
  BY <1>1 DEF StartRelease
<1>2. CASE \E f \in VersionFiles : SyncVersion(f)
  BY <1>2 DEF SyncVersion
<1>3. CASE \E f \in VersionFiles : \E b \in BOOLEAN : EditVersion(f, b)
  BY <1>3 DEF EditVersion
<1>4. CASE SyncFails \/ ValidateVersion
  <2>1. UNCHANGED vfile /\ vexit' \in {"ok", "failed"}
    BY <1>4, Zenon DEF SyncFails, ValidateVersion
  <2>. QED
    BY <2>1
<1>5. CASE UNCHANGED versionVars
  BY <1>5 DEF versionVars
<1>. QED
  BY <1>1, <1>2, <1>3, <1>4, <1>5, Zenon DEF VersionNext

\* The build tree holds one of the known artefacts.
LEMMA ArtefactTypes ==
  ASSUME adeb \in {"none", "stock", "patched", "broken"},
         azip \in {"none", "current", "stale", "bad"}, [AssetNext]_assetVars
  PROVE  /\ adeb' \in {"none", "stock", "patched", "broken"}
         /\ azip' \in {"none", "current", "stale", "bad"}
<1>1. CASE TauriBuild
  BY <1>1, Zenon DEF TauriBuild
<1>2. CASE PatchLinuxDeb \/ PackageWindowsPortable
  BY <1>2, Zenon DEF PatchLinuxDeb, PackageWindowsPortable, StartScript
<1>3. CASE PatchDeb
  BY <1>3, Zenon DEF PatchDeb
<1>4. CASE CreateZipArchive
  BY <1>4, Zenon DEF CreateZipArchive
<1>5. CASE StagePortablePayload \/ AssertZipLooksValid \/ ListAssets \/ DeleteAsset \/ PostAsset
  BY <1>5, Zenon DEF StagePortablePayload, AssertZipLooksValid, ListAssets, DeleteAsset, PostAsset
<1>6. CASE UNCHANGED assetVars
  BY <1>6, Zenon DEF assetVars
<1>. QED
  BY <1>1, <1>2, <1>3, <1>4, <1>5, <1>6, Zenon DEF AssetNext

\* The temporary directory of a script is there or not.
LEMMA TempStep ==
  ASSUME atemp \in BOOLEAN, [AssetNext]_assetVars
  PROVE  atemp' \in BOOLEAN
<1>1. CASE TauriBuild
  BY <1>1, Zenon DEF TauriBuild
<1>2. CASE PatchLinuxDeb \/ PackageWindowsPortable
  BY <1>2, Zenon DEF PatchLinuxDeb, PackageWindowsPortable, StartScript
<1>3. CASE PatchDeb
  BY <1>3, Zenon DEF PatchDeb, EndScript
<1>4. CASE CreateZipArchive
  BY <1>4, Zenon DEF CreateZipArchive, EndScript
<1>5. CASE StagePortablePayload \/ AssertZipLooksValid \/ ListAssets \/ DeleteAsset \/ PostAsset
  BY <1>5, Zenon DEF StagePortablePayload, AssertZipLooksValid, ListAssets, DeleteAsset, PostAsset,
                     EndScript
<1>6. CASE UNCHANGED assetVars
  BY <1>6, Zenon DEF assetVars
<1>. QED
  BY <1>1, <1>2, <1>3, <1>4, <1>5, <1>6, Zenon DEF AssetNext

\* The invariants, with these, are the scripts' types.
LEMMA ScriptsTypesOK ==
  ASSUME AssetInv, AndroidInv, ScriptTypes, atemp \in BOOLEAN
  PROVE  ScriptsTypeOK
<1>1. {atemp, aci, dkey} \subseteq BOOLEAN
  BY Zenon DEF AssetInv, AssetTypes, AndroidInv, AndroidTypes
<1>. QED
  BY <1>1, Zenon DEF ScriptsTypeOK, ScriptTypes, AndroidInv, AndroidTypes

-----------------------------------------------------------------------------
\* The parts, side by side.

\* The variables of the shell.
shellVars ==
  <<part, vars, upVars, hVars, aVars, gVars, pVars, wVars, webSendVars, scriptVars, notesVars>>

\* A step of the shell is a step of one part and leaves the other parts alone.
LEMMA ShellParts ==
  ASSUME [ShellNext]_shellVars
  PROVE  /\ [UNext]_upVars /\ [HNext]_hVars /\ [ANext]_aVars /\ [GNext]_gVars
         /\ RelayNext \/ DiscoveryNext \/ StatusNext \/ UNCHANGED pVars
         /\ WebReceiveNext \/ BusNext \/ ZipNext \/ UNCHANGED wVars
         /\ [WebSendNext]_webSendVars
         /\ VersionNext \/ AssetNext \/ AndroidNext \/ UNCHANGED scriptVars
         /\ [NotesNext]_notesVars
<1>1. [UNext]_upVars
  BY DEF ShellNext, shellVars
<1>2. [HNext]_hVars
  BY DEF ShellNext, shellVars
<1>3. [ANext]_aVars
  BY DEF ShellNext, shellVars, ANext
<1>4. [GNext]_gVars
  BY DEF ShellNext, shellVars
<1>5. RelayNext \/ DiscoveryNext \/ StatusNext \/ UNCHANGED pVars
  BY DEF ShellNext, shellVars
<1>6. WebReceiveNext \/ BusNext \/ ZipNext \/ UNCHANGED wVars
  BY DEF ShellNext, shellVars
<1>7. [WebSendNext]_webSendVars
  BY DEF ShellNext, shellVars
<1>8. VersionNext \/ AssetNext \/ AndroidNext \/ UNCHANGED scriptVars
  BY DEF ShellNext, shellVars
<1>9. [NotesNext]_notesVars
  BY DEF ShellNext, shellVars
<1>. QED
  BY <1>1, <1>2, <1>3, <1>4, <1>5, <1>6, <1>7, <1>8, <1>9

\* Likewise the three parts of the browser build.
LEMMA WebParts ==
  ASSUME WebReceiveNext \/ BusNext \/ ZipNext \/ UNCHANGED wVars
  PROVE  [WebReceiveNext]_webVars /\ [BusNext]_busVars /\ [ZipNext]_zipVars
BY DEF WebReceiveNext, BusNext, ZipNext, wVars

\* Likewise the three parts of the release scripts.
LEMMA ScriptParts ==
  ASSUME VersionNext \/ AssetNext \/ AndroidNext \/ UNCHANGED scriptVars
  PROVE  [VersionNext]_versionVars /\ [AssetNext]_assetVars /\ [AndroidNext]_androidVars
BY DEF VersionNext, AssetNext, AndroidNext, scriptVars

\* The invariant of the updater holds in every state.
LEMMA UpdAlways == ShellSpec => []UpdInv
<1>1. ShellInit => UpdInv
  BY UpdStart DEF ShellInit
<1>2. UpdInv /\ [ShellNext]_shellVars => UpdInv'
  BY ShellParts, UpdStep, UpdaterAssumption
<1>. QED
  BY <1>1, <1>2, PTL DEF ShellSpec, shellVars

\* While an install downloads, the status tells it, and the version announced as ready is the one that
\* was staged, whatever checks and clicks come in between (updater-store, use-updater).
THEOREM UpdateIsTold == ShellSpec => []UpdateIsTracked
<1>1. UpdInv => UpdateIsTracked
  BY UpdGoal
<1>. QED
  BY <1>1, UpdAlways, PTL

\* The invariant of the history page holds in every state.
LEMMA HistAlways == ShellSpec => []HistInv
<1>1. ShellInit => HistInv
  BY HistStart DEF ShellInit
<1>2. HistInv /\ [ShellNext]_shellVars => HistInv'
  BY ShellParts, HistStep
<1>. QED
  BY <1>1, <1>2, PTL DEF ShellSpec, shellVars

\* The history page agrees with the store once its refreshes are through, unless one was overtaken, and
\* it is busy only while its own operation runs (history.tsx).
THEOREM HistoryIsShown == ShellSpec => []HistoryAgrees
<1>1. HistInv => HistoryAgrees
  BY HistGoal
<1>. QED
  BY <1>1, HistAlways, PTL

\* The settings by themselves, the three switches interleaved.
SettingsSpec == AInit /\ [][ANext]_aVars

\* The invariant of the settings holds in every state.
LEMMA SettingsAlwaysKept == SettingsSpec => []SettingsInv
<1>1. AInit => SettingsInv
  BY SettingsStart, SettingsAssumption
<1>2. SettingsInv /\ [ANext]_aVars => SettingsInv'
  BY SettingsStep, SettingsAssumption
<1>3. QED
  BY <1>1, <1>2, PTL DEF SettingsSpec

\* The first run happens once, and the node, the system and the switches agree with the stored settings
\* across launches and failed calls, with all three switches in use at once (app settings).
THEOREM SettingsAreKept == SettingsSpec => []SettingsAgree
<1>1. SettingsInv => SettingsAgree
  BY SettingsGoal
<1>2. QED
  BY <1>1, SettingsAlwaysKept, PTL

\* The shell's settings behave like them.
LEMMA ShellSettings == ShellSpec => SettingsSpec
<1>1. ShellInit => AInit
  BY DEF ShellInit
<1>2. [ShellNext]_shellVars => [ANext]_aVars
  BY ShellParts
<1>. QED
  BY <1>1, <1>2, PTL DEF ShellSpec, SettingsSpec, shellVars

\* The same in the shell, where one switch is in use at a time.
THEOREM SettingsOfShell == ShellSpec => []SettingsAgree
BY ShellSettings, SettingsAreKept, PTL

\* The invariant of the network settings.
NetworkInv == MarksEarned /\ DiscoveryInv /\ StatusInv /\ GuardInv

\* It holds in every state.
LEMMA NetworkAlways == ShellSpec => []NetworkInv
<1>1. ShellInit => NetworkInv
  BY MarksStart, DiscoveryStart, StatusStart, GuardStart DEF ShellInit, NetworkInv
<1>2. NetworkInv /\ [ShellNext]_shellVars => NetworkInv'
  <2>. SUFFICES ASSUME NetworkInv, [ShellNext]_shellVars PROVE NetworkInv'
    OBVIOUS
  <2>1. /\ [GNext]_gVars
        /\ [RelayNext]_relayVars /\ [DiscoveryNext]_discoveryVars /\ [StatusNext]_statusVars
    BY ShellParts, PageParts
  <2>. QED
    BY <2>1, MarksStep, DiscoveryStep, StatusStep, GuardStep DEF NetworkInv
<1>. QED
  BY <1>1, <1>2, PTL DEF ShellSpec, shellVars

\* Every mark and status of the network settings was earned by the configuration next to it, and a
\* change the user was warned about reaches the node (relay-settings, relay-change-guard).
THEOREM NetworkIsRight == ShellSpec => []NetworkSettingsHold
<1>1. NetworkInv => NetworkSettingsHold
  BY MarksGoal, GuardGoal DEF NetworkInv, DiscoveryInv, StatusInv, NetworkSettingsHold
<1>. QED
  BY <1>1, NetworkAlways, PTL

\* The invariant of the browser build.
BrowserInv == SaveInv /\ BridgeInv /\ BusInv /\ ZipInv /\ StoreInv /\ SendInv

\* The invariant of the browser build holds in every state.
LEMMA BrowserAlways == ShellSpec => []BrowserInv
<1>1. ShellInit => BrowserInv
  BY SaveStart, BusStart, ZipStart, SendStart DEF ShellInit, BrowserInv
<1>2. BrowserInv /\ [ShellNext]_shellVars => BrowserInv'
  <2>. SUFFICES ASSUME BrowserInv, [ShellNext]_shellVars PROVE BrowserInv'
    OBVIOUS
  <2>1. /\ [WebReceiveNext]_webVars /\ [BusNext]_busVars /\ [ZipNext]_zipVars
        /\ [WebSendNext]_webSendVars
    BY ShellParts, WebParts
  <2>2. StoreInv' /\ SendInv'
    BY <2>1, SendStep DEF BrowserInv
  <2>3. BusInv' /\ ZipInv'
    BY <2>1, BusStep, ZipStep DEF BrowserInv
  <2>4. SaveInv' /\ BridgeInv'
    BY <2>1, SaveStep, BridgeStep DEF BrowserInv
  <2>. QED
    BY <2>2, <2>3, <2>4 DEF BrowserInv
<1>. QED
  BY <1>1, <1>2, PTL DEF ShellSpec, shellVars

\* The browser build loads one engine, announces a receive only when its files are saved, reaches every
\* handler, writes archives that can be read, and sends what was chosen and described.
THEOREM BrowserIsRight == ShellSpec => []BrowserHolds
<1>1. BridgeInv => OneBridge
  BY DEF BridgeInv, OneBridge
<1>2. BrowserInv => BrowserHolds
  BY <1>1, SaveGoal, BusGoal, ZipGoal, SendGoal DEF BrowserInv, BrowserHolds, BrowserBuildHolds
<1>. QED
  BY <1>2, BrowserAlways, PTL

\* A receive in the browser replaces no file, unless two receives saved at once
\* (resolveWritableFileName).
THEOREM FilesAreKept == ShellSpec => NoFileReplaced
<1>1. BrowserInv /\ [ShellNext]_shellVars
        => [~wshared => \A s \in Slots : wdir[s] # free => wdir'[s] = wdir[s]]_wVars
  <2>. SUFFICES ASSUME BrowserInv, [ShellNext]_shellVars, ~wshared, NEW s \in Slots, wdir[s] # free
                PROVE  wdir'[s] = wdir[s]
    OBVIOUS
  <2>1. SaveInv /\ [WebReceiveNext]_webVars
    BY ShellParts, WebParts DEF BrowserInv
  <2>. QED
    BY <2>1, StepReplacesNone
<1>. QED
  BY <1>1, BrowserAlways, PTL DEF ShellSpec, shellVars, NoFileReplaced

\* The invariant of the release scripts.
ScriptsInv == VersionInv /\ AssetInv /\ AndroidInv

\* It holds in every state.
LEMMA ScriptsAlways == ShellSpec => []ScriptsInv
<1>1. ShellInit => ScriptsInv
  BY VersionStart, AssetStart, AndroidStart DEF ShellInit, ScriptsInv
<1>2. ScriptsInv /\ [ShellNext]_shellVars => ScriptsInv'
  BY ShellParts, ScriptParts, VersionStep, AssetStep, AndroidStep DEF ScriptsInv
<1>. QED
  BY <1>1, <1>2, PTL DEF ShellSpec, shellVars

\* The release scripts leave four agreeing versions, current assets, no temporary folder, and packages of
\* this very run with their signature and ABIs (release.js, sync-version.js, patch-linux-deb.js,
\* package-windows-portable.js, android-release-build.js).
THEOREM ReleasesAreWhole == ShellSpec => []ReleaseIsWhole
<1>1. ScriptsInv => ReleaseIsWhole
  BY AssetGoal DEF ScriptsInv, VersionInv, AndroidInv, ReleaseIsWhole
<1>. QED
  BY <1>1, ScriptsAlways, PTL

\* The notes are right at all times, whatever commits landed since the tag.
LEMMA NotesAlways == ShellSpec => []NotesAreRight
<1>1. ShellInit => NotesOK
  BY NotesStart DEF ShellInit
<1>2. NotesOK /\ [ShellNext]_shellVars => NotesOK'
  BY ShellParts, NotesStep
<1>3. NotesOK => NotesAreRight
  BY NotesGoal
<1>. QED
  BY <1>1, <1>2, <1>3, PTL DEF ShellSpec, shellVars

\* What the release scripts leave is whole and the notes are right, at all times
\* (the scripts above and generate-release-notes.js).
THEOREM ReleasesAreRight == ShellSpec => []ReleaseIsRight
<1>1. ReleaseIsWhole /\ NotesAreRight => ReleaseIsRight
  BY DEF ReleaseIsRight
<1>. QED
  BY <1>1, ReleasesAreWhole, NotesAlways, PTL
\* A step of the shell is a step of the rate limiter or leaves it alone.
LEMMA LimiterPart ==
  ASSUME [ShellNext]_shellVars
  PROVE  [Next]_vars
BY DEF ShellNext, shellVars

\* The types that are not in the invariants above.
RestTypes ==
  /\ ABounds /\ HBounds /\ GTypes /\ PTypes /\ ScriptTypes
RestFlags ==
  /\ UFlags /\ HFlags /\ AFlags /\ GFlags /\ PFlags /\ whandle \in BOOLEAN /\ atemp \in BOOLEAN

\* The invariants of the parts, side by side.
PartsInv ==
  TypeOK /\ UpdInv /\ HistInv /\ SettingsInv /\ NetworkInv /\ BrowserInv /\ ScriptsInv

\* They hold in every state.
LEMMA PartsAlways == ShellSpec => []PartsInv
<1>1. ShellInit => Init
  BY DEF ShellInit
<1>2. [ShellNext]_shellVars => [Next]_vars
  BY LimiterPart
<1>3. ShellSpec => Spec
  BY <1>1, <1>2, PTL DEF ShellSpec, Spec, shellVars
<1>4. ShellSpec => []TypeOK
  BY <1>3, TypeCorrect, PTL
<1>5. ShellSpec => []SettingsInv
  BY ShellSettings, SettingsAlwaysKept, PTL
<1>6. TypeOK /\ UpdInv /\ HistInv /\ SettingsInv /\ NetworkInv /\ BrowserInv /\ ScriptsInv => PartsInv
  BY DEF PartsInv
<1>. QED
  BY <1>4, <1>5, <1>6, UpdAlways, HistAlways, NetworkAlways, BrowserAlways, ScriptsAlways, PTL

\* Everything the types of the shell rest on.
ShellInv == PartsInv /\ RestTypes /\ RestFlags

\* They hold at launch.
LEMMA RestStart ==
  ASSUME ShellInit
  PROVE  RestTypes /\ RestFlags
<1>1. UFlags
  BY Zenon DEF ShellInit, UInit, UFlags
<1>2. HFlags
  BY Zenon DEF ShellInit, HInit, HFlags
<1>3. AFlags
  BY Zenon DEF ShellInit, AInit, AFlags
<1>4. GFlags
  BY Zenon DEF ShellInit, GInit, GFlags
<1>5. PFlags
  BY Zenon DEF ShellInit, PInit, PFlags
<1>6. whandle \in BOOLEAN /\ atemp \in BOOLEAN
  BY Zenon DEF ShellInit, WInit, ScriptsInit
<1>7. ABounds
  <2>1. swrites = <<>> /\ slaunches = 1
    BY Zenon DEF ShellInit, AInit
  <2>. QED
    BY <2>1, SettingsAssumption DEF ABounds
<1>8. HBounds
  <2>1. /\ hnews = 0 /\ hchanges = 0 /\ hreads = <<>> /\ hexpanded = {} /\ hdialog = "none"
        /\ hmissing = "none" /\ hclearing = NotAsked
    BY Zenon DEF ShellInit, HInit
  <2>2. hnews =< 2 /\ hchanges \in 0..MaxNews /\ Len(hreads) =< MaxReads
    BY <2>1, HistoryAssumption
  <2>. QED
    BY <2>1, <2>2, Zenon DEF HBounds
<1>9. GTypes
  <2>1. nsyncs = <<>>
    BY Zenon DEF ShellInit, GInit
  <2>2. Len(nsyncs) =< 2
    BY <2>1
  <2>. QED
    BY <2>2, Zenon DEF ShellInit, GInit, GTypes
<1>10. PTypes
  <2>. DEFINE n == NoUrl
              F == Fields
  <2>1. n \in F /\ rrows = <<n>>
    BY Zenon DEF ShellInit, PInit, Fields
  <2>. HIDE DEF n, F
  <2>2. rrows \in Seq(F) /\ Len(rrows) = 1
    BY <2>1
  <2>3. Len(rrows) \in 1..MaxRows
    BY <2>2, PagesAssumption
  <2>4. NoUrl \in Fields
    BY Zenon DEF Fields
  <2>5. rmode \in ModesOffered /\ rfallback \in {"strict", "public"}
    BY Zenon DEF ShellInit, PInit, ModesOffered
  <2>6. durl \in Fields /\ dorigin \in Fields /\ dstatus \in {"idle", "ok", "failed"}
    BY <2>4, Zenon DEF ShellInit, PInit
  <2>. QED
    BY <2>2, <2>3, <2>5, <2>6, Zenon DEF PTypes, F
<1>11. ScriptTypes
  <2>1. vfile = [f \in VersionFiles |-> VersionOf(0, 0, 0, TRUE)]
    BY Zenon DEF ShellInit, ScriptsInit
  <2>2. vexit = "none" /\ adeb = "none" /\ azip = "none"
    BY Zenon DEF ShellInit, ScriptsInit
  <2>. QED
    BY <2>1, <2>2, Zenon DEF ScriptTypes
<1>. QED
  BY <1>1, <1>2, <1>3, <1>4, <1>5, <1>6, <1>7, <1>8, <1>9, <1>10, <1>11 DEF RestTypes, RestFlags

\* It is kept by every step.
LEMMA RestStep ==
  ASSUME ShellInv, SettingsTypes', [ShellNext]_shellVars
  PROVE  RestTypes' /\ RestFlags'
<1>1. UFlags' /\ HFlags' /\ AFlags'
  BY ShellParts, UFlagsStep, HFlagsStep, AFlagsStep DEF ShellInv, PartsInv, RestFlags
<1>2. GuardInv
  BY DEF ShellInv, PartsInv, NetworkInv
<1>3. GFlags' /\ PFlags'
  BY <1>2, ShellParts, GFlagsStep, PFlagsStep DEF ShellInv, PartsInv, RestFlags
<1>4. whandle' \in BOOLEAN
  BY ShellParts, WebParts, HandleStep, Zenon DEF ShellInv, PartsInv, RestFlags
<1>5. atemp' \in BOOLEAN
  BY ShellParts, ScriptParts, TempStep, Zenon DEF ShellInv, PartsInv, RestFlags
<1>6. ABounds'
  BY ShellParts, ABoundsStep, SettingsAssumption DEF ShellInv, PartsInv, RestTypes, SettingsInv
<1>7. HBounds'
  BY ShellParts, HBoundsStep DEF ShellInv, PartsInv, RestTypes, HistInv
<1>8. GTypes' /\ PTypes'
  BY <1>2, ShellParts, GTypesStep, PTypesStep DEF ShellInv, PartsInv, RestTypes
<1>9. ScriptTypes'
  BY ShellParts, ScriptParts, VersionTypes, ArtefactTypes, Zenon DEF ShellInv, PartsInv, RestTypes, ScriptTypes
<1>. QED
  BY <1>1, <1>3, <1>4, <1>5, <1>6, <1>7, <1>8, <1>9 DEF RestTypes, RestFlags

\* It implies the types of all parts.
LEMMA ShellTypesGoal ==
  ASSUME ShellInv
  PROVE  ShellTypeOK
<1>1. TypeOK /\ UTypeOK
  BY UpdTypes DEF ShellInv, PartsInv, RestFlags
<1>2. HTypeOK
  BY HistTypesOK DEF ShellInv, PartsInv, RestTypes, RestFlags
<1>3. ATypeOK
  BY SettingsTypesOK DEF ShellInv, PartsInv, RestTypes, RestFlags, SettingsInv
<1>4. GTypeOK /\ PTypeOK
  BY GuardTypesOK, PagesTypesOK DEF ShellInv, PartsInv, RestTypes, RestFlags, NetworkInv
<1>5. WTypeOK /\ WebSendTypeOK
  BY WebTypesOK, SendTypesOK DEF ShellInv, PartsInv, RestFlags, BrowserInv
<1>6. ScriptsTypeOK
  BY ScriptsTypesOK DEF ShellInv, PartsInv, RestTypes, RestFlags, ScriptsInv
<1>. QED
  BY <1>1, <1>2, <1>3, <1>4, <1>5, <1>6 DEF ShellTypeOK

\* Every part of the shell keeps its types: the lists, counters and calls in flight of each stay within
\* their bounds, for every value of the constants (the state of the modules around the transfers).
THEOREM ShellTypes == ShellSpec => []ShellTypeOK
<1>1. ShellInit => RestTypes /\ RestFlags
  BY RestStart
<1>2. PartsInv /\ PartsInv' /\ RestTypes /\ RestFlags /\ [ShellNext]_shellVars
        => RestTypes' /\ RestFlags'
  <2>1. PartsInv' => SettingsTypes'
    BY DEF PartsInv, SettingsInv
  <2>. QED
    BY <2>1, RestStep DEF ShellInv
<1>3. PartsInv /\ RestTypes /\ RestFlags => ShellTypeOK
  BY ShellTypesGoal DEF ShellInv
<1>. QED
  BY <1>1, <1>2, <1>3, PartsAlways, PTL DEF ShellSpec, shellVars
=============================================================================
