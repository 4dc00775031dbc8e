------------------------------- MODULE Updater -------------------------------
(***************************************************************************)
(* The application updater: the store shared by the three update surfaces  *)
(* (updater-store.ts), the periodic and the manual check, the install and  *)
(* the restart (use-updater.ts), and which button each surface shows       *)
(* (AppUpdater.tsx, auto-update.tsx, setting-sidebar-update-alert.tsx).    *)
(* A release is a number, 0 is "no update".  The surfaces are drawn after  *)
(* the store changed: a click acts on what was drawn last.  This is the    *)
(* desktop build: on Android an install only opens the download page.      *)
(***************************************************************************)
EXTENDS Integers, Sequences

CONSTANTS
  Releases,        \* the versions a check may offer
  Size             \* chunks of one download

ASSUME UpdaterAssumption == Releases \subseteq Nat \ {0} /\ Size \in Nat \ {0}

VARIABLES
  uphase,          \* phase of the store
  uversion,        \* version of the store
  dismissed,       \* dismissedVersion, kept in localStorage
  ubytes,          \* downloadedBytes
  ulength,         \* contentLength, 0 for null
  ucache,          \* data of the check query: a release, 0, or -1 before one
  synced,          \* the query data the sync effect last ran for
  polling,         \* a periodic check is in flight
  asking,          \* a manual check is in flight
  installs,        \* install calls in flight
  staged,          \* version downloadAndInstall staged last
  drawn,           \* what the surfaces show: phase and banner
  confirming,      \* confirmingRestart of the banner
  transferBusy,    \* useTransferBusy
  autoUpdate,      \* setting
  offbeat          \* history: the install took a handle of another version

upVars == <<uphase, uversion, dismissed, ubytes, ulength, ucache, synced,
            polling, asking, installs, staged, drawn, confirming,
            transferBusy, autoUpdate, offbeat>>

UNone == 0
Unfetched == -1
Busy == {"downloading", "installing", "ready", "restarting"}

BannerVisible(ph, ver, dis) == ph # "idle" /\ (ph # "available" \/ dis # ver)

UInit ==
  /\ uphase = "idle" /\ uversion = UNone /\ dismissed = UNone
  /\ ubytes = 0 /\ ulength = 0
  /\ ucache = Unfetched /\ synced = Unfetched
  /\ polling = FALSE /\ asking = FALSE /\ installs = <<>> /\ staged = UNone
  /\ drawn = [phase |-> "idle", banner |-> FALSE]
  /\ confirming = FALSE /\ transferBusy = FALSE /\ autoUpdate = TRUE
  /\ offbeat = FALSE

-----------------------------------------------------------------------------
(* The store. *)

ClearProgress == ubytes' = 0 /\ ulength' = 0

\* Mutant: the re-check leaves the phase alone but renames the download.
FoundRenames(v) ==
  /\ uversion' = v
  /\ uphase' = IF uphase \in Busy THEN uphase ELSE "available"
  /\ UNCHANGED <<ubytes, ulength>>

UpdateFound(v) ==
  IF uphase \in Busy
  THEN UNCHANGED <<uphase, uversion, ubytes, ulength>>
  ELSE /\ uversion' = v /\ uphase' = "available"
       /\ UNCHANGED <<ubytes, ulength>>

NoUpdate ==
  IF uphase \in Busy
  THEN UNCHANGED <<uphase, uversion, ubytes, ulength>>
  ELSE /\ uversion' = UNone /\ uphase' = "idle"
       /\ ClearProgress

Heard(v) == IF v = UNone THEN NoUpdate ELSE UpdateFound(v)

Fail ==
  /\ uphase' = IF uversion # UNone THEN "available" ELSE "idle"
  /\ ClearProgress

-----------------------------------------------------------------------------
(* Checks. *)

PollStarts ==
  /\ autoUpdate /\ ~polling
  /\ polling' = TRUE
  /\ UNCHANGED <<uphase, uversion, dismissed, ubytes, ulength, ucache, synced,
                 asking, installs, staged, drawn, confirming, transferBusy,
                 autoUpdate, offbeat>>

\* A failed poll is silent and keeps the query's data.
PollAnswers ==
  /\ polling
  /\ polling' = FALSE
  /\ \E v \in Releases \cup {UNone} \cup {ucache} : ucache' = v
  /\ UNCHANGED <<uphase, uversion, dismissed, ubytes, ulength, synced, asking,
                 installs, staged, drawn, confirming, transferBusy,
                 autoUpdate, offbeat>>

\* The effect of useUpdaterSync runs when the version it depends on changed.
SyncEffect ==
  /\ ucache # Unfetched /\ ucache # synced
  /\ synced' = ucache
  /\ Heard(ucache)
  /\ UNCHANGED <<dismissed, ucache, polling, asking, installs, staged, drawn,
                 confirming, transferBusy, autoUpdate, offbeat>>

\* The panel's button exists with automatic checks off and waits for its answer.
AskOffered == ~autoUpdate /\ ~asking

AskForUpdates ==
  /\ AskOffered
  /\ asking' = TRUE
  /\ UNCHANGED <<uphase, uversion, dismissed, ubytes, ulength, ucache, synced,
                 polling, installs, staged, drawn, confirming, transferBusy,
                 autoUpdate, offbeat>>

AskAnswers ==
  /\ asking
  /\ asking' = FALSE
  /\ \/ \E v \in Releases \cup {UNone} : ucache' = v /\ Heard(v)
     \/ UNCHANGED <<ucache, uphase, uversion, ubytes, ulength>>
  /\ UNCHANGED <<dismissed, synced, polling, installs, staged, drawn,
                 confirming, transferBusy, autoUpdate, offbeat>>

ToggleAutoUpdate ==
  /\ autoUpdate' = ~autoUpdate
  /\ UNCHANGED <<uphase, uversion, dismissed, ubytes, ulength, ucache, synced,
                 polling, asking, installs, staged, drawn, confirming,
                 transferBusy, offbeat>>

-----------------------------------------------------------------------------
(* What is drawn, and the buttons. *)

Draw ==
  /\ drawn # [phase |-> uphase, banner |-> BannerVisible(uphase, uversion, dismissed)]
  /\ drawn' = [phase |-> uphase, banner |-> BannerVisible(uphase, uversion, dismissed)]
  /\ UNCHANGED <<uphase, uversion, dismissed, ubytes, ulength, ucache, synced,
                 polling, asking, installs, staged, confirming, transferBusy,
                 autoUpdate, offbeat>>

LaterOffered == drawn.banner /\ drawn.phase = "available"
BannerOffersInstall == drawn.banner /\ drawn.phase = "available"
PanelOffersInstall == drawn.phase = "available"
SidebarOffersInstall == drawn.phase = "available" /\ ~drawn.banner

Dismiss ==
  /\ LaterOffered
  /\ dismissed' = uversion
  /\ UNCHANGED <<uphase, uversion, ubytes, ulength, ucache, synced, polling,
                 asking, installs, staged, drawn, confirming, transferBusy,
                 autoUpdate, offbeat>>

StartDownload == uphase = "available"

Install ==
  /\ BannerOffersInstall \/ PanelOffersInstall \/ SidebarOffersInstall
  /\ StartDownload /\ Len(installs) < 2
  /\ uphase' = "downloading"
  /\ ClearProgress
  /\ installs' = Append(installs,
                   [handle |-> IF ucache \in Releases THEN ucache ELSE UNone,
                    got |-> 0, done |-> FALSE])
  /\ offbeat' = (ucache \in Releases /\ ucache # uversion)
  /\ UNCHANGED <<uversion, dismissed, ucache, synced, polling, asking, staged,
                 drawn, confirming, transferBusy, autoUpdate>>

DropInstall(i) ==
  installs' = [j \in 1..(Len(installs) - 1) |->
                 IF j < i THEN installs[j] ELSE installs[j + 1]]

\* Nothing usable in the cache: the install checks once more by itself.
Recheck(i) ==
  /\ installs[i].handle = UNone
  /\ \/ \E v \in Releases :
          /\ installs' = [installs EXCEPT ![i].handle = v]
          /\ offbeat' = (v # uversion)
          /\ UNCHANGED <<uphase, ubytes, ulength>>
     \/ DropInstall(i) /\ Fail /\ UNCHANGED offbeat
  /\ UNCHANGED <<uversion, dismissed, ucache, synced, polling, asking, staged,
                 drawn, confirming, transferBusy, autoUpdate>>

\* Events of downloadAndInstall: Started, Progress, Finished.
AddProgress(i) ==
  /\ installs[i].handle # UNone
  /\ \/ installs[i].got = 0 /\ ulength = 0 /\ ulength' = Size
        /\ UNCHANGED <<ubytes, installs, uphase>>
     \/ /\ installs[i].got < Size
        /\ ubytes' = ubytes + 1
        /\ installs' = [installs EXCEPT ![i].got = @ + 1]
        /\ UNCHANGED <<ulength, uphase>>
     \/ /\ installs[i].got = Size /\ ~installs[i].done
        /\ uphase' = "installing"
        /\ installs' = [installs EXCEPT ![i].done = TRUE]
        /\ UNCHANGED <<ubytes, ulength>>
  /\ UNCHANGED <<uversion, dismissed, ucache, synced, polling, asking, staged,
                 drawn, confirming, transferBusy, autoUpdate, offbeat>>

InstallEnds(i) ==
  /\ installs[i].handle # UNone
  /\ DropInstall(i)
  /\ \/ /\ installs[i].done
        /\ uphase' = "ready" /\ staged' = installs[i].handle
        /\ UNCHANGED <<ubytes, ulength>>
     \/ Fail /\ UNCHANGED staged
  /\ UNCHANGED <<uversion, dismissed, ucache, synced, polling, asking, drawn,
                 confirming, transferBusy, autoUpdate, offbeat>>

-----------------------------------------------------------------------------
(* Restart. *)

BannerRestart ==
  /\ drawn.phase = "ready" /\ uphase = "ready"
  /\ IF transferBusy /\ ~confirming
     THEN confirming' = TRUE /\ UNCHANGED uphase
     ELSE uphase' = "restarting" /\ UNCHANGED confirming
  /\ UNCHANGED <<uversion, dismissed, ubytes, ulength, ucache, synced, polling,
                 asking, installs, staged, drawn, transferBusy, autoUpdate,
                 offbeat>>

BannerKeepsRunning ==
  /\ drawn.phase = "ready" /\ confirming
  /\ confirming' = FALSE
  /\ UNCHANGED <<uphase, uversion, dismissed, ubytes, ulength, ucache, synced,
                 polling, asking, installs, staged, drawn, transferBusy,
                 autoUpdate, offbeat>>

\* The settings panel restarts without a question.
PanelRestart ==
  /\ drawn.phase = "ready" /\ uphase = "ready"
  /\ uphase' = "restarting"
  /\ UNCHANGED <<uversion, dismissed, ubytes, ulength, ucache, synced, polling,
                 asking, installs, staged, drawn, confirming, transferBusy,
                 autoUpdate, offbeat>>

\* relaunch() ends the process; what localStorage and settings hold survives.
RelaunchEnds ==
  /\ uphase = "restarting"
  /\ \/ /\ uphase' = "ready"
        /\ UNCHANGED <<uversion, ubytes, ulength, ucache, synced, polling,
                       asking, installs, staged, drawn, confirming,
                       transferBusy, offbeat>>
     \/ /\ uphase' = "idle" /\ uversion' = UNone
        /\ ClearProgress
        /\ ucache' = Unfetched /\ synced' = Unfetched
        /\ polling' = FALSE /\ asking' = FALSE /\ installs' = <<>>
        /\ staged' = UNone
        /\ drawn' = [phase |-> "idle", banner |-> FALSE]
        /\ confirming' = FALSE /\ transferBusy' = FALSE /\ offbeat' = FALSE
  /\ UNCHANGED <<dismissed, autoUpdate>>

TransfersChange ==
  /\ transferBusy' = ~transferBusy
  /\ UNCHANGED <<uphase, uversion, dismissed, ubytes, ulength, ucache, synced,
                 polling, asking, installs, staged, drawn, confirming,
                 autoUpdate, offbeat>>

UNext ==
  \/ PollStarts \/ PollAnswers \/ SyncEffect \/ AskForUpdates \/ AskAnswers
  \/ ToggleAutoUpdate \/ Draw \/ Dismiss \/ Install
  \/ \E i \in DOMAIN installs : Recheck(i) \/ AddProgress(i) \/ InstallEnds(i)
  \/ BannerRestart \/ BannerKeepsRunning \/ PanelRestart \/ RelaunchEnds
  \/ TransfersChange

-----------------------------------------------------------------------------
UTypeOK ==
  /\ uphase \in {"idle", "available"} \cup Busy
  /\ uversion \in Releases \cup {UNone} /\ dismissed \in Releases \cup {UNone}
  /\ ubytes \in Nat /\ ulength \in {0, Size}
  /\ {ucache, synced} \subseteq Releases \cup {UNone, Unfetched}
  /\ {polling, asking, confirming, transferBusy, autoUpdate, offbeat}
       \subseteq BOOLEAN
  /\ Len(installs) =< 2 /\ staged \in Releases \cup {UNone}

(***************************************************************************)
(* The store is the one source of truth of the three surfaces: it is in a  *)
(* download phase exactly while one install call runs, never two, and the  *)
(* bytes it shows are those of that call, whatever clicks, re-checks and   *)
(* failed attempts came before (startDownload, fail, clearProgress).       *)
(***************************************************************************)
StoreTracksDownload ==
  /\ (uphase \in {"downloading", "installing"}) <=> (installs # <<>>)
  /\ installs # <<>> => Len(installs) = 1 /\ ubytes = installs[1].got

(***************************************************************************)
(* The version announced as ready is the one that was staged: a re-check   *)
(* that answers during the download does not rename it.  (The install      *)
(* takes the handle of the query's cache, which may already be that of     *)
(* another release than the store's: `offbeat` marks it.)                  *)
(***************************************************************************)
ReadyIsStaged ==
  uphase \in {"ready", "restarting"} /\ ~offbeat => staged = uversion

(***************************************************************************)
(* The surfaces tell the truth about the update: what runs, and what a     *)
(* restart would start (the two parts above).                              *)
(***************************************************************************)
UpdateIsTracked == StoreTracksDownload /\ ReadyIsStaged
=============================================================================
