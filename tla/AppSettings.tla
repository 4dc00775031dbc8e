----------------------------- MODULE AppSettings -----------------------------
(***************************************************************************)
(* The persisted application settings (app-setting.ts, setting-store.ts)   *)
(* and the settings that another party holds the truth of: discoverability *)
(* (the node), start at login (the operating system) and the Explorer menu *)
(* (the registry).  The store starts with the defaults, reads the file     *)
(* asynchronously and merges it in; every set writes the whole store out,  *)
(* whether or not the file was read (zustand's persist, external).  The    *)
(* process may end at any moment: writes under way are lost.               *)
(***************************************************************************)
EXTENDS Integers, Sequences

CONSTANTS
  Defaults,        \* the settings of a fresh install
  MaxLaunches      \* launches of the application

ASSUME SettingsAssumption ==
  /\ MaxLaunches \in Nat \ {0}
  /\ Defaults \in [disc : {"everyone", "off"}, boot : BOOLEAN,
                   menu : BOOLEAN, claimed : BOOLEAN]

VARIABLES
  sfile,           \* settings.json
  smem,            \* the store
  shydration,      \* "idle", "reading", "done"
  sread,           \* what the read returned, before it is merged
  swrites,         \* writes on their way to the file, in order
  slaunches,       \* launches so far
  nodeDisc,        \* the node's discoverability
  nodeReady,       \* isNodeReady
  nodeSynced,      \* didSyncRelay of this launch
  discShown,       \* value of the discoverability radio, NoValue before it loaded
  discCall,        \* value being sent to the node, NoValue when none
  discGuessed,     \* the radio's value is not one the node gave or accepted
  osBoot,          \* the login item exists
  bootCalls,       \* autostart_set calls under way
  osMenu,          \* the Explorer verb is registered
  menuCalls,       \* toggle_context_menu calls under way
  firstRuns,       \* history: first-run attempts of this install
  early,           \* history: the store was used before the file was merged,
                   \* or the process ended with a write under way
  discOff,         \* history: the sync on startup crossed a choice of the user
  menuOff          \* history: two menu calls overlapped, or one failed quietly

aVars == <<sfile, smem, shydration, sread, swrites, slaunches, nodeDisc,
           nodeReady, nodeSynced, discShown, discCall, discGuessed, osBoot,
           bootCalls, osMenu, menuCalls, firstRuns, early, discOff, menuOff>>

nodeVars == <<nodeDisc, nodeReady, nodeSynced>>
discVars == <<discShown, discCall, discGuessed>>
bootVars == <<osBoot, bootCalls>>
menuVars == <<osMenu, menuCalls>>
fileVars == <<sfile, shydration, sread, slaunches>>

\* Nothing chosen or nothing under way.
NoValue == ""

AInit ==
  /\ sfile = Defaults /\ smem = Defaults
  /\ shydration = "idle" /\ sread = Defaults /\ swrites = <<>>
  /\ slaunches = 1
  /\ nodeDisc = Defaults.disc /\ nodeReady = FALSE /\ nodeSynced = FALSE
  /\ discShown = NoValue /\ discCall = NoValue /\ discGuessed = FALSE
  /\ osBoot = FALSE /\ bootCalls = <<>> /\ osMenu = FALSE /\ menuCalls = <<>>
  /\ firstRuns = 0 /\ early = FALSE
  /\ discOff = FALSE /\ menuOff = FALSE

-----------------------------------------------------------------------------
(* The store and its file. *)

\* set(...): the store changes and the whole of it is written out.
SetSettings(m) ==
  /\ Len(swrites) < 2
  /\ smem' = m
  /\ swrites' = Append(swrites, m)
  /\ early' = (early \/ shydration # "done")

FileSaves ==
  /\ swrites # <<>>
  /\ sfile' = Head(swrites) /\ swrites' = Tail(swrites)
  /\ UNCHANGED <<smem, shydration, sread, slaunches, nodeVars, discVars,
                 bootVars, menuVars, firstRuns, early, discOff, menuOff>>

StartHydration ==
  /\ shydration = "idle"
  /\ shydration' = "reading" /\ sread' = sfile
  /\ UNCHANGED <<sfile, smem, swrites, slaunches, nodeVars, discVars,
                 bootVars, menuVars, firstRuns, early, discOff, menuOff>>

\* What onFinishHydration starts: the first-run login item, and the quiet
\* registration of the Explorer verb.
FirstRun(m) ==
  IF m.claimed
  THEN smem' = m /\ UNCHANGED <<swrites, bootCalls, firstRuns>>
  ELSE /\ smem' = [m EXCEPT !.claimed = TRUE]
       /\ swrites' = Append(swrites, [m EXCEPT !.claimed = TRUE])
       /\ bootCalls' = Append(bootCalls, [want |-> TRUE, user |-> FALSE])
       /\ firstRuns' = firstRuns + 1

WindowsContextMenuSync(m) ==
  /\ menuCalls' = Append(menuCalls, [want |-> m.menu, user |-> FALSE])
  /\ menuOff' = (menuOff \/ menuCalls # <<>>)

FinishHydration ==
  /\ shydration = "reading" /\ Len(swrites) < 2
  /\ Len(bootCalls) < 2 /\ Len(menuCalls) < 2
  /\ shydration' = "done"
  /\ FirstRun(sread)
  /\ WindowsContextMenuSync(sread)
  /\ UNCHANGED <<sfile, sread, slaunches, nodeVars, discVars, osBoot, osMenu,
                 early, discOff>>

\* The hook that waits: nothing before the file was merged.
MountWaits == StartHydration

\* The process ends, whatever is under way, and is launched again.  The node
\* reads the file when it starts.
Relaunch ==
  /\ slaunches < MaxLaunches
  /\ slaunches' = slaunches + 1
  /\ early' = (early \/ swrites # <<>>)
  /\ smem' = Defaults /\ shydration' = "idle" /\ swrites' = <<>>
  /\ nodeDisc' = sfile.disc /\ nodeReady' = FALSE /\ nodeSynced' = FALSE
  /\ discShown' = NoValue /\ discCall' = NoValue /\ discGuessed' = FALSE
  /\ menuOff' = (menuOff \/ menuCalls # <<>>)
  /\ bootCalls' = <<>> /\ menuCalls' = <<>>
  /\ UNCHANGED <<sfile, sread, osBoot, osMenu, firstRuns, discOff>>

-----------------------------------------------------------------------------
(* Discoverability. *)

NodeBecomesReady ==
  /\ ~nodeReady
  /\ nodeReady' = TRUE
  /\ UNCHANGED <<fileVars, smem, swrites, nodeDisc, nodeSynced, discVars,
                 bootVars, menuVars, firstRuns, early, discOff, menuOff>>

\* DeviceNodeSync applies the store's values once the node is ready, whether
\* or not the store has read its file.
SyncNodeOnStartup ==
  /\ nodeReady /\ ~nodeSynced
  /\ nodeSynced' = TRUE
  /\ \/ nodeDisc' = smem.disc /\ early' = (early \/ shydration # "done")
        /\ discOff' = (discOff \/ discCall # NoValue)
     \/ UNCHANGED <<nodeDisc, early, discOff>>
  /\ UNCHANGED <<fileVars, smem, swrites, nodeReady, discVars, bootVars,
                 menuVars, firstRuns, menuOff>>

\* The page asks the node when it opens.  That fails while the node is not up:
\* loading ends all the same, and the options come with the initial value.  The
\* node is up a little before isNodeReady says so, so either may happen early.
LoadDiscoverability ==
  /\ discShown = NoValue
  /\ \/ discShown' = nodeDisc /\ discGuessed' = FALSE
     \/ discShown' = "everyone" /\ discGuessed' = TRUE
  /\ UNCHANGED <<fileVars, smem, swrites, nodeVars, discCall, bootVars,
                 menuVars, firstRuns, early, discOff, menuOff>>

\* The options are shown once loaded and disabled while a choice is saved.
RadioEnabled == discShown # NoValue /\ discCall = NoValue

\* Mutant: the choice is persisted before the node accepted it.
PersistFirst(v) ==
  /\ RadioEnabled /\ v # discShown
  /\ discShown' = v /\ discCall' = v /\ UNCHANGED discGuessed
  /\ SetSettings([smem EXCEPT !.disc = v])
  /\ UNCHANGED <<fileVars, nodeVars, bootVars, menuVars, firstRuns, discOff, menuOff>>

ChangeDiscoverability(v) ==
  /\ RadioEnabled /\ v # discShown
  /\ discShown' = v /\ discCall' = v /\ UNCHANGED discGuessed
  /\ UNCHANGED <<fileVars, smem, swrites, nodeVars, bootVars, menuVars,
                 firstRuns, early, discOff, menuOff>>

\* Accepted: persist.  Refused: show what the node has, if it can be asked.
DiscoverabilityAnswers ==
  /\ discCall # NoValue
  /\ discCall' = NoValue
  /\ \/ /\ nodeDisc' = discCall
        /\ SetSettings([smem EXCEPT !.disc = discCall])
        /\ discGuessed' = FALSE /\ UNCHANGED discShown
     \/ /\ discShown' = nodeDisc /\ discGuessed' = FALSE
        /\ UNCHANGED <<nodeDisc, smem, swrites, early>>
     \/ /\ discGuessed' = TRUE
        /\ UNCHANGED <<nodeDisc, smem, swrites, early, discShown>>
  /\ UNCHANGED <<fileVars, nodeReady, nodeSynced, bootVars, menuVars, firstRuns,
                 discOff, menuOff>>

-----------------------------------------------------------------------------
(* Start at login. *)

BootSwitchEnabled == \A i \in DOMAIN bootCalls : ~bootCalls[i].user

ToggleBoot(want) ==
  /\ BootSwitchEnabled
  /\ Len(bootCalls) < 2
  /\ bootCalls' = Append(bootCalls, [want |-> want, user |-> TRUE])
  /\ UNCHANGED <<fileVars, smem, swrites, nodeVars, discVars, osBoot,
                 menuVars, firstRuns, early, discOff, menuOff>>

DropCall(s, i) == [j \in 1..(Len(s) - 1) |-> IF j < i THEN s[j] ELSE s[j + 1]]

\* The answer is the state the system ended up in; an error changes nothing.
BootAnswers(i) ==
  /\ bootCalls' = DropCall(bootCalls, i)
  /\ \/ /\ osBoot' \in {osBoot, bootCalls[i].want}
        /\ SetSettings([smem EXCEPT !.boot = osBoot'])
     \/ UNCHANGED <<osBoot, smem, swrites, early>>
  /\ UNCHANGED <<fileVars, nodeVars, discVars, menuVars, firstRuns, discOff, menuOff>>

\* Opening the page asks the system and corrects the cache.
BootLoads ==
  /\ shydration = "done" /\ bootCalls = <<>> /\ smem.boot # osBoot
  /\ SetSettings([smem EXCEPT !.boot = osBoot])
  /\ UNCHANGED <<fileVars, nodeVars, discVars, bootVars, menuVars, firstRuns,
                 discOff, menuOff>>

-----------------------------------------------------------------------------
(* The Explorer menu: optimistic, taken back when the registry refuses. *)

MenuSwitchEnabled == \A i \in DOMAIN menuCalls : ~menuCalls[i].user

ToggleMenu ==
  /\ MenuSwitchEnabled
  /\ Len(menuCalls) < 2
  /\ menuCalls' = Append(menuCalls, [want |-> ~smem.menu, user |-> TRUE])
  /\ SetSettings([smem EXCEPT !.menu = ~@])
  /\ menuOff' = (menuOff \/ menuCalls # <<>>)
  /\ UNCHANGED <<fileVars, nodeVars, discVars, bootVars, osMenu, firstRuns, discOff>>

MenuAnswers(i) ==
  /\ menuCalls' = DropCall(menuCalls, i)
  /\ \/ osMenu' = menuCalls[i].want /\ UNCHANGED <<smem, swrites, early, menuOff>>
     \/ /\ menuCalls[i].user
        /\ SetSettings([smem EXCEPT !.menu = ~menuCalls[i].want])
        /\ UNCHANGED <<osMenu, menuOff>>
     \/ /\ ~menuCalls[i].user
        /\ menuOff' = TRUE /\ UNCHANGED <<osMenu, smem, swrites, early>>
  /\ UNCHANGED <<fileVars, nodeVars, discVars, bootVars, firstRuns, discOff>>

StoreNext ==
  FileSaves \/ MountWaits \/ FinishHydration \/ Relaunch

DiscNext ==
  \/ NodeBecomesReady \/ SyncNodeOnStartup \/ LoadDiscoverability
  \/ \E v \in {"everyone", "off"} : ChangeDiscoverability(v)
  \/ DiscoverabilityAnswers

BootNext ==
  \/ \E b \in BOOLEAN : ToggleBoot(b)
  \/ \E i \in DOMAIN bootCalls : BootAnswers(i)
  \/ BootLoads

MenuNext ==
  \/ ToggleMenu
  \/ \E i \in DOMAIN menuCalls : MenuAnswers(i)

\* The three settings share the store and its file only.
ANext == StoreNext \/ DiscNext \/ BootNext \/ MenuNext

-----------------------------------------------------------------------------
SettingsRecord == [disc : {"everyone", "off"}, boot : BOOLEAN,
                   menu : BOOLEAN, claimed : BOOLEAN]

ATypeOK ==
  /\ {sfile, smem, sread} \subseteq SettingsRecord
  /\ shydration \in {"idle", "reading", "done"}
  /\ Len(swrites) =< 2 /\ slaunches \in 1..MaxLaunches
  /\ {nodeReady, nodeSynced, discGuessed, osBoot, osMenu, early, discOff, menuOff} \subseteq BOOLEAN
  /\ firstRuns \in Nat

(***************************************************************************)
(* Start at login is switched on by the application once per install: over *)
(* any number of launches, and whatever the user toggles, the first-run    *)
(* step runs at most once (useAutostartFirstRun waits for the file and     *)
(* claims the step before it acts).  Only a write lost with the process,   *)
(* or a setting changed before the file was merged, can bring it back.     *)
(***************************************************************************)
FirstRunOnce == ~early => firstRuns =< 1

(***************************************************************************)
(* The discoverability that is persisted and the one the node has are the  *)
(* same once no call is under way, also when the node refused a change,    *)
(* when the process ended during one and over restarts; and the one on     *)
(* screen is the same too unless the page could not ask the node, when it  *)
(* opened or after a refusal (discGuessed).  A startup sync that ran       *)
(* before the file was merged (early) or crossed a choice of the user      *)
(* (discOff) is the exception.                                             *)
(***************************************************************************)
DiscoverabilityAgrees ==
  discCall = NoValue /\ shydration = "done" /\ ~early /\ ~discOff
    => nodeDisc = smem.disc /\ (discGuessed \/ discShown \in {NoValue, nodeDisc})

(***************************************************************************)
(* The Explorer switch tells the truth once no call is under way: a        *)
(* refused change is taken back.                                           *)
(***************************************************************************)
MenuTellsTruth ==
  menuCalls = <<>> /\ shydration = "done" /\ ~early /\ ~menuOff
    => osMenu = smem.menu

(***************************************************************************)
(* The stored settings and the parties that hold their truth, the node, the *)
(* operating system and the registry, agree across launches, failed calls  *)
(* and writes lost with the process (the three parts above).               *)
(***************************************************************************)
SettingsAgree == FirstRunOnce /\ DiscoverabilityAgrees /\ MenuTellsTruth
=============================================================================
