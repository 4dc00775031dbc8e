------------------------------ MODULE MCShell -------------------------------
(***************************************************************************)
(* The small state machines around the transfers, for TLC: the updater,    *)
(* the history page, the stored settings, the relay and discovery pages    *)
(* and their guard, the browser build, the rate limiter and the release    *)
(* scripts, side by side; part names the one that a behaviour exercises.   *)
(* The history page has two: transfers that end beside the page, and what  *)
(* is only shown, with the settings page's clear, without them.            *)
(***************************************************************************)
EXTENDS UnpairedRateLimiter, Updater, HistoryUI, AppSettings, NetworkGuard,
        NetworkPages, WebPlatform, WebSend, ReleaseScripts, ReleaseNotes

VARIABLE part

ThreeInner == {<<"a", "x">>, <<"a", "y">>, <<"b", "x">>}

FreshInstall == [disc |-> "everyone", boot |-> FALSE, menu |-> TRUE, claimed |-> FALSE]

Net(mode, fallback, text, discovery) ==
  [mode |-> mode, fallback |-> fallback, text |-> text, discovery |-> discovery]
FourNetworks ==
  {Net("default", "strict", 1, "default"), Net("custom", "strict", 1, "default"),
   Net("custom", "strict", 2, "default"), Net("custom", "public", 1, "custom")}

Parts == {"limit", "update", "history", "filters", "discoverable", "boot", "menu", "guard",
          "relay", "discovery", "status", "save", "send", "bus", "zip", "version",
          "assets", "android", "notes"}

\* Three people: one with a noreply address, one known by name under two
\* addresses, and the owner.
Person(name, email, noreply) == [name |-> name, email |-> email, noreply |-> noreply]
Ann == Person("Ann", "ann@noreply", "ann")
Bea == Person("Bea", "bea@home", "")
BeaAtWork == Person("B. B.", "bea@noreply", "bea")
Boss == Person("Boss", "boss@noreply", "owner")
KnownNames == [n \in {"Bea"} |-> "bea"]

Commit(type, scope, subject, author) ==
  [type |-> type, scope |-> scope, subject |-> subject, author |-> author]
SomeCommits ==
  {Commit("feat", "", "pairing works", Ann), Commit("feature", "pair", "s1", BeaAtWork),
   Commit("feat", "identity", "s1", Boss), Commit("feat", "device", "s2", Ann),
   Commit("feat", "ui", "s2", Boss), Commit("fix", "ui", "s1", Ann),
   Commit("hotfix", "ui", "s2", Bea), Commit("fix", "ui", "long one", Boss),
   Commit("fix", "", "prototype", Ann), Commit("perf", "ui", "s1", Bea),
   Commit("refactor", "", "s2", Bea), Commit("chore", "ui", "s1", Bea),
   Commit("test", "", "s1", Ann), Commit("other", "ui", "test works", Ann)}
SubjectLength(s) == IF s = "long one" THEN 2 ELSE 1
SomeBodies ==
  {[prs |-> {[type |-> "feat", login |-> "ann"], [type |-> "release", login |-> "owner"],
             [type |-> "style", login |-> "eve"]},
    new |-> {"ann", "eve"}]}

ShellInit ==
  /\ part \in Parts
  /\ Init /\ UInit /\ HInit /\ AInit /\ GInit /\ PInit /\ WInit
  /\ WebSendInit /\ ScriptsInit /\ NotesInit
  /\ hstore["b"] = "none"        \* at most one row at launch, one more to come
  /\ hstore["a"] \in IF part \in {"history", "filters"} THEN {"none", "completed", "partial"} ELSE {"none"}
  /\ part # "guard" => ncfg = Net("default", "strict", 1, "default")
  /\ part # "assets" => ~aci
  /\ part # "notes" => nbody = NoBody
  /\ part # "save" => ~whandle /\ \A s \in Slots : wdir[s] = free

ShellNext ==
  /\ UNCHANGED part
  /\ \/ part = "limit" /\ Next
        /\ UNCHANGED <<upVars, hVars, aVars, gVars, pVars, wVars, webSendVars, scriptVars, notesVars>>
     \/ part = "update" /\ UNext
        /\ UNCHANGED <<vars, hVars, aVars, gVars, pVars, wVars, webSendVars, scriptVars, notesVars>>
     \/ /\ \/ part = "history" /\ HNext /\ UNCHANGED <<hfilter, hmissing, hclearing>>
           \/ part = "filters" /\ HNext /\ UNCHANGED hchanges
        /\ UNCHANGED <<vars, upVars, aVars, gVars, pVars, wVars, webSendVars, scriptVars, notesVars>>
     \/ /\ \/ part \in {"discoverable", "boot", "menu"} /\ StoreNext
           \/ part = "discoverable" /\ DiscNext
           \/ part = "boot" /\ BootNext
           \/ part = "menu" /\ MenuNext
        /\ UNCHANGED <<vars, upVars, hVars, gVars, pVars, wVars, webSendVars, scriptVars, notesVars>>
     \/ part = "guard" /\ GNext
        /\ UNCHANGED <<vars, upVars, hVars, aVars, pVars, wVars, webSendVars, scriptVars, notesVars>>
     \/ /\ \/ part = "relay" /\ RelayNext
           \/ part = "discovery" /\ DiscoveryNext
           \/ part = "status" /\ StatusNext
        /\ UNCHANGED <<vars, upVars, hVars, aVars, gVars, wVars, webSendVars, scriptVars, notesVars>>
     \/ /\ \/ part = "save" /\ WebReceiveNext
           \/ part = "bus" /\ BusNext
           \/ part = "zip" /\ ZipNext
        /\ UNCHANGED <<vars, upVars, hVars, aVars, gVars, pVars, webSendVars, scriptVars, notesVars>>
     \/ /\ \/ part = "version" /\ VersionNext
           \/ part = "assets" /\ AssetNext
           \/ part = "android" /\ AndroidNext
        /\ UNCHANGED <<vars, upVars, hVars, aVars, gVars, pVars, wVars, webSendVars, notesVars>>
     \/ part = "send" /\ WebSendNext
        /\ UNCHANGED <<vars, upVars, hVars, aVars, gVars, pVars, wVars, scriptVars, notesVars>>
     \/ part = "notes" /\ NotesNext
        /\ UNCHANGED <<vars, upVars, hVars, aVars, gVars, pVars, wVars, webSendVars, scriptVars>>

ShellSpec ==
  /\ ShellInit
  /\ [][ShellNext]_<<part, vars, upVars, hVars, aVars, gVars, pVars, wVars,
                     webSendVars, scriptVars, notesVars>>

\* The types of the parts.
ShellTypeOK ==
  /\ TypeOK /\ UTypeOK /\ HTypeOK /\ ATypeOK /\ GTypeOK /\ PTypeOK /\ WTypeOK
  /\ WebSendTypeOK /\ ScriptsTypeOK

(***************************************************************************)
(* Network settings: every mark and status shown was earned by the         *)
(* configuration it stands next to (relay-settings, discovery-settings,    *)
(* RelayStatusButton), and a change the user was warned about reaches the  *)
(* node (relay-change-guard).                                              *)
(***************************************************************************)
NetworkSettingsHold ==
  /\ RelayMarksAreEarned /\ DiscoveryMarkIsEarned /\ RelayStatusIsCurrent
  /\ WarnedChangeReachesNode

(***************************************************************************)
(* The browser build in place of the shell: what it receives is saved and  *)
(* announced as it should be (BrowserBuildHolds), and what it sends is     *)
(* what was chosen and described (collectWebSendPayload).                  *)
(***************************************************************************)
BrowserHolds == BrowserBuildHolds /\ OfferMatchesPayload /\ SharesWhatWasPicked

(***************************************************************************)
(* A release: the scripts that report success left the whole of it         *)
(* (ReleaseIsWhole), and its notes tell and thank what they should         *)
(* (NotesAreRight, generate-release-notes.js).                             *)
(***************************************************************************)
ReleaseIsRight == ReleaseIsWhole /\ NotesAreRight
=============================================================================
