# DashBeam: a TLA+ verification project

DashBeam sends files from device to device. A Tauri desktop and mobile
application (`src-tauri/`, `frontend/`) sits on a Rust engine: `engine/protocol`
holds the wire messages and the transfer code, `engine/native` the long-lived
node. A browser build runs the same interface over a wasm engine, and
`scripts/` makes the releases. This directory models the parts whose
correctness depends on the order of concurrent steps, checks them with TLC and
proves the main safety properties with TLAPS. Definitions keep the names of the
functions they model, and `PROJECT.json` maps each to its lines.

## 1. Inventory

| component | state | operations | hard behaviour | what makes it correct |
|---|---|---|---|---|
| paired connections (`paired_connections.rs`) | `tasks`, `sessions`, presence, one connect loop per device | refresh, nudge, dial, register/unregister inbound, teardown, forget, shutdown | tasks aborted at an await; two links of one device; check and act under different locks | one loop per device, a newer link is not torn down by an older one, no dial after forget, a paired device is retried, a dead one shown offline |
| control sessions (`node.rs`) | one handler per inbound connection, allowed set | accept, Recognition, Forget, close | run beside the connect loops on the same maps | as above |
| pairing window (`pairing_host.rs`, `node.rs`) | open flag, expiry task, sessions of joining peers | start, stop, expire, pair | commands, task and sessions change the same flags at different awaits | a window that accepts strangers does not stay open |
| paired device store (`device_identity.rs`) | status, trust, paired_at per device | remember, forget, trust, mark unpaired, mark stale | read by a refresh before it is changed | no stale list is acted upon |
| unpaired rate limiter (`rate_limit.rs`) | a bucket per endpoint id | allow, prune | table at its cap, rounding of refills | rate, first contact and size bounds |
| receive sessions, partial stores, history (`commands.rs`, `receive.rs`, `storage.rs`, `history.rs`) | cancel slot, hash in flight, last cancelled hash, a directory per hash, rows | receive_file, cancel_receive, delete, clear, sweeps | invocations overlap while one closes; failure and crash between steps | one download at a time, a cancel ends its receive, no store is lost |
| receiving side of the interface (`useReceiver`, `TicketInput`, `useAutoAcceptQueue`, dialogs) | session flags, ticket and preview, invite queue | receive, stop, done, accept, drain | state set and state committed differ; late and crossing events | a reset stays, a finished receive frees the session, an accepted invite is received |
| sending side (`useSender`, `PairedDevicesPanel`, `useDragDrop`) | view, ticket, invites, selection | share, stop, invite, drop, copy | stop during start, timers that outlive their cause | page and backend agree on what is shared, the selection can be sent |
| devices page (`usePairing`, `node-capability-store`, `pairing-data-store`, `nearby-store`, dialogs) | node status, pairing window, device list, nearby list | refresh, open, join, trust, forget, pair | events lost before their listener exists, answers out of order | the page settles, lists follow the backend, only what was confirmed is granted |
| shell of the interface (updater, history page, settings, network pages) | stores over slow calls | check, install, refresh, toggle, test | answers for what has changed meanwhile; restarts between write and read | what is shown belongs to what it stands next to |
| browser build (`wasm-bridge-client`, `platform-api`, `web-*`) | one engine, chosen directory, event bus, store of chosen files | load, receive, save, subscribe, pick, drop, send | concurrent first calls, name conflicts, a store that changes while a payload is read | no file replaced, completion means saved, what is sent is what was chosen and described |
| text rules (receive links, reveal path, banner names) | none | parse, join, clip | inputs chosen by others | the ticket is read back, the path leads to the files, a stranger is marked |
| release scripts | files, assets, packages | release, patch, package, build, notes | a step fails and the script is run again | success means the whole result is of this run |

The parts meet in these places. Connect loops and control handlers share
`sessions`, presence and the device store, each under its own lock; pairing
commands change the store and then call `refresh`. `receive_file`,
`cancel_receive` and the history commands share `AppState` and the partial
stores. The interface starts work by commands and learns of it by answers and
by events, which travel on different paths and overtake each other; its
components share stores, and React commits what was set some time later.

## 2. Modules

| module | models |
|---|---|
| `PairedConnections` | connect loops, inbound handlers, refresh and nudge, pairing commits, forget on either side, shutdown and restart |
| `ReceiveSessions` | invocations of receive_file, cancel, partial stores, history rows, relaunch |
| `PairingWindow` | the engine's pairing window: starts, stops, expiry tasks, joining peers |
| `UnpairedRateLimiter` | allow and prune, with an observer that counts grants |
| `ReceiverUI`, `ReceiveForm` | the receive session of the page; ticket field, preview, save location, tabs |
| `PairedInvites`, `InviteServer` | routing of invites, dialogs, auto-accept queue and its drain; the abstract server the queue implements |
| `SenderUI`, `SendInvites`, `FileIntake` | a share from the button to its end; invites to devices; how files come into the selection |
| `NodeStatus`, `HostPairing`, `DeviceRows`, `NearbyList`, `NearbyPairing` | the devices page, one module per store or dialog family |
| `Updater`, `HistoryUI`, `AppSettings`, `NetworkGuard`, `NetworkPages` | the settings and history pages with what they talk to |
| `WebPlatform`, `WebSend` | the browser's replacements of the shell; choosing and sending files in the browser |
| `TextRules` | how a ticket is found in shared text, which path is revealed, how a device name is clipped |
| `ReleaseScripts`, `ReleaseNotes` | what the scripts leave behind; what the notes say |
| `MCPairedConnections`, `MCReceiveSessions` | symmetry and view for TLC |
| `MCTransfers`, `MCSending`, `MCDevices`, `MCShell` | the modules of one side of the application together |
| `PairedConnections_proof`, `ReceiveSessions_proof`, `UnpairedRateLimiter_proof`, `PairedInvites_proof` | theorems about one module |
| `Transfers_proof`, `Sending_proof`, `Devices_proof`, `Shell_proof` | theorems about the composed modules and their parts |

The four composing modules put parts side by side that share no variable; a
variable (`scene`, `part`) chosen in the initial state names the one that moves.
Where parts do interact the interaction is inside a module: `SenderUI` holds the
page and the two commands it uses, `ReceiverUI` the page and the shell's slot,
`DeviceRows` the list and the backend's records.

### Engine and shell

*PairedConnections.* A task is a record with a program counter over the await
points of `connect_loop`; `tasks` maps a device to the handle last stored for
it, which is kept when the task returns, as in the code. An abort sets a flag;
`Goto` and `CancelledAtLock` make it effective at the next await, or at a lock
if that is contended. Every critical section of a lock is one action:
`SetSession` and `SetSessionOnline`, `TeardownSession` and `TeardownOffline`,
`RefreshRead` and `RefreshApply`, `NudgeCheck` and `RespawnConnectTask`,
`RegisterSeen` and `RegisterStore` are separate because the code releases a lock
between them. Handlers follow `handle_control_session` from the first message
to `unregister_inbound`; `UserForgets ...` is `forget_paired` step by step. A
device record is its status and whether it is young enough for the grace of
`pairing_is_settling`; times are nondeterministic; a commit may happen at any
time, which over-approximates its callers. Of the outbound read loop the model has
the Forget: invites only raise events, no accepting side sends a Recognition on
the link it accepted, and the export of keying material of an established
connection does not fail. `Environment` names the events a run
admits; the theorems hold for every choice.

*ReceiveSessions.* Each element of `Receives` is one invocation of
`receive_file`. The oneshot channel is `signal`: sent, dropped or neither; a
dropped sender ends the download like a sent one, as `_ = cancel_rx` in the
select does. `store` is the set of hashes with a directory, `cleanup` the armed
guards, `pointer` the rows that still name their store.

*PairingWindow.* `start_pairing_host` and `stop_pairing_host` are split at the
locks they await; `accepting` is what the handshake hook reads, `flag` its copy
in `NodeService`. An aborted expiry task ends in its sleep or at the access lock.

*UnpairedRateLimiter.* One call of `allow` is one step, since it runs under a
mutex. `mark` and `granted` observe and influence nothing.

### Interface

A setter changes the next state of a React component; what buttons, closures
and other components read is the state last committed. Where that difference
can matter the model keeps both (`s` and `seen` in `ReceiverUI`, `busy` and
`busySeen` in `PairedInvites`, `drawn` in `Updater`, `shown` in
`NearbyPairing`), and an effect that is scheduled but has not run is a flag
(`effectDue`, `drainDue`). A command is in flight from the click to its answer;
the backend's step and the arrival of the answer are different actions. Events
of one channel keep their order. A timer is a counter of timers that may fire.

Several stores make no promise when answers cross, and the code has no guard
there. The models contain these behaviours, mark them with a history flag and
state the property for the others: `hasty` (a share started before the last one
is over), `disturbed` (a reload that crossed a trust command, that failed, or
that was applied after one with newer records), `overtaken` (an event before an
answer that was already read), `unsaid` (nearby devices, and the reason of the
banner, that the backend drops without an event), `hollow` (a dropped folder
without files), `htorn` (an older refresh applied after a newer, a failed stat,
an announcement before the listener), `offbeat` (a cached handle of another version),
`early` (a setting changed before the file was read, or a write lost with the
process), `discOff` (the startup sync crossed a choice), `discGuessed` (the page
shows the initial value because the node could not be asked), `menuOff`, `dedited`, `nlost` (a reconfiguration refused
because something is shared), `wshared` (two receives saving into one
directory), `touched` (the store of files changed while a payload was read),
`leftover` (a name under which an earlier choice left files). Section 5 lists what that excludes.

*PairedInvites* loads the device list as `hydrate` does: the list arrives, or the
node is not ready or the load fails, and then too the page counts as hydrated and
whoever waited goes on. *DeviceRows* keeps the pairing status and the trust of a
record apart, as `remember`, `mark_unpaired_remotely` and `trust_paired_device`
do: pairing again and unpairing keep the flag, and a device that is not paired can
be trusted. A removal announces itself (`device-unpaired`, reason local) besides
the reload of the page, so each starts two reloads; these may answer in any order
and disturb only if they read different records. `confirmed` remembers whose
trust the user confirmed and neither withdrew nor removed with the device.
*NearbyList* has the changes of the registry that raise an event and those that do
not: blocking a device, turning discoverability off, discovery that works again.
*FileIntake* tells a folder with files behind it from one without.
*AppSettings* asks the node for its discoverability when the page opens, ready or
not; the startup sync counts as applied when it is sent.
*HistoryUI* has the clear of the settings page as well, which announces no event:
a history page that is open keeps its rows until the next one (`htorn`). Its
listener is registered some time after the page is mounted.
*WebSend* splits a send at its awaits, a path per step of the loop, and a drop
between the registration of the folder and that of its files. *TextRules* has no
control: words, links and names are short sequences, and the rules are compared
with what they are for. A text that begins with a receive link is taken as one
link, and what follows becomes part of its ticket; `SharedLinkReadsBack` leaves
it out.
*WebPlatform* keeps the widths of the archive's fields as `W16` and `W32`, and
a file is a name and a conflict number; handlers of its event bus do not throw
(one that did would end the loop of `dispatchWebEvent` before the later ones).
*ReleaseScripts* gives each step its failure; a run begins with what the last one
left. The version of the README is its badge's: the download links, which
`sync-version.js` rewrites as well, are read by no check. *ReleaseNotes* has no
control of its own: the notes are operators on the commits, compared with a direct
definition of what they should account for. Logins are compared up to case
throughout and the log of the previous tag can be read; the script compares them
exactly in two places (lines 336 and 388) and takes everybody for new when that
`git log` fails.

## 3. Runs

| run | result | shows |
|---|---|---|
| `links` | pass | with inbound links, failing dials, nudges, refreshes and a forget: one running loop per device (`SingleConnector`), no dial after forget (`ForgottenNotDialed`), an old teardown leaves a newer session (`NewerLinkSurvives`) |
| `lifecycle` | pass | the last across pairing, re-pairing, shutdown, restart, rotation |
| `liveness` | pass | a device that stays paired has a connect loop again and again (`ActiveDeviceRetried`); one without a link is eventually shown offline (`OfflineDetected`) |
| `repair` | violation | a finished task's handle hides the re-paired device from `refresh` |
| `serial` | pass | one receive between reservation and release (`OneDownload`); each partial store is known to a row, an entry or a receive (`PartialStoresTracked`) |
| `cancel` | pass | a receive whose cancel was sent ends (`CancelEndsReceive`) |
| `transfers` | pass | nothing late undoes a reset (`ResetStays`); a finished receive frees the session (`FinishedReceiveFrees`); the preview is of the ticket or a wait that ends (`PreviewHolds`); no invite is stranded or accepted and dropped (`NoInviteLost`); a paired sender is taken for a stranger only while the page has no device list (`PairedNeverNearby`); the queue refines `InviteServer` (`ServesInvites`); words and other links around a receive link do not change the ticket read, the revealed path leads to the files, and the mark of a stranger survives the clipping of its name (`TextIsReadRight`) |
| `ghost` | violation | the completion of a stopped receive is shown as the next one's |
| `sending` | pass | page and backend agree on the share (`PageMatchesShare`); 'sending' has a call (`SendingHasCall`); what the drop zone shows is so (`IntakeHolds`); button and share sheet come back (`SendingMovesOn`) |
| `devices` | pass | the page settles and a ready node is shown (`NodeReachesPage`); a window that closed unseen disappears (`StaleWindowCloses`) and none stays open in the engine (`WindowHasCloser`); no control is busy for nothing (`BusyHasCall`); lists follow the backend (`ListsMatchBackend`); trust and pairing go to what was confirmed (`OnlyConfirmed`) |
| `shell` | pass | `LimiterBounds`, `UpdateIsTracked`, `HistoryAgrees`, `SettingsAgree`, `NetworkSettingsHold`; the browser build saves what it announces, and size, count, kind and files of what it sends are those of the choice (`BrowserHolds`, `NoFileReplaced`); a release and its notes are whole (`ReleaseIsRight`) |
| `silent` | violation | an edit that needs no warning never reaches the node |

The violations are disagreements between the code and its own comments;
`PROJECT.json` quotes the lines. Every property of a passing run has a mutant, a
plausible bug of the code kept next to the definition it changes, under which
TLC finds the property violated. Invariants with several parts are conjunctions
of named parts, each with its own comment.

**Refinement.** `ServesInvites` is `InviteServer!Spec` with the queue, the
drain's invite and the published busy flag as its variables: every step of
routing, dialogs, drain and receiver is a step or a stutter of a server that
takes invites in order, without duplicates, one at a time and never while it is
occupied, and the line moves while the receiver stays free.

**Bounds.** One device is enough for `PairedConnections`: state is kept per
device, the few actions that touch several treat each by itself, and the
theorems cover any number. Two task identities are the running loop and its
aborted predecessor, two connections an old and a new link, or an inbound and an
outbound one. In `ReceiveSessions` three invocations and two hashes give a
predecessor, a closing receive and a successor; `cancel` uses two because it
checks liveness without symmetry. In the interface two of everything that can
be confused (receives, tickets, invites, peers, requests, releases, refreshes,
rows) show every crossing of an old and a new one. `devices` exercises removal and
trust, and renaming, in two slices (`rows`, `names`) with two announcements under
way (`MaxNews`) and `shell` the history page in two: transfers that end beside it,
and filters and notices with the clear of the settings page; `QueueLimit` 2 fills the
queue; two calls, answers or events in flight let any of them overtake. Timers
are counted up to two. `MaxLaunches` 3 gives a launch after one that lost a
write. The limiter has three peers for a table of two and time for three
intervals. `W16` = 4 and `W32` = 300 let an archive of four entries reach both
limits; `MaxScriptRuns` 3 gives a failed run, a repetition and one more.
Texts have up to three words (`MaxWords`), results up to two files; the name
limits 4 and 5 put names on both sides of each. Two names, with two
files and with one, let a folder be chosen again with fewer files, a file take
its name, and two folders be sent together.
Deadlock is not checked where bounded counters and finite sets of invocations
end a behaviour; `PairedConnections` is checked for it.

**Fairness.** Weak fairness is stated for what tokio, the shell and the event
loop run by themselves: each task's and handler's next step, commands, answers,
listeners, renders, effects and timers. Users, peers, a completing transfer and
a node that starts are never assumed. Two actions are strongly fair.
`WaitMaxPasses`: the 30 seconds of the wait for the node pass although polls
interrupt the pauses. `ConsumeAndroidShare`: the page polls every second and
each copy begins with a choice in a picker, so a poll falls between any two
copies. Nudges are left out of the `liveness` run, because unbounded sightings
can abort every dial in turn, and so are restarts. `PartialStoresTracked` is
checked without cancels, bad tickets and failing removals: the single
`last_cancelled_recv_hash` can then be overwritten, and a directory whose row is
deleted stays until the sweep at launch.

## 4. Proofs

All proofs are for arbitrary constants under the named assumptions of the
modules. Each theorem rests on an inductive invariant that is stated in the
proof module; this is what it holds beyond the property, and why.

*Engine and shell*

* `PairedConnections_proof`. `TypeCorrect` is inductive by itself. `OneConnector`
  and `ForgottenIsNotDialed` rest on `LoopInv`: an unaborted running task is the
  one `tasks` holds for its device, each handle belongs to its device, and a
  running task past the loop head whose record is absent is aborted or about to
  be. The middle part is needed because `refresh` and `nudge` abort by device and
  would otherwise abort another device's task; the last because the head of the
  loop and the deletion of the record are different steps. `LiveLinkSurvives` is
  the action property `NewerLinkSurvives`. It needs `LinkInv`: who is about to
  tear down a connection holds one that is closed, or one on which the device was
  forgotten; and that a connection somebody holds is never opened again.
* `ReceiveSessions_proof`. `TypeCorrect` needs `OpenRowHasOwner`, since only the
  owner's finalization closes a row. `SlotSerialises` needs `SlotHeld`: without
  cancels, a receive in its download is the one in the slot. `StoresAreTracked`
  proves `PartialStoresTracked` for the environments without cancels, failing
  removals and bad tickets (`Undisturbed`), which are the three events that do
  lose a store. It needs `OneUnfinished`: the session of the page lets one
  unfinished receive run, during which the last-cancelled entry is empty.
* `UnpairedRateLimiter_proof`. `RateIsBounded` uses the account `Covered`: what a
  peer was granted plus what its bucket could grant, both in ms of refill, is
  below one burst, one interval and the length of the window. A pruned bucket was
  full, so the peer's next fresh bucket is covered as well.
  `FirstContactIsServed` is inductive with the types, `TableIsBounded` follows
  from the finite-set theorems; `LimiterIsSafe` combines the three.

*Receiving side*

* `PairedInvites_proof`. Two lemmas say what routing (`RouteEffect`) and the loop
  of the drain (`DrainLoopEffect`) can do to the queue; the second needs that the
  first trusted invite is a position of the queue, which follows from the
  well-foundedness of the naturals. From them `TypeCorrect`, `NothingIsLost`
  (inductive with the types) and `QueueServesInOrder`, the refinement without its
  fairness: `StepServes` maps each action to a step of `InviteServer`.
  `PairedIsNotAStranger` is an action property: routing takes a sender for a
  stranger only if the list it has does not name it, and a list that arrived names
  every paired device.
* `Transfers_proof`. `ResetIsFinal`: `ResetStays` is inductive as it stands.
  `PreviewIsOfTicket` needs that a request that counts is for the ticket in the
  field, since the sequence number moves with the ticket. `TextsAreReadRight`: the
  text rules are functions of their last input, and lemmas say what they give for
  texts of any length (`SharedIsRead`) and any list of names (`RevealReaches`).
  `TransfersTypes` has the types of the four parts.

*Sending side*

* `Sending_proof`. `SendingIsAnswered` is inductive with the types.
  `PageIsOfShare` follows a share through the page, the commands and their
  answers. A live share has its ticket on the way, or the page has left the idle
  screen, or a stop is under way (`LiveIsKnown`); unless the user was `hasty`, one
  ticket at a time is on its way and each is of the live share or about to be
  cleared (`Waiting`). Page and backend agree only when nothing is under way, so
  the invariant has to speak of every order of commands and answers.
  `ZoneIsUsable` relates the selection, the highlight and the copy to the last
  event of each; a selected folder was read, with files or without. `SendingTypes` has the types of the three parts.

*Devices page*

* `Devices_proof`. `WindowAlwaysCloses` needs `AbortedIsStored`: a task can be
  aborted only after its start stored the handle, so a freshly spawned one is due.
  Whatever takes the last closer away closes the window or is at the lock.
  `BusyIsAnswered` is inductive with what each dialog waits for.
  `OnlyConfirmedIsTrusted` is an action property: the device in a dialog, the one
  in the call and the one in the backend's step are the same, and a record that is
  trusted, paired or not, or a command that will make it so, belongs to a
  confirmation that stands.
  `ListsAreRight`: for the paired devices, until two changes cross (`disturbed`)
  trust commands and reloads are not under way together, the newest of several
  reloads brings the records there are, and the list differs from the records by
  what an announcement, a reload or the optimistic trust of one command will put
  right. For the nearby ones, the last event of the feed tells how things
  are, an answer is right unless an event about it is to come, and the list is
  right unless an event or an answer is to come that puts it right (`NearbyInv`), up
  to what was dropped in silence.
  `DevicesTypes` has the types of the six parts. The bounds are not inductive
  alone: the reads announced for the rows are counted with the changes that
  announced them, the feed of the nearby list with the sightings, and the pairing
  calls under way together with those that landed.

*Shell*

* `Shell_proof`. One invariant per part, combined at the end by a lemma that a
  step of the shell is a step of one part (`ShellParts`).
  `UpdateIsTold` (`UpdInv`): the status is that of the one install under way.
  `HistoryIsShown` (`HistInv`): what the page shows is covered, that is, whatever
  differs from the store will be corrected by a refresh that has not read yet; an
  announcement that no listener hears is made up for by a load that has not read.
  `SettingsAreKept` (`SettingsInv`): the file holds the store up to the writes
  under way, and the node and the system what the last call to them asked for; the
  option shown is the node's unless it is the initial value of a page that could
  not ask.
  It is proved with the three switches interleaved over one store, while TLC
  runs one at a time; `SettingsOfShell` derives the checked specification.
  `NetworkIsRight`: a mark was earned by the last answer for its URL, a call that
  still counts is of the configuration that is set (`StatusInv`), and after a
  confirmed leave the last call to the node has the settings (`GuardInv`).
  `BrowserIsRight` and `FilesAreKept`: while no two receives saved at once, the
  name a receive chose is free until it writes (`SaveInv`); the promise of the
  load counts the loads (`BridgeInv`); a subscription is in the set that is
  registered (`BusInv`); the central directory points at the headers up to the
  wrap of the fields (`ZipInv`); the store holds what was chosen (`StoreInv`), and
  a send's size, count, kind and names are those of the paths read so far
  (`SendInv`). `ReleasesAreWhole`: an asset that is uploaded is of the current
  build, and of the profiles an Android run selected the ones that are done have
  packages of this run (`ScriptsInv`).
  `ReleasesAreRight` adds the notes, which are operators on the commits since the
  tag (`NotesOK` says they are commits, no more is needed). The selections of the
  script are sets of positions in that log; the first n of a sorted list are the
  elements with fewer than n before them. For a strict total order on a finite
  set the ranks are 0 up to the size less one (`RankOnto`), so such a selection
  has n elements or everything (`FirstByFull`): a feature that is left out is
  outranked by a full list. The orders of subjects and of groups are strict and
  total, since the sort is stable. The counts agree because the first commits of
  the subjects and the subjects are in bijection, and a contributor has two areas
  at most because those told are the areas up to the last of their commits that is
  still told, and these are counted.
  `ShellTypes` has the types of all parts, the rate limiter's included. Most are
  in the invariants above; the rest (`RestTypes`, `RestFlags`) are the bounds on
  queued writes, refreshes, calls and rows, and the flags.

Some of these proofs are about sums and sequences of any length: the bytes of the
files sent, the offsets in an archive. The library's induction theorems cannot be
instantiated, so `Shell_proof` derives an induction over sets of numbers from the
well-foundedness of the naturals (`SetInduction`) and proves with it that the
recursive functions behind the sums exist and what they compute; it asks that the
files a browser can choose from are finitely many (`WebSendAssumption`). The proof
of `StoreInv` also corrected the model: a folder's entries are read for the drop
that registered it, which the action now says.

Only model-checked: the liveness properties and the fairness of `ServesInvites`,
and whatever needs ENABLED (out of the prover's reach), and the violations. Every
invariant a passing run checks is stated by a theorem.

## 5. Seen while modelling

Besides the three findings with a run, the models contain these behaviours of
the code, each at its line:

* `paired_connections.rs:249`: `register_inbound` reads `sessions`, releases the
  lock and stores, so an outbound session stored in between is replaced.
* `paired_connections.rs:360`: a failed dial marks a device offline although an
  inbound session may be live.
* `paired_connections.rs:224`: a session stored between the look into the map and
  `notified()` is missed, since `notify_waiters` keeps no permit; the waiter waits
  out its timeout (not modelled).
* `node.rs:392`: a session of an earlier window that completes late closes the
  window that is open by then; `pairing_host.rs:51`: of two overlapping starts
  only one task can be aborted, and the other closes a later window early.
* `commands.rs:572`: the epilogue of a cancelled receive clears the cancel slot
  of its successor, whose download then ends as cancelled.
* `commands.rs:584`: an attempt with an unparseable ticket overwrites the
  last-cancelled entry, which line 504 says it leaves intact.
* `commands.rs:2290`: deleting a history row removes the store under a running
  download of the same hash; `clear_transfer_temp_data` (2441) checks for that.
* `useReceiver.ts:697`: the failed answer of a stopped receive idles the next.
* `useSender.ts:868`: the timer of a failed invite clears the mark of its retry.
* `use-updater.ts:196`: `install` uses the cached handle, which a check may have
  replaced by another version's; `auto-update.tsx:114` restarts without asking
  although `use-transfer-busy.ts:5` says the updater asks first.
* `pairing-data-store.ts:56`, `81`: a hydration that finds the node not ready, or
  whose load fails, ends as hydrated with no devices; an invite of a paired device
  then goes to the Nearby dialog, which line 103 says waiting prevents.
* `web-drag-drop.ts:126`: a dropped folder without files is selected, and the send
  then fails (`web-send-items.ts:33`).
* `device_identity.rs:99`, `commands.rs:1682`: `remember` keeps the trust of a
  device that pairs again; `forget_paired` does emit `device-unpaired`, although the
  comment says a local forget emits nothing, so each removal reloads the list twice.
* `node.rs:1542`, `1672`, `1937`: a blocked device, a registry cleared by turning
  discoverability off and a reason that is gone raise no event, and stay on the
  nearby page until it is read again.
* `discoverability-setting.tsx:50`: opened before the node is up, the page offers
  its options with "everyone" selected, whatever is set.
* `nearby-store.ts:66`, `pairing-data-store.ts:75`, `history.tsx:80`: answers
  are applied in the order they arrive, so an older one may stay on screen.
* `discovery-settings.tsx:122`: a test's answer marks the URL edited meanwhile.
* `web-file-store.ts:24`: `clearWebFile` and `clearWebFiles` have no caller, so a
  folder chosen again without a file it held is shared with that file.
* `web-send-items.ts:65`: the description is made after the bytes were read, and
  shows newer files when one of the same name was chosen meanwhile.
* `web-zip.ts`: collections beyond the 16 and 32 bit fields wrap.
* `patch-linux-deb.js:104`: a failed upload after the delete leaves no asset,
  and a repeated run finds nothing to patch (line 59) and uploads nothing.
* `generate-release-notes.js:484`: the filter of pull requests lacks `style`,
  which the filter of commits has.

## 6. Plan

1. `SessionWaiters`: look-then-listen of `wait_for_connection`, and presence
   events that overtake each other.
2. `Pairing`: host and joiner as two nodes, with either side's messages lost.
3. `NearbyDiscovery` and `NetworkTransition`: registry expiry, scan windows,
   rebuild against shutdown.
4. `HistoryStore`: MAX_RECORDS truncation and the stores it strands.

## 7. Not modelled

Blob transfer and verification belong to the iroh libraries. The pairing
handshake rests on its cryptography. Relay, discovery and TLS options, import
and export, tray, autostart, logging, thumbnails, the wasm glue, the wasm build
and test scripts are I/O of one task without shared state. Generic interface
components (`components/ui`, `animate-ui`), translations and styles keep no
application state. Progress figures, texts, sorting and layout are left out of
the modules that are there. `components` in `PROJECT.json` gives the reason for
each part.
