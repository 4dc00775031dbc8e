----------------------------- MODULE DeviceRows -----------------------------
(***************************************************************************)
(* The paired devices on the devices page: the list of pairing-data-store, *)
(* how hydrate, the events of the node and the answers to the row's        *)
(* commands change it, and the dialogs that confirm trust, removal and a   *)
(* new name.                                                               *)
(*                                                                         *)
(* The device store of the backend (external here) is changed by the       *)
(* commands and by peers that pair, unpair or go offline.                  *)
(***************************************************************************)
EXTENDS Naturals, Sequences, FiniteSets

CONSTANTS
    Devices,       \* endpoint ids
    NoDevice,      \* no dialog is open
    MaxReloads,    \* bound on hydrates in flight
    MaxTrusts,     \* bound on trust commands in flight for a device
    MaxRemote,     \* bound on changes made by peers
    MaxNews        \* bound on events on their way

ASSUME DeviceRowsAssumption ==
    IsFiniteSet(Devices) /\ NoDevice \notin Devices
    /\ {MaxReloads, MaxTrusts, MaxNews} \subseteq Nat \ {0} /\ MaxRemote \in Nat

\* A record of the backend and a row of the list: the pairing status and the flag.
Absent == [pairing |-> "absent", trusted |-> FALSE]
Paired == [pairing : {"active", "unpaired"}, trusted : BOOLEAN]
Row == {Absent} \cup Paired

VARIABLES
    records,      \* the backend's record of each device
    remote,       \* changes made by peers so far
    rowNews,      \* device-unpaired and device-paired on their way
    rows,         \* devices of pairing-data-store
    unread,       \* hydrates in flight whose devices are not read yet, by caller
    answers,      \* those that read the records, in the order they did
    trustCalls,   \* per device: trust commands in flight, in the order they were made
    forgetCall,   \* per device: none, asked, ok, err, reload
    renameCall,   \* per device: none, asked, ok, err, reload
    forgettingIds,
    trustPeer, forgetPeer, renamePeer,   \* the ids of the dialogs
    trustSaving, forgetSaving,           \* saving of the two ConfirmModals
    confirmed,    \* devices whose trust was confirmed in the dialog and stands
    disturbed     \* a reload crossed a trust command or a newer reload, or failed, or
                  \* a trust command asked for what the list already showed

reloadVars == <<unread, answers>>
listVars == <<rows, reloadVars, disturbed>>
dialogVars == <<trustPeer, forgetPeer, renamePeer, trustSaving, forgetSaving, confirmed>>
deviceRowsVars == <<records, remote, rowNews, listVars, trustCalls, forgetCall,
                    renameCall, forgettingIds, dialogVars>>

RowCalls == {"none", "asked", "ok", "err", "reload"}
Caller == [by : {"event", "forget", "rename"}, id : Devices \cup {NoDevice}]

DeviceRowsTypeOK ==
    /\ records \in [Devices -> Row] /\ rows \in [Devices -> Row]
    /\ remote \in 0..MaxRemote /\ rowNews \in 0..MaxNews
    /\ Len(unread) + Len(answers) <= MaxReloads
    /\ unread \in Seq(Caller) /\ answers \in Seq([for : Caller, list : [Devices -> Row]])
    /\ \A d \in Devices :
         Len(trustCalls[d]) <= MaxTrusts
         /\ trustCalls[d] \in Seq([to : BOOLEAN, failed : BOOLEAN, dialog : BOOLEAN])
    /\ forgetCall \in [Devices -> RowCalls] /\ renameCall \in [Devices -> RowCalls]
    /\ forgettingIds \subseteq Devices /\ confirmed \subseteq Devices
    /\ {trustPeer, forgetPeer, renamePeer} \subseteq Devices \cup {NoDevice}
    /\ {trustSaving, forgetSaving, disturbed} \subseteq BOOLEAN

DeviceRowsInit ==
    /\ records \in [Devices -> Row] /\ rows = records
    /\ remote = 0 /\ rowNews = 0 /\ unread = <<>> /\ answers = <<>>
    /\ trustCalls = [d \in Devices |-> <<>>]
    /\ forgetCall = [d \in Devices |-> "none"]
    /\ renameCall = [d \in Devices |-> "none"]
    /\ forgettingIds = {} /\ confirmed = {d \in Devices : records[d].trusted}
    /\ trustPeer = NoDevice /\ forgetPeer = NoDevice /\ renamePeer = NoDevice
    /\ trustSaving = FALSE /\ forgetSaving = FALSE /\ disturbed = FALSE

-----------------------------------------------------------------------------
\* The list.

Listed(d) == rows[d] # Absent
isPairedDeviceActive(d) == rows[d].pairing = "active"
TrustBusy == \E d \in Devices : trustCalls[d] # <<>>

\* hydrate: the node is ready on this page, so the devices are fetched.
Reload(who) ==
    /\ Len(unread) + Len(answers) < MaxReloads
    /\ unread' = Append(unread, who) /\ UNCHANGED answers
    /\ disturbed' = (disturbed \/ TrustBusy)

\* What a removal or a renaming awaits.
Reloading(who) ==
    \/ \E i \in DOMAIN unread : unread[i] = who
    \/ \E i \in DOMAIN answers : answers[i].for = who

WithoutAt(s, i) == SubSeq(s, 1, i - 1) \o SubSeq(s, i + 1, Len(s))

ReloadReads(i) ==
    /\ unread' = WithoutAt(unread, i)
    /\ answers' = Append(answers, [for |-> unread[i], list |-> records])
    /\ UNCHANGED <<records, remote, rowNews, rows, disturbed, trustCalls, forgetCall,
                   renameCall, forgettingIds, dialogVars>>

\* The answer replaces the list; a failure keeps it.
ReloadEnds(i) ==
    /\ answers' = WithoutAt(answers, i) /\ UNCHANGED unread
    /\ \/ /\ rows' = answers[i].list
          /\ disturbed' = (disturbed \/ \E k \in 1..(i - 1) : answers[k].list # answers[i].list)
       \/ UNCHANGED rows /\ disturbed' = TRUE
    /\ UNCHANGED <<records, remote, rowNews, trustCalls, forgetCall, renameCall,
                   forgettingIds, dialogVars>>

\* device-unpaired or device-paired
Announce == rowNews < MaxNews /\ rowNews' = rowNews + 1

\* A peer unpairs itself or pairs again, both of which keep the flag of a record
\* that is there.
PeerChanges(d) ==
    /\ remote < MaxRemote /\ remote' = remote + 1 /\ Announce
    /\ records' = [records EXCEPT ![d].pairing = IF @ = "active" THEN "unpaired" ELSE "active"]
    /\ UNCHANGED <<listVars, trustCalls, forgetCall, renameCall, forgettingIds, dialogVars>>

\* Mutant: the event only shows its message.
OnUnpairedShowsToast ==
    /\ rowNews > 0 /\ rowNews' = rowNews - 1
    /\ UNCHANGED <<records, remote, listVars, trustCalls, forgetCall, renameCall,
                   forgettingIds, dialogVars>>

OnUnpairedOrPaired ==
    /\ rowNews > 0 /\ rowNews' = rowNews - 1 /\ Reload([by |-> "event", id |-> NoDevice])
    /\ UNCHANGED <<records, remote, rows, trustCalls, forgetCall, renameCall,
                   forgettingIds, dialogVars>>

-----------------------------------------------------------------------------
\* Trust.

NoDialog == trustPeer = NoDevice /\ forgetPeer = NoDevice /\ renamePeer = NoDevice

Trusting(r, on) == IF r = Absent THEN r ELSE [r EXCEPT !.trusted = on]
ApplyTrust(d, on) == rows' = [rows EXCEPT ![d] = Trusting(@, on)]

TrustDevice(d, on, inDialog) ==
    /\ Len(trustCalls[d]) < MaxTrusts
    /\ ApplyTrust(d, on)
    /\ trustCalls' = [trustCalls EXCEPT
         ![d] = Append(@, [to |-> on, failed |-> FALSE, dialog |-> inDialog])]
    /\ disturbed' = (disturbed \/ unread # <<>> \/ answers # <<>> \/ TrustBusy
                     \/ rows[d].trusted = on)

\* The switch of a row: on is confirmed in a dialog, off is not.
ToggleTrust(d) ==
    /\ NoDialog /\ isPairedDeviceActive(d)
    /\ \/ /\ ~rows[d].trusted /\ trustPeer' = d /\ trustSaving' = FALSE
          /\ UNCHANGED <<listVars, trustCalls, forgetPeer, renamePeer, forgetSaving, confirmed>>
       \/ /\ rows[d].trusted /\ TrustDevice(d, FALSE, FALSE)
          /\ UNCHANGED <<reloadVars, dialogVars>>
    /\ UNCHANGED <<records, remote, rowNews, forgetCall, renameCall, forgettingIds>>

\* The dialog is on screen while its device is in the list.
ConfirmTrust ==
    /\ trustPeer # NoDevice /\ Listed(trustPeer) /\ ~trustSaving
    /\ trustSaving' = TRUE /\ confirmed' = confirmed \cup {trustPeer}
    /\ TrustDevice(trustPeer, TRUE, TRUE)
    /\ UNCHANGED <<records, remote, rowNews, reloadVars, forgetCall, renameCall,
                   forgettingIds, trustPeer, forgetPeer, renamePeer, forgetSaving>>

\* The dialog that started the command ends its wait.
TrustDialogEnds(d, i, closes) ==
    LET mine == trustCalls[d][i].dialog /\ trustSaving /\ trustPeer = d
    IN  /\ trustPeer' = IF mine /\ closes THEN NoDevice ELSE trustPeer
        /\ trustSaving' = (trustSaving /\ ~mine)

\* A confirmation stands while its command is on its way or its trust is kept.
ConfirmationStands ==
    confirmed' = {d \in confirmed : \/ records'[d].trusted
                                     \/ \E i \in DOMAIN trustCalls'[d] : trustCalls'[d][i].to}

\* trust_paired_device sets the flag of a device it knows, paired or not, or fails;
\* the commands of one device may run in any order.
TrustRuns(d, i) ==
    /\ ~trustCalls[d][i].failed
    /\ \/ /\ records[d] # Absent
          /\ records' = [records EXCEPT ![d] = Trusting(@, trustCalls[d][i].to)]
          /\ trustCalls' = [trustCalls EXCEPT ![d] = WithoutAt(@, i)]
          /\ TrustDialogEnds(d, i, TRUE)
       \/ /\ trustCalls' = [trustCalls EXCEPT ![d][i].failed = TRUE]
          /\ UNCHANGED <<records, trustPeer, trustSaving>>
    /\ ConfirmationStands
    /\ UNCHANGED <<remote, rowNews, listVars, forgetCall, renameCall, forgettingIds,
                   forgetPeer, renamePeer, forgetSaving>>

TrustFails(d, i) ==
    /\ trustCalls[d][i].failed
    /\ ApplyTrust(d, ~trustCalls[d][i].to)
    /\ trustCalls' = [trustCalls EXCEPT ![d] = WithoutAt(@, i)]
    /\ TrustDialogEnds(d, i, FALSE)
    /\ UNCHANGED <<records, remote, rowNews, reloadVars, disturbed, forgetCall,
                   renameCall, forgettingIds, forgetPeer, renamePeer, forgetSaving>>
    /\ ConfirmationStands

-----------------------------------------------------------------------------
\* Removal and renaming.

OpenForget(d) ==
    /\ NoDialog /\ Listed(d) /\ d \notin forgettingIds
    /\ forgetPeer' = d /\ forgetSaving' = FALSE
    /\ UNCHANGED <<records, remote, rowNews, listVars, trustCalls, forgetCall,
                   renameCall, forgettingIds, trustPeer, renamePeer, trustSaving, confirmed>>

OpenRenamePeer(d) ==
    /\ NoDialog /\ isPairedDeviceActive(d) /\ renamePeer' = d
    /\ UNCHANGED <<records, remote, rowNews, listVars, trustCalls, forgetCall,
                   renameCall, forgettingIds, trustPeer, forgetPeer, trustSaving,
                   forgetSaving, confirmed>>

\* Cancel, or Escape also while the command runs.
CloseDialog ==
    /\ ~NoDialog
    /\ trustPeer' = NoDevice /\ forgetPeer' = NoDevice /\ renamePeer' = NoDevice
    /\ trustSaving' = FALSE /\ forgetSaving' = FALSE
    /\ UNCHANGED <<records, remote, rowNews, listVars, trustCalls, forgetCall,
                   renameCall, forgettingIds, confirmed>>

\* handleForget: the id is marked before the command.
ConfirmForget ==
    /\ forgetPeer # NoDevice /\ Listed(forgetPeer) /\ ~forgetSaving
    /\ forgetCall[forgetPeer] = "none"
    /\ forgetSaving' = TRUE /\ forgettingIds' = forgettingIds \cup {forgetPeer}
    /\ forgetCall' = [forgetCall EXCEPT ![forgetPeer] = "asked"]
    /\ UNCHANGED <<records, remote, rowNews, listVars, trustCalls, renameCall,
                   trustPeer, forgetPeer, renamePeer, trustSaving, confirmed>>

\* forget_paired removes the record and announces it before the command answers.
ForgetRuns(d) ==
    /\ forgetCall[d] = "asked"
    /\ \/ /\ forgetCall' = [forgetCall EXCEPT ![d] = "ok"]
          /\ records' = [records EXCEPT ![d] = Absent] /\ Announce
       \/ forgetCall' = [forgetCall EXCEPT ![d] = "err"] /\ UNCHANGED <<records, rowNews>>
    /\ UNCHANGED <<remote, listVars, trustCalls, renameCall, forgettingIds, trustPeer,
                   forgetPeer, renamePeer, trustSaving, forgetSaving>>
    /\ ConfirmationStands

ForgetReloads(d) ==
    /\ forgetCall[d] = "ok" /\ Reload([by |-> "forget", id |-> d])
    /\ forgetCall' = [forgetCall EXCEPT ![d] = "reload"]
    /\ UNCHANGED <<records, remote, rowNews, rows, trustCalls, renameCall,
                   forgettingIds, dialogVars>>

\* finally: the mark goes, and on success the dialog closes.
ForgetEnds(d) ==
    /\ \/ forgetCall[d] = "reload" /\ ~Reloading([by |-> "forget", id |-> d])
       \/ forgetCall[d] = "err"
    /\ forgetCall' = [forgetCall EXCEPT ![d] = "none"]
    /\ forgettingIds' = forgettingIds \ {d}
    /\ forgetPeer' = IF forgetPeer = d /\ forgetCall[d] # "err" THEN NoDevice ELSE forgetPeer
    /\ forgetSaving' = (forgetSaving /\ forgetPeer # d)
    /\ UNCHANGED <<records, remote, rowNews, listVars, trustCalls, renameCall,
                   trustPeer, renamePeer, trustSaving, confirmed>>

SaveRename ==
    /\ renamePeer # NoDevice /\ Listed(renamePeer) /\ renameCall[renamePeer] = "none"
    /\ renameCall' = [renameCall EXCEPT ![renamePeer] = "asked"]
    /\ UNCHANGED <<records, remote, rowNews, listVars, trustCalls, forgetCall,
                   forgettingIds, dialogVars>>

RenameRuns(d) ==
    /\ renameCall[d] = "asked"
    /\ \/ /\ renameCall' = [renameCall EXCEPT ![d] = "reload"]
          /\ Reload([by |-> "rename", id |-> d])
       \/ renameCall' = [renameCall EXCEPT ![d] = "err"] /\ UNCHANGED <<reloadVars, disturbed>>
    /\ UNCHANGED <<records, remote, rowNews, rows, trustCalls, forgetCall,
                   forgettingIds, dialogVars>>

RenameEnds(d) ==
    /\ \/ renameCall[d] = "reload" /\ ~Reloading([by |-> "rename", id |-> d])
       \/ renameCall[d] = "err"
    /\ renameCall' = [renameCall EXCEPT ![d] = "none"]
    /\ renamePeer' = IF renamePeer = d /\ renameCall[d] # "err" THEN NoDevice ELSE renamePeer
    /\ UNCHANGED <<records, remote, rowNews, listVars, trustCalls, forgetCall,
                   forgettingIds, trustPeer, forgetPeer, trustSaving, forgetSaving, confirmed>>

DeviceRowsNext ==
    \/ \E i \in DOMAIN unread : ReloadReads(i)
    \/ \E i \in DOMAIN answers : ReloadEnds(i)
    \/ \E d \in Devices :
         \/ PeerChanges(d) \/ ToggleTrust(d)
         \/ \E i \in DOMAIN trustCalls[d] : TrustRuns(d, i) \/ TrustFails(d, i)
         \/ OpenForget(d) \/ OpenRenamePeer(d) \/ ForgetRuns(d) \/ ForgetReloads(d)
         \/ ForgetEnds(d) \/ RenameRuns(d) \/ RenameEnds(d)
    \/ OnUnpairedOrPaired \/ ConfirmTrust \/ CloseDialog \/ ConfirmForget \/ SaveRename

-----------------------------------------------------------------------------
\* When nothing is on its way the list shows the devices and the trust that the
\* backend has: a failed command is rolled back, and every event, a removal's own
\* too, is followed by a reload.  Not promised once changes crossed (disturbed): a
\* reload and a trust command, or two reloads that read different records and were
\* applied in the other order.
RowsMatchRecords ==
    (/\ ~disturbed /\ unread = <<>> /\ answers = <<>> /\ rowNews = 0 /\ ~TrustBusy
     /\ \A d \in Devices : forgetCall[d] # "ok") => rows = records

\* A device comes to be accepted without asking, by being trusted or by pairing
\* again, only if the user confirmed its trust in the dialog and neither took it
\* away nor removed the device since.
AcceptedUnasked(r) == r.pairing = "active" /\ r.trusted
TrustIsConfirmed ==
    [][\A d \in Devices : AcceptedUnasked(records'[d]) /\ ~AcceptedUnasked(records[d])
                            => d \in confirmed]_deviceRowsVars

\* The remove button of a row is disabled only while its removal runs.
RemovingHasCall == \A d \in forgettingIds : forgetCall[d] # "none"
=============================================================================
