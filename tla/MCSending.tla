----------------------------- MODULE MCSending ------------------------------
(***************************************************************************)
(* The sending side of the user interface for TLC: the session, the        *)
(* invites and the intake of files, side by side; scene names the one that *)
(* a behaviour exercises.                                                  *)
(***************************************************************************)
EXTENDS SenderUI, SendInvites, FileIntake

CONSTANTS p1, p2, f1, f2

VARIABLE scene

TwoPeers == {p1, p2}
OneNearby == {p2}
TwoPaths == {f1, f2}
OneFolder == {f2}
TwoJobs == {"browse", "share"}

Init ==
    /\ scene \in {"session", "invites", "intake"}
    /\ SenderInit /\ SendInvitesInit /\ IntakeInit
    /\ scene # "session" => ~hasty
    /\ scene # "intake" => platform = "desktop"

Next ==
    /\ UNCHANGED scene
    /\ \/ scene = "session" /\ SenderNext /\ UNCHANGED <<inviteVars, intakeVars>>
       \/ scene = "invites" /\ SendInvitesNext /\ UNCHANGED <<senderVars, intakeVars>>
       \/ scene = "intake" /\ IntakeNext /\ UNCHANGED <<senderVars, inviteVars>>

vars == <<scene, senderVars, inviteVars, intakeVars>>

Spec == Init /\ [][Next]_vars
FairSpec == Spec /\ SenderFairness /\ IntakeFairness

\* The types of the parts.
TypeOK == SenderTypeOK /\ InvitesSentTypeOK /\ IntakeTypeOK

\* Sending never gets stuck: the Share button comes back (startSharing) and a
\* share from the share sheet is taken in (the poll of useDragDrop).
SendingMovesOn == ShareButtonReturns /\ SharesAreConsumed
=============================================================================
