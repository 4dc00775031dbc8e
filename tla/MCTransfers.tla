---------------------------- MODULE MCTransfers -----------------------------
(***************************************************************************)
(* The receiving side of the user interface for TLC.  The session, the     *)
(* form around it, the invites and the rules for text from elsewhere are   *)
(* checked side by side: each behaviour exercises the one named by scene.  *)
(***************************************************************************)
EXTENDS ReceiverUI, ReceiveForm, PairedInvites, TextRules, TLC

CONSTANTS r1, r2, i1, i2

VARIABLE scene

TwoReceives == {r1, r2}
TwoInvites == {i1, i2}

Init ==
    /\ scene \in {"session", "form", "invites", "links", "reveal", "notify"}
    /\ ReceiverInit /\ FormInit /\ InvitesInit /\ TextInit
    /\ scene # "session" => ~android
    /\ scene # "invites" => paired = {}

\* The text rules do not look at what was there: one call shows all they do.
Next ==
    /\ UNCHANGED scene
    /\ \/ scene = "session" /\ ReceiverNext /\ UNCHANGED <<formVars, invitesVars, textVars>>
       \/ scene = "form" /\ FormNext /\ UNCHANGED <<receiverVars, invitesVars, textVars>>
       \/ scene = "invites" /\ InvitesNext /\ UNCHANGED <<receiverVars, formVars, textVars>>
       \/ /\ \/ scene = "links" /\ pasted = <<>> /\ LinkNext
             \/ scene = "reveal" /\ files = <<>> /\ RevealNext
             \/ scene = "notify" /\ NotifyNext
          /\ UNCHANGED <<receiverVars, formVars, invitesVars>>

vars == <<scene, receiverVars, formVars, invitesVars, textVars>>

Spec == Init /\ [][Next]_vars
FairSpec == Spec /\ ReceiverFairness /\ InvitesFairness

\* The types of the parts.
TypeOK == ReceiverTypeOK /\ FormTypeOK /\ InvitesTypeOK /\ TextTypeOK
=============================================================================
