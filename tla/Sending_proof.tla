--------------------------- MODULE Sending_proof ----------------------------
(***************************************************************************)
(* Proofs about the sending side of the user interface: the invites sent   *)
(* (SendInvites), the session with the backend's share (SenderUI), the     *)
(* intake of files (FileIntake), and the three side by side (MCSending).   *)
(***************************************************************************)
EXTENDS MCSending, TLAPS

-----------------------------------------------------------------------------
\* SendInvites.

SendInv == InvitesSentTypeOK /\ SendingHasCall

\* Both invariants together are inductive: the answer that takes the last call
\* of a peer away also ends its "sending".
LEMMA SendInvariant == SendInvitesSpec => []SendInv
<1>1. SendInvitesInit => SendInv
  <2> SUFFICES ASSUME SendInvitesInit PROVE SendInv
    OBVIOUS
  <2>1. 0 \in 0..MaxFlights /\ 0 \in 0..MaxCounted
    BY SendInvitesAssumption
  <2>2. InvitesSentTypeOK
    BY <2>1 DEF SendInvitesInit, InvitesSentTypeOK
  <2>3. SendingHasCall
    BY DEF SendInvitesInit, SendingHasCall
  <2>4. QED
    BY <2>2, <2>3 DEF SendInv
<1>2. SendInv /\ [SendInvitesNext]_inviteVars => SendInv'
  <2> SUFFICES ASSUME SendInv, [SendInvitesNext]_inviteVars PROVE SendInv'
    OBVIOUS
  <2> USE SendInvitesAssumption DEF SendInv, InvitesSentTypeOK, SendingHasCall
  <2>1. ASSUME NEW p \in Peers, OnInvitePairedDevice(p)
        PROVE  SendInv'
    BY <2>1 DEF OnInvitePairedDevice, SetInviteStatus, IncrementPairedSendCount
  <2>2. ASSUME NEW p \in Peers, OnInviteNearbyDevice(p)
        PROVE  SendInv'
    BY <2>2 DEF OnInviteNearbyDevice, SetInviteStatus
  <2>3. ASSUME NEW p \in Peers, NEW delivered \in BOOLEAN, InviteAnswered(p, delivered)
        PROVE  SendInv'
    <3>1. fades' \in [Peers -> 0..MaxFlights]
      <4>1. CASE delivered
        BY <2>3, <4>1 DEF InviteAnswered, SetInviteStatus
      <4>2. CASE ~delivered
        <5>1. fades[p] < MaxFlights /\ fades' = [fades EXCEPT ![p] = @ + 1]
          BY <2>3, <4>2 DEF InviteAnswered, SetInviteStatus
        <5>2. fades[p] + 1 \in 0..MaxFlights
          BY <5>1
        <5>3. QED
          BY <5>1, <5>2
      <4>3. QED
        BY <4>1, <4>2
    <3>2. InvitesSentTypeOK'
      <4>1. code' \subseteq NearbyPeers /\ sheet' \in BOOLEAN
        BY <2>3 DEF InviteAnswered, SetInviteStatus
      <4>2. status' \in [Peers -> {"none", "sending", "sent", "failed"}]
        BY <2>3 DEF InviteAnswered, SetInviteStatus
      <4>3. flights' \in [Peers -> 0..MaxFlights]
        BY <2>3 DEF InviteAnswered, SetInviteStatus
      <4>4. QED
        BY <2>3, <3>1, <4>1, <4>2, <4>3 DEF InviteAnswered, SetInviteStatus
    <3>3. SendingHasCall'
      BY <2>3 DEF InviteAnswered, SetInviteStatus
    <3>4. QED
      BY <3>2, <3>3
  <2>4. ASSUME NEW p \in Peers, FailureFades(p)
        PROVE  SendInv'
    BY <2>4 DEF FailureFades, SetInviteStatus
  <2>5. ASSUME NEW p \in Peers, OnInviteResponse(p)
        PROVE  SendInv'
    BY <2>5 DEF OnInviteResponse, SetInviteStatus
  <2>6. ASSUME NEW p \in Peers, PresenceChanges(p)
        PROVE  SendInv'
    BY <2>6 DEF PresenceChanges
  <2>7. CASE TicketChanges
    BY <2>7 DEF TicketChanges
  <2>8. CASE SetSheet \/ DismissCode \/ NodeChanges
    BY <2>8 DEF SetSheet, DismissCode, NodeChanges
  <2>9. CASE ShareTicket \/ CopyMarkFades
    BY <2>9 DEF ShareTicket, CopyMarkFades
  <2>10. CASE UNCHANGED inviteVars
    BY <2>10 DEF inviteVars
  <2>11. QED
    BY <2>1, <2>2, <2>3, <2>4, <2>5, <2>6, <2>7, <2>8, <2>9, <2>10
       DEF SendInvitesNext
<1>3. QED
  BY <1>1, <1>2, PTL DEF SendInvitesSpec

\* A row that says "sending" has an invite under way that will answer, for any
\* list of paired and nearby devices and whatever happens to the share, the node
\* and the sheet in between: the one-in-flight rule of onInvitePairedDevice never
\* blocks the list on a call nobody is waiting for.
THEOREM SendingIsAnswered == SendInvitesSpec => []SendingHasCall
<1>1. SendInv => SendingHasCall
  BY DEF SendInv
<1>2. QED
  BY <1>1, SendInvariant, PTL

-----------------------------------------------------------------------------
\* SenderUI.

\* The records of a share and of an answer.
ShareRec == [id : Nat, stage : {"none", "starting", "live"}]
AnswerRec == [to : Commands, ok : BOOLEAN, id : Nat]

\* The record of an answer.
LEMMA NewAnswer ==
    ASSUME NEW to \in Commands, NEW ok \in BOOLEAN, NEW id \in Nat
    PROVE  [to |-> to, ok |-> ok, id |-> id] \in AnswerRec
BY DEF AnswerRec

\* The record of no share.
LEMMA NoShareType == NoShare \in ShareRec /\ NoShare.stage = "none"
BY DEF NoShare, ShareRec

\* The wires and the backend keep their types.
WiresOK ==
    /\ share \in ShareRec /\ shares \in Nat
    /\ calls \in Seq(Commands) /\ answers \in Seq(AnswerRec)

\* The commands, the answers and the share of the backend keep their types.
LEMMA WireTypes == SenderSpec => []WiresOK
<1> USE DEF WiresOK
<1>1. SenderInit => WiresOK
  BY NoShareType DEF SenderInit
<1>2. WiresOK /\ [SenderNext]_senderVars => WiresOK'
  <2>0. WiresOK /\ UNCHANGED senderVars => WiresOK'
    BY DEF senderVars, backVars, wireVars
  <2> SUFFICES ASSUME WiresOK, SenderNext PROVE WiresOK'
    BY <2>0
  <2>1. CASE SelectFiles \/ CloseAlert \/ SizeAnswers \/ RelistenFires \/ CompletionContinues
    BY <2>1 DEF SelectFiles, CloseAlert, SizeAnswers, RelistenFires, CompletionContinues,
                backVars, wireVars
  <2>2. CASE StartSharing
    BY <2>2 DEF StartSharing, Call, backVars, Commands
  <2>3. CASE OnSendAnswer
    BY <2>3 DEF OnSendAnswer, backVars
  <2>4. CASE StopClicked \/ AlertStop
    <3>1. PICK c \in Commands : calls' = Append(calls, c)
      BY <2>4 DEF StopClicked, AlertStop, StopSharing, Call, Commands
    <3>2. QED
      BY <2>4, <3>1 DEF StopClicked, AlertStop, backVars
  <2>5. CASE OnStopAnswer
    BY <2>5 DEF OnStopAnswer, backVars
  <2>6. CASE SendItems
    <3>1. shares + 1 \in Nat
      OBVIOUS
    <3>2. [to |-> "send", ok |-> FALSE, id |-> 0] \in AnswerRec
      BY NewAnswer DEF Commands
    <3>3. [id |-> shares + 1, stage |-> "starting"] \in ShareRec
      BY <3>1, Zenon DEF ShareRec
    <3>4. calls' \in Seq(Commands)
      BY <2>6 DEF SendItems
    <3>5. CASE share.stage = "none"
      BY <2>6, <3>1, <3>3, <3>4, <3>5 DEF SendItems
    <3>6. CASE share.stage # "none"
      <4>1. PICK a \in AnswerRec : answers' = Append(answers, a)
        BY <2>6, <3>2, <3>6, Zenon DEF SendItems, Answer
      <4>2. UNCHANGED <<share, shares>>
        BY <2>6, <3>6 DEF SendItems
      <4>3. QED
        BY <3>4, <4>1, <4>2
    <3>7. QED
      BY <3>5, <3>6
  <2>7. ASSUME NEW ok \in BOOLEAN, ShareStarts(ok)
        PROVE  WiresOK'
    <3>1. share.id \in Nat /\ [share EXCEPT !.stage = "live"] \in ShareRec
      BY DEF ShareRec
    <3>2. [to |-> "send", ok |-> ok, id |-> IF ok THEN share.id ELSE 0] \in AnswerRec
      BY <3>1, NewAnswer DEF Commands
    <3>3. QED
      BY <2>7, <3>1, <3>2, NoShareType DEF ShareStarts, Answer
  <2>8. CASE StopSharingCommand
    <3>1. Head(calls) \in Commands
      BY <2>8 DEF StopSharingCommand
    <3>2. [to |-> Head(calls), ok |-> TRUE, id |-> 0] \in AnswerRec
      BY <3>1, NewAnswer
    <3>3. QED
      BY <2>8, <3>2, NoShareType DEF StopSharingCommand, Answer
  <2>9. CASE \/ \E ok \in BOOLEAN : SetBroadcast(ok)
             \/ PullStarts \/ \E e \in {"completed", "failed"} : PullEnds(e)
    BY <2>9 DEF SetBroadcast, PullStarts, PullEnds, backVars, wireVars
  <2>10. CASE OnTransferStarted \/ OnTransferCompleted \/ OnTransferFailed
    BY <2>10 DEF OnTransferStarted, OnTransferCompleted, OnTransferFailed, backVars
  <2>11. QED
    BY <2>1, <2>2, <2>3, <2>4, <2>5, <2>6, <2>7, <2>8, <2>9, <2>10 DEF SenderNext
<1>3. QED
  BY <1>1, <1>2, PTL DEF SenderSpec

\* What an answer tells: a ticket, that there is none, or the stop it answers.
Kind(a) == IF a.to = "send" THEN (IF a.ok THEN "ticket" ELSE "refused") ELSE a.to

\* A command that waits for the backend, an answer that waits for the page.
Asked(c) == \E k \in DOMAIN calls : calls[k] = c
Answered(c) == \E k \in DOMAIN answers : Kind(answers[k]) = c

\* A share that is live has its ticket on the way to the page, with nothing but
\* refusals behind it, or the page has left the idle screen for it, or a stop is
\* on its way to the backend.
LiveIsKnown ==
    /\ share.stage = "none" => share = NoShare
    /\ share.stage = "live" =>
         \/ \E k \in DOMAIN answers :
              /\ Kind(answers[k]) = "ticket"
              /\ \A j \in DOMAIN answers : j > k => Kind(answers[j]) = "refused"
         \/ /\ \A j \in DOMAIN answers : Kind(answers[j]) = "refused"
            /\ view # "IDLE" \/ \E k \in DOMAIN calls : calls[k] # "send"

\* A share is on its way up and the page has no ticket for it yet.
Pending ==
    \/ share.stage = "starting"
    \/ share.stage = "none" /\ Asked("send")
    \/ Answered("ticket")

\* A stop that will take the ticket off the page.
Clearing == \E c \in {"reset", "tail"} : Asked(c) \/ Answered(c)

\* A user who waits for the end of one share before the next: sends come first,
\* one ticket at a time is on its way, and nothing of the last share is left.
Orderly ==
    /\ \A k \in DOMAIN calls : calls[k] = "send" => k = 1
    /\ share.stage = "starting" \/ (share.stage = "none" /\ Asked("send")) => ~Answered("ticket")
    /\ Pending => /\ news = <<>> /\ pulls = 0 /\ completing = <<>>
                  /\ view \in {"IDLE", "SHARING"}
                  /\ \A c \in {"tail", "ignore"} : ~Asked(c) /\ ~Answered(c)

\* A ticket, on the page or on its way to it, is of the live share, or a stop
\* that will clear it is under way.
TicketsAccounted ==
    /\ \A k \in DOMAIN answers : Kind(answers[k]) = "ticket" =>
         \/ share.stage = "live" /\ share.id = answers[k].id
         \/ \E j \in DOMAIN answers : j > k /\ Kind(answers[j]) = "reset"
    /\ tkt # 0 => (share.stage = "live" /\ share.id = tkt) \/ Clearing
    /\ Asked("ignore") => tkt = 0 \/ Clearing

Waiting == ~hasty => Orderly /\ TicketsAccounted

\* What the steps of the sender do to the ticket, the screen, the share and the
\* wires between them, one move for each thing that can happen there.
LaterSame == UNCHANGED <<news, pulls, completing>>

MoveStart ==
    /\ view = "IDLE" /\ calls' = Append(calls, "send")
    /\ hasty \/ (calls = <<>> /\ answers = <<>> /\ news = <<>> /\ pulls = 0 /\ completing = <<>>)
    /\ UNCHANGED <<view, tkt, share, answers>> /\ LaterSame

MoveTold ==
    /\ answers # <<>> /\ answers' = Tail(answers) /\ UNCHANGED <<share, calls>> /\ LaterSame
    /\ \/ /\ Kind(answers[1]) = "ticket" /\ tkt' = answers[1].id /\ view' = "SHARING"
       \/ /\ Kind(answers[1]) \in {"refused", "ignore"} /\ UNCHANGED <<view, tkt>>
       \/ /\ Kind(answers[1]) = "reset" /\ tkt' = 0 /\ view' = "IDLE"
       \/ /\ Kind(answers[1]) = "tail" /\ tkt' = 0 /\ UNCHANGED view

MoveStop(c) ==
    /\ calls' = Append(calls, c) /\ UNCHANGED <<share, answers>> /\ LaterSame
    /\ \/ c = "tail" /\ view = "TRANSPORTING" /\ view' = "SUCCESS" /\ UNCHANGED tkt
       \/ c = "ignore" /\ view = "SUCCESS" /\ view' = "IDLE" /\ tkt' = 0
       \/ c = "reset" /\ UNCHANGED <<view, tkt>>

MoveCommand ==
    /\ calls # <<>> /\ calls' = Tail(calls) /\ UNCHANGED <<view, tkt>> /\ LaterSame
    /\ \/ /\ calls[1] = "send" /\ share.stage = "none" /\ share'.stage = "starting"
          /\ UNCHANGED answers
       \/ /\ calls[1] = "send" /\ share.stage # "none" /\ UNCHANGED share
          /\ \E a \in AnswerRec : answers' = Append(answers, a) /\ Kind(a) = "refused"
       \/ /\ calls[1] # "send"
          /\ share' = IF share.stage = "live" THEN NoShare ELSE share
          /\ \E a \in AnswerRec : answers' = Append(answers, a) /\ Kind(a) = calls[1]

MoveUp ==
    /\ share.stage = "starting" /\ UNCHANGED <<view, tkt, calls>> /\ LaterSame
    /\ \E a \in AnswerRec :
         /\ answers' = Append(answers, a)
         /\ \/ /\ Kind(a) = "ticket" /\ a.id = share.id
               /\ share'.stage = "live" /\ share'.id = share.id
            \/ Kind(a) = "refused" /\ share' = NoShare

MoveTransfer ==
    /\ UNCHANGED <<tkt, share, calls, answers>>
    /\ \/ news # <<>> \/ pulls # 0 \/ completing # <<>>
       \/ /\ share.stage = "live" /\ \A k \in DOMAIN answers : Kind(answers[k]) # "ticket"
    /\ view' \in {view, "SHARING", "TRANSPORTING", "SUCCESS"}

MoveQuiet ==
    UNCHANGED <<tkt, share, calls, answers>> /\ LaterSame /\ view' \in {view, "SHARING"}

\* The kinds of the answers there are.
LEMMA Kinds ==
    /\ \A id \in Nat : /\ Kind([to |-> "send", ok |-> TRUE, id |-> id]) = "ticket"
                       /\ [to |-> "send", ok |-> TRUE, id |-> id].id = id
                       /\ Kind([to |-> "send", ok |-> FALSE, id |-> id]) = "refused"
    /\ \A c \in Commands \ {"send"} : Kind([to |-> c, ok |-> TRUE, id |-> 0]) = c
    /\ \A a \in AnswerRec : /\ a.to # "send" => Kind(a) = a.to
                            /\ a.to = "send" /\ a.ok => Kind(a) = "ticket"
                            /\ a.to = "send" /\ ~a.ok => Kind(a) = "refused"
                            /\ Kind(a) = "ticket" => a.to = "send"
BY DEF Kind, AnswerRec, Commands

\* Every step of the session is one of the moves above.
LEMMA Moves ==
    ASSUME share \in ShareRec, shares \in Nat, calls \in Seq(Commands),
           answers \in Seq(AnswerRec), [SenderNext]_senderVars
    PROVE  /\ \/ MoveStart \/ MoveTold \/ \E c \in Commands : MoveStop(c)
              \/ MoveCommand \/ MoveUp \/ MoveTransfer \/ MoveQuiet
           /\ UNCHANGED hasty
<1> USE DEF storeVars, wireVars, backVars, laterVars, LaterSame
<1>1. CASE SelectFiles \/ CloseAlert \/ SizeAnswers \/ RelistenFires
  BY <1>1 DEF SelectFiles, CloseAlert, SizeAnswers, RelistenFires, ResetForBroadcast,
              MoveQuiet
<1>2. CASE StartSharing
  BY <1>2 DEF StartSharing, ShareOffered, Call, MoveStart
<1>3. CASE OnSendAnswer
  <2>1. answers[1] \in AnswerRec /\ Head(answers) = answers[1]
    BY <1>3 DEF OnSendAnswer
  <2>2. CASE answers[1].ok
    BY <1>3, <2>1, <2>2, Kinds DEF OnSendAnswer, MoveTold
  <2>3. CASE ~answers[1].ok
    BY <1>3, <2>1, <2>3, Kinds DEF OnSendAnswer, MoveTold
  <2>4. QED
    BY <2>2, <2>3
<1>4. CASE StopClicked \/ AlertStop
  BY <1>4 DEF StopClicked, AlertStop, StopSharing, ResetToIdle, Call, MoveStop, Commands
<1>5. CASE OnStopAnswer
  <2>1. answers[1] \in AnswerRec /\ Head(answers) = answers[1]
    BY <1>5 DEF OnStopAnswer
  <2>2. Kind(answers[1]) = answers[1].to /\ answers[1].to \in {"reset", "tail", "ignore"}
    BY <1>5, <2>1, Kinds DEF OnStopAnswer, AnswerRec, Commands
  <2>3. QED
    BY <1>5, <2>1, <2>2 DEF OnStopAnswer, StopContinues, ResetToIdle, MoveTold
<1>6. CASE SendItems
  <2>1. CASE share.stage = "none"
    <3>1. share' = [id |-> shares + 1, stage |-> "starting"] /\ answers' = answers
      BY <1>6, <2>1 DEF SendItems
    <3>2. share'.stage = "starting"
      BY <3>1
    <3>3. QED
      BY <1>6, <2>1, <3>1, <3>2 DEF SendItems, MoveCommand
  <2>2. CASE share.stage # "none"
    <3>1. PICK a \in AnswerRec : answers' = Append(answers, a) /\ Kind(a) = "refused"
      BY <1>6, <2>2, Kinds, NewAnswer, Zenon DEF SendItems, Answer, Commands
    <3>2. QED
      BY <1>6, <2>2, <3>1 DEF SendItems, MoveCommand
  <2>3. QED
    BY <2>1, <2>2
<1>7. ASSUME NEW ok \in BOOLEAN, ShareStarts(ok)
      PROVE  MoveUp /\ UNCHANGED hasty
  <2>1. share.id \in Nat
    BY DEF ShareRec
  <2>2. CASE ok = TRUE
    <3>1. PICK a \in AnswerRec :
             answers' = Append(answers, a) /\ Kind(a) = "ticket" /\ a.id = share.id
      BY <1>7, <2>1, <2>2, Kinds, NewAnswer, Zenon DEF ShareStarts, Answer, Commands
    <3>2. share'.stage = "live" /\ share'.id = share.id
      BY <1>7, <2>2 DEF ShareStarts, ShareRec
    <3>3. QED
      BY <1>7, <3>1, <3>2 DEF ShareStarts, MoveUp
  <2>3. CASE ok = FALSE
    <3>1. PICK a \in AnswerRec : answers' = Append(answers, a) /\ Kind(a) = "refused"
      BY <1>7, <2>3, Kinds, NewAnswer, Zenon DEF ShareStarts, Answer, Commands
    <3>2. QED
      BY <1>7, <2>3, <3>1 DEF ShareStarts, MoveUp
  <2>4. QED
    BY <2>2, <2>3
<1>8. CASE StopSharingCommand
  <2>1. Head(calls) = calls[1] /\ calls[1] \in Commands \ {"send"}
    BY <1>8 DEF StopSharingCommand
  <2>2. PICK a \in AnswerRec : answers' = Append(answers, a) /\ Kind(a) = calls[1]
    BY <1>8, <2>1, Kinds, NewAnswer, Zenon DEF StopSharingCommand, Answer
  <2>3. QED
    BY <1>8, <2>1, <2>2 DEF StopSharingCommand, MoveCommand
<1>9. CASE PullStarts
  <2>1. \A k \in DOMAIN answers : Kind(answers[k]) # "ticket"
    BY <1>9, Kinds DEF PullStarts
  <2>2. QED
    BY <1>9, <2>1 DEF PullStarts, MoveTransfer
<1>10. ASSUME NEW e \in {"completed", "failed"}, PullEnds(e)
       PROVE  MoveTransfer /\ UNCHANGED hasty
  BY <1>10 DEF PullEnds, MoveTransfer
<1>11. CASE OnTransferStarted \/ OnTransferCompleted \/ CompletionContinues
  BY <1>11 DEF OnTransferStarted, OnTransferCompleted, CompletionContinues, MoveTransfer
<1>12. CASE OnTransferFailed
  BY <1>12 DEF OnTransferFailed, ResetForBroadcast, MoveTransfer
<1>13. ASSUME NEW on \in BOOLEAN, SetBroadcast(on)
       PROVE  MoveQuiet /\ UNCHANGED hasty
  BY <1>13 DEF SetBroadcast, MoveQuiet
<1>14. CASE UNCHANGED senderVars
  BY <1>14 DEF senderVars, MoveQuiet
<1>15. QED
  BY <1>1, <1>2, <1>3, <1>4, <1>5, <1>6, <1>7, <1>8, <1>9, <1>10, <1>11, <1>12,
     <1>13, <1>14 DEF SenderNext

\* The tail of a sequence is the rest, one position earlier.
LEMMA TailSeq ==
    ASSUME NEW S, NEW q \in Seq(S), q # <<>>
    PROVE  /\ Len(Tail(q)) = Len(q) - 1 /\ 1 \in DOMAIN q /\ DOMAIN q = 1..Len(q)
           /\ DOMAIN Tail(q) = 1..(Len(q) - 1) /\ Len(q) \in Nat
           /\ \A k \in DOMAIN Tail(q) : k + 1 \in DOMAIN q /\ Tail(q)[k] = q[k + 1]
           /\ \A k \in DOMAIN q : k # 1 => k - 1 \in DOMAIN Tail(q) /\ Tail(q)[k - 1] = q[k]
OBVIOUS

\* An element appended to a sequence is its last one.
LEMMA AppendSeq ==
    ASSUME NEW S, NEW q \in Seq(S), NEW a \in S
    PROVE  /\ Len(Append(q, a)) = Len(q) + 1 /\ DOMAIN q = 1..Len(q) /\ Len(q) \in Nat
           /\ DOMAIN Append(q, a) = 1..(Len(q) + 1)
           /\ Append(q, a)[Len(q) + 1] = a
           /\ \A k \in DOMAIN q : Append(q, a)[k] = q[k]
OBVIOUS

\* A live share stays known, whatever the user does.
LEMMA LiveIsKnownStep ==
    ASSUME share \in ShareRec, calls \in Seq(Commands), answers \in Seq(AnswerRec),
           LiveIsKnown,
           \/ MoveStart \/ MoveTold \/ \E c \in Commands : MoveStop(c)
           \/ MoveCommand \/ MoveUp \/ MoveTransfer \/ MoveQuiet
    PROVE  LiveIsKnown'
<1> USE NoShareType DEF LiveIsKnown, LaterSame
<1>1. CASE MoveStart
  BY <1>1 DEF MoveStart
<1>2. CASE MoveTold
  <2>1. answers # <<>> /\ answers' = Tail(answers) /\ UNCHANGED <<share, calls>>
    BY <1>2 DEF MoveTold
  <2>2. ASSUME NEW k \in DOMAIN answers, Kind(answers[k]) = "ticket",
               \A j \in DOMAIN answers : j > k => Kind(answers[j]) = "refused"
        PROVE  LiveIsKnown'
    <3>1. CASE k = 1
      <4>1. view' = "SHARING"
        BY <1>2, <2>2, <3>1 DEF MoveTold
      <4>2. \A j \in DOMAIN answers' : Kind(answers'[j]) = "refused"
        BY <2>1, <2>2, <3>1, TailSeq
      <4>3. QED
        BY <2>1, <4>1, <4>2
    <3>2. CASE k # 1
      <4>1. k - 1 \in DOMAIN answers' /\ Kind(answers'[k - 1]) = "ticket"
        BY <2>1, <2>2, <3>2, TailSeq
      <4>2. \A j \in DOMAIN answers' : j > k - 1 => Kind(answers'[j]) = "refused"
        BY <2>1, <2>2, <3>2, TailSeq
      <4>3. QED
        BY <2>1, <4>1, <4>2
    <3>3. QED
      BY <3>1, <3>2
  <2>3. ASSUME \A j \in DOMAIN answers : Kind(answers[j]) = "refused",
               view # "IDLE" \/ \E k \in DOMAIN calls : calls[k] # "send"
        PROVE  LiveIsKnown'
    <3>1. \A j \in DOMAIN answers' : Kind(answers'[j]) = "refused"
      BY <2>1, <2>3, TailSeq
    <3>2. Kind(answers[1]) = "refused"
      BY <2>1, <2>3, TailSeq
    <3>3. UNCHANGED view
      BY <1>2, <3>2 DEF MoveTold
    <3>4. QED
      BY <2>1, <2>3, <3>1, <3>3
  <2>4. CASE share.stage # "live"
    BY <2>1, <2>4
  <2>5. QED
    BY <2>2, <2>3, <2>4
<1>3. ASSUME NEW c \in Commands, MoveStop(c) PROVE LiveIsKnown'
  BY <1>3 DEF MoveStop
<1>4. CASE MoveCommand
  <2>1. calls # <<>> /\ calls' = Tail(calls)
    BY <1>4 DEF MoveCommand
  <2>2. CASE calls[1] = "send" /\ share.stage = "none"
    BY <1>4, <2>1, <2>2, TailSeq DEF MoveCommand
  <2>3. CASE calls[1] = "send" /\ share.stage # "none"
    <3>1. PICK a \in AnswerRec : answers' = Append(answers, a) /\ Kind(a) = "refused"
      BY <1>4, <2>3 DEF MoveCommand
    <3>2. UNCHANGED share
      BY <1>4, <2>3 DEF MoveCommand
    <3>3. CASE share.stage # "live"
      BY <3>2, <3>3
    <3>4. ASSUME NEW k \in DOMAIN answers, Kind(answers[k]) = "ticket",
                 \A j \in DOMAIN answers : j > k => Kind(answers[j]) = "refused"
          PROVE  LiveIsKnown'
      <4>1. k \in DOMAIN answers' /\ Kind(answers'[k]) = "ticket"
        BY <3>1, <3>4, AppendSeq
      <4>2. \A j \in DOMAIN answers' : j > k => Kind(answers'[j]) = "refused"
        BY <3>1, <3>4, AppendSeq
      <4>3. QED
        BY <3>2, <4>1, <4>2
    <3>5. ASSUME \A j \in DOMAIN answers : Kind(answers[j]) = "refused",
                 view # "IDLE" \/ \E k \in DOMAIN calls : calls[k] # "send"
          PROVE  LiveIsKnown'
      <4>1. \A j \in DOMAIN answers' : Kind(answers'[j]) = "refused"
        BY <3>1, <3>5, AppendSeq
      <4>2. (\E k \in DOMAIN calls : calls[k] # "send")
              => \E k \in DOMAIN calls' : calls'[k] # "send"
        <5>1. ASSUME NEW k \in DOMAIN calls, calls[k] # "send"
              PROVE  k - 1 \in DOMAIN calls' /\ calls'[k - 1] # "send"
          BY <2>1, <2>3, <5>1, TailSeq
        <5>2. QED
          BY <5>1
      <4>3. UNCHANGED view
        BY <1>4 DEF MoveCommand
      <4>4. QED
        BY <3>2, <3>5, <4>1, <4>2, <4>3
    <3>6. QED
      BY <3>3, <3>4, <3>5
  <2>4. CASE calls[1] # "send"
    <3>1. PICK a \in AnswerRec : answers' = Append(answers, a) /\ Kind(a) = calls[1]
      BY <1>4, <2>4 DEF MoveCommand
    <3>2. share' = IF share.stage = "live" THEN NoShare ELSE share
      BY <1>4, <2>4 DEF MoveCommand
    <3>3. QED
      BY <1>4, <2>1, <2>4, <3>1, <3>2, TailSeq, AppendSeq DEF MoveCommand
  <2>5. QED
    BY <2>2, <2>3, <2>4
<1>5. CASE MoveUp
  BY <1>5 DEF MoveUp
<1>6. CASE MoveTransfer \/ MoveQuiet
  BY <1>6 DEF MoveTransfer, MoveQuiet
<1>7. QED
  BY <1>1, <1>2, <1>3, <1>4, <1>5, <1>6

\* What is asked and what is answered, along the wires.
LEMMA CommandTaken ==
    ASSUME calls \in Seq(Commands), calls # <<>>, calls' = Tail(calls)
    PROVE  /\ calls[1] \in Commands /\ Asked(calls[1])
           /\ \A c : /\ Asked(c)' => Asked(c)
                     /\ Asked(c) /\ c # calls[1] => Asked(c)'
<1>1. calls[1] \in Commands /\ Asked(calls[1])
  BY TailSeq DEF Asked
<1>2. ASSUME NEW c, NEW k \in DOMAIN calls', calls'[k] = c
      PROVE  k + 1 \in DOMAIN calls /\ calls[k + 1] = c
  BY <1>2, TailSeq
<1>3. ASSUME NEW c, NEW k \in DOMAIN calls, calls[k] = c, c # calls[1]
      PROVE  k - 1 \in DOMAIN calls' /\ calls'[k - 1] = c
  BY <1>3, TailSeq
<1>4. QED
  BY <1>1, <1>2, <1>3 DEF Asked

\* An answer that is taken: the answers to other commands stay.
LEMMA AnswerTaken ==
    ASSUME answers \in Seq(AnswerRec), answers # <<>>, answers' = Tail(answers)
    PROVE  \A c : /\ Answered(c)' => Answered(c)
                  /\ Answered(c) /\ c # Kind(answers[1]) => Answered(c)'
<1>2. ASSUME NEW c, NEW k \in DOMAIN answers', Kind(answers'[k]) = c
      PROVE  k + 1 \in DOMAIN answers /\ Kind(answers[k + 1]) = c
  BY <1>2, TailSeq
<1>3. ASSUME NEW c, NEW k \in DOMAIN answers, Kind(answers[k]) = c, c # Kind(answers[1])
      PROVE  k - 1 \in DOMAIN answers' /\ Kind(answers'[k - 1]) = c
  BY <1>3, TailSeq
<1>4. QED
  BY <1>2, <1>3 DEF Answered

\* An answer that is given: it is the only new one.
LEMMA AnswerGiven ==
    ASSUME answers \in Seq(AnswerRec), NEW a \in AnswerRec, answers' = Append(answers, a)
    PROVE  \A c : Answered(c)' <=> (Answered(c) \/ c = Kind(a))
<1>1. ASSUME NEW c, NEW k \in DOMAIN answers', Kind(answers'[k]) = c
      PROVE  Answered(c) \/ c = Kind(a)
  BY <1>1, AppendSeq DEF Answered
<1>2. ASSUME NEW c, NEW k \in DOMAIN answers, Kind(answers[k]) = c
      PROVE  k \in DOMAIN answers' /\ Kind(answers'[k]) = c
  BY <1>2, AppendSeq
<1>3. Len(answers) + 1 \in DOMAIN answers' /\ Kind(answers'[Len(answers) + 1]) = Kind(a)
  BY AppendSeq
<1>4. QED
  BY <1>1, <1>2, <1>3 DEF Answered

\* A user who waits keeps the wires in order.
LEMMA OrderlyStep ==
    ASSUME share \in ShareRec, calls \in Seq(Commands), answers \in Seq(AnswerRec),
           ~hasty, LiveIsKnown, Orderly,
           \/ MoveStart \/ MoveTold \/ \E c \in Commands : MoveStop(c)
           \/ MoveCommand \/ MoveUp \/ MoveTransfer \/ MoveQuiet
    PROVE  Orderly'
<1> USE NoShareType
<1>4. CASE MoveCommand
  <2>1. calls # <<>> /\ calls' = Tail(calls)
    BY <1>4 DEF MoveCommand
  <2>2. CASE calls[1] = "send" /\ share.stage = "none"
    BY <1>4, <2>1, <2>2, TailSeq DEF MoveCommand, LiveIsKnown, Orderly, Pending, Asked,
       Answered, LaterSame
  <2>3. CASE calls[1] = "send" /\ share.stage # "none"
    <3>1. PICK a \in AnswerRec : answers' = Append(answers, a) /\ Kind(a) = "refused"
      BY <1>4, <2>3 DEF MoveCommand
    <3>2. UNCHANGED share
      BY <1>4, <2>3 DEF MoveCommand
    <3>3. QED
      BY <1>4, <2>1, <2>3, <3>1, <3>2, TailSeq, AppendSeq
         DEF MoveCommand, LiveIsKnown, Orderly, Pending, Asked, Answered, LaterSame
  <2>4. CASE calls[1] # "send"
    <3>1. PICK a \in AnswerRec : answers' = Append(answers, a) /\ Kind(a) = calls[1]
      BY <1>4, <2>4 DEF MoveCommand
    <3>2. share' = IF share.stage = "live" THEN NoShare ELSE share
      BY <1>4, <2>4 DEF MoveCommand
    <3>3. \A k \in DOMAIN calls' : calls'[k] # "send"
      BY <2>1, <2>4, TailSeq DEF Orderly
    <3>4. ~Asked("send")'
      BY <3>3 DEF Asked
    <3>5. Kind(a) # "ticket" /\ Kind(a) \in Commands
      BY <2>1, <3>1, CommandTaken DEF Commands
    <3>6. Pending' => Pending
      BY <2>1, <3>1, <3>2, <3>4, <3>5, AnswerGiven DEF Pending
    <3>7. ASSUME Pending', NEW c \in {"tail", "ignore"}
          PROVE  ~Asked(c)' /\ ~Answered(c)'
      <4>0. c \in Commands
        BY DEF Commands
      <4>1. ~Asked(c) /\ ~Answered(c)
        <5>1. Pending
          BY <3>6, <3>7
        <5>2. \A d \in {"tail", "ignore"} : ~Asked(d) /\ ~Answered(d)
          BY <5>1, Zenon DEF Orderly
        <5>3. QED
          BY <5>2, Zenon
      <4>2. ~Asked(c)' /\ c # calls[1]
        BY <2>1, <4>0, <4>1, CommandTaken, Zenon
      <4>3. QED
        BY <3>1, <4>1, <4>2, AnswerGiven
    <3>8. share'.stage = "starting" => ~Answered("ticket")'
      BY <3>1, <3>2, <3>5, AnswerGiven DEF Orderly
    <3>9. QED
      BY <1>4, <3>3, <3>4, <3>6, <3>7, <3>8 DEF MoveCommand, Orderly, LaterSame
  <2>5. QED
    BY <2>2, <2>3, <2>4
<1> USE DEF LiveIsKnown, Orderly, Pending, Asked, Answered, LaterSame
<1>1. CASE MoveStart
  BY <1>1 DEF MoveStart
<1>2. CASE MoveTold
  BY <1>2 DEF MoveTold
<1>3. ASSUME NEW c \in Commands, MoveStop(c) PROVE Orderly'
  BY <1>3 DEF MoveStop
<1>5. CASE MoveUp
  BY <1>5 DEF MoveUp
<1>6. CASE MoveTransfer \/ MoveQuiet
  BY <1>6 DEF MoveTransfer, MoveQuiet
<1>7. QED
  BY <1>1, <1>2, <1>3, <1>4, <1>5, <1>6

\* A stop that clears the ticket goes on doing so until its answer is read.
LEMMA ClearingLasts ==
    ASSUME calls \in Seq(Commands), calls # <<>>, calls' = Tail(calls),
           answers \in Seq(AnswerRec), Clearing,
           \/ answers' = answers /\ calls[1] = "send"
           \/ \E a \in AnswerRec : /\ answers' = Append(answers, a)
                                   /\ calls[1] # "send" => Kind(a) = calls[1]
    PROVE  Clearing'
<1>1. PICK c \in {"reset", "tail"} : Asked(c) \/ Answered(c)
  BY DEF Clearing
<1>2. c \in Commands /\ c # "send"
  BY DEF Commands
<1>3. Answered(c) => Answered(c)'
  BY AnswerGiven DEF Answered
<1>4. Asked(c) => Asked(c)' \/ Answered(c)'
  BY <1>2, CommandTaken, AnswerGiven
<1>5. QED
  BY <1>1, <1>3, <1>4 DEF Clearing

\* The tickets stay accounted for.
LEMMA TicketsAccountedStep ==
    ASSUME share \in ShareRec, calls \in Seq(Commands), answers \in Seq(AnswerRec),
           ~hasty, LiveIsKnown, Orderly, TicketsAccounted,
           \/ MoveStart \/ MoveTold \/ \E c \in Commands : MoveStop(c)
           \/ MoveCommand \/ MoveUp \/ MoveTransfer \/ MoveQuiet
    PROVE  TicketsAccounted'
<1> USE NoShareType
<1>1. CASE MoveTold
  <2>1. answers # <<>> /\ answers' = Tail(answers) /\ UNCHANGED <<share, calls>>
    BY <1>1 DEF MoveTold
  <2>2. ASSUME NEW k \in DOMAIN answers', Kind(answers'[k]) = "ticket"
        PROVE  \/ share'.stage = "live" /\ share'.id = answers'[k].id
               \/ \E j \in DOMAIN answers' : j > k /\ Kind(answers'[j]) = "reset"
    <3>1. k + 1 \in DOMAIN answers /\ answers'[k] = answers[k + 1] /\ k \in Nat
      BY <2>1, TailSeq
    <3>2. ASSUME NEW j \in DOMAIN answers, j > k + 1, Kind(answers[j]) = "reset"
          PROVE  j - 1 \in DOMAIN answers' /\ j - 1 > k /\ Kind(answers'[j - 1]) = "reset"
      BY <2>1, <3>1, <3>2, TailSeq
    <3>3. QED
      BY <2>1, <2>2, <3>1, <3>2 DEF TicketsAccounted
  <2>3. CASE Kind(answers[1]) = "ticket"
    <3>1. 1 \in DOMAIN answers /\ Answered("ticket")
      BY <2>1, <2>3, TailSeq DEF Answered
    <3>2. ~Asked("ignore")'
      BY <2>1, <3>1, Zenon DEF Orderly, Pending, Asked
    <3>3. tkt' = answers[1].id
      BY <1>1, <2>3 DEF MoveTold
    <3>4. \/ share.stage = "live" /\ share.id = answers[1].id
          \/ \E j \in DOMAIN answers : j > 1 /\ Kind(answers[j]) = "reset"
      BY <2>3, <3>1 DEF TicketsAccounted
    <3>5. (\E j \in DOMAIN answers : j > 1 /\ Kind(answers[j]) = "reset") => Answered("reset")
      BY DEF Answered
    <3>6. Answered("reset") => Answered("reset")'
      BY <2>1, <2>3, AnswerTaken
    <3>7. (share'.stage = "live" /\ share'.id = tkt') \/ Clearing'
      BY <2>1, <3>3, <3>4, <3>5, <3>6 DEF Clearing
    <3>8. QED
      BY <2>2, <3>2, <3>7 DEF TicketsAccounted
  <2>4. CASE Kind(answers[1]) \in {"refused", "ignore"}
    <3>1. UNCHANGED tkt
      BY <1>1, <2>4 DEF MoveTold
    <3>2. \A c \in {"reset", "tail"} : Answered(c) => Answered(c)'
      BY <2>1, <2>4, AnswerTaken
    <3>3. \A c : Asked(c)' <=> Asked(c)
      BY <2>1 DEF Asked
    <3>4. Clearing => Clearing'
      BY <3>2, <3>3 DEF Clearing
    <3>5. QED
      BY <2>1, <2>2, <3>1, <3>3, <3>4 DEF TicketsAccounted
  <2>5. CASE Kind(answers[1]) \in {"reset", "tail"}
    <3>1. tkt' = 0
      BY <1>1, <2>5 DEF MoveTold
    <3>2. QED
      BY <2>2, <3>1 DEF TicketsAccounted
  <2>6. QED
    BY <1>1, <2>3, <2>4, <2>5 DEF MoveTold
<1>2. CASE MoveCommand
  <2>1. calls # <<>> /\ calls' = Tail(calls) /\ UNCHANGED tkt
    BY <1>2 DEF MoveCommand
  <2>2. Asked("ignore")' => Asked("ignore")
    <3>1. "ignore" \in Commands
      BY DEF Commands
    <3>2. QED
      BY <2>1, <3>1, CommandTaken, Zenon
  <2>3. CASE calls[1] = "send" /\ share.stage = "none"
    <3>1. UNCHANGED answers
      BY <1>2, <2>3 DEF MoveCommand
    <3>2. Clearing => Clearing'
      BY <2>1, <2>3, <3>1, ClearingLasts
    <3>3. QED
      BY <2>1, <2>2, <2>3, <3>1, <3>2 DEF TicketsAccounted
  <2>4. CASE calls[1] = "send" /\ share.stage # "none"
    <3>1. PICK a \in AnswerRec : answers' = Append(answers, a) /\ Kind(a) = "refused"
      BY <1>2, <2>4 DEF MoveCommand
    <3>2. Clearing => Clearing'
      <4>1. \E b \in AnswerRec : /\ answers' = Append(answers, b)
                                 /\ calls[1] # "send" => Kind(b) = calls[1]
        BY <2>4, <3>1, Zenon
      <4>2. QED
        BY <2>1, <4>1, ClearingLasts, Zenon
    <3>3. UNCHANGED share
      BY <1>2, <2>4 DEF MoveCommand
    <3>4. ASSUME NEW k \in DOMAIN answers', Kind(answers'[k]) = "ticket"
          PROVE  \/ share'.stage = "live" /\ share'.id = answers'[k].id
                 \/ \E j \in DOMAIN answers' : j > k /\ Kind(answers'[j]) = "reset"
      <4>1. k \in DOMAIN answers /\ answers'[k] = answers[k] /\ Kind(answers[k]) = "ticket"
        BY <3>1, <3>4, AppendSeq
      <4>2. \A j \in DOMAIN answers : j \in DOMAIN answers' /\ answers'[j] = answers[j]
        BY <3>1, AppendSeq
      <4>3. QED
        BY <3>3, <4>1, <4>2 DEF TicketsAccounted
    <3>5. QED
      BY <2>1, <2>2, <3>2, <3>3, <3>4 DEF TicketsAccounted
  <2>5. CASE calls[1] # "send"
    <3>1. PICK a \in AnswerRec : answers' = Append(answers, a) /\ Kind(a) = calls[1]
      BY <1>2, <2>5 DEF MoveCommand
    <3>2. Clearing => Clearing'
      BY <2>1, <2>5, <3>1, ClearingLasts
    <3>3. calls[1] \in {"reset", "tail", "ignore"} /\ Asked(calls[1])
      <4>1. calls[1] \in Commands /\ Asked(calls[1])
        BY <2>1, CommandTaken, Zenon
      <4>2. QED
        BY <2>5, <4>1 DEF Commands
    <3>4. \A c \in {"reset", "tail"} : calls[1] = c => Answered(c)'
      BY <3>1, AnswerGiven
    <3>5. tkt' # 0 => Clearing'
      BY <2>1, <3>2, <3>3, <3>4 DEF TicketsAccounted, Clearing
    <3>6. ASSUME NEW k \in DOMAIN answers', Kind(answers'[k]) = "ticket"
          PROVE  \E j \in DOMAIN answers' : j > k /\ Kind(answers'[j]) = "reset"
      <4>1. k \in DOMAIN answers /\ Kind(answers[k]) = "ticket"
        BY <3>1, <3>3, <3>6, AppendSeq
      <4>2. Answered("ticket")
        BY <4>1 DEF Answered
      <4>3. ~Asked("tail") /\ ~Asked("ignore")
        BY <4>2, Zenon DEF Orderly, Pending
      <4>4. calls[1] = "reset"
        BY <3>3, <4>3
      <4>5. /\ Len(answers) + 1 \in DOMAIN answers' /\ Len(answers) + 1 > k
            /\ Kind(answers'[Len(answers) + 1]) = "reset"
        BY <3>1, <4>1, <4>4, AppendSeq
      <4>6. QED
        BY <4>5
    <3>7. QED
      BY <2>1, <2>2, <3>2, <3>5, <3>6 DEF TicketsAccounted
  <2>6. QED
    BY <2>3, <2>4, <2>5
<1> USE DEF LiveIsKnown, Orderly, TicketsAccounted, Clearing, Pending, Asked, Answered, LaterSame
<1>3. CASE MoveStart
  BY <1>3 DEF MoveStart
<1>4. ASSUME NEW c \in Commands, MoveStop(c) PROVE TicketsAccounted'
  BY <1>4 DEF MoveStop
<1>5. CASE MoveUp
  BY <1>5 DEF MoveUp
<1>6. CASE MoveTransfer \/ MoveQuiet
  BY <1>6 DEF MoveTransfer, MoveQuiet
<1>7. QED
  BY <1>1, <1>2, <1>3, <1>4, <1>5, <1>6

\* The whole of the invariant, over a step of the sender.
LEMMA SenderInvariant == SenderSpec => [](WiresOK /\ LiveIsKnown /\ Waiting)
<1>1. SenderInit => LiveIsKnown /\ Waiting
  BY DEF SenderInit, LiveIsKnown, Waiting, Orderly, TicketsAccounted, Pending, Clearing,
         Asked, Answered, NoShare
<1>2. ASSUME WiresOK, WiresOK', LiveIsKnown, Waiting, [SenderNext]_senderVars
      PROVE  LiveIsKnown' /\ Waiting'
  <2>1. share \in ShareRec /\ shares \in Nat /\ calls \in Seq(Commands) /\ answers \in Seq(AnswerRec)
    BY <1>2 DEF WiresOK
  <2>2. /\ \/ MoveStart \/ MoveTold \/ \E c \in Commands : MoveStop(c)
           \/ MoveCommand \/ MoveUp \/ MoveTransfer \/ MoveQuiet
        /\ UNCHANGED hasty
    BY <1>2, <2>1, Moves
  <2>3. LiveIsKnown'
    BY <1>2, <2>1, <2>2, LiveIsKnownStep
  <2>4. ASSUME ~hasty' PROVE Orderly' /\ TicketsAccounted'
    BY <1>2, <2>1, <2>2, <2>4, OrderlyStep, TicketsAccountedStep DEF Waiting
  <2>5. QED
    BY <2>3, <2>4 DEF Waiting
<1>3. QED
  BY <1>1, <1>2, WireTypes, PTL DEF SenderSpec

\* A page that has a ticket shows the share that runs, and a share that runs has
\* a page that can stop it: useSender with send_items and stop_sharing.
THEOREM PageIsOfShare == SenderSpec => []PageMatchesShare
<1>1. ASSUME WiresOK, LiveIsKnown, Waiting PROVE TicketIsLive
  <2>1. SUFFICES ASSUME tkt # 0, ~hasty
                 PROVE  (share.id = tkt /\ share.stage = "live") \/ Stopping
    BY DEF TicketIsLive
  <2>2. CASE share.stage = "live" /\ share.id = tkt
    BY <2>2
  <2>3. CASE Clearing
    <3>1. PICK c \in {"reset", "tail"} : Asked(c) \/ Answered(c)
      BY <2>3 DEF Clearing
    <3>2. CASE Asked(c)
      BY <3>2 DEF Asked, Stopping
    <3>3. CASE Answered(c)
      <4>1. PICK k \in DOMAIN answers : Kind(answers[k]) = c
        BY <3>3 DEF Answered
      <4>2. answers[k] \in AnswerRec
        BY <1>1, <4>1 DEF WiresOK
      <4>3. answers[k].to = c
        BY <4>1, <4>2 DEF Kind
      <4>4. QED
        BY <4>3 DEF Stopping
    <3>4. QED
      BY <3>1, <3>2, <3>3
  <2>4. QED
    BY <1>1, <2>1, <2>2, <2>3 DEF Waiting, TicketsAccounted
<1>2. ASSUME WiresOK, LiveIsKnown PROVE NoOrphanShare
  <2>1. SUFFICES ASSUME view = "IDLE", ~Starting, ~Stopping
                 PROVE  share = NoShare
    BY DEF NoOrphanShare
  <2>2. \A k \in DOMAIN answers : FALSE
    <3>1. ASSUME NEW k \in DOMAIN answers PROVE FALSE
      <4>1. answers[k] \in AnswerRec
        BY <1>2 DEF WiresOK
      <4>2. answers[k].to \in {"send", "reset", "tail", "ignore"}
        BY <4>1 DEF AnswerRec, Commands
      <4>3. QED
        BY <2>1, <4>2 DEF Starting, Stopping
    <3>2. QED
      BY <3>1
  <2>3. \A k \in DOMAIN calls : FALSE
    <3>1. ASSUME NEW k \in DOMAIN calls PROVE FALSE
      <4>1. calls[k] \in {"send", "reset", "tail", "ignore"}
        BY <1>2 DEF WiresOK, Commands
      <4>2. QED
        BY <2>1, <4>1 DEF Starting, Stopping
    <3>2. QED
      BY <3>1
  <2>4. share.stage # "starting"
    BY <2>1 DEF Starting
  <2>5. share.stage \in {"none", "starting", "live"}
    BY <1>2 DEF WiresOK, ShareRec
  <2>6. QED
    BY <1>2, <2>1, <2>2, <2>3, <2>4, <2>5 DEF LiveIsKnown
<1>3. QED
  BY <1>1, <1>2, SenderInvariant, PTL DEF PageMatchesShare

-----------------------------------------------------------------------------
\* FileIntake.

\* What CancelRefLive and SelectionCanBeSent rest on: the handler of a copy that
\* Cancel knows was returned, and only Android copies.
CopiesInOrder ==
    /\ cancelRef # "none" => returned[cancelRef] = TRUE
    /\ platform = "web" => \A j \in Jobs : job[j] = "none"

\* The drop zone, the selection and the copies keep their types.
LEMMA IntakeTypes == IntakeSpec => []IntakeTypeOK
<1> USE IntakeAssumption DEF IntakeTypeOK
<1>1. ASSUME IntakeInit PROVE IntakeTypeOK
  <2>1. dragDepth \in 0..MaxDepth
    BY <1>1 DEF IntakeInit
  <2>2. returned \in [Jobs -> BOOLEAN] /\ job \in [Jobs -> {"none", "asked", "copying", "over"}]
    BY <1>1, Zenon DEF IntakeInit
  <2>3. dragActive \in BOOLEAN /\ copying \in BOOLEAN /\ intent \in BOOLEAN
    BY <1>1, Zenon DEF IntakeInit
  <2>4. QED
    BY <1>1, <2>1, <2>2, <2>3 DEF IntakeInit
<1>2. IntakeTypeOK /\ [IntakeNext]_intakeVars => IntakeTypeOK'
  <2>0. IntakeTypeOK /\ UNCHANGED intakeVars => IntakeTypeOK'
    BY DEF intakeVars, selectVars, dragVars, keptVars, copyVars
  <2> SUFFICES ASSUME IntakeTypeOK, IntakeNext PROVE IntakeTypeOK'
    BY <2>0
  <2>1. ASSUME NEW p \in Paths, NEW given \in BOOLEAN, HandleFilesSelect(p, given)
        PROVE  /\ picked' \subseteq Paths /\ kind' \in {"none", "file", "directory"}
               /\ checks' \subseteq Paths /\ mimeAsked' \in SUBSET Paths /\ mimeOf' \subseteq Paths
    BY <2>1 DEF HandleFilesSelect, AddSelectedPaths, AskMime, TypeOf
  <2>2. CASE MimeAnswers \/ ClearSelectedPath
    BY <2>2 DEF MimeAnswers, ClearSelectedPath, AskMime, dragVars, keptVars, copyVars
  <2>3. CASE DragEnter \/ DragLeave
    <3>1. dragActive' \in BOOLEAN
      BY <2>3, Zenon DEF DragEnter, DragLeave
    <3>2. dragDepth' \in 0..MaxDepth
      BY <2>3 DEF DragEnter, DragLeave
    <3>3. QED
      BY <2>3, <3>1, <3>2 DEF DragEnter, DragLeave, selectVars, keptVars, copyVars
  <2>4. ASSUME NEW p \in Paths, RemoveSelectedPath(p) PROVE IntakeTypeOK'
    BY <2>4 DEF RemoveSelectedPath, AskMime, dragVars, keptVars, copyVars
  <2>5. ASSUME NEW p \in Paths, Browse(p) PROVE IntakeTypeOK'
    <3>1. files' \subseteq Paths /\ inside' \subseteq Paths /\ dirs' \subseteq Paths /\ hollow' \subseteq Paths
      BY <2>5 DEF Browse, RegisterWebDirectory, RegisterBelow, RegisterWebFile, keptVars
    <3>2. QED
      BY <2>1, <2>5, <3>1 DEF Browse, copyVars
  <2>6. ASSUME NEW p \in Paths, DropDesktop(p) PROVE IntakeTypeOK'
    BY <2>1, <2>6 DEF DropDesktop, keptVars, copyVars
  <2>7. ASSUME NEW p \in Paths, DropWeb(p) PROVE IntakeTypeOK'
    <3>1. dragActive' \in BOOLEAN /\ dragDepth' \in 0..MaxDepth
      <4>1. dragActive' = FALSE /\ dragDepth' = 0
        BY <2>7, Zenon DEF DropWeb
      <4>2. dragDepth' \in 0..MaxDepth
        BY <4>1
      <4>3. QED
        BY <4>1, <4>2, Zenon
    <3>2. CASE p \in Folders
      BY <2>7, <3>1, <3>2 DEF DropWeb, RegisterWebDirectory, selectVars, copyVars
    <3>3. CASE p \notin Folders
      <4>1. HandleFilesSelect(p, TRUE)
        BY <2>7, <3>3 DEF DropWeb
      <4>2. QED
        BY <2>1, <2>7, <3>1, <3>3, <4>1 DEF DropWeb, RegisterWebFile, copyVars
    <3>4. QED
      BY <3>2, <3>3
  <2>8. ASSUME NEW p \in Paths, NEW ok \in BOOLEAN, CheckAnswers(p, ok) PROVE IntakeTypeOK'
    BY <2>8 DEF CheckAnswers, TypeOf, dragVars, keptVars, copyVars
  <2>9. ASSUME NEW p \in Paths, NEW ok \in BOOLEAN, DropWebReads(p, ok) PROVE IntakeTypeOK'
    <3>1. inside' \subseteq Paths /\ hollow' \subseteq Paths
      BY <2>9 DEF DropWebReads, RegisterBelow
    <3>2. QED
      BY <2>1, <2>9, <3>1 DEF DropWebReads, selectVars, copyVars
  <2>10. CASE BrowseAndroid \/ ConsumeAndroidShare
    BY <2>10 DEF BrowseAndroid, BeginAndroidCacheCopy, ConsumeAndroidShare, selectVars, dragVars, keptVars
  <2>11. CASE ShareArrives
    BY <2>11 DEF ShareArrives, selectVars, dragVars, keptVars
  <2>12. CASE CancelCopy
    BY <2>12 DEF CancelCopy, selectVars, dragVars, keptVars
  <2>13. ASSUME NEW j \in Jobs, CopyStarts(j) \/ HandlerReturns(j) \/ PickerDismissed(j)
         PROVE  IntakeTypeOK'
    BY <2>13 DEF CopyStarts, HandlerReturns, PickerDismissed, selectVars, dragVars, keptVars
  <2>14. ASSUME NEW j \in Jobs, NEW p \in Paths, NEW ok \in BOOLEAN, CopyEnds(j, p, ok)
         PROVE  IntakeTypeOK'
    BY <2>1, <2>14 DEF CopyEnds, selectVars, dragVars, keptVars
  <2>15. QED
    BY <2>2, <2>3, <2>4, <2>5, <2>6, <2>7, <2>8, <2>9, <2>10, <2>11, <2>12, <2>13, <2>14
       DEF IntakeNext
<1>3. QED
  BY <1>1, <1>2, PTL DEF IntakeSpec

\* The browser's store: a folder is no key of its own, and what is being read or has
\* files below it is a registered folder (web-file-store).
StoreInOrder ==
    /\ files \cap Folders = {} /\ dirs \subseteq Folders
    /\ inside \subseteq dirs /\ reading \subseteq dirs

\* Registering files and folders keeps the store in order, whatever else happens.
LEMMA StoreKept == IntakeSpec => []StoreInOrder
<1> USE DEF StoreInOrder
<1>1. IntakeInit => StoreInOrder
  BY DEF IntakeInit
<1>2. StoreInOrder /\ [IntakeNext]_intakeVars => StoreInOrder'
  <2> SUFFICES ASSUME StoreInOrder, [IntakeNext]_intakeVars PROVE StoreInOrder'
    OBVIOUS
  <2>1. ASSUME UNCHANGED <<reading, keptVars>> PROVE StoreInOrder'
    BY <2>1 DEF keptVars
  <2>2. ASSUME NEW p \in Paths, Browse(p) PROVE StoreInOrder'
    BY <2>2 DEF Browse, RegisterWebDirectory, RegisterBelow, RegisterWebFile, keptVars
  <2>3. ASSUME NEW p \in Paths, DropWeb(p) PROVE StoreInOrder'
    BY <2>3 DEF DropWeb, RegisterWebDirectory, RegisterWebFile
  <2>4. ASSUME NEW p \in Paths, NEW ok \in BOOLEAN, DropWebReads(p, ok) PROVE StoreInOrder'
    <3>1. p \in reading /\ reading' = reading \ {p} /\ UNCHANGED <<files, dirs>>
      BY <2>4 DEF DropWebReads
    <3>2. inside' = inside \/ inside' = inside \cup {p}
      <4>1. CASE ok
        BY <2>4, <4>1 DEF DropWebReads, RegisterBelow
      <4>2. CASE ~ok
        BY <2>4, <4>2 DEF DropWebReads
      <4>3. QED
        BY <4>1, <4>2
    <3>3. QED
      BY <3>1, <3>2
  <2>5. ASSUME NEW p \in Paths, NEW ok \in BOOLEAN,
               RemoveSelectedPath(p) \/ DropDesktop(p) \/ CheckAnswers(p, ok)
        PROVE  StoreInOrder'
    BY <2>1, <2>5 DEF RemoveSelectedPath, DropDesktop, CheckAnswers, dragVars
  <2>6. CASE MimeAnswers \/ ClearSelectedPath \/ DragEnter \/ DragLeave
    BY <2>1, <2>6 DEF MimeAnswers, ClearSelectedPath, DragEnter, DragLeave, dragVars
  <2>7. CASE BrowseAndroid \/ ConsumeAndroidShare \/ ShareArrives \/ CancelCopy
    BY <2>1, <2>7 DEF BrowseAndroid, BeginAndroidCacheCopy, ConsumeAndroidShare, ShareArrives,
                      CancelCopy, dragVars
  <2>8. ASSUME NEW j \in Jobs, CopyStarts(j) \/ HandlerReturns(j) \/ PickerDismissed(j)
        PROVE  StoreInOrder'
    BY <2>1, <2>8 DEF CopyStarts, HandlerReturns, PickerDismissed, dragVars
  <2>9. ASSUME NEW j \in Jobs, NEW p \in Paths, NEW ok \in BOOLEAN, CopyEnds(j, p, ok)
        PROVE  StoreInOrder'
    BY <2>1, <2>9 DEF CopyEnds, dragVars
  <2>10. CASE UNCHANGED intakeVars
    BY <2>1, <2>10 DEF intakeVars, dragVars
  <2>11. QED
    BY <2>2, <2>3, <2>4, <2>5, <2>6, <2>7, <2>8, <2>9, <2>10 DEF IntakeNext
<1>3. QED
  BY <1>1, <1>2, PTL DEF IntakeSpec

\* What is selected in the browser can be sent unless it is a folder that was empty
\* when it was read, the highlight follows the drag and Cancel refers to a copy that
\* runs (useDragDrop, web-file-store, nativeUtils).
THEOREM ZoneIsUsable == IntakeSpec => []IntakeHolds
<1> DEFINE Inv == IntakeHolds /\ CopiesInOrder
<1> USE DEF IntakeHolds, SelectionCanBeSent, Collectable, HighlightFollowsDrag, CancelRefLive, CopiesInOrder
<1>1. IntakeInit => Inv
  BY DEF IntakeInit
<1>2. IntakeTypeOK /\ StoreInOrder /\ Inv /\ [IntakeNext]_intakeVars => Inv'
  <2>0. Inv /\ UNCHANGED intakeVars => Inv'
    BY DEF intakeVars, selectVars, dragVars, keptVars, copyVars
  <2> SUFFICES ASSUME IntakeTypeOK, StoreInOrder, Inv, IntakeNext PROVE Inv'
    BY <2>0
  <2> USE DEF IntakeTypeOK
  <2>1. ASSUME NEW p \in Paths, NEW given \in BOOLEAN, HandleFilesSelect(p, given)
        PROVE  picked' = picked \cup {p}
    BY <2>1 DEF HandleFilesSelect, AddSelectedPaths
  <2>2. CASE MimeAnswers \/ ClearSelectedPath
    BY <2>2 DEF MimeAnswers, ClearSelectedPath, AskMime, dragVars, keptVars, copyVars
  <2>3. CASE DragEnter
    BY <2>3 DEF DragEnter, selectVars, keptVars, copyVars
  <2>16. CASE DragLeave
    <3>1. HighlightFollowsDrag'
      <4>1. (dragActive' = TRUE) <=> (platform = "web" /\ dragDepth' > 0)
        BY <2>16 DEF DragLeave
      <4>2. UNCHANGED platform
        BY <2>16 DEF DragLeave
      <4>3. QED
        BY <4>1, <4>2
    <3>2. QED
      BY <2>16, <3>1 DEF DragLeave, selectVars, keptVars, copyVars
  <2>4. ASSUME NEW p \in Paths, RemoveSelectedPath(p) PROVE Inv'
    BY <2>4 DEF RemoveSelectedPath, AskMime, dragVars, keptVars, copyVars
  <2>5. ASSUME NEW p \in Paths, Browse(p) PROVE Inv'
    <3>1. picked' = picked \cup {p}
      BY <2>1, <2>5 DEF Browse
    <3>2. SelectionCanBeSent'
      BY <2>5, <3>1 DEF Browse, RegisterWebDirectory, RegisterBelow, RegisterWebFile, StoreInOrder
    <3>3. QED
      BY <2>5, <3>2 DEF Browse, copyVars
  <2>6. ASSUME NEW p \in Paths, DropDesktop(p) PROVE Inv'
    BY <2>1, <2>6 DEF DropDesktop, keptVars, copyVars
  <2>7. ASSUME NEW p \in Paths, DropWeb(p) PROVE Inv'
    <3>1. HighlightFollowsDrag'
      BY <2>7 DEF DropWeb
    <3>2. CASE p \in Folders
      BY <2>7, <3>1, <3>2 DEF DropWeb, RegisterWebDirectory, selectVars, copyVars, StoreInOrder
    <3>3. CASE p \notin Folders
      <4>1. HandleFilesSelect(p, TRUE)
        BY <2>7, <3>3 DEF DropWeb
      <4>2. picked' = picked \cup {p}
        BY <2>1, <4>1
      <4>3. QED
        BY <2>7, <3>1, <3>3, <4>2 DEF DropWeb, RegisterWebFile, copyVars, StoreInOrder
    <3>4. QED
      BY <3>2, <3>3
  <2>8. ASSUME NEW p \in Paths, NEW ok \in BOOLEAN, CheckAnswers(p, ok) PROVE Inv'
    BY <2>8 DEF CheckAnswers, TypeOf, dragVars, keptVars, copyVars
  <2>9. ASSUME NEW p \in Paths, NEW ok \in BOOLEAN, DropWebReads(p, ok) PROVE Inv'
    <3>1. SelectionCanBeSent'
      <4>1. CASE ok
        <5>1. picked' = picked \cup {p}
          BY <2>1, <2>9, <4>1 DEF DropWebReads
        <5>2. QED
          BY <2>9, <4>1, <5>1 DEF DropWebReads, RegisterBelow, StoreInOrder
      <4>2. CASE ~ok
        BY <2>9, <4>2 DEF DropWebReads, selectVars
      <4>3. QED
        BY <4>1, <4>2
    <3>2. QED
      BY <2>9, <3>1 DEF DropWebReads, copyVars
  <2>10. CASE BrowseAndroid \/ ConsumeAndroidShare
    BY <2>10 DEF BrowseAndroid, BeginAndroidCacheCopy, ConsumeAndroidShare, selectVars, dragVars, keptVars
  <2>11. CASE ShareArrives
    BY <2>11 DEF ShareArrives, selectVars, dragVars, keptVars
  <2>12. CASE CancelCopy
    BY <2>12 DEF CancelCopy, selectVars, dragVars, keptVars
  <2>13. ASSUME NEW j \in Jobs, CopyStarts(j) \/ HandlerReturns(j) \/ PickerDismissed(j)
         PROVE  Inv'
    BY <2>13 DEF CopyStarts, HandlerReturns, PickerDismissed, selectVars, dragVars, keptVars
  <2>14. ASSUME NEW j \in Jobs, NEW p \in Paths, NEW ok \in BOOLEAN, CopyEnds(j, p, ok)
         PROVE  Inv'
    BY <2>1, <2>14 DEF CopyEnds, selectVars, dragVars, keptVars
  <2>15. QED
    BY <2>2, <2>3, <2>4, <2>5, <2>6, <2>7, <2>8, <2>9, <2>10, <2>11, <2>12, <2>13, <2>14, <2>16
       DEF IntakeNext
<1>3. QED
  BY <1>1, <1>2, StoreKept, IntakeTypes, PTL DEF IntakeSpec

-----------------------------------------------------------------------------
\* The three together.

\* The page's own state keeps its types.
PageOK ==
    /\ view \in {"IDLE", "SHARING", "TRANSPORTING", "SUCCESS"} /\ tkt \in Nat
    /\ meta \in {"none", "done", "stopped"}
    /\ pulls \in 0..MaxPulls /\ relisten \in Nat
    /\ news \in Seq({"started", "completed", "failed"}) /\ completing \in Seq(BOOLEAN)

FlagsOK ==
    /\ sel \in BOOLEAN /\ loading \in BOOLEAN /\ bcast \in BOOLEAN /\ manual \in BOOLEAN
    /\ alert \in BOOLEAN /\ sizing \in BOOLEAN /\ hasty \in BOOLEAN

\* The flags of the page keep their types.
LEMMA FlagTypes == SenderSpec => []FlagsOK
<1> USE DEF FlagsOK
<1>1. SenderInit => FlagsOK
  BY Zenon DEF SenderInit
<1>2. FlagsOK /\ [SenderNext]_senderVars => FlagsOK'
  <2>0. FlagsOK /\ UNCHANGED senderVars => FlagsOK'
    BY DEF senderVars, storeVars, backVars, laterVars
  <2> SUFFICES ASSUME FlagsOK, SenderNext PROVE FlagsOK'
    BY <2>0
  <2> USE DEF storeVars, backVars, laterVars
  <2>1. CASE SelectFiles \/ CloseAlert \/ SizeAnswers
    BY <2>1, Zenon DEF SelectFiles, CloseAlert, SizeAnswers
  <2>2. CASE StartSharing \/ OnSendAnswer
    BY <2>2 DEF StartSharing, OnSendAnswer
  <2>3. CASE StopClicked \/ AlertStop
    BY <2>3 DEF StopClicked, AlertStop, StopSharing, ResetToIdle
  <2>4. CASE OnStopAnswer
    BY <2>4 DEF OnStopAnswer, StopContinues, ResetToIdle
  <2>5. CASE SendItems \/ StopSharingCommand \/ PullStarts
    BY <2>5 DEF SendItems, StopSharingCommand, PullStarts
  <2>6. ASSUME NEW ok \in BOOLEAN, ShareStarts(ok) \/ SetBroadcast(ok) PROVE FlagsOK'
    BY <2>6 DEF ShareStarts, SetBroadcast
  <2>7. ASSUME NEW e \in {"completed", "failed"}, PullEnds(e) PROVE FlagsOK'
    BY <2>7 DEF PullEnds
  <2>8. CASE OnTransferStarted \/ OnTransferCompleted \/ CompletionContinues \/ RelistenFires
    BY <2>8 DEF OnTransferStarted, OnTransferCompleted, CompletionContinues, RelistenFires,
                ResetForBroadcast
  <2>9. CASE OnTransferFailed
    BY <2>9 DEF OnTransferFailed, ResetForBroadcast
  <2>10. QED
    BY <2>1, <2>2, <2>3, <2>4, <2>5, <2>6, <2>7, <2>8, <2>9 DEF SenderNext
<1>3. QED
  BY <1>1, <1>2, PTL DEF SenderSpec

\* A sequence keeps its type when an element is appended.
LEMMA AppendTyped ==
    ASSUME NEW T, NEW s \in Seq(T), NEW t \in T PROVE Append(s, t) \in Seq(T)
OBVIOUS

\* A sequence keeps its type when its head is taken.
LEMMA TailTyped ==
    ASSUME NEW T, NEW s \in Seq(T), s # <<>> PROVE Tail(s) \in Seq(T)
OBVIOUS

\* The ticket and the counters of the page keep their types.
LEMMA PageTypes == SenderSpec => []PageOK
<1> USE SenderAssumption DEF PageOK
<1>1. SenderInit => PageOK
  BY DEF SenderInit
<1>2. WiresOK /\ FlagsOK /\ PageOK /\ [SenderNext]_senderVars => PageOK'
  <2>0. PageOK /\ UNCHANGED senderVars => PageOK'
    BY DEF senderVars, storeVars, backVars, wireVars, laterVars
  <2> SUFFICES ASSUME WiresOK, FlagsOK, PageOK, SenderNext PROVE PageOK'
    BY <2>0
  <2> USE DEF storeVars, backVars, wireVars, laterVars
  <2>1. CASE SelectFiles \/ CloseAlert \/ SizeAnswers \/ RelistenFires
    BY <2>1 DEF SelectFiles, CloseAlert, SizeAnswers, RelistenFires, ResetForBroadcast
  <2>2. CASE StartSharing
    BY <2>2 DEF StartSharing
  <2>3. CASE OnSendAnswer
    <3>1. Head(answers) \in AnswerRec
      BY <2>3 DEF OnSendAnswer, WiresOK
    <3>2. tkt' \in Nat
      BY <2>3, <3>1 DEF OnSendAnswer, AnswerRec
    <3>3. QED
      BY <2>3, <3>2 DEF OnSendAnswer
  <2>4. CASE StopClicked \/ AlertStop
    BY <2>4 DEF StopClicked, AlertStop, StopSharing, ResetToIdle
  <2>5. CASE OnStopAnswer
    BY <2>5 DEF OnStopAnswer, StopContinues, ResetToIdle
  <2>6. CASE SendItems \/ StopSharingCommand
    BY <2>6 DEF SendItems, StopSharingCommand
  <2>7. CASE PullStarts
    BY <2>7 DEF PullStarts, News
  <2>8. ASSUME NEW ok \in BOOLEAN, ShareStarts(ok) \/ SetBroadcast(ok) PROVE PageOK'
    BY <2>8 DEF ShareStarts, SetBroadcast
  <2>9. ASSUME NEW e \in {"completed", "failed"}, PullEnds(e) PROVE PageOK'
    BY <2>9 DEF PullEnds, News
  <2>10. CASE OnTransferStarted
    BY <2>10 DEF OnTransferStarted
  <2>11. CASE OnTransferCompleted
    <3>1. completing' \in Seq(BOOLEAN)
      <4>1. Append(completing, bcast) \in Seq(BOOLEAN)
        BY AppendTyped DEF FlagsOK
      <4>2. QED
        BY <2>11, <4>1, Zenon DEF OnTransferCompleted
    <3>2. QED
      BY <2>11, <3>1 DEF OnTransferCompleted
  <2>12. CASE CompletionContinues
    <3>1. completing' \in Seq(BOOLEAN)
      <4>1. completing # <<>> /\ completing' = Tail(completing)
        BY <2>12, Zenon DEF CompletionContinues
      <4>2. QED
        BY <4>1, TailTyped, Zenon
    <3>2. meta' = "done" /\ UNCHANGED <<tkt, pulls, news>>
      BY <2>12, Zenon DEF CompletionContinues
    <3>3. \/ relisten' = relisten + 1 /\ view' = view
          \/ view' = "SUCCESS" /\ relisten' = relisten
      BY <2>12, Zenon DEF CompletionContinues
    <3>4. QED
      BY <3>1, <3>2, <3>3
  <2>13. CASE OnTransferFailed
    BY <2>13 DEF OnTransferFailed, ResetForBroadcast
  <2>14. QED
    BY <2>1, <2>2, <2>3, <2>4, <2>5, <2>6, <2>7, <2>8, <2>9, <2>10, <2>11, <2>12, <2>13
       DEF SenderNext
<1>3. QED
  BY <1>1, <1>2, WireTypes, FlagTypes, PTL DEF SenderSpec

\* A behaviour of the page is one of each of its parts.
LEMMA SendingParts == Spec => SenderSpec /\ SendInvitesSpec /\ IntakeSpec
<1>1. Init => SenderInit /\ SendInvitesInit /\ IntakeInit
  BY DEF Init
<1>2. [Next]_vars => [SenderNext]_senderVars /\ [SendInvitesNext]_inviteVars /\ [IntakeNext]_intakeVars
  BY DEF Next, vars
<1>3. QED
  BY <1>1, <1>2, PTL DEF Spec, SenderSpec, SendInvitesSpec, IntakeSpec

\* Type correctness of the sending side: useSender and its store, the invites and
\* the intake of files.
THEOREM SendingTypes == Spec => []TypeOK
<1>1. WiresOK /\ FlagsOK /\ PageOK => SenderTypeOK
  BY DEF WiresOK, FlagsOK, PageOK, SenderTypeOK, ShareRec, AnswerRec
<1>2. SenderSpec => []SenderTypeOK
  BY <1>1, WireTypes, FlagTypes, PageTypes, PTL
<1>3. SendInvitesSpec => []InvitesSentTypeOK
  BY SendInvariant, PTL DEF SendInv
<1>4. QED
  BY <1>2, <1>3, SendingParts, IntakeTypes, PTL DEF TypeOK

=============================================================================
