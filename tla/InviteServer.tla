---------------------------- MODULE InviteServer ----------------------------
(***************************************************************************)
(* What unattended receiving promises: invites of trusted devices wait in  *)
(* a bounded line without duplicates and are served one at a time, in      *)
(* order, never while the receiver is occupied by something else.  An      *)
(* invite whose sender lost its trust while it waited leaves the line      *)
(* unserved.  While the receiver stays free the line moves.                *)
(***************************************************************************)
EXTENDS Naturals, Sequences, SequencesExt

CONSTANTS Invites, QueueLimit, None

VARIABLES
    waiting,    \* invites in line
    serving,    \* the invite being received, or None
    occupied    \* the receiver is taken

vars == <<waiting, serving, occupied>>

Init == waiting = <<>> /\ serving = None /\ occupied = FALSE

Arrive(i) ==
    /\ i \notin ToSet(waiting) /\ Len(waiting) < QueueLimit
    /\ waiting' = Append(waiting, i)
    /\ UNCHANGED <<serving, occupied>>

\* The head, or a later invite when those before it lost their trust.
Serve(k) ==
    /\ ~occupied /\ serving = None
    /\ serving' = waiting[k]
    /\ waiting' = SubSeq(waiting, k + 1, Len(waiting))
    /\ UNCHANGED occupied

\* Everyone in line lost their trust.
Discard ==
    /\ ~occupied /\ waiting # <<>>
    /\ waiting' = <<>>
    /\ serving' \in {None, serving}
    /\ UNCHANGED occupied

Finish == serving # None /\ serving' = None /\ UNCHANGED <<waiting, occupied>>

\* The end of one receive and the start of the next.
FinishAndServe(k) ==
    /\ ~occupied /\ serving # None
    /\ serving' = waiting[k]
    /\ waiting' = SubSeq(waiting, k + 1, Len(waiting))
    /\ UNCHANGED occupied

Occupy == occupied' = ~occupied /\ UNCHANGED <<waiting, serving>>

Next ==
    \/ \E i \in Invites : Arrive(i)
    \/ \E k \in DOMAIN waiting : Serve(k) \/ FinishAndServe(k)
    \/ Discard \/ Finish \/ Occupy

\* The line moves whenever the receiver stays free and nothing is served.
Advance == serving = None /\ (Discard \/ \E k \in DOMAIN waiting : Serve(k))

Spec == Init /\ [][Next]_vars /\ WF_vars(Advance)
=============================================================================
