----------------------------- MODULE TextRules ------------------------------
(***************************************************************************)
(* What the user interface makes of text that comes from elsewhere: a      *)
(* pasted or opened receive link (lib/receive-link.ts), the names of the   *)
(* received files when the folder is opened (useReceiver), and the name a  *)
(* remote device gives itself (lib/invite-notification.ts).  Each action   *)
(* is one call on any bounded input, whose answer is kept.                 *)
(* A text is a sequence of words separated by blanks; a word is bare or a  *)
(* URL with a path and a ticket parameter.  A path is a sequence of        *)
(* segments, a device's name is its length.                                *)
(***************************************************************************)
EXTENDS Naturals, Sequences, FiniteSets, SequencesExt, FiniteSetsExt

CONSTANTS
    BareWords,        \* words, tickets among them
    MaxWords,         \* bound: words of a text
    Segments,         \* file and folder names
    MaxFiles,         \* bound: received names
    MaxPeerName,      \* MAX_PEER_NAME_LENGTH
    TitleWidth        \* characters of a title the system shows

\* The path of a word that is no link, and the ticket of a link without one.
NoText == ""

ASSUME TextAssumption ==
    /\ NoText \notin BareWords /\ MaxPeerName \in Nat \ {0}
    /\ TitleWidth \in Nat /\ TitleWidth > MaxPeerName
    /\ MaxWords \in Nat /\ MaxFiles \in Nat

VARIABLES
    pasted, field,    \* the text given, and the ticket field it leaves
    files, revealed,  \* fileNamesRef, and the path given to revealItemInDir
    banner            \* the last notification: its kind and the name in its title

textVars == <<pasted, field, files, revealed, banner>>

-----------------------------------------------------------------------------
(* Receive links. *)

Bare(w) == [path |-> NoText, ticket |-> w]
Url(p, t) == [path |-> p, ticket |-> t]
Words == {Bare(w) : w \in BareWords}
         \cup {Url(p, t) : p \in {"/receive", "/settings"}, t \in BareWords \cup {NoText}}
Texts == UNION {[1..n -> Words] : n \in 0..MaxWords}

BuildReceiveLink(t) == Url("/receive", t)
FormatReceiveShareMessage(intro, url) == Append(intro, url)

\* Mutant: a link to any page is a receive link.
AnyPageUrl(text) ==
    IF text = <<>> \/ Head(text).path = NoText THEN <<>>
    ELSE (IF Head(text).ticket = NoText THEN <<>> ELSE <<Bare(Head(text).ticket)>>) \o Tail(text)

\* <<>> is null.  The URL parser takes blanks into the query: what follows a
\* leading link becomes part of its ticket.
TicketFromReceiveUrl(text) ==
    IF text = <<>> \/ Head(text).path # "/receive" THEN <<>>
    ELSE (IF Head(text).ticket = NoText THEN <<>> ELSE <<Bare(Head(text).ticket)>>) \o Tail(text)

\* The whole text as one link, else the first link in it that has a ticket.
TicketFromReceiveLink(text) ==
    LET direct == TicketFromReceiveUrl(text)
        links == {k \in DOMAIN text : text[k].path # NoText
                                      /\ TicketFromReceiveUrl(<<text[k]>>) # <<>>}
    IN  IF direct # <<>> THEN direct
        ELSE IF links = {} THEN <<>> ELSE TicketFromReceiveUrl(<<text[Min(links)]>>)

\* handleTicketChange: a text without a link is taken as it stands.
FieldOf(text) ==
    LET fromLink == TicketFromReceiveLink(text)
    IN  IF fromLink = <<>> THEN text ELSE fromLink

PasteText(text) ==
    /\ pasted' = text /\ field' = FieldOf(text)
    /\ UNCHANGED <<files, revealed, banner>>

\* applyReceiveLink: the ticket goes through handleTicketChange again.
OpenLink(text) ==
    /\ TicketFromReceiveLink(text) # <<>>
    /\ pasted' = text /\ field' = FieldOf(TicketFromReceiveLink(text))
    /\ UNCHANGED <<files, revealed, banner>>

-----------------------------------------------------------------------------
(* The received names. *)

Base == <<"base">>
FilePaths == [abs : BOOLEAN, parts : UNION {[1..n -> Segments] : n \in 1..2}]
NameLists == UNION {[1..n -> FilePaths] : n \in 0..MaxFiles}

\* joinPath fails now and then; the save folder itself is revealed then.
JoinPath(parts) == {Base \o parts, Base}

\* Mutant: the folder of the last segment.
RevealLastSegment(ns) ==
    IF ns = <<>> THEN {Base}
    ELSE IF Len(ns) = 1
    THEN IF ns[1].abs THEN {ns[1].parts} ELSE JoinPath(ns[1].parts)
    ELSE IF ns[1].abs
    THEN {IF Len(ns[1].parts) > 1 THEN Front(ns[1].parts) ELSE ns[1].parts}
    ELSE JoinPath(<<Last(ns[1].parts)>>)

\* One name: the file.  Several: the folder of an absolute name, the first
\* segment of a relative one.
ResolveRevealPath(ns) ==
    IF ns = <<>> THEN {Base}
    ELSE IF Len(ns) = 1
    THEN IF ns[1].abs THEN {ns[1].parts} ELSE JoinPath(ns[1].parts)
    ELSE IF ns[1].abs
    THEN {IF Len(ns[1].parts) > 1 THEN Front(ns[1].parts) ELSE ns[1].parts}
    ELSE JoinPath(<<Head(ns[1].parts)>>)

CountTopLevelItems(ns) ==
    Cardinality({IF ns[k].abs THEN Last(ns[k].parts) ELSE Head(ns[k].parts) :
                 k \in DOMAIN ns})

RevealNames(ns) ==
    /\ files' = ns /\ revealed' \in ResolveRevealPath(ns)
    /\ UNCHANGED <<pasted, field, banner>>

-----------------------------------------------------------------------------
(* Notifications. *)

BannerKinds == {"pair-request", "invite-paired", "invite-nearby",
                "invite-auto-accepted", "invite-declined", "device-paired"}

\* Mutant: the ellipsis comes on top of the longest name.
ClipTooLate(n) == IF n > MaxPeerName THEN MaxPeerName + 1 ELSE n

\* The length in the title of a name of length n; 0 is a name the device did
\* not give, which is replaced by a short one.
ClipName(n) ==
    IF n = 0 THEN 1 ELSE IF n > MaxPeerName THEN (MaxPeerName - 1) + 1 ELSE n

\* An invite's title begins with the name; device-paired has it in the body.
\* The body of an invite gives the size when one is known.
BuildInviteNotification(kind, n, sized) ==
    [kind |-> kind,
     name |-> IF kind = "device-paired" THEN 0 ELSE ClipName(n),
     sized |-> sized /\ kind \in {"invite-paired", "invite-nearby", "invite-auto-accepted"}]

Notify(kind, n, sized) ==
    /\ banner' = BuildInviteNotification(kind, n, sized)
    /\ UNCHANGED <<pasted, field, files, revealed>>

-----------------------------------------------------------------------------
TextInit ==
    /\ pasted = <<>> /\ field = <<>> /\ files = <<>> /\ revealed = Base
    /\ banner = BuildInviteNotification("device-paired", 1, FALSE)

LinkNext == \E text \in Texts : PasteText(text) \/ OpenLink(text)
RevealNext == \E ns \in NameLists : RevealNames(ns)
NotifyNext ==
    \E kind \in BannerKinds, n \in 0..(MaxPeerName + 2), sized \in BOOLEAN :
        Notify(kind, n, sized)

\* The types; the path revealed is never empty.
TextTypeOK ==
    /\ {pasted, field} \subseteq Seq(Words) /\ Len(pasted) <= MaxWords
    /\ files \in Seq(FilePaths) /\ Len(files) <= MaxFiles
    /\ revealed \in Seq(Segments \cup {"base"}) \ {<<>>}
    /\ banner \in [kind : BannerKinds, name : Nat, sized : BOOLEAN]

(***************************************************************************)
(* A message that the share button makes (formatReceiveShareMessage), with *)
(* any words and links to other pages in its first line, is read back as   *)
(* exactly the ticket that was shared, pasted or opened as a link, and so  *)
(* is the bare ticket (ticketFromReceiveLink, handleTicketChange,          *)
(* applyReceiveLink, which reads the result a second time).                *)
(***************************************************************************)
SharedLinkReadsBack ==
    \A t \in BareWords :
        /\ pasted = <<Bare(t)>> => field = <<Bare(t)>>
        /\ /\ pasted # <<>> /\ Last(pasted) = BuildReceiveLink(t)
           /\ \A k \in 1..(Len(pasted) - 1) : pasted[k].path # "/receive"
           => field = <<Bare(t)>>

\* Where the file of a name was written.
Landed(p) == IF p.abs THEN p.parts ELSE Base \o p.parts

(***************************************************************************)
(* The path revealed after a receive leads to the first file, and to every *)
(* file when the names are relative and count as one item, whatever the    *)
(* nesting of the names and even if joinPath failed (resolveRevealPath,    *)
(* countTopLevelItems).                                                    *)
(***************************************************************************)
RevealReachesFiles ==
    files # <<>> =>
        /\ IsPrefix(revealed, Landed(files[1]))
        /\ (\A k \in DOMAIN files : ~files[k].abs) /\ CountTopLevelItems(files) = 1
           => \A k \in DOMAIN files : IsPrefix(revealed, Landed(files[k]))

(***************************************************************************)
(* However long the name a remote device chose, the word after it that     *)
(* tells a stranger's banner from a paired device's is within the part of  *)
(* the title the system shows (MAX_PEER_NAME_LENGTH in                     *)
(* invite-notification.ts).                                                *)
(***************************************************************************)
StrangersAreMarked == banner.kind = "invite-nearby" => banner.name + 1 <= TitleWidth

(***************************************************************************)
(* What the page makes of text from elsewhere is right, whatever the text: *)
(* the ticket read, the path revealed and the name in a banner (the three  *)
(* parts above).                                                           *)
(***************************************************************************)
TextIsReadRight == SharedLinkReadsBack /\ RevealReachesFiles /\ StrangersAreMarked
=============================================================================
