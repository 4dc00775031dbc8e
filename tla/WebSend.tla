------------------------------ MODULE WebSend -------------------------------
(***************************************************************************)
(* Sending in the browser: the store of File handles (web-file-store.ts),  *)
(* how pickers (platform-api.ts) and drops (web-drag-drop.ts) fill it, how *)
(* a selection becomes a payload (web-send-items.ts) with its description  *)
(* (web-send-metadata.ts), and the calls into the engine                   *)
(* (wasm-bridge-client.ts).  The payload is read with an await per file    *)
(* and described afterwards, while the page may register more files;       *)
(* nothing is ever removed from the store.                                 *)
(* A path is <<top>> or <<top, file>>; a file is its size.                 *)
(***************************************************************************)
EXTENDS Naturals, Sequences, FiniteSets, SequencesExt, FiniteSetsExt

CONSTANTS
    Tops,             \* names of files and folders the user selects
    InnerPaths,       \* <<top, file>>: the files that may be in folders
    MaxSize           \* bound: size of a file

ASSUME WebSendAssumption ==
    /\ MaxSize \in Nat \ {0} /\ IsFiniteSet(Tops) /\ IsFiniteSet(InnerPaths)
    /\ \A q \in InnerPaths : q = <<q[1], q[2]>> /\ q[1] \in Tops

TopPaths == {<<t>> : t \in Tops}
InnerOf(p) == {q \in InnerPaths : q[1] = p[1]}
FilePaths == TopPaths \cup InnerPaths

VARIABLES
    filesByPath,      \* size of each registered file, 0 if it is not one
    directoryPaths,   \* registered folders
    picks,            \* history: the files last chosen under each top path
    leftover,         \* history: folders that still hold files of an earlier choice
    selected,         \* the paths selected for sending
    drop,             \* the dropped folder whose entries are being read, or NoDrop
    send,             \* the call under way, and what it gathered
    touched,          \* history: the store changed since the call began
    currentTicket     \* a ticket is held

webSendVars == <<filesByPath, directoryPaths, picks, leftover, selected, drop,
                 send, touched, currentTicket>>

NoDrop == <<>>
NoSend == [stage |-> "idle", paths |-> <<>>, at |-> 1, names |-> {}, bytes |-> 0,
           type |-> "none", count |-> 0, size |-> 0]

WebSendInit ==
    /\ filesByPath = [p \in FilePaths |-> 0] /\ directoryPaths = {}
    /\ picks = [p \in TopPaths |-> {}] /\ leftover = {} /\ selected = <<>>
    /\ drop = NoDrop /\ send = NoSend /\ touched = FALSE /\ currentTicket = FALSE

-----------------------------------------------------------------------------
(* The store. *)

IsWebDirectory(p) == p \in directoryPaths
GetWebFile(p) == filesByPath[p]

\* Mutant: every registered file.
ListEveryFile(p) == {q \in FilePaths : filesByPath[q] > 0}

ListWebFilesUnderPath(p) == {q \in FilePaths : filesByPath[q] > 0 /\ IsPrefix(p, q)}

TotalSize(ps) == MapThenSumSet(LAMBDA q : filesByPath[q], ps)

\* The store changes under a send that is under way.
Touch == touched' = (send.stage # "idle")

\* The path replaces the selection or is added to it.
Select(p) == \/ selected' = <<p>>
             \/ Len(selected) = 1 /\ selected[1] # p /\ selected' = Append(selected, p)

\* The pickers are disabled during a send (isLoading), the drop zone is not; both
\* are gone from the screen while something is shared.
CanPick == send.stage = "idle"
CanDrop == send.stage # "shared"

\* A file, picked or dropped, replaces a folder of its name.
PickFile(p, s) ==
    /\ CanDrop
    /\ filesByPath' = [filesByPath EXCEPT ![p] = s]
    /\ directoryPaths' = directoryPaths \ {p}
    /\ picks' = [picks EXCEPT ![p] = {p}] /\ leftover' = leftover \ {p}
    /\ Select(p) /\ Touch
    /\ UNCHANGED <<drop, send, currentTicket>>

\* The files chosen under p are `within`; what else the store then holds there
\* is leftover.
Chosen(p, within) ==
    /\ picks' = [picks EXCEPT ![p] = within]
    /\ leftover' = IF ListWebFilesUnderPath(p)' \subseteq within
                   THEN leftover \ {p} ELSE leftover \cup {p}

\* The picker registers the files of the folder, then the folder; an empty
\* folder counts as no choice.
PickFolder(p, within, s) ==
    /\ CanPick /\ within # {}
    /\ filesByPath' = [q \in FilePaths |->
           IF q \in within THEN s ELSE IF q = p THEN 0 ELSE filesByPath[q]]
    /\ directoryPaths' = directoryPaths \cup {p}
    /\ Chosen(p, within) /\ Select(p) /\ Touch
    /\ UNCHANGED <<drop, send, currentTicket>>

\* A drop registers the folder at once; its files, if there are any, when its
\* entries have been read; the selection follows after that.
DropFolder(p) ==
    /\ CanDrop /\ drop = NoDrop /\ drop' = p
    /\ filesByPath' = [filesByPath EXCEPT ![p] = 0]
    /\ directoryPaths' = directoryPaths \cup {p}
    /\ leftover' = IF ListWebFilesUnderPath(p)' \subseteq picks[p]
                   THEN leftover ELSE leftover \cup {p}
    /\ Touch
    /\ UNCHANGED <<picks, selected, send, currentTicket>>

EntriesRead(p, within, s) ==
    /\ drop = p /\ drop' = NoDrop
    /\ filesByPath' = [q \in FilePaths |-> IF q \in within THEN s ELSE filesByPath[q]]
    /\ Chosen(p, within) /\ Select(p) /\ Touch
    /\ UNCHANGED <<directoryPaths, send, currentTicket>>

\* A drop whose entries cannot be read ends there: the folder stays registered.
EntriesUnreadable ==
    /\ drop # NoDrop /\ drop' = NoDrop
    /\ UNCHANGED <<filesByPath, directoryPaths, picks, leftover, selected, send, touched,
                   currentTicket>>

-----------------------------------------------------------------------------
(* A send. *)

InvokeSendItems ==
    /\ send.stage = "idle" /\ selected # <<>> /\ ~currentTicket
    /\ send' = [NoSend EXCEPT !.stage = "collect", !.paths = selected] /\ touched' = FALSE
    /\ UNCHANGED <<filesByPath, directoryPaths, picks, leftover, selected, drop, currentTicket>>

\* The files a selected path stands for: those of the folder, or the file.
WebEntries(p) ==
    IF IsWebDirectory(p) THEN ListWebFilesUnderPath(p)
    ELSE IF GetWebFile(p) > 0 THEN {p} ELSE {}

\* One turn of the loop of collectWebSendPayload: a folder without files and a
\* file that is gone throw, and so does a file that cannot be read.
CollectPath(readable) ==
    /\ send.stage = "collect" /\ send.at <= Len(send.paths)
    /\ LET entries == WebEntries(send.paths[send.at])
       IN send' = IF entries = {} \/ ~readable THEN NoSend
                  ELSE [send EXCEPT !.at = @ + 1, !.names = @ \cup entries,
                                    !.bytes = @ + TotalSize(entries)]
    /\ UNCHANGED <<filesByPath, directoryPaths, picks, leftover, selected, drop,
                   touched, currentTicket>>

WebSendEntryType(ps) ==
    IF Len(ps) > 1 THEN "collection"
    ELSE IF IsWebDirectory(ps[1]) THEN "directory" ELSE "file"

\* Mutant: the files of a folder are not counted.
TotalWithoutFolders(ps) ==
    TotalSize({ps[k] : k \in {j \in DOMAIN ps : ~IsWebDirectory(ps[j])}})

PathSize(p) == IF IsWebDirectory(p) THEN TotalSize(ListWebFilesUnderPath(p)) ELSE GetWebFile(p)

TotalSizeForPaths(ps) == MapThenSumSet(LAMBDA k : PathSize(ps[k]), DOMAIN ps)

\* buildPreviewItems: a folder is an item, a file that is gone is none.
PreviewItems(ps) == {k \in DOMAIN ps : IsWebDirectory(ps[k]) \/ GetWebFile(ps[k]) > 0}

\* buildWebSendMetadataForPaths, after the last await; a single file that is
\* gone throws.
DescribePayload ==
    /\ send.stage = "collect" /\ send.at > Len(send.paths)
    /\ send' = IF Len(send.paths) = 1 /\ PreviewItems(send.paths) = {} THEN NoSend
               ELSE [send EXCEPT !.stage = "engine", !.type = WebSendEntryType(send.paths),
                                 !.count = IF Len(send.paths) = 1 THEN 1
                                           ELSE Cardinality(PreviewItems(send.paths)),
                                 !.size = TotalSizeForPaths(send.paths)]
    /\ UNCHANGED <<filesByPath, directoryPaths, picks, leftover, selected, drop,
                   touched, currentTicket>>

\* wasmSendItems answers with a ticket, or throws.
WasmSendItems(ok) ==
    /\ send.stage = "engine"
    /\ send' = IF ok THEN [send EXCEPT !.stage = "shared"] ELSE NoSend
    /\ currentTicket' = (currentTicket \/ ok)
    /\ UNCHANGED <<filesByPath, directoryPaths, picks, leftover, selected, drop, touched>>

\* The page keeps its selection.  A stop while a send is under way changes
\* nothing: there is no share yet.
WasmStopSharing ==
    /\ send.stage = "shared" /\ send' = NoSend /\ currentTicket' = FALSE
    /\ UNCHANGED <<filesByPath, directoryPaths, picks, leftover, selected, drop, touched>>

WebSendNext ==
    \/ \E p \in TopPaths, s \in 1..MaxSize :
          \/ PickFile(p, s)
          \/ \E within \in SUBSET InnerOf(p) : PickFolder(p, within, s)
          \/ \E within \in SUBSET InnerOf(p) : EntriesRead(p, within, s)
    \/ \E p \in TopPaths : DropFolder(p)
    \/ EntriesUnreadable
    \/ InvokeSendItems \/ CollectPath(TRUE) \/ CollectPath(FALSE) \/ DescribePayload
    \/ WasmSendItems(TRUE) \/ WasmSendItems(FALSE) \/ WasmStopSharing

WebSendSpec == WebSendInit /\ [][WebSendNext]_webSendVars

-----------------------------------------------------------------------------
\* The types; a path is a file or a folder, never both.
WebSendTypeOK ==
    /\ filesByPath \in [FilePaths -> 0..MaxSize] /\ directoryPaths \subseteq TopPaths
    /\ \A p \in directoryPaths : filesByPath[p] = 0
    /\ picks \in [TopPaths -> SUBSET FilePaths] /\ leftover \subseteq TopPaths
    /\ selected \in Seq(TopPaths) /\ Len(selected) <= 2
    /\ drop \in TopPaths \cup {NoDrop}
    /\ send.stage \in {"idle", "collect", "engine", "shared"}
    /\ send.names \subseteq FilePaths
    /\ touched \in BOOLEAN /\ currentTicket \in BOOLEAN

\* What was gathered is with the engine, and the store did not change meanwhile.
Settled == send.stage \in {"engine", "shared"} /\ ~touched

(***************************************************************************)
(* The description a receiver sees before it accepts is that of the bytes  *)
(* it will get: the size is their sum, the count that of the selected      *)
(* items, although the two are computed apart, before and after the        *)
(* awaits.  A selection changed in between is the exception (touched).     *)
(***************************************************************************)
OfferMatchesPayload ==
    Settled => /\ send.size = send.bytes /\ send.count = Len(send.paths)
               /\ send.type = "directory" => Cardinality(send.names) > 0
               /\ send.type = "file" => send.names = {send.paths[1]}

(***************************************************************************)
(* A send shares the files the user chose, all of them and no others.      *)
(* The exception (leftover) is a folder chosen again, or another folder of *)
(* the same name, without a file it held before: nothing clears the store  *)
(* (clearWebFile and clearWebFiles have no caller), so that file is shared *)
(* with it.  A file chosen while a folder of its name is being dropped is  *)
(* mixed up with it the same way.                                          *)
(***************************************************************************)
SharesWhatWasPicked ==
    Settled /\ (\A k \in DOMAIN send.paths : send.paths[k] \notin leftover)
        => send.names = UNION {picks[send.paths[k]] : k \in DOMAIN send.paths}
=============================================================================
