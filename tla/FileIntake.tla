----------------------------- MODULE FileIntake -----------------------------
(***************************************************************************)
(* How files come into the selection (useDragDrop, Dropzone, DragDrop, the *)
(* selection of useSender and sender-store; in the browser web-drag-drop,  *)
(* web-file-store and web-send-items; on Android the copies of             *)
(* nativeUtils, with the share sheet).  A path is a file or, when it is in *)
(* Folders, a directory; in the browser the File objects behind a path are *)
(* kept in a store, which the send reads.                                  *)
(***************************************************************************)
EXTENDS Naturals

CONSTANTS
    Paths, Folders,  \* what the user may pick; Folders are directories
    MaxDepth,        \* bound on nested dragenter events
    Jobs             \* "browse" or "share": where a copy comes from

ASSUME IntakeAssumption == Folders \subseteq Paths /\ MaxDepth \in Nat

VARIABLES
    platform,        \* "web", "desktop" or "android"
    picked,          \* selectedPaths, which has no duplicates; its order is layout
    kind,            \* pathType of the store, "none" when null
    checks,          \* paths whose check_path_type is pending
    mimeAsked,       \* the get_paths_mime_types that may still be applied
    mimeOf,          \* paths with an icon
    dragActive, dragDepth,
    reading,         \* drops whose directories are being read (web)
    files, inside,   \* filesByPath: the paths that are keys, the folders with keys below
    dirs,            \* directoryPaths
    hollow,          \* folders that held no file when they were last read
    job,             \* stage of a copy (android)
    returned,        \* the copy's start has returned its handler
    cancelRef,       \* the copy that Cancel stops
    copying,         \* isCopying
    intent           \* a share waits in the native plugin

selectVars == <<picked, kind, checks, mimeAsked, mimeOf>>
keptVars == <<files, inside, dirs, hollow>>
dragVars == <<dragActive, dragDepth, reading, keptVars>>
copyVars == <<job, returned, cancelRef, copying, intent>>
intakeVars == <<platform, selectVars, dragVars, copyVars>>

TypeOf(p) == IF p \in Folders THEN "directory" ELSE "file"

IntakeTypeOK ==
    /\ platform \in {"web", "desktop", "android"}
    /\ picked \subseteq Paths /\ kind \in {"none", "file", "directory"}
    /\ checks \subseteq Paths
    /\ mimeAsked \in SUBSET Paths /\ mimeOf \subseteq Paths
    /\ dragActive \in BOOLEAN /\ dragDepth \in 0..MaxDepth
    /\ reading \subseteq Paths /\ files \subseteq Paths /\ inside \subseteq Paths
    /\ dirs \subseteq Paths /\ hollow \subseteq Paths
    /\ job \in [Jobs -> {"none", "asked", "copying", "over"}]
    /\ returned \in [Jobs -> BOOLEAN]
    /\ cancelRef \in Jobs \cup {"none"} /\ copying \in BOOLEAN /\ intent \in BOOLEAN

IntakeInit ==
    /\ platform \in {"web", "desktop", "android"}
    /\ picked = {} /\ kind = "none" /\ checks = {} /\ mimeAsked = {} /\ mimeOf = {}
    /\ dragActive = FALSE /\ dragDepth = 0 /\ reading = {}
    /\ files = {} /\ inside = {} /\ dirs = {} /\ hollow = {}
    /\ job = [j \in Jobs |-> "none"] /\ returned = [j \in Jobs |-> FALSE]
    /\ cancelRef = "none" /\ copying = FALSE /\ intent = FALSE

-----------------------------------------------------------------------------
\* The effect of Dropzone on the selection: the last request is the one that is
\* applied, an empty selection has no icons.
AskMime(sel) ==
    /\ mimeAsked' = sel
    /\ mimeOf' = IF sel = {} THEN {} ELSE mimeOf

MimeAnswers ==
    /\ mimeAsked # {} /\ mimeOf' = mimeAsked /\ mimeAsked' = {}
    /\ UNCHANGED <<platform, picked, kind, checks, dragVars, copyVars>>

\* addSelectedPaths: joined with what is selected already.
AddSelectedPaths(p) == picked \cup {p}

One(sel) == \E p \in sel : sel = {p}

\* handleFilesSelect: the type is given, or asked for when one path is selected.
HandleFilesSelect(p, given) ==
    LET sel == AddSelectedPaths(p) IN
    /\ picked' = sel /\ AskMime(sel)
    /\ IF ~One(sel) THEN kind' = "none" /\ UNCHANGED checks
       ELSE IF given THEN kind' = TypeOf(p) /\ UNCHANGED checks
       ELSE /\ checks' = IF kind = "none" THEN checks \cup {p} ELSE checks
            /\ UNCHANGED kind

\* Mutant: the text of the error is stored as the type.
CheckErrorIsType(p, ok) ==
    /\ p \in checks /\ checks' = checks \ {p}
    /\ kind' = IF ok THEN TypeOf(p) ELSE "error"
    /\ UNCHANGED <<platform, picked, mimeAsked, mimeOf, dragVars, copyVars>>

CheckAnswers(p, ok) ==
    /\ p \in checks /\ checks' = checks \ {p}
    /\ kind' = IF ok THEN TypeOf(p) ELSE "none"
    /\ UNCHANGED <<platform, picked, mimeAsked, mimeOf, dragVars, copyVars>>

\* The clear button, and the remove button of a path.
ClearSelectedPath ==
    /\ picked # {} /\ picked' = {} /\ kind' = "none" /\ AskMime({})
    /\ UNCHANGED <<platform, checks, dragVars, copyVars>>

RemoveSelectedPath(p) ==
    /\ p \in picked /\ picked' = picked \ {p}
    /\ AskMime(picked')
    /\ IF One(picked') THEN checks' = checks \cup picked' /\ UNCHANGED kind
       ELSE kind' = "none" /\ UNCHANGED checks
    /\ UNCHANGED <<platform, dragVars, copyVars>>

-----------------------------------------------------------------------------
\* The browser's store of File objects.
RegisterWebFile(p) == files' = files \cup {p} /\ dirs' = dirs \ {p}

RegisterWebDirectory(p) == dirs' = dirs \cup {p} /\ files' = files \ {p}

\* The files below p, if there are any, are registered.
RegisterBelow(p, some) ==
    /\ inside' = IF some THEN inside \cup {p} ELSE inside
    /\ hollow' = IF some THEN hollow \ {p} ELSE hollow \cup {p}

\* pickPathsInBrowser and openDialog: files or a folder are chosen; a browser
\* gives the files of a folder, so an empty one is not chosen.
Browse(p) ==
    /\ platform # "android"
    /\ IF platform # "web" THEN UNCHANGED keptVars
       ELSE IF p \in Folders THEN RegisterWebDirectory(p) /\ RegisterBelow(p, TRUE)
       ELSE RegisterWebFile(p) /\ UNCHANGED <<inside, hollow>>
    /\ HandleFilesSelect(p, TRUE)
    /\ UNCHANGED <<platform, dragActive, dragDepth, reading, copyVars>>

\* Dragging: nested elements send enter and leave in pairs on the web, the window
\* sends hover, drop and leave on desktop.
DragEnter ==
    /\ \/ platform = "web" /\ dragDepth < MaxDepth /\ dragDepth' = dragDepth + 1
       \/ platform = "desktop" /\ UNCHANGED dragDepth
    /\ dragActive' = TRUE
    /\ UNCHANGED <<platform, selectVars, reading, keptVars, copyVars>>

DragLeave ==
    /\ dragActive
    /\ dragDepth' = IF dragDepth > 0 THEN dragDepth - 1 ELSE 0
    /\ dragActive' = (platform = "web" /\ dragDepth' > 0)
    /\ UNCHANGED <<platform, selectVars, reading, keptVars, copyVars>>

\* tauri://drag-drop.
DropDesktop(p) ==
    /\ platform = "desktop" /\ dragActive /\ dragActive' = FALSE
    /\ HandleFilesSelect(p, FALSE)
    /\ UNCHANGED <<platform, dragDepth, reading, keptVars, copyVars>>

\* Mutant: the folder is selected before its files are read.
DropWebSelectsFirst(p) ==
    /\ platform = "web" /\ dragActive /\ p \notin reading
    /\ dragActive' = FALSE /\ dragDepth' = 0
    /\ IF p \in Folders THEN RegisterWebDirectory(p) ELSE RegisterWebFile(p)
    /\ HandleFilesSelect(p, TRUE) /\ UNCHANGED reading
    /\ UNCHANGED <<platform, inside, hollow, copyVars>>

\* handleWebDrop up to the reading of a directory entry.
DropWeb(p) ==
    /\ platform = "web" /\ dragActive /\ p \notin reading
    /\ dragActive' = FALSE /\ dragDepth' = 0
    /\ IF p \in Folders
       THEN RegisterWebDirectory(p) /\ reading' = reading \cup {p} /\ UNCHANGED selectVars
       ELSE RegisterWebFile(p) /\ HandleFilesSelect(p, TRUE) /\ UNCHANGED reading
    /\ UNCHANGED <<platform, inside, hollow, copyVars>>

\* The files of a dropped folder are read and registered and it is selected, also
\* when there are none; or the reading fails with an alert.
DropWebReads(p, ok) ==
    /\ p \in reading /\ reading' = reading \ {p}
    /\ IF ok THEN HandleFilesSelect(p, TRUE) /\ \E some \in BOOLEAN : RegisterBelow(p, some)
       ELSE UNCHANGED <<inside, hollow, selectVars>>
    /\ UNCHANGED <<platform, dragActive, dragDepth, files, dirs, copyVars>>

-----------------------------------------------------------------------------
\* beginAndroidCacheCopy: the native plugin is asked (the picker opens, or the
\* share is taken), reports progress and ends through a channel, and returns a
\* handler; the end may come before the handler.
BeginAndroidCacheCopy(j) ==
    /\ platform = "android" /\ job[j] \in {"none", "over"} /\ ~copying
    /\ job' = [job EXCEPT ![j] = "asked"] /\ returned' = [returned EXCEPT ![j] = FALSE]
    /\ UNCHANGED <<platform, selectVars, dragVars, cancelRef, copying>>

BrowseAndroid ==
    BeginAndroidCacheCopy("browse") /\ UNCHANGED intent

\* Mutant: the poll never finds its flag cleared again.
ConsumeOnce ==
    /\ intent /\ cancelRef = "none" /\ intent' = FALSE
    /\ platform = "android" /\ job["share"] = "none"
    /\ job' = [job EXCEPT !["share"] = "asked"]
    /\ returned' = [returned EXCEPT !["share"] = FALSE]
    /\ UNCHANGED <<platform, selectVars, dragVars, cancelRef, copying>>

\* run: the share sheet, on its event and polled every second, one at a time
\* (pollInFlight) and not while a copy can be cancelled.
ConsumeAndroidShare ==
    /\ intent /\ cancelRef = "none" /\ intent' = FALSE
    /\ platform = "android"
    /\ job["share"] = "none" \/ (job["share"] = "over" /\ returned["share"])
    /\ job' = [job EXCEPT !["share"] = "asked"]
    /\ returned' = [returned EXCEPT !["share"] = FALSE]
    /\ UNCHANGED <<platform, selectVars, dragVars, cancelRef, copying>>

ShareArrives ==
    /\ platform = "android" /\ ~intent /\ intent' = TRUE
    /\ UNCHANGED <<platform, selectVars, dragVars, job, returned, cancelRef, copying>>

\* bindCopyChannel: the first message starts the dialog.
CopyStarts(j) ==
    /\ job[j] = "asked" /\ job' = [job EXCEPT ![j] = "copying"] /\ copying' = TRUE
    /\ UNCHANGED <<platform, selectVars, dragVars, returned, cancelRef, intent>>

\* The start returns: Cancel will stop this copy unless it is over already.
HandlerReturns(j) ==
    /\ job[j] # "none" /\ ~returned[j]
    /\ returned' = [returned EXCEPT ![j] = TRUE]
    /\ cancelRef' = IF job[j] # "over" THEN j ELSE cancelRef
    /\ UNCHANGED <<platform, selectVars, dragVars, job, copying, intent>>

\* The picker was dismissed, or there was no share: no handler.
PickerDismissed(j) ==
    /\ job[j] = "asked" /\ ~returned[j] /\ job' = [job EXCEPT ![j] = "none"]
    /\ UNCHANGED <<platform, selectVars, dragVars, returned, cancelRef, copying, intent>>

\* onComplete selects what was copied; onError shows an alert.
CopyEnds(j, p, ok) ==
    /\ job[j] \in {"asked", "copying"} /\ job' = [job EXCEPT ![j] = "over"]
    /\ copying' = FALSE /\ cancelRef' = "none"
    /\ IF ok THEN HandleFilesSelect(p, TRUE) ELSE UNCHANGED selectVars
    /\ UNCHANGED <<platform, dragVars, returned, intent>>

\* cancelCopy: a copy whose handler is known ends; the dialog closes anyway.
CancelCopy ==
    /\ copying /\ copying' = FALSE /\ cancelRef' = "none"
    /\ job' = IF cancelRef = "none" THEN job ELSE [job EXCEPT ![cancelRef] = "over"]
    /\ UNCHANGED <<platform, selectVars, dragVars, returned, intent>>

-----------------------------------------------------------------------------
IntakeNext ==
    \/ MimeAnswers \/ ClearSelectedPath \/ DragEnter \/ DragLeave
    \/ \E p \in Paths : \/ RemoveSelectedPath(p) \/ Browse(p) \/ DropDesktop(p) \/ DropWeb(p)
                        \/ \E ok \in BOOLEAN : CheckAnswers(p, ok) \/ DropWebReads(p, ok)
    \/ BrowseAndroid \/ ConsumeAndroidShare \/ ShareArrives \/ CancelCopy
    \/ \E j \in Jobs : \/ CopyStarts(j) \/ HandlerReturns(j) \/ PickerDismissed(j)
                       \/ \E p \in Paths, ok \in BOOLEAN : CopyEnds(j, p, ok)

IntakeSpec == IntakeInit /\ [][IntakeNext]_intakeVars

\* The plugin finishes the copies it started.  The page polls every second, so it
\* looks between any two copies: each begins with a choice in a picker.
IntakeFairness ==
    /\ SF_intakeVars(ConsumeAndroidShare)
    /\ WF_intakeVars(CopyStarts("share")) /\ WF_intakeVars(HandlerReturns("share"))
    /\ \A j \in Jobs : WF_intakeVars(\E p \in Paths, ok \in BOOLEAN : CopyEnds(j, p, ok))

-----------------------------------------------------------------------------
\* PROPERTIES

\* collectWebSendPayload finds what it reads for p: the file, or files below it.
Collectable(p) == p \in files \/ (p \in dirs /\ p \in inside)

\* What is selected in the browser can be sent, although folders are read while
\* the user goes on: collectWebSendPayload finds files behind every path, except a
\* dropped folder that held none when it was read, which is selected all the same
\* and makes the send fail with "has no files to share".
SelectionCanBeSent ==
    platform = "web" => \A p \in picked : Collectable(p) \/ p \in hollow

\* In the browser the zone is highlighted exactly while something is dragged over
\* it (webDragDepthRef).
HighlightFollowsDrag == platform = "web" => (dragActive <=> dragDepth > 0)

\* Cancel never refers to a copy that is over: the share sheet waits for that
\* reference to be cleared (run of useDragDrop).
CancelRefLive == cancelRef # "none" => job[cancelRef] \in {"asked", "copying"}

\* A share from the share sheet is taken in, whatever else is being copied.
SharesAreConsumed == intent ~> ~intent

\* The zone is usable whatever was dropped, dragged away or copied before: what it
\* shows as selected, as hovered and as cancellable is so (useDragDrop).
IntakeHolds == SelectionCanBeSent /\ HighlightFollowsDrag /\ CancelRefLive
=============================================================================
